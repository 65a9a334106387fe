----------------------------- MODULE TriageStore -----------------------------
(***************************************************************************)
(* The local triage store (triage/store.py) as its writers see it: one     *)
(* JSON document, replaced as a whole under an exclusive lock, that forms, *)
(* agents, operators and pipeline runs change concurrently by optimistic   *)
(* concurrency.                                                            *)
(*                                                                         *)
(* Every write is one action, because the lock encloses its read, its      *)
(* checks and its commit.  What interleaves is around it: a form is        *)
(* composed from a page long before it is delivered and may be delivered   *)
(* again after a lost answer; a pipeline run fetches, reads the store      *)
(* twice, computes, and only then tries to publish; an operator may put    *)
(* back an old copy of the whole store in between.                         *)
(*                                                                         *)
(* A refused write changes nothing and is a stuttering step.               *)
(***************************************************************************)
EXTENDS ReviewRules

CONSTANTS
    Keys,           \* idempotency keys
    Workers,        \* pipeline runs (CLI and server) over this store
    Ops,            \* operations the clients of this instance use
    Kinds,          \* dispositions the forms of this instance offer
    Decisions,      \* group decisions the forms of this instance offer
    Listings,       \* what a refresh may find on GitHub in this instance
    MaxVersion,     \* MAX_SAFE_INTEGER: the last version a commit may get
    MaxRetries,     \* how often a run recomputes after a stale version (3)
    MaxSent,        \* bound: requests ever composed
    MaxCopies,      \* bound: backups ever taken
    MaxFetch,       \* bound: cache snapshots ever published
    MaxGroup        \* bound: group numbers

ASSUME BoundsAssumption ==
    /\ MaxVersion \in Nat /\ MaxRetries \in Nat /\ MaxSent \in Nat
    /\ MaxCopies \in Nat /\ MaxFetch \in Nat /\ MaxGroup \in Nat
ASSUME OfferedAssumption ==
    /\ Kinds \subseteq DISPOSITIONS
    /\ Decisions \subseteq DECISIONS
    /\ Listings \subseteq [PRs -> Revs \cup {None}]

VARIABLES
    cache,          \* the active cache snapshot, [id, rows]
    runs,           \* the pipeline run of each worker
    version,        \* store_version
    snapshot,       \* snapshot_version
    rows,           \* last_prs: the revision bound to each open PR
    evidence,       \* cache_snapshot_id of those rows
    groupOf,        \* last_groups: the group number of each open PR, else 0
    issued,         \* the greatest number in reserved_group_ids
    dispositions,   \* per-PR dispositions
    rules,          \* trusted_rules
    proposals,      \* proposals
    events,         \* disposition_events, decision_events, proposal_events
    keys,           \* the three idempotency maps
    saved,          \* contents kept in backup files
    sent,           \* requests composed so far; each may be delivered again
    history         \* every event ever committed (auxiliary)

judgements == <<dispositions, rules, proposals, events, keys>>
placement == <<rows, evidence, groupOf, issued>>
outside == <<cache, runs>>
vars == <<cache, runs, version, snapshot, placement, judgements,
          saved, sent, history>>

------------------------------------------------------------------------------
(* Types *)

Groups == 1..MaxGroup

Rows == [PRs -> Revs \cup {None}]

Placing == [PRs -> 0..MaxGroup]

Families == {"disposition", "decision", "proposal"}

Snapshots == UNION {[S -> Revs \cup {None}] : S \in SUBSET PRs}

Request == [op : Ops, key : Keys, version : Nat, snapshot : Nat,
            group : Groups, items : SUBSET Item,
            decision : DECISIONS \cup {None}, proposal : Nat,
            seen : Snapshots]

Disposition == [pr : PRs, rev : Revs \cup {None}, kind : DISPOSITIONS,
                of : PRs \cup {None}, ofRev : Revs \cup {None}, event : Nat]

Proposal == [id : Nat, status : {"draft", "edited", "accepted", "rejected"},
             group : Groups, bound : Snapshots, items : SUBSET Item,
             event : Nat]

Rule == [group : Groups, decision : DECISIONS, bound : Snapshots,
         evidence : Nat, event : Nat]

Event == [id : Nat, family : Families, req : Request, bound : Snapshots,
          items : SUBSET Item]

Key == [family : Families, key : Keys, req : Request, event : Nat]

Run == [phase : {"idle", "ingested", "loaded", "planned"},
        id : Nat, rows : Rows, version : Nat, snapshot : Nat,
        groupOf : Placing, tries : Nat]

Content == [version : Nat, snapshot : Nat, rows : Rows, evidence : Nat,
            groupOf : Placing, issued : Nat,
            dispositions : SUBSET Disposition, rules : SUBSET Rule,
            proposals : SUBSET Proposal, events : SUBSET Event,
            keys : SUBSET Key]

TypeOK ==
    /\ cache \in [id : Nat, rows : Rows]
    /\ runs \in [Workers -> Run]
    /\ version \in Nat
    /\ snapshot \in Nat
    /\ rows \in Rows
    /\ evidence \in Nat
    /\ groupOf \in Placing
    /\ issued \in Nat
    /\ dispositions \subseteq Disposition
    /\ rules \subseteq Rule
    /\ proposals \subseteq Proposal
    /\ events \subseteq Event
    /\ keys \subseteq Key
    /\ saved \subseteq Content
    /\ sent \subseteq Request
    /\ history \subseteq Event

------------------------------------------------------------------------------
(* Views of the store *)

Members(g) == {p \in PRs : groupOf[p] = g}

\* The revision binding of a group, which its snapshot digest identifies.
Bound(g) == [p \in Members(g) |-> rows[p]]

\* Mutant: one complete member is enough.
SomeComplete(g) == \E p \in Members(g) : rows[p] \in CompleteRevs

Complete(g) == \A p \in Members(g) : rows[p] \in CompleteRevs

StoreContent == [version |-> version, snapshot |-> snapshot, rows |-> rows,
                 evidence |-> evidence, groupOf |-> groupOf, issued |-> issued,
                 dispositions |-> dispositions, rules |-> rules,
                 proposals |-> proposals, events |-> events, keys |-> keys]

PileOf(g) == Pile(g, Bound(g), evidence,
                  ActiveDispositions(dispositions, rows), rules)

------------------------------------------------------------------------------
(* Initial state: an empty store, an empty cache, runs not started *)

NoRun == [phase |-> "idle", id |-> 0, rows |-> [p \in PRs |-> None],
          version |-> 0, snapshot |-> 0, groupOf |-> [p \in PRs |-> 0],
          tries |-> 0]

Init ==
    /\ cache = [id |-> 0, rows |-> [p \in PRs |-> None]]
    /\ runs = [w \in Workers |-> NoRun]
    /\ version = 0
    /\ snapshot = 0
    /\ rows = [p \in PRs |-> None]
    /\ evidence = 0
    /\ groupOf = [p \in PRs |-> 0]
    /\ issued = 0
    /\ dispositions = {}
    /\ rules = {}
    /\ proposals = {}
    /\ events = {}
    /\ keys = {}
    /\ saved = {}
    /\ sent = {}
    /\ history = {}

------------------------------------------------------------------------------
(* Composing a request: the page shows the store as it is now, and the form *)
(* carries both versions of that page.                                      *)

Verdicts(members) ==
    [kind : Kinds \ {"duplicate"}, of : {None}]
        \cup [kind : Kinds \cap {"duplicate"}, of : members]

\* Over HTTP every item names the exact revisions of the page.
FormItems(members) ==
    {BindRevisions({[pr |-> p, rev |-> None, kind |-> choice[p].kind,
                     of |-> choice[p].of, ofRev |-> None] :
                       p \in {q \in members : choice[q].kind # None}}, rows) :
       choice \in [members -> Verdicts(members)
                              \cup [kind : {None}, of : {None}]]} \ {{}}

Form(op, g, k) ==
    [op |-> op, key |-> k, version |-> version, snapshot |-> snapshot,
     group |-> g, items |-> {}, decision |-> None, proposal |-> 0,
     seen |-> Bound(g)]

FormsOf(g, k) ==
    {[Form(op, g, k) EXCEPT !.items = items] :
        op \in Ops \cap {"dispose", "draft"}, items \in FormItems(Members(g))}
    \cup
    {[Form(op, g, k) EXCEPT !.decision = d] :
        op \in Ops \cap {"decide"}, d \in Decisions}

FormsOn(p, k) ==
    LET forms == {[Form(op, p.group, k) EXCEPT !.proposal = p.id] : op \in Ops}
    IN  {f \in forms : f.op \in {"accept", "reject"}}
        \cup
        {[f EXCEPT !.items = items] :
            f \in {x \in forms : x.op \in {"accept", "edit"}},
            items \in FormItems(Members(p.group))}

Compose ==
    /\ Cardinality(sent) < MaxSent
    /\ \E k \in Keys :
          \/ \E g \in {groupOf[p] : p \in PRs} \ {0} :
                \E r \in FormsOf(g, k) : sent' = sent \cup {r}
          \/ \E p \in proposals :
                \E r \in FormsOn(p, k) : sent' = sent \cup {r}
    /\ UNCHANGED <<outside, version, snapshot, placement, judgements, saved,
                   history>>

------------------------------------------------------------------------------
(* The steps every writer takes under the exclusive lock *)

\* Mutant: only an equal request is found under the key.
NotReplayed(family, req) ==
    ~ \E k \in keys : k.family = family /\ k.req = req

\* No record under this key: neither a replay nor a reuse of the key.
Unused(family, req) ==
    ~ \E k \in keys : k.family = family /\ k.key = req.key

\* Mutants: only the snapshot is compared; nothing is compared.
SnapshotMatches(req) == req.snapshot = snapshot
AnyVersion(req) == TRUE

VersionsMatch(req) == req.snapshot = snapshot /\ req.version = version

\* Mutant: a commit forgets to advance the version.
SameVersion == version

NextVersion == version + 1

\* The commit validates the whole document, every disposition row included,
\* and needs a version below MAX_SAFE_INTEGER.
Commit(ds) ==
    /\ version < MaxVersion
    /\ Acyclic(ds)
    /\ dispositions' = ds
    /\ version' = NextVersion

EventOf(family, req, g, items) ==
    [id |-> NextVersion, family |-> family, req |-> req,
     bound |-> Bound(g), items |-> items]

Record(family, req, new) ==
    /\ events' = events \cup new
    /\ history' = history \cup new
    /\ keys' = keys \cup {[family |-> family, key |-> req.key, req |-> req,
                           event |-> NextVersion]}

\* Mutants: the rows carry no event; the rows lose the revisions.
WithoutEvent(items) == items
WithoutRevision(items) ==
    {[pr |-> i.pr, rev |-> None, kind |-> i.kind, of |-> i.of,
      ofRev |-> None, event |-> NextVersion] : i \in items}

Finalize(items) ==
    {[pr |-> i.pr, rev |-> i.rev, kind |-> i.kind, of |-> i.of,
      ofRev |-> i.ofRev, event |-> NextVersion] : i \in items}

\* Items may be saved when they close no cycle with the group's current rows.
Applicable(items, g) ==
    Acyclic(Replace(ExistingCurrent(dispositions, rows, Members(g)), items))

------------------------------------------------------------------------------
(* save_dispositions *)

SaveDispositions(req) ==
    LET bound == BindRevisions(req.items, rows)
    IN  /\ req.op = "dispose"
        /\ Unused("disposition", req)
        /\ VersionsMatch(req)
        /\ Members(req.group) # {}
        /\ WellFormed(req.items, rows, Members(req.group), TRUE)
        /\ Applicable(bound, req.group)
        /\ Commit(Replace(dispositions, Finalize(bound)))
        /\ Record("disposition", req,
                  {EventOf("disposition", req, req.group, bound)})
        /\ UNCHANGED <<outside, snapshot, placement, rules, proposals, saved,
                       sent>>

------------------------------------------------------------------------------
(* decide_group: the form carries no snapshot version *)

DecideGroup(req) ==
    /\ req.op = "decide"
    /\ req.decision \in DECISIONS
    /\ Unused("decision", req)
    /\ req.version = version
    /\ Members(req.group) # {}
    /\ req.decision = "approve" => Complete(req.group)
    /\ rules' = {r \in rules : r.group # req.group} \cup
                    {[group |-> req.group, decision |-> req.decision,
                      bound |-> Bound(req.group), evidence |-> evidence,
                      event |-> NextVersion]}
    /\ Commit(dispositions)
    /\ Record("decision", req, {EventOf("decision", req, req.group, {})})
    /\ UNCHANGED <<outside, snapshot, placement, proposals, saved, sent>>

------------------------------------------------------------------------------
(* draft_proposal, by an agent; then edit, accept or reject, by a human *)

DraftProposal(req) ==
    LET bound == BindRevisions(req.items, rows)
    IN  /\ req.op = "draft"
        /\ Unused("proposal", req)
        /\ VersionsMatch(req)
        /\ Members(req.group) # {}
        /\ WellFormed(req.items, rows, Members(req.group), FALSE)
        /\ Acyclic(bound)
        /\ proposals' = proposals \cup
              {[id |-> NextVersion, status |-> "draft", group |-> req.group,
                bound |-> Bound(req.group), items |-> bound, event |-> 0]}
        /\ Commit(dispositions)
        /\ Record("proposal", req,
                  {EventOf("proposal", req, req.group, bound)})
        /\ UNCHANGED <<outside, snapshot, placement, rules, saved, sent>>

\* Mutant: the group may have changed since the draft.
ActionableLater(p, req) ==
    /\ p.id = req.proposal
    /\ p.status \in {"draft", "edited"}
    /\ Unused("proposal", req)
    /\ VersionsMatch(req)
    /\ Members(p.group) # {}

\* What the three transitions check before they look at the items.
Actionable(p, req) ==
    /\ p.id = req.proposal
    /\ p.status \in {"draft", "edited"}
    /\ Unused("proposal", req)
    /\ VersionsMatch(req)
    /\ Members(p.group) # {}
    /\ p.bound = Bound(p.group)

\* An accept may send its own items; without them the drafted ones count.
ItemsOf(p, req) == IF req.items = {} THEN p.items ELSE req.items

SetProposal(p, status, items, event) ==
    proposals' = (proposals \ {p}) \cup
        {[p EXCEPT !.status = status, !.items = items, !.event = event]}

AcceptProposal(p, req) ==
    LET bound == BindRevisions(ItemsOf(p, req), rows)
    IN  /\ req.op = "accept"
        /\ Actionable(p, req)
        /\ WellFormed(ItemsOf(p, req), rows, Members(p.group), TRUE)
        /\ Applicable(bound, p.group)
        /\ SetProposal(p, "accepted", bound, NextVersion)
        /\ Commit(Replace(dispositions, Finalize(bound)))
        /\ Record("proposal", req,
                  {EventOf("disposition", req, p.group, bound),
                   EventOf("proposal", req, p.group, bound)})
        /\ UNCHANGED <<outside, snapshot, placement, rules, saved, sent>>

EditProposal(p, req) ==
    LET bound == BindRevisions(req.items, rows)
    IN  /\ req.op = "edit"
        /\ Actionable(p, req)
        /\ WellFormed(req.items, rows, Members(p.group), FALSE)
        /\ Acyclic(bound)
        /\ SetProposal(p, "edited", bound, p.event)
        /\ Commit(dispositions)
        /\ Record("proposal", req, {EventOf("proposal", req, p.group, bound)})
        /\ UNCHANGED <<outside, snapshot, placement, rules, saved, sent>>

RejectProposal(p, req) ==
    /\ req.op = "reject"
    /\ Actionable(p, req)
    /\ SetProposal(p, "rejected", p.items, p.event)
    /\ Commit(dispositions)
    /\ Record("proposal", req, {EventOf("proposal", req, p.group, {})})
    /\ UNCHANGED <<outside, snapshot, placement, rules, saved, sent>>

------------------------------------------------------------------------------
(* GitHub moves freely; a refresh publishes what it saw of it as a new      *)
(* immutable cache snapshot (triage/gh.py).                                 *)

Refresh ==
    /\ cache.id < MaxFetch
    /\ \E seen \in Listings : cache' = [id |-> cache.id + 1, rows |-> seen]
    /\ UNCHANGED <<runs, version, snapshot, placement, judgements, saved,
                   sent, history>>

------------------------------------------------------------------------------
(* run_pipeline: ingest the cache, read the store, group, publish           *)

\* What assign_incremental decides without the recorded paths (Clustering has
\* the rest): an open PR whose revision evidence is equal, its cache snapshot
\* included, stays in its group; incomplete evidence stays while the paths are
\* equal.
Stays(p, newRows, newId) ==
    /\ groupOf[p] # 0
    /\ newRows[p] = rows[p]
    /\ newId = evidence \/ rows[p] \notin CompleteRevs

MayStay(p, newRows) ==
    /\ groupOf[p] # 0
    /\ {newRows[p], rows[p]} \subseteq Revs \ CompleteRevs

\* Everybody else is clustered afresh, joins a group that kept a member, or
\* opens a group under the next free number.
Placements(newRows, newId) ==
    {f \in Placing :
        /\ \A p \in PRs : f[p] = 0 <=> newRows[p] = None
        /\ \A p \in PRs : Stays(p, newRows, newId) => f[p] = groupOf[p]
        /\ LET stayed == {q \in PRs : /\ f[q] = groupOf[q]
                                     /\ \/ Stays(q, newRows, newId)
                                        \/ MayStay(q, newRows)} IN
           PlacedAround(f, {p \in PRs : f[p] # 0}, stayed, issued)}

Ingest(w) ==
    /\ runs[w].phase = "idle"
    /\ cache.id > 0
    /\ runs' = [runs EXCEPT ![w] =
                  [NoRun EXCEPT !.phase = "ingested", !.id = cache.id,
                                !.rows = cache.rows]]
    /\ UNCHANGED <<cache, version, snapshot, placement, judgements,
                   saved, sent, history>>

\* The first read takes the versions the publication will be checked against.
LoadVersions(w) ==
    /\ runs[w].phase = "ingested"
    /\ runs' = [runs EXCEPT ![w] =
                  [@ EXCEPT !.phase = "loaded", !.version = version,
                            !.snapshot = snapshot]]
    /\ UNCHANGED <<cache, version, snapshot, placement, judgements,
                   saved, sent, history>>

\* The later reads take the reserved numbers and the existing groups.
Assign(w) ==
    /\ runs[w].phase = "loaded"
    /\ \E f \in Placements(runs[w].rows, runs[w].id) :
          runs' = [runs EXCEPT ![w].phase = "planned", ![w].groupOf = f]
    /\ UNCHANGED <<cache, version, snapshot, placement, judgements,
                   saved, sent, history>>

\* Mutant: only the groups that are published stay reserved.
ReserveShown(f) ==
    \E n \in {f[p] : p \in PRs} :
        /\ \A p \in PRs : f[p] <= n
        /\ issued' = n

\* Every number ever issued stays reserved.
Reserve(f) ==
    \E n \in {issued} \cup {f[p] : p \in PRs} :
        /\ issued <= n
        /\ \A p \in PRs : f[p] <= n
        /\ issued' = n

SaveRunState(w) ==
    /\ runs[w].phase = "planned"
    /\ runs[w].snapshot = snapshot
    /\ runs[w].version = version
    /\ Commit(dispositions)
    /\ snapshot' = snapshot + 1
    /\ rows' = runs[w].rows
    /\ evidence' = runs[w].id
    /\ groupOf' = runs[w].groupOf
    /\ Reserve(groupOf')
    /\ runs' = [runs EXCEPT ![w] = NoRun]
    /\ UNCHANGED <<cache, rules, proposals, events, keys, saved, sent,
                   history>>

\* stale_store_version alone is retried, from the read of the versions on.
RetryRun(w) ==
    /\ runs[w].phase = "planned"
    /\ runs[w].snapshot = snapshot
    /\ runs[w].version # version
    /\ runs[w].tries < MaxRetries
    /\ runs' = [runs EXCEPT ![w] =
                  [NoRun EXCEPT !.phase = "ingested", !.id = runs[w].id,
                                !.rows = runs[w].rows,
                                !.tries = runs[w].tries + 1]]
    /\ UNCHANGED <<cache, version, snapshot, placement, judgements,
                   saved, sent, history>>

\* Mutant: a newer snapshot neither retries nor fails the run.
FailStaleRun(w) ==
    /\ runs[w].phase = "planned"
    /\ runs[w].snapshot = snapshot
    /\ \/ runs[w].version # version /\ runs[w].tries >= MaxRetries
       \/ runs[w].version = version /\ version >= MaxVersion
    /\ runs' = [runs EXCEPT ![w] = NoRun]
    /\ UNCHANGED <<cache, version, snapshot, placement, judgements,
                   saved, sent, history>>

FailRun(w) ==
    /\ runs[w].phase = "planned"
    /\ \/ runs[w].snapshot # snapshot
       \/ runs[w].version # version /\ runs[w].tries >= MaxRetries
       \/ runs[w].version = version /\ version >= MaxVersion
    /\ runs' = [runs EXCEPT ![w] = NoRun]
    /\ UNCHANGED <<cache, version, snapshot, placement, judgements,
                   saved, sent, history>>

------------------------------------------------------------------------------
(* backup_store and restore_store                                           *)

BackupStore ==
    /\ "backup" \in Ops
    /\ Cardinality(saved) < MaxCopies
    /\ saved' = saved \cup {StoreContent}
    /\ UNCHANGED <<outside, version, snapshot, placement, judgements, sent,
                   history>>

\* Mutant: above the version of the restored copy only.
AboveCopy(copy) == copy.version + 1 .. MaxVersion

\* The restored content gets a version above both, at least the clock's.
RestoreVersions(copy) ==
    {v \in 1 .. MaxVersion : v > version /\ v > copy.version}

RestoreStore(copy) ==
    /\ "restore" \in Ops
    /\ version' \in RestoreVersions(copy)
    /\ snapshot' = IF copy.snapshot > snapshot THEN copy.snapshot
                                               ELSE snapshot
    /\ rows' = copy.rows
    /\ evidence' = copy.evidence
    /\ groupOf' = copy.groupOf
    /\ issued' = copy.issued
    /\ dispositions' = copy.dispositions
    /\ rules' = copy.rules
    /\ proposals' = copy.proposals
    /\ events' = copy.events
    /\ keys' = copy.keys
    /\ UNCHANGED <<outside, saved, sent, history>>

------------------------------------------------------------------------------

Deliver(req) ==
    \/ SaveDispositions(req)
    \/ DecideGroup(req)
    \/ DraftProposal(req)
    \/ \E p \in proposals :
          \/ AcceptProposal(p, req)
          \/ EditProposal(p, req)
          \/ RejectProposal(p, req)

RunStep(w) ==
    \/ LoadVersions(w)
    \/ Assign(w)
    \/ SaveRunState(w)
    \/ RetryRun(w)
    \/ FailRun(w)

Next ==
    \/ Compose
    \/ \E req \in sent : Deliver(req)
    \/ Refresh
    \/ \E w \in Workers : Ingest(w) \/ RunStep(w)
    \/ BackupStore
    \/ \E copy \in saved : RestoreStore(copy)

Spec == Init /\ [][Next]_vars

\* A run that has started keeps computing: it is one call of the process.
FairSpec == Spec /\ \A w \in Workers : WF_vars(RunStep(w))

------------------------------------------------------------------------------
(* Safety *)

\* What a write recorded was about exactly the revisions its author had on
\* screen, however late it arrived and whatever was published or restored in
\* between (the version checks of every writer, and restore_store's version).
JudgedAsSeen == \A e \in history : e.bound = e.req.seen

\* A request takes effect once, however often it is delivered, and also when
\* a restore has taken back the record of its first effect.
AppliedAtMostOnce ==
    \A e, f \in history : e.req = f.req /\ e.family = f.family => e = f

\* A write that is on record is recognised when it is sent again: the replay
\* check, which runs before the version checks, finds its event.
RetryIsRecognised ==
    /\ \A e \in events : \E k \in keys : k.req = e.req /\ k.event = e.id
    /\ \A k, l \in keys : k.family = l.family /\ k.key = l.key => k = l

\* Never two dispositions for one PR: active_dispositions would drop both.
OneRowPerPR == \A d, e \in dispositions : d.pr = e.pr => d = e

\* Keep, duplicate and approve rest on complete evidence, the canonical PR of
\* a duplicate included, by whatever path they were recorded.
DecidedOnCompleteEvidence ==
    /\ \A d \in dispositions :
          /\ d.kind \in EvidenceBound => d.rev \in CompleteRevs
          /\ d.kind = "duplicate" => d.ofRev \in CompleteRevs
    /\ \A r \in rules : r.decision = "approve" =>
          \A p \in DOMAIN r.bound : r.bound[p] \in CompleteRevs

\* A group leaves the needs-you pile only when for each of its members a
\* human write about exactly the member's current revision is on record.
UnjudgedStaysPending ==
    \A g \in Groups : Members(g) # {} /\ PileOf(g) # "needs_you" =>
        \A p \in Members(g) : \E e \in events :
            /\ e.family # "proposal"
            /\ p \in DOMAIN e.bound
            /\ e.bound[p] = rows[p]

\* An accepted proposal has exactly one disposition event, with its items and
\* about the revisions it was drafted on; no other proposal has any.
AcceptedAsDrafted ==
    \A p \in proposals :
        LET applied == {e \in events : e.family = "disposition"
                                       /\ e.req.proposal = p.id}
        IN  IF p.status = "accepted"
            THEN \E e \in applied :
                    /\ applied = {e}
                    /\ e.id = p.event
                    /\ e.bound = p.bound
                    /\ e.items = p.items
            ELSE applied = {}

\* A run whose versions still match read groups and reserved numbers that are
\* still current, although it read them later than the versions: what it is
\* about to publish is a placement against the store it replaces.
PlanStillValid ==
    \A w \in Workers :
        /\ runs[w].phase = "planned"
        /\ runs[w].version = version
        => runs[w].groupOf \in Placements(runs[w].rows, runs[w].id)

------------------------------------------------------------------------------
(* Action properties *)

\* No content ever stands under a version already used: two readers that saw
\* the same store_version saw the same store.
VersionNamesContent ==
    [][StoreContent' # StoreContent => version' > version]_vars

\* A group number that has lost its members is never given to other PRs: every
\* number given out is reserved, the reserve never shrinks, and a reserved
\* number without members gets none.
NumbersAreNotReissued ==
    [][/\ issued' >= issued
       /\ \A p \in PRs : groupOf'[p] # groupOf[p] => groupOf'[p] <= issued'
       /\ \A g \in Groups : g <= issued /\ Members(g) = {}
                                => \A p \in PRs : groupOf'[p] # g]_vars

------------------------------------------------------------------------------
(* Liveness *)

\* Every run that has ingested publishes or reports a conflict: recomputation
\* after other writes is bounded.
RunEnds == \A w \in Workers : runs[w].phase # "idle" ~> runs[w].phase = "idle"

------------------------------------------------------------------------------
(* Refinement *)

Verdict(d) == [pr |-> d.pr, rev |-> d.rev, kind |-> d.kind, of |-> d.of,
               ofRev |-> d.ofRev]

Ledger == INSTANCE ReviewLedger WITH
    shown <- rows,
    verdicts <- {Verdict(d) : d \in dispositions},
    kept <- {[shown |-> copy.rows,
              verdicts |-> {Verdict(d) : d \in copy.dispositions}] :
                copy \in saved}

\* Whatever forms, agents, runs and operators do, the dispositions behave as
\* the ledger of ReviewLedger.
ImplementsLedger == Ledger!LedgerSpec

------------------------------------------------------------------------------
(* What comments and documents of the repository say, where the code differs *)

\* pipeline.py: "a newer published snapshot is never retried because that
\* could let an older fetch overwrite it".
OlderFetchNeverOverwrites ==
    [][\A w \in Workers : SaveRunState(w) => evidence' >= evidence]_vars

\* assign_incremental: "Keep open PRs in their current groups."
OpenPRKeepsItsGroup ==
    [][\A p \in PRs : rows[p] # None /\ rows'[p] = rows[p]
                      => groupOf'[p] = groupOf[p]]_vars

\* A saved decision of an older revision is inactive: a form that passes every
\* check against the current revisions can be committed.
StaleRowsDoNotBlock ==
    \A req \in sent :
        LET bound == BindRevisions(req.items, rows)
        IN  /\ req.op = "dispose"
            /\ Unused("disposition", req)
            /\ VersionsMatch(req)
            /\ WellFormed(req.items, rows, Members(req.group), TRUE)
            /\ Applicable(bound, req.group)
            => Acyclic(Replace(dispositions, bound))

==============================================================================
