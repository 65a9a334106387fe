-------------------------- MODULE TriageStoreSafety --------------------------
(***************************************************************************)
(* Safety theorems about TriageStore, for every value of the constants.    *)
(* Each invariant is proved together with what must be true of the saved   *)
(* copy, because restore_store may put it back at any moment.              *)
(***************************************************************************)
EXTENDS TriageStoreProofs

------------------------------------------------------------------------------
(* The four kinds of step the store can take *)

StoreUnchanged ==
    UNCHANGED <<version, snapshot, placement, judgements, saved, history>>

LEMMA StepKinds ==
    ASSUME [Next]_vars
    PROVE  \/ \E req \in sent : Deliver(req)
           \/ \E w \in Workers : SaveRunState(w)
           \/ BackupStore
           \/ \E copy \in saved : RestoreStore(copy)
           \/ StoreUnchanged
  <1>1. CASE Compose
    BY <1>1 DEF Compose, StoreUnchanged
  <1>2. CASE Refresh
    BY <1>2 DEF Refresh, StoreUnchanged
  <1>3. ASSUME NEW w \in Workers, Ingest(w) \/ RunStep(w)
        PROVE  SaveRunState(w) \/ StoreUnchanged
    BY <1>3 DEF RunStep, Ingest, LoadVersions, Assign, RetryRun, FailRun,
                StoreUnchanged
  <1>4. CASE UNCHANGED vars
    BY <1>4 DEF vars, StoreUnchanged
  <1> QED
    BY <1>1, <1>2, <1>3, <1>4 DEF Next

\* Only a client composes a request.
LEMMA SentStep ==
    ASSUME [Next]_vars
    PROVE  Compose \/ sent' = sent
  BY DEF Next, Deliver, SaveDispositions, DecideGroup, DraftProposal,
         AcceptProposal, EditProposal, RejectProposal, Refresh, Ingest, RunStep,
         LoadVersions, Assign, SaveRunState, RetryRun, FailRun, BackupStore,
         RestoreStore, vars

\* Every write of a request happens at exactly the version its page showed and
\* makes the next one.
LEMMA WriteStep ==
    ASSUME TypeOK, NEW req \in sent, Deliver(req)
    PROVE  /\ req.version = version
           /\ version' = version + 1
           /\ UNCHANGED <<outside, snapshot, placement, saved, sent>>
  BY DEF Deliver, SaveDispositions, DecideGroup, DraftProposal, AcceptProposal,
         EditProposal, RejectProposal, Actionable, VersionsMatch, Commit,
         NextVersion

LEMMA PublishStep ==
    ASSUME NEW w \in Workers, SaveRunState(w)
    PROVE  /\ version' = version + 1
           /\ UNCHANGED <<judgements, saved, sent, history>>
  BY DEF SaveRunState, Commit, NextVersion, judgements

LEMMA RestoreStep ==
    ASSUME TypeOK, NEW copy \in saved, RestoreStore(copy)
    PROVE  /\ copy \in Content
           /\ version' \in Nat
           /\ version' > version
           /\ version' > copy.version
           /\ UNCHANGED <<outside, saved, sent, history>>
  BY DEF RestoreStore, RestoreVersions, TypeOK

------------------------------------------------------------------------------

\* Two contents never stand under one version: whatever changes the document,
\* a restore included, moves store_version up.
THEOREM VersionsNameContents == Spec => VersionNamesContent
  <1>1. TypeOK /\ [Next]_vars
           => [StoreContent' # StoreContent => version' > version]_vars
    <2> SUFFICES ASSUME TypeOK, Next, StoreContent' # StoreContent
                 PROVE  version' > version
      OBVIOUS
    <2>1. ASSUME NEW req \in sent, Deliver(req)
          PROVE  version' > version
      BY <2>1, WriteStep DEF TypeOK
    <2>2. ASSUME NEW w \in Workers, SaveRunState(w)
          PROVE  version' > version
      BY <2>2, PublishStep DEF TypeOK
    <2>3. ASSUME NEW copy \in saved, RestoreStore(copy)
          PROVE  version' > version
      BY <2>3, RestoreStep
    <2>4. ~ BackupStore
      BY DEF BackupStore, StoreContent, placement, judgements
    <2>5. ~ StoreUnchanged
      BY DEF StoreUnchanged, StoreContent, placement, judgements
    <2> QED
      BY <2>1, <2>2, <2>3, <2>4, <2>5, StepKinds
  <1> QED
    BY <1>1, TypeCorrect, PTL DEF Spec, VersionNamesContent

------------------------------------------------------------------------------
(* Effects of a request *)

\* What every writer adds to the record: events of the commit's version, one
\* of each family, and a key that was not in use.
Effect(req, new, f) ==
    /\ events' = events \cup new
    /\ history' = history \cup new
    /\ keys' = keys \cup {[family |-> f, key |-> req.key, req |-> req,
                           event |-> NextVersion]}
    /\ Unused(f, req)
    /\ \A e \in new : e.id = NextVersion /\ e.req = req
    /\ \A d, e \in new : d.family = e.family => d = e

LEMMA EffectOfRecord ==
    ASSUME NEW req, NEW f, NEW g, NEW h, NEW items, NEW new,
           Record(f, req, new), Unused(f, req),
           new = {EventOf(h, req, g, items), EventOf(f, req, g, items)}
    PROVE  Effect(req, new, f)
  BY DEF Record, EventOf, Effect

LEMMA RecordStep ==
    ASSUME NEW req \in sent, Deliver(req)
    PROVE  \E new, f : Effect(req, new, f)
  <1>1. ASSUME NEW f, NEW g, NEW items,
               Record(f, req, {EventOf(f, req, g, items)}), Unused(f, req)
        PROVE  Effect(req, {EventOf(f, req, g, items)}, f)
    <2>1. {EventOf(f, req, g, items)} =
             {EventOf(f, req, g, items), EventOf(f, req, g, items)}
      OBVIOUS
    <2> QED
      BY <1>1, <2>1, EffectOfRecord
  <1>2. CASE SaveDispositions(req)
    <2> DEFINE bound == BindRevisions(req.items, rows)
    <2> HIDE DEF bound
    <2>1. /\ Record("disposition", req,
                    {EventOf("disposition", req, req.group, bound)})
          /\ Unused("disposition", req)
      BY <1>2 DEF SaveDispositions, bound
    <2> QED
      BY <1>1, <2>1
  <1>3. CASE DecideGroup(req)
    BY <1>1, <1>3 DEF DecideGroup
  <1>4. CASE DraftProposal(req)
    <2> DEFINE bound == BindRevisions(req.items, rows)
    <2> HIDE DEF bound
    <2>1. /\ Record("proposal", req,
                    {EventOf("proposal", req, req.group, bound)})
          /\ Unused("proposal", req)
      BY <1>4 DEF DraftProposal, bound
    <2> QED
      BY <1>1, <2>1
  <1>5. ASSUME NEW p \in proposals, AcceptProposal(p, req)
        PROVE  \E new, f : Effect(req, new, f)
    <2> DEFINE bound == BindRevisions(ItemsOf(p, req), rows)
               new == {EventOf("disposition", req, p.group, bound),
                       EventOf("proposal", req, p.group, bound)}
    <2>1. Record("proposal", req, new) /\ Unused("proposal", req)
      BY <1>5 DEF AcceptProposal, Actionable
    <2> HIDE DEF bound
    <2>2. Effect(req, new, "proposal")
      BY <2>1, EffectOfRecord
    <2> QED
      BY <2>2
  <1>6. ASSUME NEW p \in proposals, EditProposal(p, req)
        PROVE  \E new, f : Effect(req, new, f)
    <2> DEFINE bound == BindRevisions(req.items, rows)
    <2> HIDE DEF bound
    <2>1. /\ Record("proposal", req,
                    {EventOf("proposal", req, p.group, bound)})
          /\ Unused("proposal", req)
      BY <1>6 DEF EditProposal, Actionable, bound
    <2> QED
      BY <1>1, <2>1
  <1>7. ASSUME NEW p \in proposals, RejectProposal(p, req)
        PROVE  \E new, f : Effect(req, new, f)
    BY <1>1, <1>7 DEF RejectProposal, Actionable
  <1> QED
    BY <1>2, <1>3, <1>4, <1>5, <1>6, <1>7 DEF Deliver

\* An event stands for the one write its request got at the version it named.
EffectsInv ==
    /\ \A e \in history : e.id = e.req.version + 1 /\ e.id <= version
    /\ \A e, f \in history : e.id = f.id /\ e.family = f.family => e = f

\* A request, delivered any number of times and over any restore, has at most
\* one effect of each kind.
THEOREM AppliedOnce == Spec => []AppliedAtMostOnce
  <1>1. Init => EffectsInv
    BY DEF Init, EffectsInv
  <1>2. TypeOK /\ EffectsInv /\ [Next]_vars => EffectsInv'
    <2> SUFFICES ASSUME TypeOK, EffectsInv, [Next]_vars
                 PROVE  EffectsInv'
      OBVIOUS
    <2> USE DEF EffectsInv
    <2>0. version \in Nat /\ \A e \in history : e.id \in Nat
      BY DEF TypeOK, Event
    <2>1. ASSUME NEW req \in sent, Deliver(req)
          PROVE  EffectsInv'
      <3>1. req.version = version /\ version' = version + 1
        BY <2>1, WriteStep
      <3>2. PICK new : /\ history' = history \cup new
                       /\ \A e \in new : e.id = NextVersion /\ e.req = req
                       /\ \A d, e \in new : d.family = e.family => d = e
        BY <2>1, RecordStep DEF Effect
      <3>3. \A e \in new : e.id = version + 1 /\ e.id = e.req.version + 1
        BY <3>1, <3>2 DEF NextVersion
      <3>4. \A e \in history, f \in new : e.id # f.id
        BY <2>0, <3>3
      <3> QED
        BY <2>0, <3>1, <3>2, <3>3, <3>4
    <2>2. ASSUME NEW w \in Workers, SaveRunState(w)
          PROVE  EffectsInv'
      BY <2>0, <2>2, PublishStep
    <2>3. CASE BackupStore
      BY <2>3 DEF BackupStore
    <2>4. ASSUME NEW copy \in saved, RestoreStore(copy)
          PROVE  EffectsInv'
      <3>1. version' > version /\ version' \in Nat /\ history' = history
        BY <2>4, RestoreStep DEF RestoreStore, RestoreVersions
      <3> QED
        BY <2>0, <3>1
    <2>5. CASE StoreUnchanged
      BY <2>5 DEF StoreUnchanged
    <2> QED
      BY <2>1, <2>2, <2>3, <2>4, <2>5, StepKinds
  <1>3. TypeOK /\ EffectsInv => AppliedAtMostOnce
    BY DEF EffectsInv, AppliedAtMostOnce
  <1> QED
    BY <1>1, <1>2, <1>3, TypeCorrect, PTL DEF Spec

------------------------------------------------------------------------------
(* Replay records *)

Recognised(es, ks) ==
    /\ \A e \in es : \E k \in ks : k.req = e.req /\ k.event = e.id
    /\ \A k, l \in ks : k.family = l.family /\ k.key = l.key => k = l

ReplayInv ==
    /\ Recognised(events, keys)
    /\ \A copy \in saved : Recognised(copy.events, copy.keys)

\* A write on record is found again under its key, and a key stands for one
\* write, in the document and in every copy of it.
THEOREM RetriesRecognised == Spec => []RetryIsRecognised
  <1>1. Init => ReplayInv
    BY DEF Init, ReplayInv, Recognised
  <1>2. TypeOK /\ ReplayInv /\ [Next]_vars => ReplayInv'
    <2> SUFFICES ASSUME TypeOK, ReplayInv, [Next]_vars
                 PROVE  ReplayInv'
      OBVIOUS
    <2>1. ASSUME NEW req \in sent, Deliver(req)
          PROVE  ReplayInv'
      <3>1. saved' = saved
        BY <2>1, WriteStep
      <3>2. PICK new, f : Effect(req, new, f)
        BY <2>1, RecordStep
      <3>3. Recognised(events', keys')
        <4>1. \A e \in events' : \E k \in keys' : k.req = e.req /\ k.event = e.id
          <5> DEFINE entry == [family |-> f, key |-> req.key, req |-> req,
                               event |-> NextVersion]
          <5>1. /\ entry \in keys'
                /\ \A e \in new : entry.req = e.req /\ entry.event = e.id
            BY <3>2 DEF Effect
          <5>2. \A e \in events : \E k \in keys' : k.req = e.req
                                                   /\ k.event = e.id
            BY <3>2 DEF Effect, ReplayInv, Recognised
          <5> QED
            BY <3>2, <5>1, <5>2 DEF Effect
        <4>2. \A k, l \in keys' : k.family = l.family /\ k.key = l.key => k = l
          BY <3>2 DEF Effect, ReplayInv, Recognised, Unused
        <4> QED
          BY <4>1, <4>2 DEF Recognised
      <3> QED
        BY <3>1, <3>3 DEF ReplayInv
    <2>2. ASSUME NEW w \in Workers, SaveRunState(w)
          PROVE  ReplayInv'
      BY <2>2, PublishStep DEF ReplayInv, judgements
    <2>3. CASE BackupStore
      BY <2>3 DEF BackupStore, StoreContent, ReplayInv, judgements
    <2>4. ASSUME NEW copy \in saved, RestoreStore(copy)
          PROVE  ReplayInv'
      BY <2>4 DEF RestoreStore, ReplayInv
    <2>5. CASE StoreUnchanged
      BY <2>5 DEF StoreUnchanged, ReplayInv, judgements
    <2> QED
      BY <2>1, <2>2, <2>3, <2>4, <2>5, StepKinds
  <1>3. ReplayInv => RetryIsRecognised
    BY DEF ReplayInv, Recognised, RetryIsRecognised
  <1> QED
    BY <1>1, <1>2, <1>3, TypeCorrect, PTL DEF Spec

------------------------------------------------------------------------------
(* Dispositions *)

\* What a write makes of the dispositions: they stay, or well-formed items
\* bound to the revisions of the moment replace the rows of their PRs.
Applies(items, g) ==
    LET bound == BindRevisions(items, rows)
    IN  /\ items \in SUBSET Item
        /\ WellFormed(items, rows, Members(g), TRUE)
        /\ dispositions' = Replace(dispositions, Finalize(bound))
        /\ Acyclic(dispositions')

LEMMA DispositionStep ==
    ASSUME TypeOK, NEW req \in sent, Deliver(req)
    PROVE  \/ dispositions' = dispositions
           \/ \E items : \E g \in Groups : Applies(items, g)
  <1>1. ASSUME SaveDispositions(req)
        PROVE  Applies(req.items, req.group) /\ req.group \in Groups
    BY <1>1, RequestType DEF SaveDispositions, Applies, Commit
  <1>2. ASSUME NEW p \in proposals, AcceptProposal(p, req)
        PROVE  Applies(ItemsOf(p, req), p.group) /\ p.group \in Groups
    <2>1. Applies(ItemsOf(p, req), p.group)
      BY <1>2, ItemsOfType DEF AcceptProposal, Applies, Commit
    <2> QED
      BY <2>1 DEF TypeOK, Proposal
  <1>3. ASSUME NEW p \in proposals,
               EditProposal(p, req) \/ RejectProposal(p, req)
        PROVE  dispositions' = dispositions
    BY <1>3 DEF EditProposal, RejectProposal, Commit
  <1>4. ASSUME DecideGroup(req) \/ DraftProposal(req)
        PROVE  dispositions' = dispositions
    BY <1>4 DEF DecideGroup, DraftProposal, Commit
  <1> QED
    BY <1>1, <1>2, <1>3, <1>4 DEF Deliver

OneRow(ds) == \A d, e \in ds : d.pr = e.pr => d = e

OneRowInv ==
    /\ OneRow(dispositions)
    /\ \A copy \in saved : OneRow(copy.dispositions)

LEMMA ReplaceKeepsOneRow ==
    ASSUME NEW ds, NEW new, OneRow(ds), OneRow(new)
    PROVE  OneRow(Replace(ds, new))
  BY DEF OneRow, Replace

\* A well-formed list of items names each PR once, so the rows made of it do.
LEMMA RowsOfItems ==
    ASSUME NEW items, NEW g, Applies(items, g)
    PROVE  OneRow(Finalize(BindRevisions(items, rows)))
  <1>1. \A i, j \in items : i.pr = j.pr => i = j
    BY DEF Applies, WellFormed
  <1>2. \A i \in items : [i EXCEPT !.rev = rows[i.pr],
                                   !.ofRev = IF i.kind = "duplicate"
                                             THEN rows[i.of] ELSE None].pr = i.pr
    BY DEF Applies, Item
  <1> DEFINE Bind(i) == [i EXCEPT !.rev = rows[i.pr],
                                  !.ofRev = IF i.kind = "duplicate"
                                            THEN rows[i.of] ELSE None]
  <1>3. BindRevisions(items, rows) = {Bind(i) : i \in items}
    BY DEF BindRevisions
  <1>4. \A i, j \in items : Bind(i).pr = Bind(j).pr => Bind(i) = Bind(j)
    BY <1>1, <1>2
  <1> HIDE DEF Bind
  <1>5. \A b, c \in BindRevisions(items, rows) : b.pr = c.pr => b = c
    BY <1>3, <1>4
  <1> QED
    BY <1>5 DEF Finalize, OneRow

\* No history of writes, publications and restores leaves two dispositions
\* for one PR.
THEOREM OneRowEach == Spec => []OneRowPerPR
  <1>1. Init => OneRowInv
    BY DEF Init, OneRowInv, OneRow
  <1>2. TypeOK /\ OneRowInv /\ [Next]_vars => OneRowInv'
    <2> SUFFICES ASSUME TypeOK, OneRowInv, [Next]_vars
                 PROVE  OneRowInv'
      OBVIOUS
    <2>1. ASSUME NEW req \in sent, Deliver(req)
          PROVE  OneRowInv'
      <3>1. saved' = saved
        BY <2>1, WriteStep
      <3>2. CASE dispositions' = dispositions
        BY <3>1, <3>2 DEF OneRowInv
      <3>3. ASSUME NEW items, NEW g, Applies(items, g)
            PROVE  OneRow(dispositions')
        BY <3>3, RowsOfItems, ReplaceKeepsOneRow DEF Applies, OneRowInv
      <3> QED
        BY <2>1, <3>1, <3>2, <3>3, DispositionStep DEF OneRowInv
    <2>2. ASSUME NEW w \in Workers, SaveRunState(w)
          PROVE  OneRowInv'
      BY <2>2, PublishStep DEF OneRowInv, judgements
    <2>3. CASE BackupStore
      BY <2>3 DEF BackupStore, StoreContent, OneRowInv, judgements
    <2>4. ASSUME NEW copy \in saved, RestoreStore(copy)
          PROVE  OneRowInv'
      BY <2>4 DEF RestoreStore, OneRowInv
    <2>5. CASE StoreUnchanged
      BY <2>5 DEF StoreUnchanged, OneRowInv, judgements
    <2> QED
      BY <2>1, <2>2, <2>3, <2>4, <2>5, StepKinds
  <1>3. OneRowInv => OneRowPerPR
    BY DEF OneRowInv, OneRow, OneRowPerPR
  <1> QED
    BY <1>1, <1>2, <1>3, TypeCorrect, PTL DEF Spec

Evidenced(ds, rs) ==
    /\ \A d \in ds :
          /\ d.kind \in EvidenceBound => d.rev \in CompleteRevs
          /\ d.kind = "duplicate" => d.ofRev \in CompleteRevs
    /\ \A r \in rs : r.decision = "approve" =>
          \A p \in DOMAIN r.bound : r.bound[p] \in CompleteRevs

EvidenceInv ==
    /\ Evidenced(dispositions, rules)
    /\ \A copy \in saved : Evidenced(copy.dispositions, copy.rules)

\* The revisions that WellFormed found complete are the ones that are bound.
LEMMA BoundItemsEvidenced ==
    ASSUME NEW items, NEW g, Applies(items, g)
    PROVE  \A d \in Finalize(BindRevisions(items, rows)) :
              /\ d.kind \in EvidenceBound => d.rev \in CompleteRevs
              /\ d.kind = "duplicate" => d.ofRev \in CompleteRevs
  <1>1. ASSUME NEW i \in items
        PROVE  LET b == [i EXCEPT !.rev = rows[i.pr],
                                  !.ofRev = IF i.kind = "duplicate"
                                            THEN rows[i.of] ELSE None]
               IN  /\ b.kind \in EvidenceBound => b.rev \in CompleteRevs
                   /\ b.kind = "duplicate" => b.ofRev \in CompleteRevs
    <2>1. i \in Item
      BY DEF Applies
    <2>2. /\ i.kind \in EvidenceBound => rows[i.pr] \in CompleteRevs
          /\ i.kind = "duplicate" => rows[i.of] \in CompleteRevs
      BY DEF Applies, WellFormed
    <2> QED
      BY <2>1, <2>2 DEF Item
  <1>2. \A b \in BindRevisions(items, rows) :
           /\ b.kind \in EvidenceBound => b.rev \in CompleteRevs
           /\ b.kind = "duplicate" => b.ofRev \in CompleteRevs
    BY <1>1 DEF BindRevisions
  <1> QED
    BY <1>2 DEF Finalize

LEMMA DecisionEvidenced ==
    ASSUME TypeOK, NEW req \in sent, Deliver(req),
           Evidenced(dispositions, rules)
    PROVE  \A r \in rules' : r.decision = "approve" =>
              \A p \in DOMAIN r.bound : r.bound[p] \in CompleteRevs
  <1>1. CASE DecideGroup(req)
    BY <1>1 DEF DecideGroup, Complete, Bound, Evidenced
  <1>2. CASE ~ DecideGroup(req)
    BY <1>2 DEF Deliver, SaveDispositions, DraftProposal, AcceptProposal,
                EditProposal, RejectProposal, Evidenced
  <1> QED
    BY <1>1, <1>2

\* No keep, duplicate or approval ever rests on incomplete evidence, whichever
\* way it was recorded and whatever copy was put back.
THEOREM DecidedOnEvidence == Spec => []DecidedOnCompleteEvidence
  <1>1. Init => EvidenceInv
    BY DEF Init, EvidenceInv, Evidenced
  <1>2. TypeOK /\ EvidenceInv /\ [Next]_vars => EvidenceInv'
    <2> SUFFICES ASSUME TypeOK, EvidenceInv, [Next]_vars
                 PROVE  EvidenceInv'
      OBVIOUS
    <2>1. ASSUME NEW req \in sent, Deliver(req)
          PROVE  EvidenceInv'
      <3>1. saved' = saved
        BY <2>1, WriteStep
      <3>2. \A d \in dispositions' :
               /\ d.kind \in EvidenceBound => d.rev \in CompleteRevs
               /\ d.kind = "duplicate" => d.ofRev \in CompleteRevs
        <4>1. CASE dispositions' = dispositions
          BY <4>1 DEF EvidenceInv, Evidenced
        <4>2. ASSUME NEW items, NEW g, Applies(items, g)
              PROVE  \A d \in dispositions' :
                        /\ d.kind \in EvidenceBound => d.rev \in CompleteRevs
                        /\ d.kind = "duplicate" => d.ofRev \in CompleteRevs
          BY <4>2, BoundItemsEvidenced
             DEF Applies, Replace, EvidenceInv, Evidenced
        <4> QED
          BY <2>1, <4>1, <4>2, DispositionStep
      <3>3. Evidenced(dispositions, rules)
        BY DEF EvidenceInv
      <3> QED
        BY <2>1, <3>1, <3>2, <3>3, DecisionEvidenced DEF EvidenceInv, Evidenced
    <2>2. ASSUME NEW w \in Workers, SaveRunState(w)
          PROVE  EvidenceInv'
      BY <2>2, PublishStep DEF EvidenceInv, judgements
    <2>3. CASE BackupStore
      BY <2>3 DEF BackupStore, StoreContent, EvidenceInv, judgements
    <2>4. ASSUME NEW copy \in saved, RestoreStore(copy)
          PROVE  EvidenceInv'
      BY <2>4 DEF RestoreStore, EvidenceInv
    <2>5. CASE StoreUnchanged
      BY <2>5 DEF StoreUnchanged, EvidenceInv, judgements
    <2> QED
      BY <2>1, <2>2, <2>3, <2>4, <2>5, StepKinds
  <1>3. EvidenceInv => DecidedOnCompleteEvidence
    BY DEF EvidenceInv, Evidenced, DecidedOnCompleteEvidence
  <1> QED
    BY <1>1, <1>2, <1>3, TypeCorrect, PTL DEF Spec

------------------------------------------------------------------------------
(* What a request's author saw *)

Transitions == {"accept", "edit", "reject"}

\* The number of a proposal names its group.
Numbered(ps, v) ==
    /\ \A p \in ps : p.id <= v
    /\ \A p, q \in ps : p.id = q.id => p.group = q.group

\* While its version is current, a request describes the store as it is.
Current(r) ==
    /\ r.seen = Bound(r.group)
    /\ r.op \in Transitions =>
          \A p \in proposals : p.id = r.proposal => p.group = r.group

SeenInv ==
    /\ Numbered(proposals, version)
    /\ \A copy \in saved : Numbered(copy.proposals, copy.version)
    /\ \A r \in sent : r.version <= version
                        /\ (r.version = version => Current(r))
    /\ JudgedAsSeen

LEMMA FormsAreCurrent ==
    ASSUME TypeOK, SeenInv, Compose
    PROVE  \A r \in sent' : r \in sent \/ (r.version = version /\ Current(r))
  <1>1. ASSUME NEW g, NEW k, NEW r \in FormsOf(g, k)
        PROVE  r.version = version /\ Current(r)
    <2>1. CASE \E op \in {"dispose", "draft"} :
                  \E items \in FormItems(Members(g)) :
                     r = [Form(op, g, k) EXCEPT !.items = items]
      <3>1. PICK op \in {"dispose", "draft"}, items \in FormItems(Members(g)) :
                r = [Form(op, g, k) EXCEPT !.items = items]
        BY <2>1
      <3>2. /\ r.version = version
            /\ r.group = g
            /\ r.seen = Bound(g)
            /\ r.op \in {"dispose", "draft", "decide"}
        BY <3>1 DEF Form
      <3> QED
        BY <3>2 DEF Current, Transitions
    <2>2. CASE \E op \in {"decide"} : \E d \in Decisions :
                  r = [Form(op, g, k) EXCEPT !.decision = d]
      <3>1. PICK op \in {"decide"}, d \in Decisions :
                r = [Form(op, g, k) EXCEPT !.decision = d]
        BY <2>2
      <3>2. /\ r.version = version
            /\ r.group = g
            /\ r.seen = Bound(g)
            /\ r.op \in {"dispose", "draft", "decide"}
        BY <3>1 DEF Form
      <3> QED
        BY <3>2 DEF Current, Transitions
    <2> QED
      BY <1>1, <2>1, <2>2 DEF FormsOf
  <1>2. ASSUME NEW p \in proposals, NEW k, NEW r \in FormsOn(p, k)
        PROVE  r.version = version /\ Current(r)
    <2> DEFINE forms == {[Form(op, p.group, k) EXCEPT !.proposal = p.id] :
                            op \in Ops}
               Fits(f) == /\ f.version = version
                          /\ f.group = p.group
                          /\ f.seen = Bound(p.group)
                          /\ f.proposal = p.id
    <2>1. ASSUME NEW f \in forms
          PROVE  Fits(f) /\ \A items : Fits([f EXCEPT !.items = items])
      <3>1. PICK op \in Ops :
               f = [Form(op, p.group, k) EXCEPT !.proposal = p.id]
        OBVIOUS
      <3> QED
        BY <3>1 DEF Form
    <2>2. r \in forms \/ \E f \in forms : \E items \in FormItems(Members(p.group)) :
                            r = [f EXCEPT !.items = items]
      BY <1>2 DEF FormsOn
    <2> HIDE DEF forms, Fits
    <2>3. Fits(r)
      BY <2>1, <2>2
    <2> QED
      BY <2>3 DEF Current, SeenInv, Numbered, Fits
  <1> QED
    BY <1>1, <1>2 DEF Compose

LEMMA EventFields ==
    ASSUME NEW f, NEW req, NEW g, NEW items
    PROVE  LET e == EventOf(f, req, g, items)
           IN  e.req = req /\ e.bound = Bound(g)
  BY DEF EventOf

LEMMA EventsBound ==
    ASSUME NEW req \in sent, Deliver(req), Current(req)
    PROVE  \A e \in history' :
              e \in history \/ (e.req = req /\ e.bound = Bound(req.group))
  <1>1. CASE SaveDispositions(req)
    <2>1. \E items : history' = history
                       \cup {EventOf("disposition", req, req.group, items)}
      BY <1>1 DEF SaveDispositions, Record
    <2> QED
      BY <2>1, EventFields
  <1>2. CASE DecideGroup(req)
    <2>1. history' = history \cup {EventOf("decision", req, req.group, {})}
      BY <1>2 DEF DecideGroup, Record
    <2> QED
      BY <2>1, EventFields
  <1>3. CASE DraftProposal(req)
    <2>1. \E items : history' = history
                       \cup {EventOf("proposal", req, req.group, items)}
      BY <1>3 DEF DraftProposal, Record
    <2> QED
      BY <2>1, EventFields
  <1>4. ASSUME NEW p \in proposals,
               \/ AcceptProposal(p, req)
               \/ EditProposal(p, req)
               \/ RejectProposal(p, req)
        PROVE  p.group = req.group
    <2>1. req.op \in Transitions /\ p.id = req.proposal
      BY <1>4 DEF AcceptProposal, EditProposal, RejectProposal, Actionable,
                  Transitions
    <2> QED
      BY <2>1 DEF Current
  <1>5. ASSUME NEW p \in proposals, AcceptProposal(p, req)
        PROVE  \A e \in history' :
                  e \in history \/ (e.req = req /\ e.bound = Bound(req.group))
    <2>1. \E items : history' = history
                       \cup {EventOf("disposition", req, p.group, items),
                             EventOf("proposal", req, p.group, items)}
      BY <1>5 DEF AcceptProposal, Record
    <2> QED
      BY <1>4, <1>5, <2>1, EventFields
  <1>6. ASSUME NEW p \in proposals,
               EditProposal(p, req) \/ RejectProposal(p, req)
        PROVE  \A e \in history' :
                  e \in history \/ (e.req = req /\ e.bound = Bound(req.group))
    <2>1. \E items : history' = history
                       \cup {EventOf("proposal", req, p.group, items)}
      BY <1>6 DEF EditProposal, RejectProposal, Record
    <2> QED
      BY <1>4, <1>6, <2>1, EventFields
  <1> QED
    BY <1>1, <1>2, <1>3, <1>5, <1>6 DEF Deliver

\* A write keeps the numbers and groups of the proposals and adds at most one
\* proposal, under the number of the commit.
LEMMA ProposalStep ==
    ASSUME TypeOK, NEW req \in sent, Deliver(req)
    PROVE  \/ \A p \in proposals' :
                 \E q \in proposals : p.id = q.id /\ p.group = q.group
           \/ \E d : /\ proposals' = proposals \cup {d}
                     /\ d.id = version + 1
  <1>1. ASSUME SaveDispositions(req) \/ DecideGroup(req)
        PROVE  proposals' = proposals
    BY <1>1 DEF SaveDispositions, DecideGroup
  <1>2. ASSUME DraftProposal(req)
        PROVE  \E d : proposals' = proposals \cup {d} /\ d.id = version + 1
    <2> DEFINE d == [id |-> NextVersion, status |-> "draft",
                     group |-> req.group, bound |-> Bound(req.group),
                     items |-> BindRevisions(req.items, rows), event |-> 0]
    <2>1. proposals' = proposals \cup {d}
      BY <1>2 DEF DraftProposal
    <2>2. d.id = version + 1
      BY DEF NextVersion
    <2> HIDE DEF d
    <2> QED
      BY <2>1, <2>2
  <1>3. ASSUME NEW p \in proposals, NEW status, NEW items, NEW e,
               SetProposal(p, status, items, e)
        PROVE  \A q \in proposals' :
                  \E r \in proposals : q.id = r.id /\ q.group = r.group
    <2>1. p \in Proposal
      BY DEF TypeOK
    <2>2. LET q == [p EXCEPT !.status = status, !.items = items, !.event = e]
          IN  q.id = p.id /\ q.group = p.group
      BY <2>1 DEF Proposal
    <2> QED
      BY <1>3, <2>2 DEF SetProposal
  <1>4. ASSUME NEW p \in proposals,
               \/ AcceptProposal(p, req)
               \/ EditProposal(p, req)
               \/ RejectProposal(p, req)
        PROVE  \E status, items, e : SetProposal(p, status, items, e)
    BY <1>4 DEF AcceptProposal, EditProposal, RejectProposal
  <1> QED
    BY <1>1, <1>2, <1>3, <1>4 DEF Deliver

LEMMA NumberedStep ==
    ASSUME TypeOK, Numbered(proposals, version), NEW req \in sent, Deliver(req)
    PROVE  Numbered(proposals', version')
  <1>1. version' = version + 1 /\ version \in Nat
    BY WriteStep DEF TypeOK
  <1>2. \A p \in proposals : p.id \in Nat
    BY DEF TypeOK, Proposal
  <1>3. CASE \A p \in proposals' :
                \E q \in proposals : p.id = q.id /\ p.group = q.group
    BY <1>1, <1>2, <1>3 DEF Numbered
  <1>4. ASSUME NEW d, proposals' = proposals \cup {d}, d.id = version + 1
        PROVE  Numbered(proposals', version')
    BY <1>1, <1>2, <1>4 DEF Numbered
  <1> QED
    BY <1>3, <1>4, ProposalStep

\* What moves store_version up leaves no request current.
LEMMA NewVersionStrands ==
    ASSUME TypeOK, SeenInv, sent' = sent, version' \in Nat, version' > version
    PROVE  \A r \in sent' : /\ r.version <= version'
                            /\ r.version # version'
  BY DEF TypeOK, Request, SeenInv

\* What a write records was about exactly the revisions that stood on its
\* author's page, however late and however often it was delivered.
THEOREM JudgedWhatWasSeen == Spec => []JudgedAsSeen
  <1>1. Init => SeenInv
    BY DEF Init, SeenInv, Numbered, JudgedAsSeen
  <1>2. TypeOK /\ SeenInv /\ [Next]_vars => SeenInv'
    <2> SUFFICES ASSUME TypeOK, SeenInv, [Next]_vars
                 PROVE  SeenInv'
      OBVIOUS
    <2>0. version \in Nat
      BY DEF TypeOK
    <2>1. ASSUME NEW req \in sent, Deliver(req)
          PROVE  SeenInv'
      <3>1. /\ req.version = version
            /\ version' = version + 1
            /\ saved' = saved /\ sent' = sent
        BY <2>1, WriteStep
      <3>2. Current(req)
        BY <3>1 DEF SeenInv
      <3>3. \A e \in history' :
               e \in history \/ (e.req = req /\ e.bound = Bound(req.group))
        BY <2>1, <3>2, EventsBound
      <3>4. JudgedAsSeen'
        BY <3>2, <3>3 DEF Current, SeenInv, JudgedAsSeen
      <3>5. Numbered(proposals', version')
        BY <2>1, NumberedStep DEF SeenInv
      <3>6. \A r \in sent' : r.version <= version' /\ r.version # version'
        BY <2>0, <3>1, NewVersionStrands
      <3> QED
        BY <3>1, <3>4, <3>5, <3>6 DEF SeenInv
    <2>2. ASSUME NEW w \in Workers, SaveRunState(w)
          PROVE  SeenInv'
      <3>1. /\ version' = version + 1
            /\ saved' = saved /\ sent' = sent /\ history' = history
            /\ proposals' = proposals
        BY <2>2, PublishStep DEF judgements
      <3>2. \A r \in sent' : r.version <= version' /\ r.version # version'
        BY <2>0, <3>1, NewVersionStrands
      <3>3. Numbered(proposals', version')
        <4>1. \A p \in proposals : p.id \in Nat
          BY DEF TypeOK, Proposal
        <4> QED
          BY <2>0, <3>1, <4>1 DEF SeenInv, Numbered
      <3> QED
        BY <3>1, <3>2, <3>3 DEF SeenInv, JudgedAsSeen
    <2>3. CASE BackupStore
      BY <2>3 DEF BackupStore, StoreContent, SeenInv, JudgedAsSeen, Numbered,
                  Current, Bound, Members, judgements, placement
    <2>4. ASSUME NEW copy \in saved, RestoreStore(copy)
          PROVE  SeenInv'
      <3>1. /\ copy \in saved /\ copy \in Content
            /\ version' \in Nat /\ version' > version
            /\ version' > copy.version
            /\ saved' = saved /\ sent' = sent /\ history' = history
            /\ proposals' = copy.proposals
        BY <2>4, RestoreStep DEF RestoreStore, RestoreVersions
      <3>2. \A r \in sent' : r.version <= version' /\ r.version # version'
        BY <3>1, NewVersionStrands
      <3>3. Numbered(proposals', version')
        <4>1. copy.version \in Nat /\ \A p \in copy.proposals : p.id \in Nat
          BY <3>1 DEF Content, Proposal
        <4> QED
          BY <3>1, <4>1 DEF SeenInv, Numbered
      <3> QED
        BY <3>1, <3>2, <3>3 DEF SeenInv, JudgedAsSeen
    <2>5. CASE StoreUnchanged
      <3>1. \A r \in sent' : r \in sent \/ (r.version = version /\ Current(r))
        BY <2>5, FormsAreCurrent, SentStep
      <3>2. \A r : Current(r) => Current(r)'
        BY <2>5 DEF StoreUnchanged, Current, Bound, Members, placement,
                    judgements
      <3> QED
        BY <2>0, <2>5, <3>1, <3>2
           DEF StoreUnchanged, SeenInv, JudgedAsSeen, Numbered, judgements
    <2> QED
      BY <2>1, <2>2, <2>3, <2>4, <2>5, StepKinds
  <1>3. SeenInv => JudgedAsSeen
    BY DEF SeenInv
  <1> QED
    BY <1>1, <1>2, <1>3, TypeCorrect, PTL DEF Spec

------------------------------------------------------------------------------
(* What a run is about to publish *)

PlanInv ==
    /\ \A w \in Workers : runs[w].version <= version
    /\ PlanStillValid

\* The placements of a run depend on the published placement alone.
LEMMA SamePlacements ==
    ASSUME UNCHANGED placement
    PROVE  \A r, id : Placements(r, id)' = Placements(r, id)
  BY DEF placement, Placements, PlacedAround, Stays, MayStay

\* Once store_version has moved, no plan is current.
LEMMA NewVersionVoidsPlans ==
    ASSUME TypeOK, PlanInv, version' \in Nat, version' > version,
           \A w \in Workers : runs'[w] \in {runs[w], NoRun}
    PROVE  PlanInv'
  <1>1. \A w \in Workers : runs[w].version \in Nat
    BY DEF TypeOK, Run
  <1>2. \A w \in Workers : \/ runs'[w].phase = "idle" /\ runs'[w].version = 0
                           \/ runs'[w].version < version'
    BY <1>1 DEF PlanInv, NoRun, TypeOK
  <1> QED
    BY <1>1, <1>2 DEF PlanInv, PlanStillValid, TypeOK, NoRun

\* A step of one run, or of none, that leaves the store alone.
LEMMA RunStepKeepsPlans ==
    ASSUME TypeOK, PlanInv, version' = version, UNCHANGED placement,
           \A w \in Workers :
              \/ runs'[w] = runs[w]
              \/ /\ runs'[w].version <= version
                 /\ runs'[w].phase = "planned" =>
                      runs'[w].groupOf \in Placements(runs'[w].rows, runs'[w].id)
    PROVE  PlanInv'
  <1>1. \A w \in Workers :
           /\ runs'[w].version <= version'
           /\ (runs'[w].phase = "planned" /\ runs'[w].version = version') =>
                runs'[w].groupOf \in Placements(runs'[w].rows, runs'[w].id)
    BY DEF PlanInv, PlanStillValid
  <1>2. \A w \in Workers :
           Placements(runs[w].rows, runs[w].id)' =
              Placements(runs'[w].rows, runs'[w].id)
    BY SamePlacements
  <1> QED
    BY <1>1, <1>2 DEF PlanInv, PlanStillValid

LEMMA PlanInvStep ==
    ASSUME TypeOK, PlanInv, [Next]_vars
    PROVE  PlanInv'
  <1>0. /\ version \in Nat
        /\ \A w \in Workers : runs[w] \in Run /\ runs[w].version \in Nat
        /\ runs \in [Workers -> Run]
    BY DEF TypeOK, Run
  <1>1. ASSUME NEW req \in sent, Deliver(req)
        PROVE  PlanInv'
    BY <1>0, <1>1, WriteStep, NewVersionVoidsPlans DEF outside
  <1>2. ASSUME NEW w \in Workers, SaveRunState(w)
        PROVE  PlanInv'
    <2>1. \A v \in Workers : runs'[v] \in {runs[v], NoRun}
      BY <1>0, <1>2 DEF SaveRunState
    <2> QED
      BY <1>0, <1>2, <2>1, PublishStep, NewVersionVoidsPlans
  <1>3. ASSUME NEW copy \in saved, RestoreStore(copy)
        PROVE  PlanInv'
    <2>1. version' \in Nat /\ version' > version /\ runs' = runs
      BY <1>3 DEF RestoreStore, RestoreVersions, outside
    <2> QED
      BY <2>1, NewVersionVoidsPlans
  <1>4. ASSUME Compose \/ Refresh \/ BackupStore \/ UNCHANGED vars
        PROVE  PlanInv'
    <2>1. version' = version /\ runs' = runs /\ UNCHANGED placement
      BY <1>4 DEF Compose, Refresh, BackupStore, vars, outside
    <2> QED
      BY <2>1, RunStepKeepsPlans
  <1>5. ASSUME NEW w \in Workers, Ingest(w) \/ RetryRun(w) \/ FailRun(w)
        PROVE  PlanInv'
    <2>1. /\ version' = version /\ UNCHANGED placement
          /\ \A v \in Workers \ {w} : runs'[v] = runs[v]
      BY <1>0, <1>5 DEF Ingest, RetryRun, FailRun
    <2>2. runs'[w].version = 0 /\ runs'[w].phase \in {"idle", "ingested"}
      <3>1. CASE Ingest(w)
        BY <1>0, <3>1 DEF Ingest, NoRun
      <3>2. CASE RetryRun(w)
        BY <1>0, <3>2 DEF RetryRun, NoRun
      <3>3. CASE FailRun(w)
        BY <1>0, <3>3 DEF FailRun, NoRun
      <3> QED
        BY <1>5, <3>1, <3>2, <3>3
    <2> QED
      BY <1>0, <2>1, <2>2, RunStepKeepsPlans
  <1>6. ASSUME NEW w \in Workers, LoadVersions(w)
        PROVE  PlanInv'
    <2>1. /\ version' = version /\ UNCHANGED placement
          /\ \A v \in Workers \ {w} : runs'[v] = runs[v]
      BY <1>0, <1>6 DEF LoadVersions
    <2>2. runs'[w].version = version /\ runs'[w].phase = "loaded"
      BY <1>0, <1>6 DEF LoadVersions, Run
    <2> QED
      BY <1>0, <2>1, <2>2, RunStepKeepsPlans
  <1>7. ASSUME NEW w \in Workers, Assign(w)
        PROVE  PlanInv'
    <2>1. /\ version' = version /\ UNCHANGED placement
          /\ \A v \in Workers \ {w} : runs'[v] = runs[v]
      BY <1>0, <1>7 DEF Assign
    <2>2. PICK f \in Placements(runs[w].rows, runs[w].id) :
             runs' = [runs EXCEPT ![w].phase = "planned", ![w].groupOf = f]
      BY <1>7 DEF Assign
    <2>3. /\ runs'[w].groupOf = f
          /\ runs'[w].version = runs[w].version
          /\ runs'[w].rows = runs[w].rows
          /\ runs'[w].id = runs[w].id
      BY <1>0, <2>2 DEF Run
    <2>4. /\ runs'[w].version <= version
          /\ runs'[w].groupOf \in Placements(runs'[w].rows, runs'[w].id)
      BY <2>2, <2>3 DEF PlanInv
    <2> QED
      BY <2>1, <2>4, RunStepKeepsPlans
  <1> QED
    BY <1>1, <1>2, <1>3, <1>4, <1>5, <1>6, <1>7 DEF Next, RunStep

\* A plan that passes the version check was made from the groups and reserved
\* numbers it is about to replace, although they were read after the version.
THEOREM PlansStayValid == Spec => []PlanStillValid
  <1>1. Init => PlanInv
    BY DEF Init, PlanInv, PlanStillValid, NoRun
  <1>2. TypeOK /\ PlanInv /\ [Next]_vars => PlanInv'
    BY PlanInvStep
  <1>3. PlanInv => PlanStillValid
    BY DEF PlanInv
  <1> QED
    BY <1>1, <1>2, <1>3, TypeCorrect, PTL DEF Spec

\* As long as no copy is put back, a number that lost its members names
\* nothing else: what is published takes only new numbers and kept ones, and
\* every number given out stays reserved.
THEOREM NumbersRetire ==
    ASSUME "restore" \notin Ops
    PROVE  Spec => NumbersAreNotReissued
  <1> DEFINE Kept ==
               /\ issued' >= issued
               /\ \A p \in PRs : groupOf'[p] # groupOf[p] => groupOf'[p] <= issued'
               /\ \A g \in Groups : g <= issued /\ Members(g) = {}
                                        => \A p \in PRs : groupOf'[p] # g
  <1>1. TypeOK /\ PlanStillValid /\ [Next]_vars => [Kept]_vars
    <2> SUFFICES ASSUME TypeOK, PlanStillValid, [Next]_vars
                 PROVE  Kept
      OBVIOUS
    <2>1. CASE issued' = issued /\ groupOf' = groupOf
      BY <2>1 DEF TypeOK, Members
    <2>2. ASSUME NEW w \in Workers, SaveRunState(w)
          PROVE  Kept
      <3> DEFINE f == runs[w].groupOf
      <3>1. f \in Placements(runs[w].rows, runs[w].id) /\ groupOf' = f
        BY <2>2 DEF SaveRunState, PlanStillValid
      <3>2. issued' >= issued /\ \A p \in PRs : f[p] <= issued'
        BY <2>2, <3>1 DEF SaveRunState, Reserve, TypeOK
      <3>3. ASSUME NEW g \in Groups, g <= issued, Members(g) = {},
                   NEW p \in PRs, f[p] = g
            PROVE  FALSE
        <4>1. issued \in Nat /\ g \in Nat \ {0}
          BY BoundsAssumption DEF TypeOK, Groups
        <4>2. \E q \in PRs : f[p] = f[q] /\ f[q] = groupOf[q]
          BY <3>1, <3>3, <4>1 DEF Placements, PlacedAround
        <4> QED
          BY <3>3, <4>2 DEF Members
      <3> QED
        BY <3>1, <3>2, <3>3
    <2>3. ASSUME NEW req \in sent, Deliver(req)
          PROVE  Kept
      BY <2>1, <2>3, WriteStep DEF placement
    <2>4. \A copy \in saved : ~ RestoreStore(copy)
      BY DEF RestoreStore
    <2>5. CASE BackupStore \/ StoreUnchanged
      BY <2>1, <2>5 DEF BackupStore, StoreUnchanged, placement
    <2> QED
      BY <2>2, <2>3, <2>4, <2>5, StepKinds
  <1> QED
    BY <1>1, TypeCorrect, PlansStayValid, PTL DEF Spec, NumbersAreNotReissued

------------------------------------------------------------------------------
(* Nothing leaves needs-you without a judgement *)

Judged(ds, rs, es) ==
    /\ \A d \in ds : \E e \in es : /\ e.family # "proposal"
                                  /\ d.pr \in DOMAIN e.bound
                                  /\ e.bound[d.pr] = d.rev
    /\ \A r \in rs : \E e \in es : e.family # "proposal" /\ e.bound = r.bound

JudgedInv ==
    /\ Judged(dispositions, rules, events)
    /\ \A copy \in saved : Judged(copy.dispositions, copy.rules, copy.events)

LEMMA EventKind ==
    ASSUME NEW f, NEW req, NEW g, NEW items
    PROVE  LET e == EventOf(f, req, g, items)
           IN  /\ e.family = f
               /\ e.bound = Bound(g)
  BY DEF EventOf

\* New rows are about the members and revisions of the event of the commit.
LEMMA JudgedRows ==
    ASSUME NEW items, NEW g, Applies(items, g)
    PROVE  \A d \in Finalize(BindRevisions(items, rows)) :
              d.pr \in DOMAIN Bound(g) /\ Bound(g)[d.pr] = d.rev
  <1>1. \A i \in items : i \in Item /\ i.pr \in Members(g)
    BY DEF Applies, WellFormed
  <1>2. \A b \in BindRevisions(items, rows) :
           b.pr \in Members(g) /\ b.rev = rows[b.pr]
    BY <1>1 DEF BindRevisions, Item
  <1> QED
    BY <1>2 DEF Finalize, Bound

LEMMA JudgedStep ==
    ASSUME TypeOK, NEW req \in sent, Deliver(req),
           Judged(dispositions, rules, events)
    PROVE  Judged(dispositions', rules', events')
  <1>1. events \subseteq events'
    BY RecordStep DEF Effect
  <1>2. ASSUME NEW items, NEW g, Applies(items, g), rules' = rules,
               \E e \in events' : e.family # "proposal" /\ e.bound = Bound(g)
        PROVE  Judged(dispositions', rules', events')
    <2> DEFINE made == Finalize(BindRevisions(items, rows))
    <2>1. PICK e \in events' : e.family # "proposal" /\ e.bound = Bound(g)
      BY <1>2
    <2>2. \A d \in made : d.pr \in DOMAIN e.bound /\ e.bound[d.pr] = d.rev
      BY <1>2, <2>1, JudgedRows
    <2>3. \A d \in dispositions' : d \in dispositions \/ d \in made
      BY <1>2 DEF Applies, Replace
    <2> HIDE DEF made
    <2> QED
      BY <1>1, <1>2, <2>1, <2>2, <2>3 DEF Judged
  <1>3. CASE SaveDispositions(req)
    <2>1. Applies(req.items, req.group) /\ rules' = rules
      BY <1>3, RequestType DEF SaveDispositions, Applies, Commit
    <2>2. \E items : EventOf("disposition", req, req.group, items) \in events'
      BY <1>3 DEF SaveDispositions, Record
    <2> QED
      BY <1>2, <2>1, <2>2, EventKind
  <1>4. ASSUME NEW p \in proposals, AcceptProposal(p, req)
        PROVE  Judged(dispositions', rules', events')
    <2>1. Applies(ItemsOf(p, req), p.group) /\ rules' = rules
      BY <1>4, ItemsOfType DEF AcceptProposal, Applies, Commit
    <2>2. \E items : EventOf("disposition", req, p.group, items) \in events'
      BY <1>4 DEF AcceptProposal, Record
    <2> QED
      BY <1>2, <2>1, <2>2, EventKind
  <1>5. CASE DecideGroup(req)
    <2>1. dispositions' = dispositions
      BY <1>5 DEF DecideGroup, Commit
    <2>2. EventOf("decision", req, req.group, {}) \in events'
      BY <1>5 DEF DecideGroup, Record
    <2>3. \A r \in rules' : r \in rules \/ r.bound = Bound(req.group)
      BY <1>5 DEF DecideGroup
    <2> QED
      BY <1>1, <2>1, <2>2, <2>3, EventKind DEF Judged
  <1>6. ASSUME NEW p \in proposals,
               EditProposal(p, req) \/ RejectProposal(p, req)
        PROVE  Judged(dispositions', rules', events')
    <2>1. dispositions' = dispositions /\ rules' = rules
      BY <1>6 DEF EditProposal, RejectProposal, Commit
    <2> QED
      BY <1>1, <2>1 DEF Judged
  <1>7. CASE DraftProposal(req)
    <2>1. dispositions' = dispositions /\ rules' = rules
      BY <1>7 DEF DraftProposal, Commit
    <2> QED
      BY <1>1, <2>1 DEF Judged
  <1> QED
    BY <1>3, <1>4, <1>5, <1>6, <1>7 DEF Deliver

\* A group that is not in needs-you has an active row for each member, or a
\* rule about exactly its members and their revisions.
LEMMA SettledGroup ==
    ASSUME NEW g, Members(g) # {}, PileOf(g) # "needs_you"
    PROVE  \/ \A p \in Members(g) :
                 \E d \in dispositions : d.pr = p /\ d.rev = rows[p]
           \/ \E r \in rules : r.bound = Bound(g)
  <1> DEFINE active == ActiveDispositions(dispositions, rows)
             locals == {d \in active : d.pr \in DOMAIN Bound(g)}
             settled == {d \in locals : d.kind # "pending"}
             applying == {r \in rules : RuleApplies(r, g, Bound(g), evidence)}
  <1>1. \/ locals # {} /\ {d.pr : d \in settled} = DOMAIN Bound(g)
        \/ applying # {}
    BY DEF PileOf, Pile
  <1>2. DOMAIN Bound(g) = Members(g)
    BY DEF Bound
  <1>3. \A d \in settled : d \in dispositions /\ d.rev = rows[d.pr]
    BY DEF ActiveDispositions, IsActive
  <1>4. \A r \in applying : r \in rules /\ r.bound = Bound(g)
    BY DEF RuleApplies
  <1> HIDE DEF settled, applying
  <1> QED
    BY <1>1, <1>2, <1>3, <1>4

\* A group leaves needs-you only by human writes about the very revisions its
\* members have now, whatever was renumbered, republished or put back.
THEOREM UnjudgedStays == Spec => []UnjudgedStaysPending
  <1>1. Init => JudgedInv
    BY DEF Init, JudgedInv, Judged
  <1>2. TypeOK /\ JudgedInv /\ [Next]_vars => JudgedInv'
    <2> SUFFICES ASSUME TypeOK, JudgedInv, [Next]_vars
                 PROVE  JudgedInv'
      OBVIOUS
    <2>1. ASSUME NEW req \in sent, Deliver(req)
          PROVE  JudgedInv'
      BY <2>1, WriteStep, JudgedStep DEF JudgedInv
    <2>2. ASSUME NEW w \in Workers, SaveRunState(w)
          PROVE  JudgedInv'
      BY <2>2, PublishStep DEF JudgedInv, judgements
    <2>3. CASE BackupStore
      BY <2>3 DEF BackupStore, StoreContent, JudgedInv, judgements
    <2>4. ASSUME NEW copy \in saved, RestoreStore(copy)
          PROVE  JudgedInv'
      BY <2>4 DEF RestoreStore, JudgedInv
    <2>5. CASE StoreUnchanged
      BY <2>5 DEF StoreUnchanged, JudgedInv, judgements
    <2> QED
      BY <2>1, <2>2, <2>3, <2>4, <2>5, StepKinds
  <1>3. JudgedInv => UnjudgedStaysPending
    <2> SUFFICES ASSUME JudgedInv, NEW g \in Groups, Members(g) # {},
                        PileOf(g) # "needs_you", NEW p \in Members(g)
                 PROVE  \E e \in events : /\ e.family # "proposal"
                                          /\ p \in DOMAIN e.bound
                                          /\ e.bound[p] = rows[p]
      BY DEF UnjudgedStaysPending
    <2>1. CASE \E d \in dispositions : d.pr = p /\ d.rev = rows[p]
      BY <2>1 DEF JudgedInv, Judged
    <2>2. CASE \E r \in rules : r.bound = Bound(g)
      BY <2>2 DEF JudgedInv, Judged, Bound
    <2> QED
      BY <2>1, <2>2, SettledGroup
  <1> QED
    BY <1>1, <1>2, <1>3, TypeCorrect, PTL DEF Spec
------------------------------------------------------------------------------
(* Acceptance *)

\* The disposition events of the proposal with a number.
Applied(es, n) == {e \in es : e.family = "disposition" /\ e.req.proposal = n}

AsDrafted(p, es) ==
    IF p.status = "accepted"
    THEN \E e \in Applied(es, p.id) : /\ Applied(es, p.id) = {e}
                                      /\ e.id = p.event
                                      /\ e.bound = p.bound
                                      /\ e.items = p.items
    ELSE Applied(es, p.id) = {}

\* No event is about a proposal that is still to come: the next number is
\* free of events too.  Number 0 is no proposal's.
Accounted(ps, es, v) ==
    /\ \A p \in ps : p.id > 0 /\ p.id <= v /\ AsDrafted(p, es)
    /\ \A p, q \in ps : p.id = q.id => p = q
    /\ \A e \in es : e.family = "disposition" => e.req.proposal <= v

AcceptInv ==
    /\ \A r \in sent : r.op = "dispose" => r.proposal = 0
    /\ Accounted(proposals, events, version)
    /\ \A copy \in saved :
          Accounted(copy.proposals, copy.events, copy.version)

LEMMA FormsWithoutProposal ==
    ASSUME TypeOK, Compose
    PROVE  \A r \in sent' : r \in sent \/ (r.op = "dispose" => r.proposal = 0)
  <1>1. ASSUME NEW g, NEW k, NEW r \in FormsOf(g, k)
        PROVE  r.proposal = 0
    <2>1. ASSUME NEW op, NEW items,
                 r = [Form(op, g, k) EXCEPT !.items = items]
          PROVE  r.proposal = 0
      BY <2>1 DEF Form
    <2>2. ASSUME NEW op, NEW d, r = [Form(op, g, k) EXCEPT !.decision = d]
          PROVE  r.proposal = 0
      BY <2>2 DEF Form
    <2> QED
      BY <1>1, <2>1, <2>2 DEF FormsOf
  <1>2. ASSUME NEW p, NEW k, NEW r \in FormsOn(p, k)
        PROVE  r.op # "dispose"
    <2> DEFINE forms == {[Form(op, p.group, k) EXCEPT !.proposal = p.id] :
                            op \in Ops}
    <2>1. ASSUME NEW f \in forms, NEW items
          PROVE  [f EXCEPT !.items = items].op = f.op
      <3>1. PICK op \in Ops :
               f = [Form(op, p.group, k) EXCEPT !.proposal = p.id]
        OBVIOUS
      <3> QED
        BY <3>1 DEF Form
    <2>2. \/ r \in forms /\ r.op \in {"accept", "reject"}
          \/ \E f \in forms : \E items \in FormItems(Members(p.group)) :
                /\ f.op \in {"accept", "edit"}
                /\ r = [f EXCEPT !.items = items]
      BY <1>2 DEF FormsOn
    <2> HIDE DEF forms
    <2> QED
      BY <2>1, <2>2
  <1> QED
    BY <1>1, <1>2 DEF Compose

LEMMA EventParts ==
    ASSUME NEW f, NEW req, NEW g, NEW items
    PROVE  LET e == EventOf(f, req, g, items)
           IN  /\ e.id = NextVersion /\ e.family = f /\ e.req = req
               /\ e.bound = Bound(g) /\ e.items = items
  BY DEF EventOf

\* Events that say nothing of a proposal leave its account as it is.
LEMMA SameAccount ==
    ASSUME NEW p, NEW es, NEW new, AsDrafted(p, es),
           \A e \in new : e.family = "disposition" => e.req.proposal # p.id
    PROVE  AsDrafted(p, es \cup new)
  <1>1. Applied(es \cup new, p.id) = Applied(es, p.id)
    BY DEF Applied
  <1> QED
    BY <1>1 DEF AsDrafted

\* The number of the next commit has no events.
LEMMA FreshAccount ==
    ASSUME NEW ps, NEW es, NEW v \in Nat, Accounted(ps, es, v),
           \A e \in es : e.req.proposal \in Nat
    PROVE  Applied(es, v + 1) = {}
  BY DEF Accounted, Applied

LEMMA ProposalParts ==
    ASSUME NEW p \in Proposal, NEW status, NEW items, NEW event
    PROVE  LET q == [p EXCEPT !.status = status, !.items = items,
                              !.event = event]
           IN  /\ q.id = p.id /\ q.bound = p.bound /\ q.status = status
               /\ q.items = items /\ q.event = event
  BY DEF Proposal

LEMMA AccountStep ==
    ASSUME TypeOK, AcceptInv, NEW req \in sent, Deliver(req)
    PROVE  Accounted(proposals', events', version')
  <1>0. /\ version \in Nat /\ version' = version + 1 /\ NextVersion = version + 1
        /\ Accounted(proposals, events, version)
        /\ \A p \in proposals : p.id \in Nat
        /\ \A e \in events : e.req.proposal \in Nat
        /\ req.proposal \in Nat
    BY WriteStep DEF TypeOK, Event, Request, Proposal, NextVersion, AcceptInv
  <1>a. /\ \A p \in proposals : /\ p.id > 0 /\ p.id <= version
                                /\ AsDrafted(p, events)
        /\ \A p, q \in proposals : p.id = q.id => p = q
        /\ \A e \in events : e.family = "disposition"
                                 => e.req.proposal <= version
    BY <1>0 DEF Accounted
  <1>1. ASSUME NEW new, events' = events \cup new, proposals' = proposals,
               \A e \in new : e.family = "disposition" => e.req.proposal = 0
        PROVE  Accounted(proposals', events', version')
    <2>1. ASSUME NEW p \in proposals
          PROVE  AsDrafted(p, events')
      <3>1. \A e \in new : e.family = "disposition" => e.req.proposal # p.id
        BY <1>0, <1>a, <1>1
      <3> QED
        BY <1>a, <1>1, <3>1, SameAccount
    <2>2. \A e \in events' : e.family = "disposition"
                                => e.req.proposal <= version'
      BY <1>0, <1>a, <1>1
    <2>3. \A p \in proposals' : p.id > 0 /\ p.id <= version'
      BY <1>0, <1>a, <1>1
    <2> QED
      BY <1>1, <1>a, <2>1, <2>2, <2>3 DEF Accounted
  <1>2. CASE SaveDispositions(req)
    <2>1. PICK e : /\ events' = events \cup {e} /\ e.req = req
                   /\ proposals' = proposals
      BY <1>2, EventParts DEF SaveDispositions, Record
    <2>2. req.proposal = 0
      BY <1>2 DEF SaveDispositions, AcceptInv
    <2> DEFINE new == {e}
    <2>3. events' = events \cup new /\ \A x \in new : x.req.proposal = 0
      BY <2>1, <2>2
    <2> HIDE DEF new
    <2> QED
      BY <1>1, <2>1, <2>3
  <1>3. CASE DecideGroup(req)
    <2>1. PICK e : /\ events' = events \cup {e} /\ e.family = "decision"
                   /\ proposals' = proposals
      BY <1>3, EventParts DEF DecideGroup, Record
    <2> DEFINE new == {e}
    <2>2. events' = events \cup new /\ \A x \in new : x.family = "decision"
      BY <2>1
    <2> HIDE DEF new
    <2> QED
      BY <1>1, <2>1, <2>2
  <1>4. CASE DraftProposal(req)
    <2>1. PICK d, e : /\ events' = events \cup {e} /\ e.family = "proposal"
                      /\ proposals' = proposals \cup {d}
                      /\ d.id = version + 1 /\ d.status = "draft"
      <3> DEFINE bound == BindRevisions(req.items, rows)
                 d == [id |-> NextVersion, status |-> "draft",
                       group |-> req.group, bound |-> Bound(req.group),
                       items |-> bound, event |-> 0]
                 e == EventOf("proposal", req, req.group, bound)
      <3>1. /\ events' = events \cup {e} /\ proposals' = proposals \cup {d}
        BY <1>4 DEF DraftProposal, Record
      <3>2. d.id = version + 1 /\ d.status = "draft"
        BY <1>0
      <3>3. e.family = "proposal"
        BY EventParts
      <3> HIDE DEF d, e
      <3> QED
        BY <3>1, <3>2, <3>3
    <2>2. \A p \in proposals : AsDrafted(p, events')
      BY <1>0, <2>1, SameAccount DEF Accounted
    <2>3. AsDrafted(d, events')
      <3>1. AsDrafted(d, events)
        BY <1>0, <2>1, FreshAccount DEF AsDrafted
      <3> QED
        BY <2>1, <3>1, SameAccount
    <2>4. \A x \in events' : x.family = "disposition"
                                => x.req.proposal <= version'
      BY <1>0, <1>a, <2>1
    <2>5. \A p \in proposals' : p.id > 0 /\ p.id <= version'
      BY <1>0, <1>a, <2>1
    <2>6. \A p, q \in proposals' : p.id = q.id => p = q
      <3>1. \A p \in proposals : p.id # d.id
        BY <1>0, <1>a, <2>1
      <3> QED
        BY <1>a, <2>1, <3>1
    <2> QED
      BY <2>1, <2>2, <2>3, <2>4, <2>5, <2>6 DEF Accounted
  <1>5. ASSUME NEW p \in proposals, NEW q, NEW new,
               proposals' = (proposals \ {p}) \cup {q},
               events' = events \cup new,
               q.id = p.id, p.id = req.proposal,
               \A e \in new : e.req = req,
               AsDrafted(q, events')
        PROVE  Accounted(proposals', events', version')
    <2>1. \A x \in proposals \ {p} : x.id # p.id /\ AsDrafted(x, events)
      BY <1>0 DEF Accounted
    <2>2. \A x \in proposals \ {p} : AsDrafted(x, events')
      BY <1>5, <2>1, SameAccount
    <2>3. \A e \in events' : e.family = "disposition"
                                => e.req.proposal <= version'
      BY <1>0, <1>a, <1>5
    <2>4. \A x \in proposals' : x.id > 0 /\ x.id <= version'
      BY <1>0, <1>a, <1>5
    <2>5. \A x, y \in proposals' : x.id = y.id => x = y
      BY <1>a, <1>5, <2>1
    <2> QED
      BY <1>5, <2>2, <2>3, <2>4, <2>5 DEF Accounted
  <1>6. ASSUME NEW p \in proposals, Actionable(p, req)
        PROVE  /\ p \in Proposal
               /\ p.id = req.proposal
               /\ Applied(events, p.id) = {}
               /\ p.bound = Bound(p.group)
    BY <1>0, <1>6 DEF Actionable, Accounted, AsDrafted, TypeOK
  <1>7. ASSUME NEW p \in proposals, NEW status \in {"edited", "rejected"},
               NEW items, NEW e,
               Actionable(p, req), SetProposal(p, status, items, p.event),
               events' = events \cup {e}, e.family = "proposal", e.req = req
        PROVE  Accounted(proposals', events', version')
    <2>1. PICK q : /\ proposals' = (proposals \ {p}) \cup {q}
                   /\ q.id = p.id /\ q.status = status
      <3> DEFINE q == [p EXCEPT !.status = status, !.items = items,
                                !.event = p.event]
      <3>1. proposals' = (proposals \ {p}) \cup {q}
        BY <1>7 DEF SetProposal
      <3>2. q.id = p.id /\ q.status = status
        BY <1>6, <1>7, ProposalParts
      <3> HIDE DEF q
      <3> QED
        BY <3>1, <3>2
    <2>2. AsDrafted(q, events)
      BY <1>6, <1>7, <2>1 DEF AsDrafted
    <2>3. AsDrafted(q, events')
      BY <1>7, <2>2, SameAccount
    <2> QED
      BY <1>5, <1>6, <1>7, <2>1, <2>3
  <1>8. ASSUME NEW p \in proposals, EditProposal(p, req)
        PROVE  Accounted(proposals', events', version')
    <2> DEFINE bound == BindRevisions(req.items, rows)
               e == EventOf("proposal", req, p.group, bound)
    <2>1. /\ Actionable(p, req)
          /\ SetProposal(p, "edited", bound, p.event)
          /\ events' = events \cup {e}
      BY <1>8 DEF EditProposal, Record
    <2>2. e.family = "proposal" /\ e.req = req
      BY EventParts
    <2> HIDE DEF bound, e
    <2> QED
      BY <1>7, <2>1, <2>2
  <1>9. ASSUME NEW p \in proposals, RejectProposal(p, req)
        PROVE  Accounted(proposals', events', version')
    <2> DEFINE e == EventOf("proposal", req, p.group, {})
    <2>1. /\ Actionable(p, req)
          /\ SetProposal(p, "rejected", p.items, p.event)
          /\ events' = events \cup {e}
      BY <1>9 DEF RejectProposal, Record
    <2>2. e.family = "proposal" /\ e.req = req
      BY EventParts
    <2> HIDE DEF e
    <2> QED
      BY <1>7, <2>1, <2>2
  <1>10. ASSUME NEW p \in proposals, AcceptProposal(p, req)
         PROVE  Accounted(proposals', events', version')
    <2> DEFINE bound == BindRevisions(ItemsOf(p, req), rows)
               e == EventOf("disposition", req, p.group, bound)
               f == EventOf("proposal", req, p.group, bound)
    <2>1. /\ Actionable(p, req)
          /\ SetProposal(p, "accepted", bound, NextVersion)
          /\ events' = events \cup {e, f}
      BY <1>10 DEF AcceptProposal, Record
    <2>2. /\ e.id = NextVersion /\ e.family = "disposition" /\ e.req = req
          /\ e.bound = Bound(p.group) /\ e.items = bound
          /\ f.family = "proposal" /\ f.req = req
      BY EventParts
    <2> HIDE DEF bound, e, f
    <2>3. PICK q : /\ proposals' = (proposals \ {p}) \cup {q}
                   /\ q.id = p.id /\ q.status = "accepted"
                   /\ q.bound = p.bound /\ q.items = bound
                   /\ q.event = NextVersion
      <3> DEFINE q == [p EXCEPT !.status = "accepted", !.items = bound,
                                !.event = NextVersion]
      <3>1. proposals' = (proposals \ {p}) \cup {q}
        BY <2>1 DEF SetProposal
      <3>2. /\ q.id = p.id /\ q.status = "accepted"
            /\ q.bound = p.bound /\ q.items = bound
            /\ q.event = NextVersion
        BY <1>6, <2>1, ProposalParts
      <3> HIDE DEF q
      <3> QED
        BY <3>1, <3>2
    <2>4. Applied(events', q.id) = {e}
      BY <1>6, <2>1, <2>2, <2>3 DEF Applied
    <2>5. AsDrafted(q, events')
      BY <1>6, <2>1, <2>2, <2>3, <2>4 DEF AsDrafted
    <2> DEFINE new == {e, f}
    <2>6. events' = events \cup new /\ \A x \in new : x.req = req
      BY <2>1, <2>2
    <2>7. p.id = req.proposal
      BY <1>6, <2>1
    <2> HIDE DEF new
    <2> QED
      BY <1>5, <2>3, <2>5, <2>6, <2>7
  <1> QED
    BY <1>2, <1>3, <1>4, <1>8, <1>9, <1>10 DEF Deliver

\* A later version only adds numbers nobody has used.
LEMMA AccountedLater ==
    ASSUME NEW ps, NEW es, NEW v \in Nat, NEW w \in Nat, w > v,
           \A p \in ps : p.id \in Nat, \A e \in es : e.req.proposal \in Nat,
           Accounted(ps, es, v)
    PROVE  Accounted(ps, es, w)
  BY DEF Accounted

\* A proposal is applied once, by its acceptance, with the items it then has
\* and on the revisions it was drafted about; a proposal that is open or was
\* rejected has changed nothing, whatever restores came in between.
THEOREM AcceptedOnlyAsDrafted == Spec => []AcceptedAsDrafted
  <1>1. Init => AcceptInv
    BY DEF Init, AcceptInv, Accounted
  <1>2. TypeOK /\ AcceptInv /\ [Next]_vars => AcceptInv'
    <2> SUFFICES ASSUME TypeOK, AcceptInv, [Next]_vars
                 PROVE  AcceptInv'
      OBVIOUS
    <2>0. \A r \in sent' : r.op = "dispose" => r.proposal = 0
      BY SentStep, FormsWithoutProposal DEF AcceptInv
    <2>1. ASSUME NEW req \in sent, Deliver(req)
          PROVE  AcceptInv'
      BY <2>0, <2>1, WriteStep, AccountStep DEF AcceptInv
    <2>2. ASSUME NEW w \in Workers, SaveRunState(w)
          PROVE  AcceptInv'
      <3>1. /\ version \in Nat /\ version' \in Nat /\ version' > version
            /\ proposals' = proposals /\ events' = events /\ saved' = saved
        BY <2>2, PublishStep DEF TypeOK, judgements
      <3>2. /\ \A p \in proposals : p.id \in Nat
            /\ \A e \in events : e.req.proposal \in Nat
        BY DEF TypeOK, Proposal, Event, Request
      <3>3. Accounted(proposals, events, version')
        BY <3>1, <3>2, AccountedLater DEF AcceptInv
      <3> QED
        BY <2>0, <3>1, <3>3 DEF AcceptInv
    <2>3. CASE BackupStore
      BY <2>0, <2>3 DEF BackupStore, StoreContent, AcceptInv, judgements
    <2>4. ASSUME NEW copy \in saved, RestoreStore(copy)
          PROVE  AcceptInv'
      <3>1. /\ copy \in Content /\ version' \in Nat /\ version' > copy.version
            /\ saved' = saved
            /\ proposals' = copy.proposals /\ events' = copy.events
        BY <2>4, RestoreStep DEF RestoreStore
      <3>2. /\ copy.version \in Nat
            /\ \A p \in copy.proposals : p.id \in Nat
            /\ \A e \in copy.events : e.req.proposal \in Nat
        BY <3>1 DEF Content, Proposal, Event, Request
      <3>3. Accounted(copy.proposals, copy.events, version')
        BY <3>1, <3>2, AccountedLater DEF AcceptInv
      <3> QED
        BY <2>0, <3>1, <3>3 DEF AcceptInv
    <2>5. CASE StoreUnchanged
      BY <2>0, <2>5 DEF StoreUnchanged, AcceptInv, judgements
    <2> QED
      BY <2>1, <2>2, <2>3, <2>4, <2>5, StepKinds
  <1>3. AcceptInv => AcceptedAsDrafted
    BY DEF AcceptInv, Accounted, AsDrafted, Applied, AcceptedAsDrafted
  <1> QED
    BY <1>1, <1>2, <1>3, TypeCorrect, PTL DEF Spec

==============================================================================
