----------------------------- MODULE FileReview -----------------------------
(***************************************************************************)
(* File-level review of one pull request (triage/store.py): what humans    *)
(* looked at, what they found, what an agent drafted and covered, and the  *)
(* adoption of drafted findings.  The five writers share the store's       *)
(* version, one idempotency map and one append-only audit trail.           *)
(*                                                                         *)
(* Every record is bound to one exact revision of the pull request.  The   *)
(* pipeline replaces that revision while pages, forms and agents still     *)
(* hold an older one; records of older revisions stay and are shown as     *)
(* stale.  Each writer holds the exclusive lock over its checks and its    *)
(* commit and is one action; a refused write changes nothing.              *)
(*                                                                         *)
(* Ids are random in the code; here the id of an event, and of what it     *)
(* creates, is the store version its write commits.                        *)
(***************************************************************************)
EXTENDS Naturals, FiniteSets

CONSTANTS
    Revs,           \* exact revisions of the pull request
    Paths,          \* file paths, current and former
    Texts,          \* what a human may write in a finding
    Keys,           \* idempotency keys
    None,           \* "no row", "no former name", "no path"
    Manifest,       \* the changed files of each revision
    Offers,         \* what an agent of this instance may draft
    Workloads,      \* bound: the operations and texts one behaviour mixes,
                    \* and how many requests of them are ever composed
    MaxVersion      \* MAX_SAFE_INTEGER: the last version a commit may get

\* Operations the clients of this instance use.
Ops == UNION {w.ops : w \in Workloads}

PATCHES == {"complete", "partial", "missing"}

COVERAGE_STATUSES == {"inspected", "skipped", "missing"}

\* Mutant: the status of a reopened finding is not one a finding may have.
MISSPELT_ACTIONS ==
    [resolve |-> "resolved", reopen |-> "reopened", dismiss |-> "dismissed"]

\* What each action on a finding makes of its status.
FINDING_ACTIONS ==
    [resolve |-> "resolved", reopen |-> "open", dismiss |-> "dismissed"]

Entry == [path : Paths, previous : Paths \cup {None}, patch : PATCHES]

Claim == [path : Paths, status : COVERAGE_STATUSES]

ASSUME AbsenceAssumption == None \notin Revs \cup Paths
ASSUME ManifestAssumption ==
    /\ Manifest \in [Revs -> SUBSET Entry]
    /\ \A r \in Revs : \A e, f \in Manifest[r] : e.path = f.path => e = f
    /\ \A r \in Revs : IsFiniteSet(Manifest[r])
ASSUME OffersAssumption ==
    Offers \subseteq [findings : SUBSET Paths, coverage : SUBSET Claim]
ASSUME LimitsAssumption == MaxVersion \in Nat

VARIABLES
    current,        \* the revision of the PR's row in last_prs, None if closed
    shown,          \* revisions a page or a tool has shown (auxiliary)
    version,        \* store_version
    snapshot,       \* snapshot_version
    reviews,        \* file_reviews
    findings,       \* file_findings
    coverage,       \* file_coverage
    drafts,         \* file_review_drafts
    events,         \* file_review_events
    keys,           \* file_review_idempotency
    sent            \* requests composed so far; each may be delivered again

records == <<reviews, findings, coverage, drafts>>
row == <<current, shown, snapshot>>
vars == <<row, version, records, events, keys, sent>>

------------------------------------------------------------------------------
(* Types *)

\* What a request says, which with its author is its identity: a retry says
\* the same under the same key, whatever versions it expects.
About ==
    [op : {"review"}, rev : Revs, path : Paths, reviewed : BOOLEAN]
    \cup [op : {"finding"}, rev : Revs, path : Paths, text : Texts]
    \cup [op : {"action"}, finding : Nat, action : DOMAIN FINDING_ACTIONS]
    \cup [op : {"draft"}, rev : Revs, findings : SUBSET Paths,
          coverage : SUBSET Claim]
    \cup [op : {"adopt"}, draft : Nat, finding : Paths,
          action : {"accept", "dismiss"}]

Request == [about : About, key : Keys, version : Nat, snapshot : Nat]

Review == [path : Paths, rev : Revs, reviewed : BOOLEAN, event : Nat]

Finding == [id : Nat, path : Paths, rev : Revs,
            status : {"open", "resolved", "dismissed"},
            origin : {"human", "agent_draft"}, draft : Nat,
            drafted : Paths \cup {None}, missing : BOOLEAN]

Coverage == [path : Paths, rev : Revs, status : COVERAGE_STATUSES,
             draft : Nat]

\* A drafted finding is known by the path it was drafted under: a draft of
\* this model says one thing of a path at most.
Drafted == [name : Paths, path : Paths, adopted : Nat,
            status : {"pending", "accepted", "dismissed"}]

Draft == [id : Nat, rev : Revs, findings : SUBSET Drafted]

Event == [id : Nat, about : About, rev : Revs, path : Paths \cup {None}]

Key == [key : Keys, about : About, event : Nat]

TypeOK ==
    /\ current \in Revs \cup {None}
    /\ shown \subseteq Revs
    /\ version \in Nat
    /\ snapshot \in Nat
    /\ reviews \subseteq Review
    /\ findings \subseteq Finding
    /\ coverage \subseteq Coverage
    /\ drafts \subseteq Draft
    /\ events \subseteq Event
    /\ keys \subseteq Key
    /\ sent \subseteq Request

------------------------------------------------------------------------------
(* The manifest of a revision *)

Exact(r, p) == {e \in Manifest[r] : e.path = p}

Formerly(r, p) == {e \in Manifest[r] : e.previous = p}

\* The entry with this path; failing that, the entry renamed from it.
FilesNamed(r, p) == IF Exact(r, p) # {} THEN Exact(r, p) ELSE Formerly(r, p)

Known(r, p) == FilesNamed(r, p) # {}

FileOf(r, p) == CHOOSE e \in FilesNamed(r, p) : TRUE

\* Mutant: the record keeps the path the request used.
AsSubmitted(r, p) == p

\* Every record is kept under the current path of its file.
Canonical(r, p) == FileOf(r, p).path

\* Mutant: some patch bytes are enough.
SomePatch(e) == e.patch # "missing"

Reviewable(e) == e.patch = "complete"

Inspectable(e) == e.patch # "missing"

\* Mutant: a row of an older revision is taken for the row to replace.
SamePath(x, p, r) == x.path = p

SameFile(x, p, r) == x.path = p /\ x.rev = r

------------------------------------------------------------------------------
(* Initial state: an imported pull request, nothing reviewed *)

Init ==
    /\ current \in Revs
    /\ shown = {current}
    /\ version = 0
    /\ snapshot = 0
    /\ reviews = {}
    /\ findings = {}
    /\ coverage = {}
    /\ drafts = {}
    /\ events = {}
    /\ keys = {}
    /\ sent = {}

------------------------------------------------------------------------------
(* Clients: browser forms and agent tools.  A request quotes the versions   *)
(* of the state last read and a revision it was shown, perhaps earlier.     *)

Forms ==
    [op : Ops \cap {"review"}, rev : shown, path : Paths, reviewed : BOOLEAN]
    \cup [op : Ops \cap {"finding"}, rev : shown, path : Paths, text : Texts]
    \cup [op : Ops \cap {"action"}, finding : {f.id : f \in findings},
          action : DOMAIN FINDING_ACTIONS]
    \cup {[op |-> op, rev |-> r, findings |-> o.findings,
           coverage |-> o.coverage]
          : op \in Ops \cap {"draft"}, r \in shown, o \in Offers}
    \cup UNION {{[op |-> op, draft |-> d.id, finding |-> x.name, action |-> a]
                 : op \in Ops \cap {"adopt"}, x \in d.findings,
                   a \in {"accept", "dismiss"}}
                : d \in drafts}

FormsOf(w) ==
    {f \in Forms : f.op \in w.ops /\ (f.op = "finding" => f.text \in w.texts)}

Send(about, key) ==
    sent' = sent \cup {[about |-> about, key |-> key, version |-> version,
                        snapshot |-> snapshot]}

\* The requests composed so far are those of one workload.
Compose ==
    /\ \E w \in Workloads :
          /\ Cardinality(sent) < w.sent
          /\ {req.about.op : req \in sent} \subseteq w.ops
          /\ \E about \in FormsOf(w), key \in Keys : Send(about, key)
    /\ UNCHANGED <<row, version, records, events, keys>>

------------------------------------------------------------------------------
(* What every writer does first and last *)

\* Mutant: a key that was used before is not looked up.
NotReplayed(req) == TRUE

\* A known key answers with the recorded result, or refuses if the request
\* says something else; either way nothing is written.
Unused(req) == \A k \in keys : k.key # req.key

\* Mutant: only the snapshot version is compared.
SnapshotMatches(req) == req.snapshot = snapshot

VersionsMatch(req) == req.version = version /\ req.snapshot = snapshot

NextVersion == version + 1

Admitted(req) == Unused(req) /\ VersionsMatch(req)

\* Mutant: the revision a request names is not compared.
AnyRevision(r) == current # None

\* The row exists and its pinned evidence is the revision the write is about.
IsCurrent(r) == current # None /\ r = current

\* The audit event, the idempotency record and the commit.
Record(req, r, p) ==
    /\ NextVersion <= MaxVersion
    /\ version' = NextVersion
    /\ events' = events \cup {[id |-> NextVersion, about |-> req.about,
                               rev |-> r, path |-> p]}
    /\ keys' = keys \cup {[key |-> req.key, about |-> req.about,
                           event |-> NextVersion]}
    /\ UNCHANGED <<row, sent>>

------------------------------------------------------------------------------
(* Human writers *)

SaveFileReview(req) ==
    /\ req.about.op = "review"
    /\ Admitted(req)
    /\ IsCurrent(req.about.rev)
    /\ Known(current, req.about.path)
    /\ req.about.reviewed => Reviewable(FileOf(current, req.about.path))
    /\ LET path == Canonical(current, req.about.path) IN
          /\ reviews' = {x \in reviews : ~SameFile(x, path, current)}
                        \cup {[path |-> path, rev |-> current,
                               reviewed |-> req.about.reviewed,
                               event |-> NextVersion]}
          /\ Record(req, current, path)
    /\ UNCHANGED <<findings, coverage, drafts>>

\* Also of a file whose patch is missing.
SaveFileFinding(req) ==
    /\ req.about.op = "finding"
    /\ Admitted(req)
    /\ IsCurrent(req.about.rev)
    /\ Known(current, req.about.path)
    /\ LET file == FileOf(current, req.about.path)
           path == Canonical(current, req.about.path) IN
          /\ findings' = findings \cup
                {[id |-> NextVersion, path |-> path, rev |-> current,
                  status |-> "open", origin |-> "human", draft |-> 0,
                  drafted |-> None, missing |-> ~Reviewable(file)]}
          /\ Record(req, current, path)
    /\ UNCHANGED <<reviews, coverage, drafts>>

\* Mutant: only an open finding can be acted on.
OnlyIfOpen(f, action) ==
    IF f.status = "open" THEN [f EXCEPT !.status = FINDING_ACTIONS[action]]
    ELSE f

Acted(f, action) == [f EXCEPT !.status = FINDING_ACTIONS[action]]

\* Findings of any revision, in any status.
UpdateFileFinding(req) ==
    /\ req.about.op = "action"
    /\ Admitted(req)
    /\ \E f \in findings :
          /\ f.id = req.about.finding
          /\ findings' = (findings \ {f}) \cup {Acted(f, req.about.action)}
          /\ Record(req, f.rev, f.path)
    /\ UNCHANGED <<reviews, coverage, drafts>>

------------------------------------------------------------------------------
(* Agent drafts and their adoption by a human *)

\* Covered paths are unique once renames are resolved, and a file can only
\* have been inspected if there are bytes to inspect.
ValidClaims(claims) ==
    /\ \A c \in claims :
          /\ Known(current, c.path)
          /\ c.status = "inspected" => Inspectable(FileOf(current, c.path))
    /\ \A c, d \in claims :
          Canonical(current, c.path) = Canonical(current, d.path) => c = d

DraftFileReview(req) ==
    /\ req.about.op = "draft"
    /\ Admitted(req)
    /\ req.about.findings # {} \/ req.about.coverage # {}
    /\ IsCurrent(req.about.rev)
    /\ \A p \in req.about.findings : Known(current, p)
    /\ ValidClaims(req.about.coverage)
    /\ drafts' = drafts \cup
          {[id |-> NextVersion, rev |-> current,
            findings |-> {[name |-> p, path |-> Canonical(current, p),
                           adopted |-> 0, status |-> "pending"]
                          : p \in req.about.findings}]}
    /\ LET claimed == {[path |-> Canonical(current, c.path), rev |-> current,
                        status |-> c.status, draft |-> NextVersion]
                       : c \in req.about.coverage} IN
          coverage' = {x \in coverage :
                          \A c \in claimed : ~SameFile(x, c.path, current)}
                      \cup claimed
    /\ Record(req, current, None)
    /\ UNCHANGED <<reviews, findings>>

\* Mutant: a decided drafted finding may be decided again.
Undecided(x) == x.status # "dismissed"

Pending(x) == x.status = "pending"

\* What a decision leaves of a drafted finding.
Decided(x, action) ==
    [name |-> x.name, path |-> x.path,
     status |-> IF action = "accept" THEN "accepted" ELSE "dismissed",
     adopted |-> IF action = "accept" THEN NextVersion ELSE 0]

\* A drafted finding already decided is returned unchanged; no key is kept.
AdoptDraftFinding(req) ==
    /\ req.about.op = "adopt"
    /\ Admitted(req)
    /\ \E d \in drafts : \E x \in d.findings :
          /\ d.id = req.about.draft
          /\ x.name = req.about.finding
          /\ Pending(x)
          /\ IsCurrent(d.rev)
          /\ IF req.about.action = "accept"
             THEN /\ Known(current, x.path)
                  /\ findings' = findings \cup
                        {[id |-> NextVersion,
                          path |-> Canonical(current, x.path),
                          rev |-> current, status |-> "open",
                          origin |-> "agent_draft", draft |-> d.id,
                          drafted |-> x.name,
                          missing |-> ~Reviewable(FileOf(current, x.path))]}
             ELSE UNCHANGED findings
          /\ drafts' = (drafts \ {d}) \cup
                {[d EXCEPT !.findings =
                    (d.findings \ {x}) \cup {Decided(x, req.about.action)}]}
          /\ Record(req, d.rev, x.path)
    /\ UNCHANGED <<reviews, coverage>>

Deliver(req) ==
    \/ SaveFileReview(req)
    \/ SaveFileFinding(req)
    \/ UpdateFileFinding(req)
    \/ DraftFileReview(req)
    \/ AdoptDraftFinding(req)

------------------------------------------------------------------------------
(* The rest of the store *)

\* A pipeline run publishes: the PR's row moves to another revision, keeps
\* its revision or disappears, and every review record is carried over.
Republish ==
    /\ NextVersion <= MaxVersion
    /\ current' \in Revs \cup {None}
    /\ shown' = shown \cup ({current'} \ {None})
    /\ version' = NextVersion
    /\ snapshot' = snapshot + 1
    /\ UNCHANGED <<records, events, keys, sent>>

\* Any writer of another PR, of dispositions, proposals or rules.
WriteElsewhere ==
    /\ NextVersion <= MaxVersion
    /\ version' = NextVersion
    /\ UNCHANGED <<row, records, events, keys, sent>>

Next ==
    \/ Compose
    \/ \E req \in sent : Deliver(req)
    \/ Republish
    \/ WriteElsewhere

Spec == Init /\ [][Next]_vars

------------------------------------------------------------------------------
(* What is shown *)

\* Header of a pull request: rows are counted.
FilesReviewed == {x \in reviews : x.rev = current /\ x.reviewed}

AgentCounted(s) == {c \in coverage : c.rev = current /\ c.status = s}

\* Panel of a pull request: files of the manifest are counted.
HumanReviewed ==
    {e \in Manifest[current] : \E x \in FilesReviewed : x.path = e.path}

AgentCovered(s) ==
    {e \in Manifest[current] : \E c \in AgentCounted(s) : c.path = e.path}

------------------------------------------------------------------------------
(* Properties *)

Newest(e, S) == \A f \in S : f.path = e.path /\ f.rev = e.rev => f.id <= e.id

EventsOf(op) == {e \in events : e.about.op = op}

\* A file of a revision is reviewed exactly if the newest human act on that
\* file of that revision says so, and a finding has the status its newest
\* action gave it.
HumanRecordsExplained ==
    /\ reviews =
          {[path |-> e.path, rev |-> e.rev, reviewed |-> e.about.reviewed,
            event |-> e.id]
           : e \in {x \in EventsOf("review") : Newest(x, EventsOf("review"))}}
    /\ \A f \in findings :
          LET acts == {e \in EventsOf("action") : e.about.finding = f.id} IN
          \/ acts = {} /\ f.status = "open"
          \/ \E e \in acts : /\ \A a \in acts : a.id <= e.id
                             /\ f.status = FINDING_ACTIONS[e.about.action]

\* The draft events that claim something of this file of this revision.
Claiming(p, r) ==
    {e \in EventsOf("draft") :
        e.rev = r /\ \E c \in e.about.coverage : Canonical(r, c.path) = p}

\* A file of a revision has one coverage row exactly if some draft covered
\* it, and the row is what the newest such draft claims.
AgentRecordsExplained ==
    /\ \A c \in coverage :
          /\ \A e \in Claiming(c.path, c.rev) : e.id <= c.draft
          /\ \E e \in Claiming(c.path, c.rev) :
                /\ e.id = c.draft
                /\ \E m \in e.about.coverage :
                      /\ Canonical(c.rev, m.path) = c.path
                      /\ m.status = c.status
    /\ \A c, d \in coverage : c.path = d.path /\ c.rev = d.rev => c = d
    /\ \A e \in EventsOf("draft") : \A m \in e.about.coverage :
          \E c \in coverage : c.path = Canonical(e.rev, m.path) /\ c.rev = e.rev

\* Whatever order marks, clears, drafts, retries and republications take, and
\* whatever names they call a renamed file by, the audit trail explains the
\* records: no agent's act is among the reasons of a review, nor a human's
\* among those of coverage.
RecordsExplained == HumanRecordsExplained /\ AgentRecordsExplained

\* "Reviewed" is only ever said of a file whose patch bytes are complete, and
\* "inspected" only of one that has some, in the revision it was said of.
SaidOnEvidence ==
    /\ \A x \in reviews : x.reviewed =>
          \E e \in Manifest[x.rev] : e.path = x.path /\ e.patch = "complete"
    /\ \A c \in coverage : c.status = "inspected" =>
          \E e \in Manifest[c.rev] : e.path = c.path /\ e.patch # "missing"

\* A drafted finding becomes one finding at most, however often and under
\* however many keys its acceptance is requested, and a finding of an agent
\* stands in the records only because a human accepted it.
AdoptedOnce ==
    /\ \A d \in drafts : \A x \in d.findings :
          LET made == {f \in findings : f.draft = d.id /\ f.drafted = x.name} IN
          IF x.status = "accepted"
          THEN \E f \in made : made = {f} /\ f.id = x.adopted
          ELSE made = {}
    /\ \A f \in findings : f.origin = "agent_draft" =>
          \E d \in drafts : \E x \in d.findings :
             f.draft = d.id /\ f.drafted = x.name

\* What is written is about the revision its author was shown: a request is
\* bound to the revision it names, an adopted finding to its draft's.
BoundAsShown ==
    /\ \A e \in events :
          e.about.op \in {"review", "finding", "draft"} => e.rev = e.about.rev
    /\ \A f \in findings : \A d \in drafts : f.draft = d.id => f.rev = d.rev

\* Each key stands for one request, and each audited write is found again
\* under its key: a retry after a lost answer is recognised, whatever else
\* was written or published in between.
RetryIsRecognised ==
    /\ \A j, k \in keys : j.key = k.key => j = k
    /\ \A e \in events : \E k \in keys : k.event = e.id /\ k.about = e.about

\* The counters in lists and headers, which count rows, and those of the file
\* panel, which count files of the manifest, say the same.
CountersAgree ==
    current # None =>
        /\ Cardinality(FilesReviewed) = Cardinality(HumanReviewed)
        /\ \A s \in COVERAGE_STATUSES :
              Cardinality(AgentCounted(s)) = Cardinality(AgentCovered(s))

\* Once the revision moved, what was said of the older one is history: no step
\* changes or removes a review or coverage row of another revision, and no
\* step moves a record to another revision.
StaleRecordsStay ==
    [][/\ \A x \in reviews : x.rev # current => x \in reviews'
       /\ \A c \in coverage : c.rev # current => c \in coverage'
       /\ \A f \in findings : \E g \in findings' :
             g = [f EXCEPT !.status = g.status]
       /\ events \subseteq events']_vars

==============================================================================
