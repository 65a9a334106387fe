-------------------------- MODULE FileReviewProofs --------------------------
(***************************************************************************)
(* Theorems about FileReview and the dialog of FindingDialog, for every    *)
(* set of revisions, paths, texts and keys, every manifest and every value *)
(* of the bounds.  What the store guarantees is proved of OpenSpec, where  *)
(* clients may compose any request at any time; the clients of Spec and    *)
(* the browser of DialogSpec are two of those.                             *)
(***************************************************************************)
EXTENDS FindingDialog, FiniteSetTheorems, TLAPS

------------------------------------------------------------------------------
(* What a request of each kind says, and the entry a name stands for *)

LEMMA AboutKinds ==
    ASSUME NEW about \in About
    PROVE  /\ about.op = "review" =>
                 about.rev \in Revs /\ about.path \in Paths
                 /\ about.reviewed \in BOOLEAN
           /\ about.op = "finding" => about.rev \in Revs /\ about.path \in Paths
           /\ about.op = "action" =>
                 about.finding \in Nat /\ about.action \in DOMAIN FINDING_ACTIONS
           /\ about.op = "draft" =>
                 about.rev \in Revs /\ about.findings \subseteq Paths
                 /\ about.coverage \subseteq Claim
           /\ about.op = "adopt" =>
                 /\ about.draft \in Nat /\ about.finding \in Paths
                 /\ about.action \in {"accept", "dismiss"}
  BY DEF About

LEMMA FileOfKnown ==
    ASSUME NEW r \in Revs, NEW p, Known(r, p)
    PROVE  /\ FileOf(r, p) \in Manifest[r]
           /\ FileOf(r, p) \in Entry
           /\ Canonical(r, p) \in Paths
           /\ Canonical(r, p) = FileOf(r, p).path
  <1>1. FileOf(r, p) \in FilesNamed(r, p)
    BY DEF Known, FileOf
  <1>2. FilesNamed(r, p) \subseteq Manifest[r]
    BY DEF FilesNamed, Exact, Formerly
  <1>3. Manifest[r] \subseteq Entry
    BY ManifestAssumption
  <1>4. FileOf(r, p) \in Entry
    BY <1>1, <1>2, <1>3
  <1> QED
    BY <1>1, <1>2, <1>4 DEF Canonical, Entry

LEMMA ActionStatus ==
    ASSUME NEW a \in DOMAIN FINDING_ACTIONS
    PROVE  FINDING_ACTIONS[a] \in {"open", "resolved", "dismissed"}
  BY DEF FINDING_ACTIONS

LEMMA RecordType ==
    ASSUME TypeOK, NEW req \in sent, NEW r \in Revs,
           NEW p \in Paths \cup {None}, Record(req, r, p)
    PROVE  /\ current' \in Revs \cup {None}
           /\ shown' \subseteq Revs
           /\ version' \in Nat
           /\ snapshot' \in Nat
           /\ events' \subseteq Event
           /\ keys' \subseteq Key
           /\ sent' \subseteq Request
  <1>1. req \in Request
    BY DEF TypeOK
  <1>2. req.about \in About /\ req.key \in Keys
    BY <1>1 DEF Request
  <1>3. [id |-> NextVersion, about |-> req.about, rev |-> r, path |-> p]
           \in Event
    BY <1>2 DEF Event, TypeOK, NextVersion
  <1>4. [key |-> req.key, about |-> req.about, event |-> NextVersion] \in Key
    BY <1>2 DEF Key, TypeOK, NextVersion
  <1> QED
    BY <1>3, <1>4 DEF Record, TypeOK, row, NextVersion

LEMMA FormsType ==
    ASSUME TypeOK
    PROVE  Forms \subseteq About
  <1> SUFFICES ASSUME NEW about \in Forms PROVE about \in About
    OBVIOUS
  <1>1. CASE about \in [op : Ops \cap {"review"}, rev : shown, path : Paths,
                        reviewed : BOOLEAN]
    BY <1>1 DEF About, TypeOK
  <1>2. CASE about \in [op : Ops \cap {"finding"}, rev : shown, path : Paths,
                        text : Texts]
    BY <1>2 DEF About, TypeOK
  <1>3. CASE about \in [op : Ops \cap {"action"},
                        finding : {f.id : f \in findings},
                        action : DOMAIN FINDING_ACTIONS]
    <2>1. about.finding \in Nat
      BY <1>3 DEF TypeOK, Finding
    <2> QED
      BY <1>3, <2>1 DEF About
  <1>4. ASSUME NEW op \in Ops \cap {"draft"}, NEW r \in shown,
               NEW o \in Offers,
               about = [op |-> op, rev |-> r, findings |-> o.findings,
                        coverage |-> o.coverage]
        PROVE  about \in About
    BY <1>4, OffersAssumption DEF About, TypeOK
  <1>5. ASSUME NEW d \in drafts, NEW op \in Ops \cap {"adopt"},
               NEW x \in d.findings, NEW a \in {"accept", "dismiss"},
               about = [op |-> op, draft |-> d.id, finding |-> x.name,
                        action |-> a]
        PROVE  about \in About
    <2>1. d.id \in Nat /\ x.name \in Paths
      BY DEF TypeOK, Draft, Drafted
    <2> QED
      BY <1>5, <2>1 DEF About
  <1> QED
    BY <1>1, <1>2, <1>3, <1>4, <1>5 DEF Forms

------------------------------------------------------------------------------
(* Type correctness, one lemma per writer *)

LEMMA ReviewType ==
    ASSUME TypeOK, NEW req \in sent, SaveFileReview(req)
    PROVE  TypeOK'
  <1>1. req.about \in About
    BY DEF TypeOK, Request
  <1>2. current \in Revs
    BY DEF SaveFileReview, IsCurrent, TypeOK
  <1>3. Canonical(current, req.about.path) \in Paths
    BY <1>2, FileOfKnown DEF SaveFileReview
  <1>4. req.about.reviewed \in BOOLEAN
    BY <1>1, AboutKinds DEF SaveFileReview
  <1> DEFINE path == Canonical(current, req.about.path)
  <1>5. [path |-> path, rev |-> current, reviewed |-> req.about.reviewed,
         event |-> NextVersion] \in Review
    BY <1>2, <1>3, <1>4 DEF Review, NextVersion, TypeOK
  <1>6. reviews' \subseteq Review
    BY <1>5 DEF SaveFileReview, TypeOK
  <1>7. Record(req, current, path)
    BY DEF SaveFileReview
  <1> QED
    BY <1>2, <1>3, <1>6, <1>7, RecordType DEF SaveFileReview, TypeOK

LEMMA FindingType ==
    ASSUME TypeOK, NEW req \in sent, SaveFileFinding(req)
    PROVE  TypeOK'
  <1>2. current \in Revs
    BY DEF SaveFileFinding, IsCurrent, TypeOK
  <1>3. Canonical(current, req.about.path) \in Paths
    BY <1>2, FileOfKnown DEF SaveFileFinding
  <1> DEFINE path == Canonical(current, req.about.path)
             missing == ~Reviewable(FileOf(current, req.about.path))
  <1>4. missing \in BOOLEAN
    BY DEF Reviewable
  <1>5. [id |-> NextVersion, path |-> path, rev |-> current,
         status |-> "open", origin |-> "human", draft |-> 0,
         drafted |-> None, missing |-> missing] \in Finding
    BY <1>2, <1>3, <1>4 DEF Finding, NextVersion, TypeOK
  <1>6. findings' \subseteq Finding
    BY <1>5 DEF SaveFileFinding, TypeOK
  <1>7. Record(req, current, path)
    BY DEF SaveFileFinding
  <1> QED
    BY <1>2, <1>3, <1>6, <1>7, RecordType DEF SaveFileFinding, TypeOK

LEMMA ActionType ==
    ASSUME TypeOK, NEW req \in sent, UpdateFileFinding(req)
    PROVE  TypeOK'
  <1>1. req.about \in About
    BY DEF TypeOK, Request
  <1>2. PICK f \in findings :
           /\ findings' = (findings \ {f}) \cup {Acted(f, req.about.action)}
           /\ Record(req, f.rev, f.path)
    BY DEF UpdateFileFinding
  <1>3. f \in Finding
    BY DEF TypeOK
  <1>4. FINDING_ACTIONS[req.about.action] \in {"open", "resolved", "dismissed"}
    BY <1>1, AboutKinds, ActionStatus DEF UpdateFileFinding
  <1>5. Acted(f, req.about.action) \in Finding
    BY <1>3, <1>4 DEF Acted, Finding
  <1>6. findings' \subseteq Finding
    BY <1>2, <1>5 DEF TypeOK
  <1>7. f.rev \in Revs /\ f.path \in Paths
    BY <1>3 DEF Finding
  <1> QED
    BY <1>2, <1>6, <1>7, RecordType DEF UpdateFileFinding, TypeOK

LEMMA DraftType ==
    ASSUME TypeOK, NEW req \in sent, DraftFileReview(req)
    PROVE  TypeOK'
  <1>1. req.about \in About
    BY DEF TypeOK, Request
  <1>2. current \in Revs
    BY DEF DraftFileReview, IsCurrent, TypeOK
  <1>3. req.about.findings \subseteq Paths /\ req.about.coverage \subseteq Claim
    BY <1>1, AboutKinds DEF DraftFileReview
  <1> DEFINE drafted == {[name |-> p, path |-> Canonical(current, p),
                          adopted |-> 0, status |-> "pending"]
                         : p \in req.about.findings}
             claimed == {[path |-> Canonical(current, c.path), rev |-> current,
                          status |-> c.status, draft |-> NextVersion]
                         : c \in req.about.coverage}
  <1>4. \A p \in req.about.findings : Canonical(current, p) \in Paths
    BY <1>2, FileOfKnown DEF DraftFileReview
  <1>5. drafted \subseteq Drafted
    BY <1>3, <1>4 DEF Drafted
  <1>6. \A c \in req.about.coverage : Canonical(current, c.path) \in Paths
    BY <1>2, FileOfKnown DEF DraftFileReview, ValidClaims
  <1>7. claimed \subseteq Coverage
    BY <1>2, <1>3, <1>6 DEF Coverage, Claim, NextVersion, TypeOK
  <1>8. drafts' = drafts \cup
           {[id |-> NextVersion, rev |-> current, findings |-> drafted]}
    BY DEF DraftFileReview
  <1>9. drafts' \subseteq Draft
    BY <1>2, <1>5, <1>8 DEF Draft, NextVersion, TypeOK
  <1>10. coverage' \subseteq Coverage
    BY <1>7 DEF DraftFileReview, TypeOK
  <1> QED
    BY <1>2, <1>9, <1>10, RecordType DEF DraftFileReview, TypeOK

\* An adoption, with the draft and the drafted finding it picks.
Adopts(req, d, x) ==
    /\ d \in drafts
    /\ x \in d.findings
    /\ d.id = req.about.draft
    /\ x.name = req.about.finding
    /\ Pending(x)
    /\ IsCurrent(d.rev)
    /\ \/ /\ req.about.action = "accept"
          /\ Known(current, x.path)
          /\ findings' = findings \cup
                {[id |-> NextVersion, path |-> Canonical(current, x.path),
                  rev |-> current, status |-> "open",
                  origin |-> "agent_draft", draft |-> d.id,
                  drafted |-> x.name,
                  missing |-> ~Reviewable(FileOf(current, x.path))]}
       \/ /\ req.about.action # "accept"
          /\ findings' = findings
    /\ drafts' = (drafts \ {d}) \cup
          {[d EXCEPT !.findings =
              (d.findings \ {x}) \cup {Decided(x, req.about.action)}]}
    /\ Record(req, d.rev, x.path)
    /\ UNCHANGED <<reviews, coverage>>

LEMMA AdoptionPicks ==
    ASSUME NEW req, AdoptDraftFinding(req)
    PROVE  \E d, x : Adopts(req, d, x)
  BY DEF AdoptDraftFinding, Adopts

LEMMA AdoptType ==
    ASSUME TypeOK, NEW req \in sent, AdoptDraftFinding(req)
    PROVE  TypeOK'
  <1>1. PICK d, x : Adopts(req, d, x)
    BY AdoptionPicks
  <1>2. d \in Draft /\ x \in Drafted /\ d.findings \subseteq Drafted
    BY <1>1 DEF Adopts, TypeOK, Draft
  <1>3. current \in Revs /\ d.rev = current
    BY <1>1 DEF Adopts, IsCurrent, TypeOK
  <1> DEFINE missing == ~Reviewable(FileOf(current, x.path))
             made == [id |-> NextVersion, path |-> Canonical(current, x.path),
                      rev |-> current, status |-> "open",
                      origin |-> "agent_draft", draft |-> d.id,
                      drafted |-> x.name, missing |-> missing]
  <1>4. ASSUME Known(current, x.path) PROVE made \in Finding
    <2>1. Canonical(current, x.path) \in Paths
      BY <1>3, <1>4, FileOfKnown
    <2>2. missing \in BOOLEAN
      BY DEF Reviewable
    <2> QED
      BY <1>2, <1>3, <2>1, <2>2 DEF Finding, Draft, Drafted, NextVersion, TypeOK
  <1>5. findings' \subseteq Finding
    BY <1>1, <1>4 DEF Adopts, TypeOK
  <1>6. Decided(x, req.about.action) \in Drafted
    BY <1>2 DEF Decided, Drafted, NextVersion, TypeOK
  <1>7. [d EXCEPT !.findings =
            (d.findings \ {x}) \cup {Decided(x, req.about.action)}] \in Draft
    BY <1>2, <1>6 DEF Draft
  <1>8. drafts' \subseteq Draft
    BY <1>1, <1>7 DEF Adopts, TypeOK
  <1>9. Record(req, d.rev, x.path) /\ x.path \in Paths
    BY <1>1, <1>2 DEF Adopts, Drafted
  <1>10. reviews' = reviews /\ coverage' = coverage
    BY <1>1 DEF Adopts
  <1> QED
    BY <1>3, <1>5, <1>8, <1>9, <1>10, RecordType DEF TypeOK

LEMMA ComposeType ==
    ASSUME TypeOK, Compose
    PROVE  TypeOK'
  <1>2. PICK about \in Forms, key \in Keys : Send(about, key)
    BY DEF Compose, FormsOf
  <1>3. about \in About
    BY FormsType
  <1>4. sent' \subseteq Request
    BY <1>2, <1>3 DEF Send, Request, TypeOK
  <1> QED
    BY <1>4 DEF Compose, TypeOK, row, records

------------------------------------------------------------------------------
(* The store under clients that may ask for anything                        *)

AnyRequest ==
    /\ sent' \subseteq Request
    /\ UNCHANGED <<row, version, records, events, keys>>

OpenNext == Next \/ AnyRequest

OpenSpec == Init /\ [][OpenNext]_vars

LEMMA TypeInit == Init => TypeOK
  BY DEF Init, TypeOK

LEMMA TypeStep ==
    ASSUME TypeOK, [OpenNext]_vars
    PROVE  TypeOK'
  <1>1. CASE Compose
    BY <1>1, ComposeType
  <1>2. ASSUME NEW req \in sent, Deliver(req) PROVE TypeOK'
    BY <1>2, ReviewType, FindingType, ActionType, DraftType, AdoptType
       DEF Deliver
  <1>3. CASE Republish
    BY <1>3 DEF Republish, TypeOK, NextVersion, records
  <1>4. CASE WriteElsewhere
    BY <1>4 DEF WriteElsewhere, TypeOK, NextVersion, records, row
  <1>5. CASE UNCHANGED vars
    BY <1>5 DEF vars, row, records, TypeOK
  <1>6. CASE AnyRequest
    BY <1>6 DEF AnyRequest, row, records, TypeOK
  <1> QED
    BY <1>1, <1>2, <1>3, <1>4, <1>5, <1>6 DEF OpenNext, Next

\* What the page, the dialog and the submissions are made of.
View == [version : Nat, snapshot : Nat, rev : Revs \cup {None},
         loaded : BOOLEAN]

Submission == [n : Nat, req : Request]

BrowserOK ==
    /\ page \in View
    /\ dialog \in [n : Nat, path : Paths \cup {None}, seen : View,
                   busy : BOOLEAN]
    /\ dialog.n # 0 => dialog.path \in Paths /\ dialog.seen.rev \in Revs
    /\ opened \in Nat
    /\ retries \subseteq Request
    /\ posted \subseteq Submission
    /\ inflight \subseteq Submission

LEMMA RequestForType ==
    ASSUME BrowserOK, dialog.n # 0, NEW text \in Texts,
           NEW req \in RequestFor(text)
    PROVE  /\ req \in Request
           /\ req \in retries \/ \A r \in sent : r.key # req.key
           /\ req.version = page.version
  <1> DEFINE about == [op |-> "finding", rev |-> dialog.seen.rev,
                       path |-> dialog.path, text |-> text]
             same == {r \in retries : /\ r.about = about
                                      /\ r.version = page.version
                                      /\ r.snapshot = page.snapshot}
  <1>1. about \in About
    BY DEF About, BrowserOK
  <1> HIDE DEF about
  <1>2. CASE req \in same
    BY <1>2 DEF BrowserOK
  <1>3. ASSUME NEW k \in Keys, \A r \in sent : r.key # k,
               req = [about |-> about, key |-> k, version |-> page.version,
                      snapshot |-> page.snapshot]
        PROVE  /\ req \in Request
               /\ \A r \in sent : r.key # req.key
               /\ req.version = page.version
    BY <1>1, <1>3 DEF BrowserOK, View, Request
  <1> QED
    BY <1>2, <1>3 DEF RequestFor, about

\* A submission, with its request.
Submits(req) ==
    /\ sent' = sent \cup {req}
    /\ retries' = retries \cup {req}
    /\ posted' = posted \cup {[n |-> dialog.n, req |-> req]}
    /\ inflight' = inflight \cup {[n |-> dialog.n, req |-> req]}
    /\ dialog' = [dialog EXCEPT !.busy = TRUE]
    /\ UNCHANGED <<row, version, records, events, keys, page, opened, told>>

LEMMA SubmitPicks ==
    ASSUME BrowserOK, Submit
    PROVE  \E req \in Request :
              /\ Submits(req)
              /\ req \in retries \/ \A r \in sent : r.key # req.key
              /\ req.version = page.version
  BY RequestForType DEF Submit, Submits

\* Every step of the dialog is one of the store with such clients.
LEMMA DialogIsClient ==
    ASSUME TypeOK, BrowserOK, [DialogNext]_allvars
    PROVE  [OpenNext]_vars
  <1>1. CASE Submit
    <2>1. PICK req \in Request : Submits(req)
      BY <1>1, SubmitPicks
    <2>2. AnyRequest
      BY <2>1 DEF Submits, AnyRequest, TypeOK
    <2> QED
      BY <2>2 DEF OpenNext
  <1>2. CASE Store
    BY <1>2 DEF Store, OpenNext, Next
  <1>3. CASE LoadState \/ OpenDialog \/ Cancel \/ RefuseToSubmit
    BY <1>3 DEF LoadState, OpenDialog, Cancel, RefuseToSubmit
  <1>4. CASE Confirmed \/ Conflicting \/ Unconfirmed
    BY <1>4 DEF Confirmed, Conflicting, Unconfirmed
  <1>5. CASE UNCHANGED allvars
    BY <1>5 DEF allvars
  <1> QED
    BY <1>1, <1>2, <1>3, <1>4, <1>5 DEF DialogNext

LEMMA StorePageType ==
    ASSUME TypeOK
    PROVE  StorePage \in View
  BY DEF TypeOK, StorePage, View

LEMMA BrowserStep ==
    ASSUME TypeOK, BrowserOK, [DialogNext]_allvars
    PROVE  BrowserOK'
  <1>1. CASE Submit
    <2>1. PICK req \in Request : Submits(req)
      BY <1>1, SubmitPicks
    <2>2. [n |-> dialog.n, req |-> req] \in Submission
      BY <1>1 DEF BrowserOK, Submission
    <2> QED
      BY <2>1, <2>2 DEF Submits, BrowserOK
  <1>2. CASE Store \/ UNCHANGED allvars
    BY <1>2 DEF Store, allvars, browser, BrowserOK
  <1>3. CASE LoadState
    BY <1>3, StorePageType DEF LoadState, BrowserOK
  <1>4. CASE OpenDialog
    <2>1. PICK e \in Manifest[page.rev] :
             dialog' = [n |-> opened + 1, path |-> e.path, seen |-> page,
                        busy |-> FALSE]
      BY <1>4 DEF OpenDialog
    <2>2. page.rev \in Revs
      BY <1>4 DEF OpenDialog, BrowserOK, View
    <2>3. e.path \in Paths
      BY <2>2, ManifestAssumption DEF Entry
    <2> QED
      BY <1>4, <2>1, <2>2, <2>3 DEF OpenDialog, BrowserOK
  <1>5. CASE Cancel
    BY <1>5 DEF Cancel, NoDialog, BrowserOK
  <1>6. CASE RefuseToSubmit
    BY <1>6 DEF RefuseToSubmit, BrowserOK
  <1>7. CASE Confirmed
    <2>1. NoDialog \in [n : Nat, path : Paths \cup {None}, seen : View,
                        busy : BOOLEAN] /\ NoDialog.n = 0
      BY DEF NoDialog, BrowserOK
    <2> QED
      BY <1>7, <2>1, StorePageType DEF Confirmed, BrowserOK
  <1>8. ASSUME NEW i, dialog' = Released(i)
        PROVE  /\ dialog' \in [n : Nat, path : Paths \cup {None}, seen : View,
                               busy : BOOLEAN]
               /\ dialog'.n = dialog.n /\ dialog'.path = dialog.path
               /\ dialog'.seen = dialog.seen
    BY <1>8 DEF Released, BrowserOK
  <1>9. CASE Conflicting
    BY <1>8, <1>9, StorePageType DEF Conflicting, BrowserOK
  <1>10. CASE Unconfirmed
    BY <1>8, <1>10 DEF Unconfirmed, BrowserOK
  <1> QED
    BY <1>1, <1>2, <1>3, <1>4, <1>5, <1>6, <1>7, <1>9, <1>10 DEF DialogNext

LEMMA BrowserCorrect == DialogSpec => [](TypeOK /\ BrowserOK)
  <1>1. DialogInit => TypeOK /\ BrowserOK
    BY TypeInit DEF DialogInit, BrowserOK, NotLoaded, NoDialog, View
  <1>2. TypeOK /\ BrowserOK /\ [DialogNext]_allvars => (TypeOK /\ BrowserOK)'
    BY DialogIsClient, TypeStep, BrowserStep
  <1> QED
    BY <1>1, <1>2, PTL DEF DialogSpec

LEMMA OpenClients == Spec \/ DialogSpec => OpenSpec
  <1>1. [Next]_vars => [OpenNext]_vars
    BY DEF OpenNext
  <1>2. TypeOK /\ BrowserOK /\ [DialogNext]_allvars => [OpenNext]_vars
    BY DialogIsClient
  <1>3. DialogInit => Init
    BY DEF DialogInit
  <1> QED
    BY <1>1, <1>2, <1>3, BrowserCorrect, PTL DEF Spec, DialogSpec, OpenSpec

\* The documents hold what their record types say, in every state of every
\* instance.
THEOREM TypeCorrect == Spec \/ DialogSpec => []TypeOK
  <1>1. TypeOK /\ [OpenNext]_vars => TypeOK'
    BY TypeStep
  <1> QED
    BY <1>1, TypeInit, OpenClients, PTL DEF OpenSpec

------------------------------------------------------------------------------
(* Every writer admits the request, audits it once and moves the version *)

LEMMA WriterRecords ==
    ASSUME NEW req, Deliver(req)
    PROVE  Unused(req) /\ \E r, p : Record(req, r, p)
  <1>1. CASE SaveFileReview(req)
    BY <1>1 DEF SaveFileReview, Admitted
  <1>2. CASE SaveFileFinding(req)
    BY <1>2 DEF SaveFileFinding, Admitted
  <1>3. CASE UpdateFileFinding(req)
    BY <1>3 DEF UpdateFileFinding, Admitted
  <1>4. CASE DraftFileReview(req)
    BY <1>4 DEF DraftFileReview, Admitted
  <1>5. CASE AdoptDraftFinding(req)
    BY <1>5 DEF AdoptDraftFinding, Admitted
  <1> QED
    BY <1>1, <1>2, <1>3, <1>4, <1>5 DEF Deliver

LEMMA OtherSteps ==
    ASSUME [OpenNext]_vars, ~(\E req \in sent : Deliver(req))
    PROVE  UNCHANGED <<reviews, findings, coverage, drafts, events, keys>>
  BY DEF OpenNext, AnyRequest, Next, Compose, Republish, WriteElsewhere, vars,
         row, records

LEMMA VersionsGrow ==
    ASSUME TypeOK, [OpenNext]_vars
    PROVE  version' \in Nat /\ version <= version'
  <1>1. ASSUME NEW req \in sent, Deliver(req)
        PROVE  version' \in Nat /\ version <= version'
    <2>1. PICK r, p : Record(req, r, p)
      BY <1>1, WriterRecords
    <2> QED
      BY <2>1 DEF Record, NextVersion, TypeOK
  <1>2. CASE Compose \/ AnyRequest \/ UNCHANGED vars
    BY <1>2 DEF Compose, AnyRequest, vars, TypeOK
  <1>3. CASE Republish \/ WriteElsewhere
    BY <1>3 DEF Republish, WriteElsewhere, NextVersion, TypeOK
  <1> QED
    BY <1>1, <1>2, <1>3 DEF OpenNext, Next

------------------------------------------------------------------------------
(* Retries *)

LEMMA RetryStep ==
    ASSUME RetryIsRecognised, [OpenNext]_vars
    PROVE  RetryIsRecognised'
  <1>1. CASE \E req \in sent : Deliver(req)
    <2>1. PICK req \in sent : Deliver(req)
      BY <1>1
    <2>2. PICK r, p : Record(req, r, p)
      BY <2>1, WriterRecords
    <2>3. \A k \in keys : k.key # req.key
      BY <2>1, WriterRecords DEF Unused
    <2> DEFINE kept == [key |-> req.key, about |-> req.about,
                        event |-> NextVersion]
               done == [id |-> NextVersion, about |-> req.about, rev |-> r,
                        path |-> p]
    <2>4. keys' = keys \cup {kept} /\ events' = events \cup {done}
      BY <2>2 DEF Record
    <2>5. kept.key = req.key /\ kept.event = done.id /\ kept.about = done.about
      OBVIOUS
    <2> HIDE DEF kept, done
    <2> QED
      BY <2>3, <2>4, <2>5 DEF RetryIsRecognised
  <1>2. CASE ~(\E req \in sent : Deliver(req))
    BY <1>2, OtherSteps DEF RetryIsRecognised
  <1> QED
    BY <1>1, <1>2

\* A retried write is found under its key, whatever was written since: the
\* keys' rows and the audit trail are extended together and never cut.
THEOREM RetriesRecognised == Spec \/ DialogSpec => []RetryIsRecognised
  <1>1. Init => RetryIsRecognised
    BY DEF Init, RetryIsRecognised
  <1>2. RetryIsRecognised /\ [OpenNext]_vars => RetryIsRecognised'
    BY RetryStep
  <1> QED
    BY <1>1, <1>2, OpenClients, PTL DEF OpenSpec

------------------------------------------------------------------------------
(* Evidence *)

LEMMA EvidenceStep ==
    ASSUME TypeOK, SaidOnEvidence, [OpenNext]_vars
    PROVE  SaidOnEvidence'
  <1>1. ASSUME NEW req \in sent, SaveFileReview(req)
        PROVE  SaidOnEvidence'
    <2> DEFINE file == FileOf(current, req.about.path)
               new == [path |-> Canonical(current, req.about.path),
                       rev |-> current, reviewed |-> req.about.reviewed,
                       event |-> NextVersion]
    <2>1. current \in Revs
      BY <1>1 DEF SaveFileReview, IsCurrent, TypeOK
    <2>2. file \in Manifest[current] /\ file.path = new.path
      BY <1>1, <2>1, FileOfKnown DEF SaveFileReview
    <2>3. new.reviewed => Reviewable(file)
      BY <1>1 DEF SaveFileReview
    <2>4. reviews' \subseteq reviews \cup {new} /\ coverage' = coverage
      BY <1>1 DEF SaveFileReview
    <2> HIDE DEF new, file
    <2>5. new.rev = current
      BY DEF new
    <2> QED
      BY <2>2, <2>3, <2>4, <2>5 DEF SaidOnEvidence, Reviewable
  <1>2. ASSUME NEW req \in sent, DraftFileReview(req)
        PROVE  SaidOnEvidence'
    <2> DEFINE claimed == {[path |-> Canonical(current, c.path),
                            rev |-> current, status |-> c.status,
                            draft |-> NextVersion] : c \in req.about.coverage}
    <2>1. current \in Revs
      BY <1>2 DEF DraftFileReview, IsCurrent, TypeOK
    <2>2. ASSUME NEW x \in claimed, x.status = "inspected"
          PROVE  \E e \in Manifest[x.rev] : e.path = x.path /\ e.patch # "missing"
      <3>1. PICK c \in req.about.coverage :
               /\ x.path = Canonical(current, c.path)
               /\ x.rev = current /\ x.status = c.status
        BY <2>2
      <3>2. Known(current, c.path) /\ Inspectable(FileOf(current, c.path))
        BY <1>2, <2>2, <3>1 DEF DraftFileReview, ValidClaims
      <3> QED
        BY <2>1, <3>1, <3>2, FileOfKnown DEF Inspectable
    <2>3. coverage' \subseteq coverage \cup claimed /\ reviews' = reviews
      BY <1>2 DEF DraftFileReview
    <2> HIDE DEF claimed
    <2> QED
      BY <2>2, <2>3 DEF SaidOnEvidence
  <1>3. ASSUME NEW req \in sent,
               SaveFileFinding(req) \/ UpdateFileFinding(req)
                  \/ AdoptDraftFinding(req)
        PROVE  SaidOnEvidence'
    BY <1>3 DEF SaveFileFinding, UpdateFileFinding, AdoptDraftFinding,
                SaidOnEvidence
  <1>4. CASE ~(\E req \in sent : Deliver(req))
    BY <1>4, OtherSteps DEF SaidOnEvidence
  <1> QED
    BY <1>1, <1>2, <1>3, <1>4 DEF Deliver

\* Nothing is called reviewed without its complete patch, nor inspected
\* without any: renames resolve to an entry of the bound revision's manifest.
THEOREM EvidenceFirst == Spec \/ DialogSpec => []SaidOnEvidence
  <1>1. Init => SaidOnEvidence
    BY DEF Init, SaidOnEvidence
  <1>2. TypeOK /\ SaidOnEvidence /\ [OpenNext]_vars => SaidOnEvidence'
    BY EvidenceStep
  <1> QED
    BY <1>1, <1>2, TypeCorrect, OpenClients, PTL DEF OpenSpec

------------------------------------------------------------------------------
(* History of older revisions *)

LEMMA StaleStep ==
    ASSUME TypeOK, [OpenNext]_vars
    PROVE  /\ \A x \in reviews : x.rev # current => x \in reviews'
           /\ \A c \in coverage : c.rev # current => c \in coverage'
           /\ \A f \in findings : \E g \in findings' :
                 g = [f EXCEPT !.status = g.status]
           /\ events \subseteq events'
  <1>0. \A f \in findings : f = [f EXCEPT !.status = f.status]
    BY DEF TypeOK, Finding
  <1>1. ASSUME NEW req \in sent, Deliver(req) PROVE events \subseteq events'
    <2>1. PICK r, p : Record(req, r, p)
      BY <1>1, WriterRecords
    <2> QED
      BY <2>1 DEF Record
  <1>2. CASE \E req \in sent : SaveFileReview(req)
    BY <1>0, <1>1, <1>2 DEF SaveFileReview, SameFile, Deliver
  <1>3. CASE \E req \in sent : SaveFileFinding(req)
    BY <1>0, <1>1, <1>3 DEF SaveFileFinding, Deliver
  <1>4. CASE \E req \in sent : UpdateFileFinding(req)
    <2>1. PICK req \in sent : UpdateFileFinding(req)
      BY <1>4
    <2>2. PICK f \in findings :
             findings' = (findings \ {f}) \cup {Acted(f, req.about.action)}
      BY <2>1 DEF UpdateFileFinding
    <2> DEFINE g == Acted(f, req.about.action)
    <2>3. f \in Finding
      BY DEF TypeOK
    <2>4. g = [f EXCEPT !.status = g.status]
      BY <2>3 DEF Acted, Finding
    <2>5. \A h \in findings : \E k \in findings' :
             k = [h EXCEPT !.status = k.status]
      <3> HIDE DEF g
      <3> QED
        BY <1>0, <2>2, <2>4 DEF g
    <2>6. reviews' = reviews /\ coverage' = coverage
      BY <2>1 DEF UpdateFileFinding
    <2> QED
      BY <1>1, <2>1, <2>5, <2>6 DEF Deliver
  <1>5. CASE \E req \in sent : DraftFileReview(req)
    <2>1. PICK req \in sent : DraftFileReview(req)
      BY <1>5
    <2>2. \A c \in coverage : c.rev # current => c \in coverage'
      BY <2>1 DEF DraftFileReview, SameFile
    <2>3. reviews' = reviews /\ findings' = findings
      BY <2>1 DEF DraftFileReview
    <2> QED
      BY <1>0, <1>1, <2>1, <2>2, <2>3 DEF Deliver
  <1>6. CASE \E req \in sent : AdoptDraftFinding(req)
    <2>1. PICK req \in sent : AdoptDraftFinding(req)
      BY <1>6
    <2>2. findings \subseteq findings'
      BY <2>1, AdoptionPicks DEF Adopts
    <2>3. reviews' = reviews /\ coverage' = coverage
      BY <2>1 DEF AdoptDraftFinding
    <2> QED
      BY <1>0, <1>1, <2>1, <2>2, <2>3 DEF Deliver
  <1>7. CASE ~(\E req \in sent : Deliver(req))
    BY <1>0, <1>7, OtherSteps
  <1> QED
    BY <1>2, <1>3, <1>4, <1>5, <1>6, <1>7 DEF Deliver

\* Rows of other revisions are never changed, removed or moved to another
\* revision, by no writer and by no publication.
THEOREM HistoryStays == Spec \/ DialogSpec => StaleRecordsStay
  <1>1. TypeOK /\ [OpenNext]_vars =>
           [/\ \A x \in reviews : x.rev # current => x \in reviews'
            /\ \A c \in coverage : c.rev # current => c \in coverage'
            /\ \A f \in findings : \E g \in findings' :
                  g = [f EXCEPT !.status = g.status]
            /\ events \subseteq events']_vars
    BY StaleStep
  <1> QED
    BY <1>1, TypeCorrect, OpenClients, PTL DEF OpenSpec, StaleRecordsStay

------------------------------------------------------------------------------
(* Adoption: drafts, their findings and what became of them *)

DraftIds ==
    /\ \A d \in drafts : 1 <= d.id /\ d.id <= version
    /\ \A d, e \in drafts : d.id = e.id => d = e
    /\ \A d \in drafts : \A x, y \in d.findings : x.name = y.name => x = y

FindingIds ==
    /\ \A f \in findings : f.id <= version /\ f.draft <= version
    /\ \A f, g \in findings : f.id = g.id => f = g

\* A finding that says it comes from a drafted one is the one that adopted it.
Traced ==
    \A f \in findings : \A d \in drafts : f.draft = d.id =>
        /\ f.rev = d.rev
        /\ \A x \in d.findings : f.drafted = x.name =>
              x.status = "accepted" /\ f.id = x.adopted

Adopted ==
    \A d \in drafts : \A x \in d.findings : x.status = "accepted" =>
        \E f \in findings :
            f.draft = d.id /\ f.drafted = x.name /\ f.id = x.adopted

Asked ==
    \A f \in findings : f.origin = "agent_draft" =>
        \E d \in drafts : \E x \in d.findings :
            f.draft = d.id /\ f.drafted = x.name

Links == DraftIds /\ FindingIds /\ Traced /\ Adopted /\ Asked

LEMMA LinksAdoptOnce ==
    ASSUME Links
    PROVE  AdoptedOnce
  <1>1. ASSUME NEW d \in drafts, NEW x \in d.findings,
               x.status = "accepted"
        PROVE  \E f \in findings :
                  /\ {g \in findings : g.draft = d.id /\ g.drafted = x.name}
                        = {f}
                  /\ f.id = x.adopted
    <2>1. PICK f \in findings :
             f.draft = d.id /\ f.drafted = x.name /\ f.id = x.adopted
      BY <1>1 DEF Links, Adopted
    <2>2. ASSUME NEW g \in findings, g.draft = d.id, g.drafted = x.name
          PROVE  g = f
      <3>1. g.id = x.adopted
        BY <2>2 DEF Links, Traced
      <3> QED
        BY <2>1, <3>1 DEF Links, FindingIds
    <2> QED
      BY <2>1, <2>2
  <1>2. ASSUME NEW d \in drafts, NEW x \in d.findings,
               x.status # "accepted"
        PROVE  {g \in findings : g.draft = d.id /\ g.drafted = x.name} = {}
    BY <1>2 DEF Links, Traced
  <1>3. Asked
    BY DEF Links
  <1>4. ASSUME NEW d \in drafts, NEW x \in d.findings
        PROVE  LET made == {f \in findings :
                               f.draft = d.id /\ f.drafted = x.name} IN
               IF x.status = "accepted"
               THEN \E f \in made : made = {f} /\ f.id = x.adopted
               ELSE made = {}
    <2>1. CASE x.status = "accepted"
      <3>1. PICK f \in findings :
               /\ {g \in findings : g.draft = d.id /\ g.drafted = x.name} = {f}
               /\ f.id = x.adopted
        BY <1>1, <2>1
      <3> QED
        BY <2>1, <3>1
    <2>2. CASE x.status # "accepted"
      BY <1>2, <2>2
    <2> QED
      BY <2>1, <2>2
  <1> QED
    BY <1>3, <1>4 DEF AdoptedOnce, Asked

\* A new finding of a human, which names no draft.
LEMMA FindingLinks ==
    ASSUME TypeOK, Links, NEW req \in sent, SaveFileFinding(req)
    PROVE  Links'
  <1>1. version \in Nat /\ version' = version + 1 /\ drafts' = drafts
    BY DEF SaveFileFinding, Record, NextVersion, TypeOK
  <1> DEFINE missing == ~Reviewable(FileOf(current, req.about.path))
             n == [id |-> NextVersion,
                   path |-> Canonical(current, req.about.path),
                   rev |-> current, status |-> "open", origin |-> "human",
                   draft |-> 0, drafted |-> None, missing |-> missing]
  <1>2. /\ findings' = findings \cup {n}
        /\ n.id = version + 1 /\ n.draft = 0 /\ n.origin = "human"
    BY DEF SaveFileFinding, NextVersion
  <1> HIDE DEF n
  <1>3. \A d \in drafts : d.id \in Nat
    BY DEF TypeOK, Draft
  <1>4. \A f \in findings : f.id \in Nat /\ f.draft \in Nat
    BY DEF TypeOK, Finding
  <1>5. DraftIds'
    BY <1>1, <1>3 DEF Links, DraftIds
  <1>6. FindingIds'
    BY <1>1, <1>2, <1>4 DEF Links, FindingIds
  <1>7. Traced'
    BY <1>1, <1>2 DEF Links, Traced, DraftIds
  <1>8. Adopted' /\ Asked'
    BY <1>1, <1>2 DEF Links, Adopted, Asked
  <1> QED
    BY <1>5, <1>6, <1>7, <1>8 DEF Links

\* A new status leaves everything by which a finding is known.
LEMMA ActionLinks ==
    ASSUME TypeOK, Links, NEW req \in sent, UpdateFileFinding(req)
    PROVE  Links'
  <1>1. PICK f \in findings :
           /\ findings' = (findings \ {f}) \cup {Acted(f, req.about.action)}
           /\ Record(req, f.rev, f.path)
    BY DEF UpdateFileFinding
  <1>2. version \in Nat /\ version' = version + 1 /\ drafts' = drafts
    BY <1>1 DEF UpdateFileFinding, Record, NextVersion, TypeOK
  <1> DEFINE g == Acted(f, req.about.action)
  <1>3. f \in Finding
    BY DEF TypeOK
  <1>4. /\ g.id = f.id /\ g.draft = f.draft /\ g.drafted = f.drafted
        /\ g.origin = f.origin /\ g.rev = f.rev
    BY <1>3 DEF Acted, Finding
  <1>5. findings' = (findings \ {f}) \cup {g}
    BY <1>1
  <1> HIDE DEF g
  <1>6. \A d \in drafts : d.id \in Nat
    BY DEF TypeOK, Draft
  <1>7. \A h \in findings : h.id \in Nat /\ h.draft \in Nat
    BY DEF TypeOK, Finding
  <1>8. DraftIds'
    BY <1>2, <1>6 DEF Links, DraftIds
  <1>9. FindingIds'
    BY <1>2, <1>4, <1>5, <1>7 DEF Links, FindingIds
  <1>10. Traced'
    BY <1>2, <1>4, <1>5 DEF Links, Traced
  <1>11. Adopted'
    BY <1>2, <1>4, <1>5 DEF Links, Adopted
  <1>12. Asked'
    BY <1>2, <1>4, <1>5 DEF Links, Asked
  <1> QED
    BY <1>8, <1>9, <1>10, <1>11, <1>12 DEF Links

\* A new draft: no finding comes from it yet.
LEMMA DraftLinks ==
    ASSUME TypeOK, Links, NEW req \in sent, DraftFileReview(req)
    PROVE  Links'
  <1> DEFINE drafted == {[name |-> p, path |-> Canonical(current, p),
                          adopted |-> 0, status |-> "pending"]
                         : p \in req.about.findings}
             n == [id |-> NextVersion, rev |-> current, findings |-> drafted]
  <1>1. /\ version \in Nat /\ version' = version + 1
        /\ findings' = findings /\ drafts' = drafts \cup {n}
    BY DEF DraftFileReview, Record, NextVersion, TypeOK
  <1>2. n.id = version + 1 /\ n.findings = drafted
    BY DEF NextVersion
  <1>3. \A x \in drafted : x.status = "pending"
    OBVIOUS
  <1>4. \A x, y \in drafted : x.name = y.name => x = y
    OBVIOUS
  <1> HIDE DEF n, drafted
  <1>5. \A d \in drafts : d.id \in Nat
    BY DEF TypeOK, Draft
  <1>6. \A f \in findings : f.id \in Nat /\ f.draft \in Nat
    BY DEF TypeOK, Finding
  <1>7. DraftIds'
    BY <1>1, <1>2, <1>4, <1>5 DEF Links, DraftIds
  <1>8. FindingIds'
    BY <1>1, <1>6 DEF Links, FindingIds
  <1>9. Traced'
    BY <1>1, <1>2, <1>6 DEF Links, Traced, FindingIds
  <1>10. Adopted'
    BY <1>1, <1>2, <1>3 DEF Links, Adopted
  <1>11. Asked'
    BY <1>1 DEF Links, Asked
  <1> QED
    BY <1>7, <1>8, <1>9, <1>10, <1>11 DEF Links

\* A decision: an accepted drafted finding is traced to the new finding, a
\* dismissed one to none.
LEMMA AdoptLinks ==
    ASSUME TypeOK, Links, NEW req \in sent, AdoptDraftFinding(req)
    PROVE  Links'
  <1>1. PICK d, x : Adopts(req, d, x)
    BY AdoptionPicks
  <1> DEFINE y == Decided(x, req.about.action)
             n == [d EXCEPT !.findings = (d.findings \ {x}) \cup {y}]
             missing == ~Reviewable(FileOf(current, x.path))
             made == [id |-> NextVersion, path |-> Canonical(current, x.path),
                      rev |-> current, status |-> "open",
                      origin |-> "agent_draft", draft |-> d.id,
                      drafted |-> x.name, missing |-> missing]
  <1>2. d \in drafts /\ x \in d.findings /\ x.status = "pending"
    BY <1>1 DEF Adopts, Pending
  <1>3. version \in Nat /\ version' = version + 1
    BY <1>1 DEF Adopts, Record, NextVersion, TypeOK
  <1>4. d \in Draft
    BY <1>2 DEF TypeOK
  <1>5. /\ n.id = d.id /\ n.rev = d.rev
        /\ n.findings = (d.findings \ {x}) \cup {y}
    BY <1>4 DEF Draft
  <1>6. /\ y.name = x.name
        /\ y.status = "accepted" <=> req.about.action = "accept"
        /\ req.about.action = "accept" => y.adopted = version + 1
    BY DEF Decided, NextVersion
  <1>7. drafts' = (drafts \ {d}) \cup {n}
    BY <1>1 DEF Adopts
  <1>8. /\ made.id = version + 1 /\ made.rev = d.rev /\ made.draft = d.id
        /\ made.drafted = x.name /\ made.origin = "agent_draft"
    BY <1>1 DEF Adopts, IsCurrent, NextVersion
  <1>9. \/ req.about.action = "accept" /\ findings' = findings \cup {made}
        \/ req.about.action # "accept" /\ findings' = findings
    BY <1>1 DEF Adopts
  <1> HIDE DEF y, n, made
  <1>10. \A e \in drafts : e.id \in Nat
    BY DEF TypeOK, Draft
  <1>11. \A f \in findings : f.id \in Nat /\ f.draft \in Nat
    BY DEF TypeOK, Finding
  <1>12. DraftIds /\ FindingIds /\ Traced /\ Adopted /\ Asked
    BY DEF Links
  <1>13. \A e \in drafts' : \E b \in drafts : e.id = b.id /\ e.rev = b.rev
    BY <1>2, <1>5, <1>7
  <1>14. DraftIds'
    <2>1. \A e \in drafts' : 1 <= e.id /\ e.id <= version'
      BY <1>3, <1>10, <1>12, <1>13 DEF DraftIds
    <2>2. \A e, b \in drafts' : e.id = b.id => e = b
      BY <1>2, <1>5, <1>7, <1>12 DEF DraftIds
    <2>3. \A v, w \in n.findings : v.name = w.name => v = w
      BY <1>2, <1>5, <1>6, <1>12 DEF DraftIds
    <2> QED
      BY <1>7, <1>12, <2>1, <2>2, <2>3 DEF DraftIds
  <1>15. FindingIds'
    BY <1>2, <1>3, <1>8, <1>9, <1>10, <1>11, <1>12 DEF FindingIds, DraftIds
  \* No finding of before comes from the drafted finding being decided.
  <1>16. \A f \in findings : ~(f.draft = d.id /\ f.drafted = x.name)
    BY <1>2, <1>12 DEF Traced
  <1>17. Traced'
    <2>1. ASSUME NEW f \in findings, NEW e \in drafts', f.draft = e.id
          PROVE  /\ f.rev = e.rev
                 /\ \A v \in e.findings : f.drafted = v.name =>
                       v.status = "accepted" /\ f.id = v.adopted
      <3>1. CASE e \in drafts
        BY <1>12, <2>1, <3>1 DEF Traced
      <3>2. CASE e = n
        BY <1>2, <1>5, <1>6, <1>12, <1>16, <2>1, <3>2 DEF Traced
      <3> QED
        BY <1>7, <3>1, <3>2
    <2>2. ASSUME req.about.action = "accept", NEW e \in drafts',
                 made.draft = e.id
          PROVE  /\ made.rev = e.rev
                 /\ \A v \in e.findings : made.drafted = v.name =>
                       v.status = "accepted" /\ made.id = v.adopted
      <3>1. e = n
        BY <1>2, <1>7, <1>8, <1>12, <2>2 DEF DraftIds
      <3>2. \A v \in n.findings : v.name = x.name => v = y
        BY <1>2, <1>5, <1>12 DEF DraftIds
      <3> QED
        BY <1>5, <1>6, <1>8, <2>2, <3>1, <3>2
    <2> QED
      BY <1>9, <2>1, <2>2 DEF Traced
  <1>18. Adopted'
    <2>1. ASSUME NEW e \in drafts', NEW v \in e.findings,
                 v.status = "accepted"
          PROVE  \E f \in findings' :
                    f.draft = e.id /\ f.drafted = v.name /\ f.id = v.adopted
      <3>1. CASE e \in drafts
        BY <1>9, <1>12, <2>1, <3>1 DEF Adopted
      <3>2. CASE e = n /\ v \in d.findings
        BY <1>2, <1>5, <1>9, <1>12, <2>1, <3>2 DEF Adopted
      <3>3. CASE e = n /\ v = y
        BY <1>5, <1>6, <1>8, <1>9, <2>1, <3>3
      <3> QED
        BY <1>5, <1>7, <2>1, <3>1, <3>2, <3>3
    <2> QED
      BY <2>1 DEF Adopted
  <1>19. Asked'
    <2>1. \A e \in drafts : \A v \in e.findings :
             \E b \in drafts' : \E w \in b.findings :
                b.id = e.id /\ w.name = v.name
      BY <1>2, <1>5, <1>6, <1>7
    <2>2. \A f \in findings : f.origin = "agent_draft" =>
             \E b \in drafts' : \E w \in b.findings :
                f.draft = b.id /\ f.drafted = w.name
      BY <1>12, <2>1 DEF Asked
    <2>3. \E b \in drafts' : \E w \in b.findings :
             made.draft = b.id /\ made.drafted = w.name
      BY <1>2, <1>8, <2>1
    <2> QED
      BY <1>9, <2>2, <2>3 DEF Asked
  <1> QED
    BY <1>14, <1>15, <1>17, <1>18, <1>19 DEF Links

LEMMA LinksStep ==
    ASSUME TypeOK, Links, [OpenNext]_vars
    PROVE  Links'
  <1>1. version' \in Nat /\ version <= version' /\ version \in Nat
    BY VersionsGrow DEF TypeOK
  <1>2. ASSUME drafts' = drafts, findings' = findings
        PROVE  Links'
    <2>1. \A d \in drafts : d.id \in Nat
      BY DEF TypeOK, Draft
    <2>2. \A f \in findings : f.id \in Nat /\ f.draft \in Nat
      BY DEF TypeOK, Finding
    <2>3. DraftIds'
      BY <1>1, <1>2, <2>1 DEF Links, DraftIds
    <2>4. FindingIds'
      BY <1>1, <1>2, <2>2 DEF Links, FindingIds
    <2> QED
      BY <1>2, <2>3, <2>4 DEF Links, Traced, Adopted, Asked
  <1>3. ASSUME NEW req \in sent, Deliver(req) PROVE Links'
    <2>1. CASE SaveFileReview(req)
      BY <1>2, <2>1 DEF SaveFileReview
    <2> QED
      BY <1>3, <2>1, FindingLinks, ActionLinks, DraftLinks, AdoptLinks
         DEF Deliver
  <1>4. CASE ~(\E req \in sent : Deliver(req))
    BY <1>2, <1>4, OtherSteps
  <1> QED
    BY <1>3, <1>4

LEMMA LinksHold == Spec \/ DialogSpec => []Links
  <1>1. Init => Links
    BY DEF Init, Links, DraftIds, FindingIds, Traced, Adopted, Asked
  <1>2. TypeOK /\ Links /\ [OpenNext]_vars => Links'
    BY LinksStep
  <1> QED
    BY <1>1, <1>2, TypeCorrect, OpenClients, PTL DEF OpenSpec

\* However often, under however many keys and after whatever publications a
\* drafted finding is decided, one finding at most comes of it, and none that
\* a human did not accept.
THEOREM AdoptionsOnce == Spec \/ DialogSpec => []AdoptedOnce
  <1>1. Links => AdoptedOnce
    BY LinksAdoptOnce
  <1> QED
    BY <1>1, LinksHold, PTL

------------------------------------------------------------------------------
(* The revision a record is about *)

EventsBound ==
    \A e \in events :
        e.about.op \in {"review", "finding", "draft"} => e.rev = e.about.rev

LEMMA EventsBoundStep ==
    ASSUME EventsBound, [OpenNext]_vars
    PROVE  EventsBound'
  <1>1. ASSUME NEW req \in sent, Deliver(req) PROVE EventsBound'
    <2>1. PICK r, p : /\ Record(req, r, p)
                      /\ req.about.op \in {"review", "finding", "draft"}
                            => r = req.about.rev
      <3>1. CASE SaveFileReview(req)
        BY <3>1 DEF SaveFileReview, IsCurrent
      <3>2. CASE SaveFileFinding(req)
        BY <3>2 DEF SaveFileFinding, IsCurrent
      <3>3. CASE UpdateFileFinding(req)
        BY <3>3 DEF UpdateFileFinding
      <3>4. CASE DraftFileReview(req)
        BY <3>4 DEF DraftFileReview, IsCurrent
      <3>5. CASE AdoptDraftFinding(req)
        BY <3>5 DEF AdoptDraftFinding
      <3> QED
        BY <1>1, <3>1, <3>2, <3>3, <3>4, <3>5 DEF Deliver
    <2> DEFINE done == [id |-> NextVersion, about |-> req.about, rev |-> r,
                        path |-> p]
    <2>2. events' = events \cup {done}
      BY <2>1 DEF Record
    <2>3. done.about = req.about /\ done.rev = r
      OBVIOUS
    <2> HIDE DEF done
    <2> QED
      BY <2>1, <2>2, <2>3 DEF EventsBound
  <1>2. CASE ~(\E req \in sent : Deliver(req))
    BY <1>2, OtherSteps DEF EventsBound
  <1> QED
    BY <1>1, <1>2

\* A page, a form or an agent that still shows a replaced revision writes
\* nothing about the new one.
THEOREM WritesBound == Spec \/ DialogSpec => []BoundAsShown
  <1>1. Init => EventsBound
    BY DEF Init, EventsBound
  <1>2. EventsBound /\ [OpenNext]_vars => EventsBound'
    BY EventsBoundStep
  <1>3. EventsBound /\ Links => BoundAsShown
    BY DEF EventsBound, Links, Traced, BoundAsShown
  <1> QED
    BY <1>1, <1>2, <1>3, LinksHold, OpenClients, PTL DEF OpenSpec
------------------------------------------------------------------------------
(* What the audit trail explains *)

\* The trail grows at its end, and actions are about findings there were.
TrailOrder ==
    /\ \A e \in events : e.id <= version
    /\ \A e \in events : e.about.op = "action" => e.about.finding <= version

\* What a writer adds to the trail.
Adds(req, done) ==
    /\ version \in Nat /\ version' = version + 1
    /\ events' = events \cup {done}
    /\ done.id = version + 1 /\ done.about = req.about
    /\ \A e \in events : e.id \in Nat /\ e.id < done.id

LEMMA RecordAdds ==
    ASSUME TypeOK, TrailOrder, NEW req, NEW r, NEW p, Record(req, r, p)
    PROVE  \E done : Adds(req, done) /\ done.rev = r /\ done.path = p
  <1> DEFINE done == [id |-> NextVersion, about |-> req.about, rev |-> r,
                      path |-> p]
  <1>1. events' = events \cup {done}
    BY DEF Record
  <1>2. /\ done.id = version + 1 /\ done.about = req.about
        /\ done.rev = r /\ done.path = p
    BY DEF NextVersion
  <1>3. version \in Nat /\ version' = version + 1
    BY DEF Record, NextVersion, TypeOK
  <1>4. \A e \in events : e.id \in Nat /\ e.id < version + 1
    BY <1>3 DEF TypeOK, Event, TrailOrder
  <1> HIDE DEF done
  <1> QED
    BY <1>1, <1>2, <1>3, <1>4 DEF Adds

\* The act on a finding names a finding of a version already reached.
LEMMA TrailOrderStep ==
    ASSUME TypeOK, Links, TrailOrder, [OpenNext]_vars
    PROVE  TrailOrder'
  <1>0. /\ version' \in Nat /\ version <= version' /\ version \in Nat
        /\ \A e \in events : e.id \in Nat
        /\ \A e \in events : e.about.op = "action" => e.about.finding \in Nat
    BY VersionsGrow, AboutKinds DEF TypeOK, Event
  <1>1. ASSUME NEW req \in sent, Deliver(req) PROVE TrailOrder'
    <2>1. PICK r, p : Record(req, r, p)
      BY <1>1, WriterRecords
    <2>2. PICK done : Adds(req, done)
      BY <2>1, RecordAdds
    <2>3. req.about.op = "action" => req.about.finding <= version
      <3>1. ASSUME UpdateFileFinding(req)
            PROVE  req.about.finding <= version
        BY <3>1 DEF UpdateFileFinding, Links, FindingIds
      <3>2. req.about.op = "action" => UpdateFileFinding(req)
        BY <1>1 DEF Deliver, SaveFileReview, SaveFileFinding, DraftFileReview,
                    AdoptDraftFinding
      <3> QED
        BY <3>1, <3>2
    <2>4. req.about.op = "action" => req.about.finding \in Nat
      <3>1. req.about \in About
        BY DEF TypeOK, Request
      <3> QED
        BY <3>1, AboutKinds
    <2> QED
      BY <1>0, <2>2, <2>3, <2>4 DEF Adds, TrailOrder
  <1>2. CASE ~(\E req \in sent : Deliver(req))
    BY <1>0, <1>2, OtherSteps DEF TrailOrder
  <1> QED
    BY <1>1, <1>2

\* The row of a review event.
RowOf(e) == [path |-> e.path, rev |-> e.rev, reviewed |-> e.about.reviewed,
             event |-> e.id]

ReviewRows ==
    reviews = {RowOf(e) : e \in {x \in EventsOf("review") :
                                    Newest(x, EventsOf("review"))}}

ActedOn(f) == {e \in EventsOf("action") : e.about.finding = f.id}

StatusOf(f) ==
    \/ ActedOn(f) = {} /\ f.status = "open"
    \/ \E e \in ActedOn(f) : /\ \A a \in ActedOn(f) : a.id <= e.id
                             /\ f.status = FINDING_ACTIONS[e.about.action]

FindingStatuses == \A f \in findings : StatusOf(f)

LEMMA ReviewRowsStep ==
    ASSUME TypeOK, TrailOrder, ReviewRows, NEW req \in sent, Deliver(req)
    PROVE  ReviewRows'
  <1> DEFINE old == EventsOf("review")
  <1>1. CASE SaveFileReview(req)
    <2> DEFINE path == Canonical(current, req.about.path)
               new == [path |-> path, rev |-> current,
                       reviewed |-> req.about.reviewed, event |-> NextVersion]
    <2>1. PICK done : /\ Adds(req, done)
                      /\ done.rev = current /\ done.path = path
      BY <1>1, RecordAdds DEF SaveFileReview
    <2>2. reviews' = {x \in reviews : ~SameFile(x, path, current)} \cup {new}
      BY <1>1 DEF SaveFileReview
    <2>3. new = RowOf(done)
      BY <2>1 DEF RowOf, Adds, NextVersion
    <2>4. EventsOf("review")' = old \cup {done}
      BY <1>1, <2>1 DEF EventsOf, Adds, SaveFileReview
    <2>5. \A e \in old : e.id \in Nat /\ e.id < done.id
      BY <2>1 DEF EventsOf, Adds
    <2>6. done.id \in Nat
      BY <2>1 DEF Adds
    <2> HIDE DEF old, new, path
    <2>7. Newest(done, old \cup {done})
      BY <2>5, <2>6 DEF Newest
    <2>8. \A e \in old : Newest(e, old \cup {done}) <=>
                            Newest(e, old) /\ ~(e.path = path /\ e.rev = current)
      BY <2>1, <2>5, <2>6 DEF Newest
    <2>9. \A e \in old : SameFile(RowOf(e), path, current) <=>
                            e.path = path /\ e.rev = current
      BY DEF SameFile, RowOf
    <2>10. reviews = {RowOf(e) : e \in {x \in old : Newest(x, old)}}
      BY DEF ReviewRows, old
    <2>11. {x \in reviews : ~SameFile(x, path, current)} =
              {RowOf(e) : e \in {x \in old : Newest(x, old \cup {done})}}
      BY <2>8, <2>9, <2>10
    <2>12. reviews' = {RowOf(e) : e \in {x \in old \cup {done} :
                                            Newest(x, old \cup {done})}}
      BY <2>2, <2>3, <2>7, <2>11
    <2> QED
      BY <2>4, <2>12 DEF ReviewRows, RowOf, Newest
  <1>2. CASE ~SaveFileReview(req)
    <2>1. reviews' = reviews /\ req.about.op # "review"
      BY <1>2 DEF Deliver, SaveFileFinding, UpdateFileFinding, DraftFileReview,
                  AdoptDraftFinding
    <2>2. PICK r, p : Record(req, r, p)
      BY WriterRecords
    <2>3. PICK done : Adds(req, done)
      BY <2>2, RecordAdds
    <2>4. EventsOf("review")' = old
      BY <2>1, <2>3 DEF EventsOf, Adds
    <2> HIDE DEF old
    <2> QED
      BY <2>1, <2>4 DEF ReviewRows, RowOf, Newest, old
  <1> QED
    BY <1>1, <1>2

\* A finding that is there keeps its status while nobody acts on it.
LEMMA StatusKept ==
    ASSUME NEW f, NEW req, NEW done, StatusOf(f), Adds(req, done),
           ~(req.about.op = "action" /\ req.about.finding = f.id)
    PROVE  StatusOf(f)'
  <1>1. ActedOn(f)' = ActedOn(f)
    BY DEF ActedOn, EventsOf, Adds
  <1> QED
    BY <1>1 DEF StatusOf

\* Nobody has acted yet on a finding of the version being written.
LEMMA StatusNew ==
    ASSUME TypeOK, TrailOrder, NEW f, NEW req, NEW done, Adds(req, done),
           f.id = version + 1, f.status = "open", req.about.op # "action"
    PROVE  StatusOf(f)'
  <1>1. \A e \in EventsOf("action") : e.about.finding # f.id
    <2>1. version \in Nat
      BY DEF TypeOK
    <2>2. \A e \in events : e.about.op = "action" => e.about.finding \in Nat
      BY AboutKinds DEF TypeOK, Event
    <2> QED
      BY <2>1, <2>2 DEF EventsOf, TrailOrder
  <1>2. ActedOn(f)' = {}
    BY <1>1 DEF ActedOn, EventsOf, Adds
  <1> QED
    BY <1>2 DEF StatusOf

LEMMA FindingStatusesStep ==
    ASSUME TypeOK, Links, TrailOrder, FindingStatuses,
           NEW req \in sent, Deliver(req)
    PROVE  FindingStatuses'
  <1>1. PICK r, p : Record(req, r, p)
    BY WriterRecords
  <1>2. PICK done : Adds(req, done)
    BY <1>1, RecordAdds
  <1>3. \A f \in findings : StatusOf(f)
    BY DEF FindingStatuses
  <1>4. ASSUME req.about.op # "action"
        PROVE  \A f \in findings : StatusOf(f)'
    BY <1>2, <1>3, <1>4, StatusKept
  <1>5. ASSUME NEW n, n.id = version + 1, n.status = "open",
               req.about.op # "action", findings' = findings \cup {n}
        PROVE  FindingStatuses'
    BY <1>2, <1>4, <1>5, StatusNew DEF FindingStatuses
  <1>6. ASSUME req.about.op # "action", findings' = findings
        PROVE  FindingStatuses'
    BY <1>4, <1>6 DEF FindingStatuses
  <1>7. CASE SaveFileReview(req) \/ DraftFileReview(req)
    BY <1>6, <1>7 DEF SaveFileReview, DraftFileReview
  <1>8. CASE SaveFileFinding(req)
    <2> DEFINE missing == ~Reviewable(FileOf(current, req.about.path))
               n == [id |-> NextVersion,
                     path |-> Canonical(current, req.about.path),
                     rev |-> current, status |-> "open", origin |-> "human",
                     draft |-> 0, drafted |-> None, missing |-> missing]
    <2>1. /\ findings' = findings \cup {n} /\ req.about.op # "action"
          /\ n.id = version + 1 /\ n.status = "open"
      BY <1>8 DEF SaveFileFinding, NextVersion
    <2> HIDE DEF n
    <2> QED
      BY <1>5, <2>1
  <1>9. CASE AdoptDraftFinding(req)
    <2>1. PICK d, x : Adopts(req, d, x)
      BY <1>9, AdoptionPicks
    <2>2. req.about.op # "action"
      BY <1>9 DEF AdoptDraftFinding
    <2> DEFINE missing == ~Reviewable(FileOf(current, x.path))
               n == [id |-> NextVersion, path |-> Canonical(current, x.path),
                     rev |-> current, status |-> "open",
                     origin |-> "agent_draft", draft |-> d.id,
                     drafted |-> x.name, missing |-> missing]
    <2>3. findings' = findings \cup {n} \/ findings' = findings
      BY <2>1 DEF Adopts
    <2>4. n.id = version + 1 /\ n.status = "open"
      BY DEF NextVersion
    <2> HIDE DEF n
    <2> QED
      BY <1>5, <1>6, <2>2, <2>3, <2>4
  <1>10. CASE UpdateFileFinding(req)
    <2>1. PICK f \in findings :
             /\ f.id = req.about.finding
             /\ findings' = (findings \ {f}) \cup {Acted(f, req.about.action)}
      BY <1>10 DEF UpdateFileFinding
    <2> DEFINE g == Acted(f, req.about.action)
    <2>2. f \in Finding /\ req.about.op = "action"
      BY <1>10 DEF TypeOK, UpdateFileFinding
    <2>3. g.id = f.id /\ g.status = FINDING_ACTIONS[req.about.action]
      BY <2>2 DEF Acted, Finding
    <2>4. findings' = (findings \ {f}) \cup {g}
      BY <2>1
    <2> HIDE DEF g
    <2>5. \A h \in findings \ {f} : h.id # f.id
      BY DEF Links, FindingIds
    <2>6. \A h \in findings \ {f} : StatusOf(h)'
      BY <1>2, <1>3, <2>1, <2>5, StatusKept
    <2>7. done \in ActedOn(g)'
      BY <1>2, <2>1, <2>2, <2>3 DEF ActedOn, EventsOf, Adds
    <2>8. \A a \in ActedOn(g)' : a.id <= done.id
      BY <1>2 DEF ActedOn, EventsOf, Adds
    <2>9. g.status = FINDING_ACTIONS[done.about.action]
      BY <1>2, <2>3 DEF Adds
    <2>10. StatusOf(g)'
      BY <2>7, <2>8, <2>9 DEF StatusOf
    <2> QED
      BY <2>4, <2>6, <2>10 DEF FindingStatuses
  <1> QED
    BY <1>7, <1>8, <1>9, <1>10 DEF Deliver

LEMMA HumanExplained ==
    ASSUME ReviewRows, FindingStatuses
    PROVE  HumanRecordsExplained
  <1>1. reviews =
          {[path |-> e.path, rev |-> e.rev, reviewed |-> e.about.reviewed,
            event |-> e.id]
           : e \in {x \in EventsOf("review") : Newest(x, EventsOf("review"))}}
    BY DEF ReviewRows, RowOf
  <1>2. \A f \in findings :
          LET acts == {e \in EventsOf("action") : e.about.finding = f.id} IN
          \/ acts = {} /\ f.status = "open"
          \/ \E e \in acts : /\ \A a \in acts : a.id <= e.id
                             /\ f.status = FINDING_ACTIONS[e.about.action]
    BY DEF FindingStatuses, StatusOf, ActedOn
  <1> QED
    BY <1>1, <1>2 DEF HumanRecordsExplained

\* Each file of a revision has one coverage row at most.
OneClaimEach == \A c, d \in coverage : c.path = d.path /\ c.rev = d.rev => c = d

\* A row is what the newest draft that claims its file says.
LatestClaim(c) ==
    /\ \A e \in Claiming(c.path, c.rev) : e.id <= c.draft
    /\ \E e \in Claiming(c.path, c.rev) :
          /\ e.id = c.draft
          /\ \E m \in e.about.coverage :
                /\ Canonical(c.rev, m.path) = c.path
                /\ m.status = c.status

LatestClaims == \A c \in coverage : LatestClaim(c)

ClaimsKept ==
    \A e \in EventsOf("draft") : \A m \in e.about.coverage :
        \E c \in coverage : c.path = Canonical(e.rev, m.path) /\ c.rev = e.rev

CoverageRows == OneClaimEach /\ LatestClaims /\ ClaimsKept

LEMMA DraftCoverage ==
    ASSUME TypeOK, TrailOrder, CoverageRows, NEW req \in sent,
           DraftFileReview(req)
    PROVE  CoverageRows'
  <1> DEFINE Row(m) == [path |-> Canonical(current, m.path), rev |-> current,
                        status |-> m.status, draft |-> NextVersion]
             claimed == {Row(m) : m \in req.about.coverage}
             rest == {x \in coverage :
                         \A c \in claimed : ~SameFile(x, c.path, current)}
  <1>1. PICK done : Adds(req, done) /\ done.rev = current
    BY RecordAdds DEF DraftFileReview
  <1>2. coverage' = rest \cup claimed
    BY DEF DraftFileReview
  <1>3. \A m \in req.about.coverage :
           /\ Row(m).path = Canonical(current, m.path)
           /\ Row(m).rev = current /\ Row(m).status = m.status
           /\ Row(m).draft = done.id
    BY <1>1 DEF Adds, NextVersion
  <1>4. \A m, n \in req.about.coverage :
           Canonical(current, m.path) = Canonical(current, n.path) => m = n
    BY DEF DraftFileReview, ValidClaims
  <1>5. done.about = req.about /\ done.about.op = "draft"
    BY <1>1 DEF Adds, DraftFileReview
  <1> HIDE DEF Row
  <1>6. \A c \in claimed : c.rev = current
    BY <1>3
  <1>7. /\ rest \subseteq coverage
        /\ \A x \in rest : \A c \in claimed :
              ~(x.path = c.path /\ x.rev = c.rev)
        /\ \A x \in coverage \ rest : \E c \in claimed :
              x.path = c.path /\ x.rev = c.rev
    BY <1>6 DEF SameFile
  <1>8. OneClaimEach'
    <2>1. \A c, d \in claimed : c.path = d.path => c = d
      BY <1>3, <1>4
    <2> HIDE DEF rest, claimed
    <2> QED
      BY <1>2, <1>7, <2>1 DEF CoverageRows, OneClaimEach
  <1>9. ASSUME NEW c \in rest
        PROVE  LatestClaim(c)'
    <2>1. ~(done.rev = c.rev /\ \E m \in done.about.coverage :
                                   Canonical(c.rev, m.path) = c.path)
      BY <1>1, <1>3, <1>5, <1>7
    <2>2. Claiming(c.path, c.rev)' = Claiming(c.path, c.rev)
      BY <1>1, <2>1 DEF Claiming, EventsOf, Adds
    <2>3. LatestClaim(c)
      BY <1>7 DEF CoverageRows, LatestClaims
    <2> QED
      BY <2>2, <2>3 DEF LatestClaim
  <1>10. ASSUME NEW c \in claimed
         PROVE  LatestClaim(c)'
    <2>1. PICK m \in req.about.coverage : c = Row(m)
      OBVIOUS
    <2>2. /\ c.path = Canonical(current, m.path) /\ c.rev = current
          /\ c.status = m.status /\ c.draft = done.id
      BY <1>3, <2>1
    <2>3. done \in Claiming(c.path, c.rev)'
      BY <1>1, <1>5, <2>1, <2>2 DEF Claiming, EventsOf, Adds
    <2>4. \A e \in Claiming(c.path, c.rev)' : e.id <= done.id
      BY <1>1 DEF Claiming, EventsOf, Adds
    <2> QED
      BY <1>5, <2>1, <2>2, <2>3, <2>4 DEF LatestClaim
  <1>11. ClaimsKept'
    <2>1. ASSUME NEW e \in EventsOf("draft"), NEW m \in e.about.coverage
          PROVE  \E c \in coverage' :
                    c.path = Canonical(e.rev, m.path) /\ c.rev = e.rev
      <3>1. PICK x \in coverage :
               x.path = Canonical(e.rev, m.path) /\ x.rev = e.rev
        BY DEF CoverageRows, ClaimsKept
      <3> HIDE DEF rest, claimed
      <3> QED
        BY <1>2, <1>7, <3>1
    <2>2. ASSUME NEW m \in done.about.coverage
          PROVE  \E c \in coverage' :
                    c.path = Canonical(done.rev, m.path) /\ c.rev = done.rev
      BY <1>1, <1>2, <1>3, <1>5
    <2>3. EventsOf("draft")' = EventsOf("draft") \cup {done}
      BY <1>1, <1>5 DEF EventsOf, Adds
    <2> HIDE DEF rest, claimed
    <2> QED
      BY <2>1, <2>2, <2>3 DEF ClaimsKept
  <1> HIDE DEF rest, claimed
  <1> QED
    BY <1>2, <1>8, <1>9, <1>10, <1>11 DEF CoverageRows, LatestClaims

LEMMA CoverageRowsStep ==
    ASSUME TypeOK, TrailOrder, CoverageRows, NEW req \in sent, Deliver(req)
    PROVE  CoverageRows'
  <1>1. CASE DraftFileReview(req)
    BY <1>1, DraftCoverage
  <1>2. CASE ~DraftFileReview(req)
    <2>1. coverage' = coverage /\ req.about.op # "draft"
      BY <1>2 DEF Deliver, SaveFileReview, SaveFileFinding, UpdateFileFinding,
                  AdoptDraftFinding
    <2>2. PICK r, p : Record(req, r, p)
      BY WriterRecords
    <2>3. PICK done : Adds(req, done)
      BY <2>2, RecordAdds
    <2>4. EventsOf("draft")' = EventsOf("draft")
      BY <2>1, <2>3 DEF EventsOf, Adds
    <2> QED
      BY <2>1, <2>4 DEF CoverageRows, OneClaimEach, LatestClaims, LatestClaim,
                        ClaimsKept, Claiming
  <1> QED
    BY <1>1, <1>2

Trail == TrailOrder /\ ReviewRows /\ FindingStatuses /\ CoverageRows

LEMMA TrailHolds == Spec \/ DialogSpec => []Trail
  <1>1. Init => Trail
    BY DEF Init, Trail, TrailOrder, ReviewRows, FindingStatuses, CoverageRows,
           OneClaimEach, LatestClaims, ClaimsKept, EventsOf
  <1>2. TypeOK /\ Links /\ Trail /\ [OpenNext]_vars => Trail'
    <2> SUFFICES ASSUME TypeOK, Links, Trail, [OpenNext]_vars
                 PROVE  Trail'
      OBVIOUS
    <2>1. TrailOrder'
      BY TrailOrderStep DEF Trail
    <2>2. CASE \E req \in sent : Deliver(req)
      BY <2>1, <2>2, ReviewRowsStep, FindingStatusesStep, CoverageRowsStep
         DEF Trail
    <2>3. CASE ~(\E req \in sent : Deliver(req))
      <3>1. UNCHANGED <<reviews, findings, coverage, events>>
        BY <2>3, OtherSteps
      <3> QED
        BY <2>1, <3>1 DEF Trail, ReviewRows, RowOf, Newest, EventsOf,
                          FindingStatuses, StatusOf, ActedOn, CoverageRows,
                          OneClaimEach, LatestClaims, LatestClaim, ClaimsKept,
                          Claiming
    <2> QED
      BY <2>2, <2>3
  <1> QED
    BY <1>1, <1>2, TypeCorrect, LinksHold, OpenClients, PTL DEF OpenSpec

\* The audit trail alone determines which files count as reviewed, what
\* status a finding has and what an agent is said to have covered.
THEOREM TrailExplains == Spec \/ DialogSpec => []RecordsExplained
  <1>1. Trail => RecordsExplained
    <2> SUFFICES ASSUME Trail PROVE RecordsExplained
      OBVIOUS
    <2>1. HumanRecordsExplained
      BY HumanExplained DEF Trail
    <2>2. AgentRecordsExplained
      BY DEF Trail, CoverageRows, OneClaimEach, LatestClaims, LatestClaim,
             ClaimsKept, AgentRecordsExplained
    <2> QED
      BY <2>1, <2>2 DEF RecordsExplained
  <1> QED
    BY <1>1, TrailHolds, PTL

------------------------------------------------------------------------------
(* Counters *)

\* Every row is about a file of its revision's manifest, under the path the
\* manifest gives it.
OnFiles ==
    /\ \A x \in reviews : \E e \in Manifest[x.rev] : e.path = x.path
    /\ \A c \in coverage : \E e \in Manifest[c.rev] : e.path = c.path

OneReviewEach ==
    \A x, y \in reviews : x.path = y.path /\ x.rev = y.rev => x = y

RowsOfFiles == OnFiles /\ OneReviewEach

LEMMA RowsOfFilesStep ==
    ASSUME TypeOK, RowsOfFiles, [OpenNext]_vars
    PROVE  RowsOfFiles'
  <1>1. ASSUME NEW req \in sent, SaveFileReview(req)
        PROVE  RowsOfFiles'
    <2> DEFINE path == Canonical(current, req.about.path)
               new == [path |-> path, rev |-> current,
                       reviewed |-> req.about.reviewed, event |-> NextVersion]
    <2>1. current \in Revs /\ Known(current, req.about.path)
      BY <1>1 DEF SaveFileReview, IsCurrent, TypeOK
    <2>2. \E e \in Manifest[current] : e.path = path
      BY <2>1, FileOfKnown
    <2>3. /\ reviews' = {x \in reviews : ~SameFile(x, path, current)} \cup {new}
          /\ coverage' = coverage
      BY <1>1 DEF SaveFileReview
    <2>4. new.path = path /\ new.rev = current
      OBVIOUS
    <2> HIDE DEF new, path
    <2> QED
      BY <2>2, <2>3, <2>4 DEF RowsOfFiles, OnFiles, OneReviewEach, SameFile
  <1>2. ASSUME NEW req \in sent, DraftFileReview(req)
        PROVE  RowsOfFiles'
    <2> DEFINE claimed == {[path |-> Canonical(current, c.path),
                            rev |-> current, status |-> c.status,
                            draft |-> NextVersion] : c \in req.about.coverage}
    <2>1. current \in Revs
      BY <1>2 DEF DraftFileReview, IsCurrent, TypeOK
    <2>2. ASSUME NEW x \in claimed
          PROVE  \E e \in Manifest[x.rev] : e.path = x.path
      <3>1. PICK c \in req.about.coverage :
               x.path = Canonical(current, c.path) /\ x.rev = current
        BY <2>2
      <3>2. Known(current, c.path)
        BY <1>2, <3>1 DEF DraftFileReview, ValidClaims
      <3> QED
        BY <2>1, <3>1, <3>2, FileOfKnown
    <2>3. coverage' \subseteq coverage \cup claimed /\ reviews' = reviews
      BY <1>2 DEF DraftFileReview
    <2> HIDE DEF claimed
    <2> QED
      BY <2>2, <2>3 DEF RowsOfFiles, OnFiles, OneReviewEach
  <1>3. ASSUME NEW req \in sent,
               SaveFileFinding(req) \/ UpdateFileFinding(req)
                  \/ AdoptDraftFinding(req)
        PROVE  RowsOfFiles'
    BY <1>3 DEF SaveFileFinding, UpdateFileFinding, AdoptDraftFinding,
                RowsOfFiles, OnFiles, OneReviewEach
  <1>4. CASE ~(\E req \in sent : Deliver(req))
    BY <1>4, OtherSteps DEF RowsOfFiles, OnFiles, OneReviewEach
  <1> QED
    BY <1>1, <1>2, <1>3, <1>4 DEF Deliver

\* Rows that name different entries of a manifest, and only entries of it, are
\* as many as the entries they name.
LEMMA RowsCountFiles ==
    ASSUME NEW r \in Revs, NEW S,
           \A x \in S : \E e \in Manifest[r] : e.path = x.path,
           \A x, y \in S : x.path = y.path => x = y
    PROVE  Cardinality(S) =
              Cardinality({e \in Manifest[r] : \E x \in S : x.path = e.path})
  <1> DEFINE named == {e \in Manifest[r] : \E x \in S : x.path = e.path}
             rowOf == [e \in named |-> CHOOSE x \in S : x.path = e.path]
  <1>1. IsFiniteSet(named)
    BY ManifestAssumption, FS_Subset
  <1>2. \A e, f \in named : e.path = f.path => e = f
    BY ManifestAssumption
  <1>3. \A e \in named : rowOf[e] \in S /\ rowOf[e].path = e.path
    OBVIOUS
  <1>4. \A x \in S : \E e \in named : e.path = x.path
    OBVIOUS
  <1>5. rowOf \in [named -> S]
    BY <1>3
  <1> HIDE DEF named, rowOf
  <1>6. \A e, f \in named : rowOf[e] = rowOf[f] => e = f
    BY <1>2, <1>3
  <1>7. \A x \in S : \E e \in named : rowOf[e] = x
    BY <1>3, <1>4
  <1>8. rowOf \in Bijection(named, S)
    BY <1>5, <1>6, <1>7 DEF Bijection, Injection, IsInjective, Surjection
  <1>9. ExistsBijection(named, S)
    BY <1>8 DEF ExistsBijection
  <1> QED
    BY <1>1, <1>9, FS_Bijection DEF named

\* Lists and headers, which count rows, never disagree with the panel, which
\* counts the files of the manifest: not after renames, unmarked files,
\* repeated drafts or publications.
THEOREM CountersEqual == Spec \/ DialogSpec => []CountersAgree
  <1>1. Init => RowsOfFiles
    BY DEF Init, RowsOfFiles, OnFiles, OneReviewEach
  <1>2. TypeOK /\ RowsOfFiles /\ [OpenNext]_vars => RowsOfFiles'
    BY RowsOfFilesStep
  <1>3. TypeOK /\ RowsOfFiles /\ Trail => CountersAgree
    <2> SUFFICES ASSUME TypeOK, RowsOfFiles, Trail, current # None
                 PROVE  /\ Cardinality(FilesReviewed) =
                              Cardinality(HumanReviewed)
                        /\ \A s \in COVERAGE_STATUSES :
                              Cardinality(AgentCounted(s)) =
                                 Cardinality(AgentCovered(s))
      BY DEF CountersAgree
    <2>1. current \in Revs
      BY DEF TypeOK
    <2>2. Cardinality(FilesReviewed) = Cardinality(HumanReviewed)
      <3> DEFINE S == FilesReviewed
      <3>1. \A x \in S : \E e \in Manifest[current] : e.path = x.path
        BY DEF RowsOfFiles, OnFiles, FilesReviewed
      <3>2. \A x, y \in S : x.path = y.path => x = y
        BY DEF RowsOfFiles, OneReviewEach, FilesReviewed
      <3> HIDE DEF S
      <3>3. Cardinality(S) = Cardinality({e \in Manifest[current] :
                                             \E x \in S : x.path = e.path})
        BY <2>1, <3>1, <3>2, RowsCountFiles
      <3> QED
        BY <3>3 DEF S, HumanReviewed
    <2>3. ASSUME NEW s \in COVERAGE_STATUSES
          PROVE  Cardinality(AgentCounted(s)) = Cardinality(AgentCovered(s))
      <3> DEFINE S == AgentCounted(s)
      <3>1. \A x \in S : \E e \in Manifest[current] : e.path = x.path
        BY DEF RowsOfFiles, OnFiles, AgentCounted
      <3>2. \A x, y \in S : x.path = y.path => x = y
        BY DEF Trail, CoverageRows, OneClaimEach, AgentCounted
      <3> HIDE DEF S
      <3>3. Cardinality(S) = Cardinality({e \in Manifest[current] :
                                             \E x \in S : x.path = e.path})
        BY <2>1, <3>1, <3>2, RowsCountFiles
      <3> QED
        BY <3>3 DEF S, AgentCovered
    <2> QED
      BY <2>2, <2>3
  <1> QED
    BY <1>1, <1>2, <1>3, TypeCorrect, TrailHolds, OpenClients, PTL DEF OpenSpec
------------------------------------------------------------------------------
(* The dialog *)

\* The version of a dialog's view, which all its submissions quote.
SameVersion ==
    /\ \A i \in posted : 1 <= i.n /\ i.n <= opened
    /\ dialog.n <= opened
    /\ \A i \in posted : i.n = dialog.n => i.req.version = dialog.seen.version
    /\ \A i, j \in posted : i.n = j.n => i.req.version = j.req.version

\* Once the page is loaded every request is a submission, and a key is chosen
\* for one request.
KeyPerRequest ==
    /\ dialog.n # 0 => page # NotLoaded
    /\ page = NotLoaded => posted = {} /\ inflight = {}
    /\ page # NotLoaded => \A q, r \in sent : q.key = r.key => q = r
    /\ retries \subseteq sent
    /\ \A i \in posted : i.req \in sent

\* A key on record is that of a request which was admitted at the version it
\* quotes; each version is made by one write.
KeyPerWrite ==
    /\ \A k \in keys : /\ k.event <= version
                       /\ \E q \in sent : /\ q.key = k.key
                                          /\ k.event = q.version + 1
    /\ \A j, k \in keys : j.event = k.event => j = k

Traffic == SameVersion /\ KeyPerRequest /\ KeyPerWrite

LEMMA LoadedPage == StorePage # NotLoaded
  BY DEF StorePage, NotLoaded

LEMMA WriterAdmits ==
    ASSUME NEW req, Deliver(req)
    PROVE  /\ req.version = version
           /\ \E k : /\ keys' = keys \cup {k}
                     /\ k.key = req.key /\ k.event = version + 1
           /\ version' = version + 1
           /\ sent' = sent
  <1>1. PICK r, p : Record(req, r, p)
    BY WriterRecords
  <1>2. req.version = version
    BY DEF Deliver, SaveFileReview, SaveFileFinding, UpdateFileFinding,
           DraftFileReview, AdoptDraftFinding, Admitted, VersionsMatch
  <1> DEFINE k == [key |-> req.key, about |-> req.about, event |-> NextVersion]
  <1>3. /\ keys' = keys \cup {k} /\ version' = version + 1 /\ sent' = sent
        /\ k.key = req.key /\ k.event = version + 1
    BY <1>1 DEF Record, NextVersion
  <1> HIDE DEF k
  <1> QED
    BY <1>2, <1>3

LEMMA KeyPerWriteStep ==
    ASSUME TypeOK, KeyPerWrite, [OpenNext]_vars, sent \subseteq sent'
    PROVE  KeyPerWrite'
  <1>0. /\ version \in Nat /\ version' \in Nat /\ version <= version'
        /\ \A k \in keys : k.event \in Nat
    BY VersionsGrow DEF TypeOK, Key
  <1>1. ASSUME NEW req \in sent, Deliver(req) PROVE KeyPerWrite'
    <2>1. PICK k : /\ keys' = keys \cup {k}
                   /\ k.key = req.key /\ k.event = version + 1
      BY <1>1, WriterAdmits
    <2>2. req.version = version /\ version' = version + 1 /\ sent' = sent
      BY <1>1, WriterAdmits
    <2> QED
      BY <1>0, <2>1, <2>2 DEF KeyPerWrite
  <1>2. CASE ~(\E req \in sent : Deliver(req))
    <2>1. keys' = keys
      BY <1>2, OtherSteps
    <2> QED
      BY <1>0, <2>1 DEF KeyPerWrite
  <1> QED
    BY <1>1, <1>2

\* A step of the store leaves the browser alone and, once a page is loaded,
\* composes nothing.
LEMMA StoreTraffic ==
    ASSUME TypeOK, BrowserOK, Traffic, Store
    PROVE  Traffic' /\ sent \subseteq sent'
  <1>1. sent \subseteq sent' /\ (page # NotLoaded => sent' = sent)
    <2>1. ASSUME NEW req \in sent, Deliver(req) PROVE sent' = sent
      BY <2>1, WriterAdmits
    <2>2. CASE page = NotLoaded /\ Compose
      BY <2>2 DEF Compose, Send
    <2>3. CASE Republish \/ WriteElsewhere
      BY <2>3 DEF Republish, WriteElsewhere
    <2> QED
      BY <2>1, <2>2, <2>3 DEF Store
  <1>2. [OpenNext]_vars
    BY DEF Store, OpenNext, Next
  <1>3. KeyPerWrite'
    BY <1>1, <1>2, KeyPerWriteStep DEF Traffic
  <1>4. KeyPerRequest'
    BY <1>1 DEF Store, browser, Traffic, KeyPerRequest, NotLoaded
  <1>5. SameVersion'
    BY DEF Store, browser, Traffic, SameVersion
  <1> QED
    BY <1>1, <1>3, <1>4, <1>5 DEF Traffic

LEMMA SubmitTraffic ==
    ASSUME TypeOK, BrowserOK, Traffic, Submit
    PROVE  Traffic'
  <1>1. PICK req \in Request :
           /\ Submits(req)
           /\ req \in retries \/ \A r \in sent : r.key # req.key
           /\ req.version = page.version
    BY SubmitPicks
  <1>2. page = dialog.seen /\ dialog.n # 0
    BY DEF Submit, SameView
  <1> DEFINE new == [n |-> dialog.n, req |-> req]
  <1>3. /\ sent' = sent \cup {req} /\ retries' = retries \cup {req}
        /\ posted' = posted \cup {new}
        /\ dialog'.n = dialog.n /\ dialog'.seen = dialog.seen
        /\ page' = page /\ opened' = opened
        /\ keys' = keys /\ version' = version
        /\ new.n = dialog.n /\ new.req = req
    BY <1>1 DEF Submits, BrowserOK
  <1> HIDE DEF new
  <1>4. dialog.n \in Nat
    BY DEF BrowserOK
  <1>5. SameVersion'
    <2>1. new.req.version = dialog.seen.version
      BY <1>1, <1>2, <1>3
    <2> QED
      BY <1>2, <1>3, <1>4, <2>1 DEF Traffic, SameVersion
  <1>6. KeyPerRequest'
    <2>1. page # NotLoaded
      BY <1>2 DEF Traffic, KeyPerRequest
    <2>2. page' # NotLoaded'
      BY <1>3, <2>1 DEF NotLoaded
    <2>3. \A q, r \in sent' : q.key = r.key => q = r
      <3>1. CASE req \in retries
        BY <1>3, <2>1, <3>1 DEF Traffic, KeyPerRequest
      <3>2. CASE \A r \in sent : r.key # req.key
        BY <1>3, <2>1, <3>2 DEF Traffic, KeyPerRequest
      <3> QED
        BY <1>1, <3>1, <3>2
    <2>4. retries' \subseteq sent' /\ \A i \in posted' : i.req \in sent'
      BY <1>3 DEF Traffic, KeyPerRequest
    <2> QED
      BY <2>2, <2>3, <2>4 DEF KeyPerRequest
  <1>7. KeyPerWrite'
    BY <1>3 DEF Traffic, KeyPerWrite
  <1> QED
    BY <1>5, <1>6, <1>7 DEF Traffic

LEMMA TrafficStep ==
    ASSUME TypeOK, BrowserOK, Traffic, [DialogNext]_allvars
    PROVE  Traffic'
  <1>1. ASSUME UNCHANGED vars, UNCHANGED <<posted, opened>>,
               retries' \subseteq retries, inflight' \subseteq inflight,
               \/ dialog'.n = 0
               \/ dialog'.n = dialog.n /\ dialog'.seen = dialog.seen,
               page' # NotLoaded \/ page' = page
        PROVE  page # NotLoaded \/ page' = page => Traffic'
    <2>1. SUFFICES ASSUME page # NotLoaded \/ page' = page
                   PROVE  Traffic'
      OBVIOUS
    <2>2. sent' = sent /\ keys' = keys /\ version' = version
      BY <1>1 DEF vars
    <2>3. opened \in Nat
      BY DEF BrowserOK
    <2>4. SameVersion'
      BY <1>1, <2>3 DEF Traffic, SameVersion
    <2>5. KeyPerRequest'
      BY <1>1, <2>1, <2>2 DEF Traffic, KeyPerRequest, NotLoaded
    <2>6. KeyPerWrite'
      BY <2>2 DEF Traffic, KeyPerWrite
    <2> QED
      BY <2>4, <2>5, <2>6 DEF Traffic
  <1>2. CASE Store
    BY <1>2, StoreTraffic
  <1>3. CASE LoadState
    <2>1. /\ UNCHANGED <<vars, dialog, opened, retries, posted, inflight>>
          /\ page' # NotLoaded
      BY <1>3, LoadedPage DEF LoadState
    <2>2. CASE page # NotLoaded
      BY <1>1, <2>1, <2>2
    <2>3. CASE page = NotLoaded
      <3>1. sent = {} /\ sent' = {} /\ keys' = keys /\ version' = version
        BY <1>3, <2>1, <2>3 DEF LoadState, Alone, vars
      <3>2. KeyPerRequest'
        BY <2>1, <3>1 DEF Traffic, KeyPerRequest, NotLoaded
      <3>3. SameVersion' /\ KeyPerWrite'
        BY <2>1, <3>1 DEF Traffic, SameVersion, KeyPerWrite
      <3> QED
        BY <3>2, <3>3 DEF Traffic
    <2> QED
      BY <2>2, <2>3
  <1>4. CASE OpenDialog
    <2>1. PICK e \in Manifest[page.rev] :
             dialog' = [n |-> opened + 1, path |-> e.path, seen |-> page,
                        busy |-> FALSE]
      BY <1>4 DEF OpenDialog
    <2>2. /\ dialog'.n = opened + 1 /\ dialog'.seen = page
          /\ opened' = opened + 1 /\ opened \in Nat
          /\ UNCHANGED <<vars, page, retries, posted, inflight>>
      BY <1>4, <2>1 DEF OpenDialog, BrowserOK
    <2>3. sent' = sent /\ keys' = keys /\ version' = version
      BY <2>2 DEF vars
    <2>4. \A i \in posted : i.n \in Nat
      BY DEF BrowserOK, Submission
    <2>5. SameVersion'
      BY <2>2, <2>4 DEF Traffic, SameVersion
    <2>6. page # NotLoaded
      BY <1>4 DEF OpenDialog, NotLoaded
    <2>7. KeyPerRequest'
      BY <2>2, <2>3, <2>6 DEF Traffic, KeyPerRequest, NotLoaded
    <2>8. KeyPerWrite'
      BY <2>3 DEF Traffic, KeyPerWrite
    <2> QED
      BY <2>5, <2>7, <2>8 DEF Traffic
  <1>5. CASE Cancel
    BY <1>1, <1>5 DEF Cancel, NoDialog
  <1>6. CASE Submit
    BY <1>6, SubmitTraffic
  <1>7. CASE RefuseToSubmit
    BY <1>1, <1>7 DEF RefuseToSubmit
  \* What is awaited was posted, so the page was loaded.
  <1>8. inflight # {} => page # NotLoaded
    BY DEF Traffic, KeyPerRequest
  <1>9. CASE Confirmed
    <2>1. /\ inflight # {} /\ page' = StorePage /\ dialog'.n = 0
          /\ inflight' \subseteq inflight /\ retries' \subseteq retries
          /\ UNCHANGED <<vars, opened, posted>>
      BY <1>9 DEF Confirmed, NoDialog
    <2> QED
      BY <1>1, <1>8, <2>1, LoadedPage
  <1>10. ASSUME NEW i, dialog' = Released(i)
         PROVE  dialog'.n = dialog.n /\ dialog'.seen = dialog.seen
    BY <1>10 DEF Released, BrowserOK
  <1>11. CASE Conflicting
    <2>1. /\ inflight # {} /\ page' = StorePage
          /\ \E i : dialog' = Released(i)
          /\ inflight' \subseteq inflight
          /\ UNCHANGED <<vars, opened, retries, posted>>
      BY <1>11 DEF Conflicting
    <2> QED
      BY <1>1, <1>8, <1>10, <2>1, LoadedPage
  <1>12. CASE Unconfirmed
    <2>1. /\ \E i : dialog' = Released(i)
          /\ inflight' \subseteq inflight
          /\ UNCHANGED <<vars, page, opened, retries, posted>>
      BY <1>12 DEF Unconfirmed
    <2> QED
      BY <1>1, <1>10, <2>1
  <1>13. CASE UNCHANGED allvars
    BY <1>1, <1>13 DEF allvars, browser
  <1> QED
    BY <1>2, <1>3, <1>4, <1>5, <1>6, <1>7, <1>9, <1>11, <1>12, <1>13
       DEF DialogNext

\* All submissions of a dialog quote one version, and one write is admitted
\* at each.
LEMMA TrafficKeepsOne ==
    ASSUME TypeOK, BrowserOK, Traffic
    PROVE  OneFindingPerDialog
  <1> SUFFICES ASSUME NEW n \in 1..opened
               PROVE  Cardinality(Kept(n)) <= 1
    BY DEF OneFindingPerDialog
  <1>1. ASSUME NEW k \in Kept(n)
        PROVE  \E i \in posted : i.n = n /\ k.event = i.req.version + 1
    <2>1. PICK i \in posted : i.n = n /\ i.req.key = k.key
      BY DEF Kept
    <2>2. PICK q \in sent : q.key = k.key /\ k.event = q.version + 1
      BY DEF Kept, Traffic, KeyPerWrite
    <2>3. q = i.req
      BY <2>1, <2>2 DEF Traffic, KeyPerRequest
    <2> QED
      BY <2>1, <2>2, <2>3
  <1>2. \A j, k \in Kept(n) : j = k
    <2> SUFFICES ASSUME NEW j \in Kept(n), NEW k \in Kept(n)
                 PROVE  j = k
      OBVIOUS
    <2>1. j.event = k.event
      BY <1>1 DEF Traffic, SameVersion
    <2> QED
      BY <2>1 DEF Kept, Traffic, KeyPerWrite
  <1>3. CASE Kept(n) = {}
    BY <1>3, FS_EmptySet
  <1>4. ASSUME NEW k \in Kept(n)
        PROVE  Cardinality(Kept(n)) = 1
    <2>1. Kept(n) = {k}
      BY <1>2, <1>4
    <2> QED
      BY <2>1, FS_Singleton
  <1> QED
    BY <1>3, <1>4

\* However often a dialog is submitted, with whatever text, and whichever
\* answers are lost or late, one finding at most comes of it.
THEOREM OneFindingEach == DialogSpec => []OneFindingPerDialog
  <1>1. DialogInit => Traffic
    BY DEF DialogInit, Init, NoDialog, Traffic, SameVersion, KeyPerRequest,
           KeyPerWrite
  <1>2. /\ TypeOK /\ BrowserOK
        /\ Traffic
        /\ [DialogNext]_allvars
        => Traffic'
    BY TrafficStep
  <1>3. TypeOK /\ BrowserOK /\ Traffic => OneFindingPerDialog
    BY TrafficKeepsOne
  <1> QED
    BY <1>1, <1>2, <1>3, BrowserCorrect, PTL DEF DialogSpec

==============================================================================
