-------------------------- MODULE TriageStoreProofs --------------------------
(***************************************************************************)
(* Theorems about TriageStore, for every set of PRs, revisions, keys,      *)
(* workers and operations and for every value of the bounds.               *)
(***************************************************************************)
EXTENDS TriageStore, TLAPS

------------------------------------------------------------------------------
(* Types of what the handlers build *)

LEMMA BoundType ==
    ASSUME TypeOK, NEW g
    PROVE  Bound(g) \in Snapshots
  <1>1. Members(g) \in SUBSET PRs
    BY DEF Members
  <1>2. Bound(g) \in [Members(g) -> Revs \cup {None}]
    BY <1>1 DEF TypeOK, Bound, Rows
  <1> QED
    BY <1>1, <1>2 DEF Snapshots

LEMMA BindType ==
    ASSUME NEW items \in SUBSET Item, NEW r \in Rows,
           \A i \in items : i.kind = "duplicate" => i.of \in PRs
    PROVE  BindRevisions(items, r) \in SUBSET Item
  <1> SUFFICES ASSUME NEW i \in items
               PROVE  [i EXCEPT !.rev = r[i.pr],
                                !.ofRev = IF i.kind = "duplicate"
                                          THEN r[i.of] ELSE None] \in Item
    BY DEF BindRevisions
  <1>1. i \in Item
    OBVIOUS
  <1>2. r[i.pr] \in Revs \cup {None}
    BY <1>1 DEF Item, Rows
  <1>3. (IF i.kind = "duplicate" THEN r[i.of] ELSE None) \in Revs \cup {None}
    BY DEF Rows
  <1> QED
    BY <1>1, <1>2, <1>3 DEF Item

LEMMA WellFormedBindType ==
    ASSUME TypeOK, NEW items \in SUBSET Item, NEW g, NEW b \in BOOLEAN,
           WellFormed(items, rows, Members(g), b)
    PROVE  BindRevisions(items, rows) \in SUBSET Item
  <1>1. \A i \in items : i.kind = "duplicate" => i.of \in PRs
    BY DEF WellFormed, Members
  <1> QED
    BY <1>1, BindType DEF TypeOK

LEMMA FinalizeType ==
    ASSUME TypeOK, NEW items \in SUBSET Item
    PROVE  Finalize(items) \in SUBSET Disposition
  BY DEF TypeOK, Finalize, Disposition, Item, NextVersion

LEMMA ReplaceType ==
    ASSUME NEW S, NEW ds \in SUBSET S, NEW new \in SUBSET S
    PROVE  Replace(ds, new) \in SUBSET S
  BY DEF Replace

LEMMA FormItemsType ==
    ASSUME TypeOK, NEW g
    PROVE  FormItems(Members(g)) \subseteq SUBSET Item
  <1> SUFFICES ASSUME NEW choice \in [Members(g) -> Verdicts(Members(g))
                                        \cup [kind : {None}, of : {None}]]
               PROVE  BindRevisions(
                        {[pr |-> p, rev |-> None, kind |-> choice[p].kind,
                          of |-> choice[p].of, ofRev |-> None] :
                            p \in {q \in Members(g) : choice[q].kind # None}},
                        rows) \in SUBSET Item
    BY DEF FormItems
  <1> DEFINE chosen == {q \in Members(g) : choice[q].kind # None}
             drawn == {[pr |-> p, rev |-> None, kind |-> choice[p].kind,
                        of |-> choice[p].of, ofRev |-> None] : p \in chosen}
  <1>1. ASSUME NEW p \in chosen
        PROVE  /\ p \in PRs
               /\ choice[p].kind \in DISPOSITIONS
               /\ choice[p].of \in PRs \cup {None}
               /\ choice[p].kind = "duplicate" => choice[p].of \in PRs
    <2>1. choice[p] \in Verdicts(Members(g))
      BY DEF chosen
    <2>2. CASE choice[p] \in [kind : Kinds \ {"duplicate"}, of : {None}]
      BY <2>2, OfferedAssumption DEF Members
    <2>3. CASE choice[p] \in [kind : Kinds \cap {"duplicate"}, of : Members(g)]
      BY <2>3, OfferedAssumption DEF Members
    <2> QED
      BY <2>1, <2>2, <2>3 DEF Verdicts
  <1>2. drawn \in SUBSET Item
    BY <1>1 DEF Item, drawn
  <1>3. \A i \in drawn : i.kind = "duplicate" => i.of \in PRs
    BY <1>1 DEF drawn
  <1>4. BindRevisions(drawn, rows) \in SUBSET Item
    BY <1>2, <1>3, BindType DEF TypeOK
  <1> QED
    BY <1>4 DEF drawn, chosen

LEMMA FormType ==
    ASSUME TypeOK, NEW op \in Ops, NEW g \in Groups, NEW k \in Keys
    PROVE  Form(op, g, k) \in Request
  BY BoundType DEF Form, Request, TypeOK

LEMMA FormsOfType ==
    ASSUME TypeOK, NEW g \in Groups, NEW k \in Keys
    PROVE  FormsOf(g, k) \subseteq Request
  <1>1. ASSUME NEW op \in Ops, NEW items \in FormItems(Members(g))
        PROVE  [Form(op, g, k) EXCEPT !.items = items] \in Request
    BY FormType, FormItemsType DEF Request
  <1>2. ASSUME NEW op \in Ops, NEW d \in Decisions
        PROVE  [Form(op, g, k) EXCEPT !.decision = d] \in Request
    BY FormType, OfferedAssumption DEF Request
  <1> QED
    BY <1>1, <1>2 DEF FormsOf

LEMMA FormsOnType ==
    ASSUME TypeOK, NEW p \in proposals, NEW k \in Keys
    PROVE  FormsOn(p, k) \subseteq Request
  <1>1. p.group \in Groups /\ p.id \in Nat
    BY DEF TypeOK, Proposal
  <1> DEFINE forms == {[Form(op, p.group, k) EXCEPT !.proposal = p.id] :
                          op \in Ops}
  <1>2. forms \subseteq Request
    <2> SUFFICES ASSUME NEW op \in Ops
                 PROVE  [Form(op, p.group, k) EXCEPT !.proposal = p.id]
                           \in Request
      BY DEF forms
    <2> QED
      BY <1>1, FormType DEF Request
  <1>3. ASSUME NEW f \in Request, NEW items \in FormItems(Members(p.group))
        PROVE  [f EXCEPT !.items = items] \in Request
    BY FormItemsType DEF Request
  <1> QED
    BY <1>2, <1>3 DEF FormsOn, forms

LEMMA EventType ==
    ASSUME TypeOK, NEW f \in Families, NEW req \in sent, NEW g,
           NEW items \in SUBSET Item
    PROVE  EventOf(f, req, g, items) \in Event
  BY BoundType DEF EventOf, Event, NextVersion, TypeOK

LEMMA RecordType ==
    ASSUME TypeOK, NEW f \in Families, NEW req \in sent,
           NEW new \in SUBSET Event, Record(f, req, new)
    PROVE  /\ events' \subseteq Event
           /\ history' \subseteq Event
           /\ keys' \subseteq Key
  <1>1. req \in Request /\ req.key \in Keys /\ NextVersion \in Nat
    BY DEF TypeOK, Request, NextVersion
  <1> QED
    BY <1>1 DEF Record, TypeOK, Key

LEMMA CommitType ==
    ASSUME TypeOK, NEW ds \in SUBSET Disposition, Commit(ds)
    PROVE  /\ version' \in Nat
           /\ dispositions' \subseteq Disposition
  BY DEF Commit, NextVersion, TypeOK

LEMMA ProposalType ==
    ASSUME TypeOK, NEW p \in proposals,
           NEW status \in {"draft", "edited", "accepted", "rejected"},
           NEW items \in SUBSET Item, NEW e \in Nat,
           SetProposal(p, status, items, e)
    PROVE  proposals' \subseteq Proposal
  <1>1. [p EXCEPT !.status = status, !.items = items, !.event = e] \in Proposal
    BY DEF TypeOK, Proposal
  <1> QED
    BY <1>1 DEF SetProposal, TypeOK

LEMMA ItemsOfType ==
    ASSUME TypeOK, NEW p \in proposals, NEW req \in sent
    PROVE  ItemsOf(p, req) \in SUBSET Item
  BY DEF TypeOK, ItemsOf, Proposal, Request

LEMMA RequestType ==
    ASSUME TypeOK, NEW req \in sent
    PROVE  req \in Request /\ req.items \in SUBSET Item /\ req.group \in Groups
  BY DEF TypeOK, Request

------------------------------------------------------------------------------
(* Type correctness: one lemma for each writer *)

LEMMA SaveDispositionsType ==
    ASSUME TypeOK, NEW req \in sent, SaveDispositions(req)
    PROVE  TypeOK'
  <1> DEFINE bound == BindRevisions(req.items, rows)
  <1>1. bound \in SUBSET Item
    BY RequestType, WellFormedBindType DEF SaveDispositions
  <1>2. Replace(dispositions, Finalize(bound)) \in SUBSET Disposition
    BY <1>1, FinalizeType, ReplaceType DEF TypeOK
  <1>3. version' \in Nat /\ dispositions' \subseteq Disposition
    BY <1>2, CommitType DEF SaveDispositions
  <1>4. {EventOf("disposition", req, req.group, bound)} \in SUBSET Event
    BY <1>1, EventType DEF Families
  <1>5. events' \subseteq Event /\ history' \subseteq Event /\ keys' \subseteq Key
    BY <1>4, RecordType DEF SaveDispositions, Families
  <1> QED
    BY <1>3, <1>5 DEF SaveDispositions, TypeOK, outside, placement

LEMMA DecideGroupType ==
    ASSUME TypeOK, NEW req \in sent, DecideGroup(req)
    PROVE  TypeOK'
  <1>1. version' \in Nat /\ dispositions' \subseteq Disposition
    BY CommitType DEF DecideGroup, TypeOK
  <1>2. {EventOf("decision", req, req.group, {})} \in SUBSET Event
    BY EventType DEF Families
  <1>3. events' \subseteq Event /\ history' \subseteq Event /\ keys' \subseteq Key
    BY <1>2, RecordType DEF DecideGroup, Families
  <1>4. rules' \subseteq Rule
    BY BoundType, RequestType DEF DecideGroup, Rule, TypeOK, NextVersion, Request
  <1> QED
    BY <1>1, <1>3, <1>4 DEF DecideGroup, TypeOK, outside, placement

LEMMA DraftProposalType ==
    ASSUME TypeOK, NEW req \in sent, DraftProposal(req)
    PROVE  TypeOK'
  <1> DEFINE bound == BindRevisions(req.items, rows)
  <1>1. bound \in SUBSET Item
    BY RequestType, WellFormedBindType DEF DraftProposal
  <1>2. version' \in Nat /\ dispositions' \subseteq Disposition
    BY CommitType DEF DraftProposal, TypeOK
  <1>3. {EventOf("proposal", req, req.group, bound)} \in SUBSET Event
    BY <1>1, EventType DEF Families
  <1>4. events' \subseteq Event /\ history' \subseteq Event /\ keys' \subseteq Key
    BY <1>3, RecordType DEF DraftProposal, Families
  <1>5. proposals' \subseteq Proposal
    BY <1>1, BoundType, RequestType
       DEF DraftProposal, Proposal, TypeOK, NextVersion
  <1> QED
    BY <1>2, <1>4, <1>5 DEF DraftProposal, TypeOK, outside, placement

LEMMA AcceptProposalType ==
    ASSUME TypeOK, NEW p \in proposals, NEW req \in sent,
           AcceptProposal(p, req)
    PROVE  TypeOK'
  <1> DEFINE bound == BindRevisions(ItemsOf(p, req), rows)
  <1>1. bound \in SUBSET Item
    BY ItemsOfType, WellFormedBindType DEF AcceptProposal
  <1>2. Replace(dispositions, Finalize(bound)) \in SUBSET Disposition
    BY <1>1, FinalizeType, ReplaceType DEF TypeOK
  <1>3. version' \in Nat /\ dispositions' \subseteq Disposition
    BY <1>2, CommitType DEF AcceptProposal
  <1>4. {EventOf("disposition", req, p.group, bound),
         EventOf("proposal", req, p.group, bound)} \in SUBSET Event
    BY <1>1, EventType DEF Families
  <1>5. events' \subseteq Event /\ history' \subseteq Event /\ keys' \subseteq Key
    BY <1>4, RecordType DEF AcceptProposal, Families
  <1>6. NextVersion \in Nat
    BY DEF TypeOK, NextVersion
  <1>7. SetProposal(p, "accepted", bound, NextVersion)
    BY DEF AcceptProposal
  <1>8. proposals' \subseteq Proposal
    BY <1>1, <1>6, <1>7, ProposalType
  <1> QED
    BY <1>3, <1>5, <1>8 DEF AcceptProposal, TypeOK, outside, placement

LEMMA EditProposalType ==
    ASSUME TypeOK, NEW p \in proposals, NEW req \in sent,
           EditProposal(p, req)
    PROVE  TypeOK'
  <1> DEFINE bound == BindRevisions(req.items, rows)
  <1>1. bound \in SUBSET Item
    BY RequestType, WellFormedBindType DEF EditProposal
  <1>2. version' \in Nat /\ dispositions' \subseteq Disposition
    BY CommitType DEF EditProposal, TypeOK
  <1>3. {EventOf("proposal", req, p.group, bound)} \in SUBSET Event
    BY <1>1, EventType DEF Families
  <1>4. events' \subseteq Event /\ history' \subseteq Event /\ keys' \subseteq Key
    BY <1>3, RecordType DEF EditProposal, Families
  <1>5. p.event \in Nat
    BY DEF TypeOK, Proposal
  <1>6. SetProposal(p, "edited", bound, p.event)
    BY DEF EditProposal
  <1>7. proposals' \subseteq Proposal
    BY <1>1, <1>5, <1>6, ProposalType
  <1> QED
    BY <1>2, <1>4, <1>7 DEF EditProposal, TypeOK, outside, placement

LEMMA RejectProposalType ==
    ASSUME TypeOK, NEW p \in proposals, NEW req \in sent,
           RejectProposal(p, req)
    PROVE  TypeOK'
  <1>1. version' \in Nat /\ dispositions' \subseteq Disposition
    BY CommitType DEF RejectProposal, TypeOK
  <1>2. {EventOf("proposal", req, p.group, {})} \in SUBSET Event
    BY EventType DEF Families
  <1>3. events' \subseteq Event /\ history' \subseteq Event /\ keys' \subseteq Key
    BY <1>2, RecordType DEF RejectProposal, Families
  <1>4. p.items \in SUBSET Item /\ p.event \in Nat
    BY DEF TypeOK, Proposal
  <1>5. SetProposal(p, "rejected", p.items, p.event)
    BY DEF RejectProposal
  <1>6. proposals' \subseteq Proposal
    BY <1>4, <1>5, ProposalType
  <1> QED
    BY <1>1, <1>3, <1>6 DEF RejectProposal, TypeOK, outside, placement

------------------------------------------------------------------------------
(* Type correctness: composing, refreshing, running, restoring *)

LEMMA ComposeType ==
    ASSUME TypeOK, Compose
    PROVE  TypeOK'
  <1>1. sent' \subseteq Request
    <2>1. PICK k \in Keys :
             \/ \E g \in {groupOf[p] : p \in PRs} \ {0} :
                   \E r \in FormsOf(g, k) : sent' = sent \cup {r}
             \/ \E p \in proposals :
                   \E r \in FormsOn(p, k) : sent' = sent \cup {r}
      BY DEF Compose
    <2>2. ASSUME NEW g \in {groupOf[p] : p \in PRs} \ {0},
                 NEW r \in FormsOf(g, k), sent' = sent \cup {r}
          PROVE  sent' \subseteq Request
      <3>1. g \in Groups
        BY BoundsAssumption DEF TypeOK, Placing, Groups
      <3> QED
        BY <2>2, <3>1, FormsOfType DEF TypeOK
    <2>3. ASSUME NEW p \in proposals, NEW r \in FormsOn(p, k),
                 sent' = sent \cup {r}
          PROVE  sent' \subseteq Request
      BY <2>3, FormsOnType DEF TypeOK
    <2> QED
      BY <2>1, <2>2, <2>3
  <1> QED
    BY <1>1 DEF Compose, TypeOK, outside, placement, judgements

LEMMA RefreshType ==
    ASSUME TypeOK, Refresh
    PROVE  TypeOK'
  <1>1. cache' \in [id : Nat, rows : Rows]
    BY OfferedAssumption DEF Refresh, TypeOK, Rows
  <1> QED
    BY <1>1 DEF Refresh, TypeOK, placement, judgements

LEMMA NoRunType == NoRun \in Run
  BY BoundsAssumption DEF NoRun, Run, Rows, Placing

LEMMA RunStepType ==
    ASSUME TypeOK, NEW w \in Workers, Ingest(w) \/ RunStep(w)
    PROVE  TypeOK'
  <1>1. CASE Ingest(w)
    <2>1. runs' \in [Workers -> Run]
      BY <1>1, NoRunType DEF Ingest, TypeOK, Run
    <2> QED
      BY <1>1, <2>1 DEF Ingest, TypeOK, placement, judgements
  <1>2. CASE LoadVersions(w)
    <2>1. [runs[w] EXCEPT !.phase = "loaded", !.version = version,
                          !.snapshot = snapshot] \in Run
      BY DEF TypeOK, Run
    <2>2. runs' \in [Workers -> Run]
      BY <1>2, <2>1 DEF LoadVersions, TypeOK
    <2> QED
      BY <1>2, <2>2 DEF LoadVersions, TypeOK, placement, judgements
  <1>3. CASE Assign(w)
    <2>1. PICK f \in Placing :
             runs' = [runs EXCEPT ![w].phase = "planned", ![w].groupOf = f]
      BY <1>3 DEF Assign, Placements
    <2>2. runs' \in [Workers -> Run]
      BY <2>1 DEF TypeOK, Run
    <2> QED
      BY <1>3, <2>2 DEF Assign, TypeOK, placement, judgements
  <1>4. CASE SaveRunState(w)
    <2>1. runs' \in [Workers -> Run] /\ runs[w] \in Run
      BY <1>4, NoRunType DEF SaveRunState, TypeOK
    <2>2. version' \in Nat /\ dispositions' \subseteq Disposition
      BY <1>4, CommitType DEF SaveRunState, TypeOK
    <2>3. issued' \in Nat
      <3>1. groupOf' \in Placing
        BY <1>4, <2>1 DEF SaveRunState, Run
      <3>2. PICK n \in {issued} \cup {groupOf'[p] : p \in PRs} : issued' = n
        BY <1>4 DEF SaveRunState, Reserve
      <3> QED
        BY <3>1, <3>2, BoundsAssumption DEF TypeOK, Placing
    <2> QED
      BY <1>4, <2>1, <2>2, <2>3 DEF SaveRunState, TypeOK, Run
  <1>5. CASE RetryRun(w)
    <2>1. [NoRun EXCEPT !.phase = "ingested", !.id = runs[w].id,
                        !.rows = runs[w].rows,
                        !.tries = runs[w].tries + 1] \in Run
      <3>1. /\ runs[w].id \in Nat
            /\ runs[w].rows \in Rows
            /\ runs[w].tries + 1 \in Nat
        BY DEF TypeOK, Run
      <3> QED
        BY <3>1, NoRunType DEF Run
    <2>2. runs' \in [Workers -> Run]
      BY <1>5, <2>1 DEF RetryRun, TypeOK
    <2> QED
      BY <1>5, <2>2 DEF RetryRun, TypeOK, placement, judgements
  <1>6. CASE FailRun(w)
    <2>1. runs' \in [Workers -> Run]
      BY <1>6, NoRunType DEF FailRun, TypeOK
    <2> QED
      BY <1>6, <2>1 DEF FailRun, TypeOK, placement, judgements
  <1> QED
    BY <1>1, <1>2, <1>3, <1>4, <1>5, <1>6 DEF RunStep

LEMMA BackupType ==
    ASSUME TypeOK, BackupStore
    PROVE  TypeOK'
  <1>1. StoreContent \in Content
    BY DEF StoreContent, Content, TypeOK
  <1> QED
    BY <1>1 DEF BackupStore, TypeOK, outside, placement, judgements

LEMMA RestoreType ==
    ASSUME TypeOK, NEW copy \in saved, RestoreStore(copy)
    PROVE  TypeOK'
  <1>1. copy \in Content
    BY DEF TypeOK
  <1>2. version' \in Nat
    BY DEF RestoreStore, RestoreVersions
  <1> QED
    BY <1>1, <1>2 DEF RestoreStore, TypeOK, Content, outside

------------------------------------------------------------------------------

\* Every variable of the store, its saved copy, the runs and the requests in
\* flight keep their types, whatever the handlers build from one another.
THEOREM TypeCorrect == Spec => []TypeOK
  <1>1. Init => TypeOK
    <2> SUFFICES ASSUME Init
                 PROVE  TypeOK
      OBVIOUS
    <2>1. rows \in Rows /\ groupOf \in Placing /\ cache \in [id : Nat, rows : Rows]
      BY BoundsAssumption DEF Init, Rows, Placing
    <2>2. runs \in [Workers -> Run]
      BY NoRunType DEF Init
    <2> QED
      BY <2>1, <2>2 DEF Init, TypeOK
  <1>2. TypeOK /\ [Next]_vars => TypeOK'
    <2> SUFFICES ASSUME TypeOK, [Next]_vars
                 PROVE  TypeOK'
      OBVIOUS
    <2>1. CASE Compose
      BY <2>1, ComposeType
    <2>2. ASSUME NEW req \in sent, Deliver(req)
          PROVE  TypeOK'
      BY <2>2, SaveDispositionsType, DecideGroupType, DraftProposalType,
         AcceptProposalType, EditProposalType, RejectProposalType
         DEF Deliver
    <2>3. CASE Refresh
      BY <2>3, RefreshType
    <2>4. ASSUME NEW w \in Workers, Ingest(w) \/ RunStep(w)
          PROVE  TypeOK'
      BY <2>4, RunStepType
    <2>5. CASE BackupStore
      BY <2>5, BackupType
    <2>6. ASSUME NEW copy \in saved, RestoreStore(copy)
          PROVE  TypeOK'
      BY <2>6, RestoreType
    <2>7. CASE UNCHANGED vars
      BY <2>7 DEF vars, TypeOK, placement, judgements
    <2> QED
      BY <2>1, <2>2, <2>3, <2>4, <2>5, <2>6, <2>7 DEF Next
  <1> QED
    BY <1>1, <1>2, PTL DEF Spec

==============================================================================
