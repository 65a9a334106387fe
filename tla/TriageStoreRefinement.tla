------------------------ MODULE TriageStoreRefinement ------------------------
(***************************************************************************)
(* The dispositions of TriageStore implement the ledger of ReviewLedger,   *)
(* for every value of the constants: every write that touches them is one  *)
(* judgement, everything else shows, keeps, puts back or stutters.         *)
(***************************************************************************)
EXTENDS TriageStoreSafety

VerdictsOf(ds) == {Verdict(d) : d \in ds}

------------------------------------------------------------------------------
(* The ledger is about the same rules *)

LEMMA SameRules ==
    /\ Ledger!Item = Item
    /\ \A ds : Ledger!Acyclic(ds) <=> Acyclic(ds)
    /\ \A ds, new : Ledger!Replace(ds, new) = Replace(ds, new)
    /\ \A items, r, m, b :
          Ledger!WellFormed(items, r, m, b) <=> WellFormed(items, r, m, b)
    /\ \A items, r : Ledger!BindRevisions(items, r) = BindRevisions(items, r)
  <1>1. Ledger!Item = Item
    BY DEF Ledger!Item, Item, Ledger!DISPOSITIONS, DISPOSITIONS
  <1>2. \A ds : Ledger!Acyclic(ds) <=> Acyclic(ds)
    BY DEF Ledger!Acyclic, Acyclic, Ledger!Cycles, Cycles, Ledger!Targets,
           Targets, Ledger!Duplicates, Duplicates
  <1>3. \A ds, new : Ledger!Replace(ds, new) = Replace(ds, new)
    BY DEF Ledger!Replace, Replace
  <1>4. \A items, r, m, b :
           Ledger!WellFormed(items, r, m, b) <=> WellFormed(items, r, m, b)
    BY DEF Ledger!WellFormed, WellFormed, Ledger!EvidenceBound, EvidenceBound
  <1>5. \A items, r : Ledger!BindRevisions(items, r) = BindRevisions(items, r)
    BY DEF Ledger!BindRevisions, BindRevisions
  <1> QED
    BY <1>1, <1>2, <1>3, <1>4, <1>5

------------------------------------------------------------------------------
(* A row and its verdict say the same *)

\* The verdict of a finished item is the item.
LEMMA VerdictOfItem ==
    ASSUME NEW items \in SUBSET Item
    PROVE  VerdictsOf(Finalize(items)) = items
  <1>1. ASSUME NEW i \in items
        PROVE  Verdict([pr |-> i.pr, rev |-> i.rev, kind |-> i.kind,
                        of |-> i.of, ofRev |-> i.ofRev,
                        event |-> NextVersion]) = i
    BY DEF Verdict, Item
  <1> QED
    BY <1>1 DEF VerdictsOf, Finalize

LEMMA VerdictFields ==
    ASSUME NEW d
    PROVE  /\ Verdict(d).pr = d.pr
           /\ Verdict(d).kind = d.kind
           /\ Verdict(d).of = d.of
  BY DEF Verdict

LEMMA VerdictsReplace ==
    ASSUME NEW ds, NEW items \in SUBSET Item
    PROVE  VerdictsOf(Replace(ds, Finalize(items))) =
              Replace(VerdictsOf(ds), items)
  <1> DEFINE left == {d \in ds : \A n \in items : n.pr # d.pr}
  <1>1. Replace(ds, Finalize(items)) = left \cup Finalize(items)
    <2> DEFINE Row(i) == [pr |-> i.pr, rev |-> i.rev, kind |-> i.kind,
                          of |-> i.of, ofRev |-> i.ofRev,
                          event |-> NextVersion]
    <2>1. \A i \in items : Row(i) \in Finalize(items) /\ Row(i).pr = i.pr
      BY DEF Finalize
    <2>2. \A n \in Finalize(items) : \E i \in items : n.pr = i.pr
      BY DEF Finalize
    <2> QED
      BY <2>1, <2>2 DEF Replace
  <1>2. VerdictsOf(left) = {v \in VerdictsOf(ds) : \A n \in items : n.pr # v.pr}
    BY VerdictFields DEF VerdictsOf
  <1>3. VerdictsOf(left \cup Finalize(items)) =
           VerdictsOf(left) \cup VerdictsOf(Finalize(items))
    BY DEF VerdictsOf
  <1> QED
    BY <1>1, <1>2, <1>3, VerdictOfItem DEF Replace

LEMMA VerdictsAcyclic ==
    ASSUME NEW ds, Acyclic(ds)
    PROVE  Acyclic(VerdictsOf(ds))
  <1>1. Duplicates(VerdictsOf(ds)) = VerdictsOf(Duplicates(ds))
    BY VerdictFields DEF Duplicates, VerdictsOf
  <1>2. /\ \A d \in Duplicates(ds) : \E v \in Duplicates(VerdictsOf(ds)) :
              v.pr = d.pr /\ v.of = d.of
        /\ \A v \in Duplicates(VerdictsOf(ds)) : \E d \in Duplicates(ds) :
              v.pr = d.pr /\ v.of = d.of
    BY <1>1, VerdictFields DEF VerdictsOf
  <1>3. {d.pr : d \in Duplicates(VerdictsOf(ds))} = {d.pr : d \in Duplicates(ds)}
    BY <1>2
  <1>4. ASSUME NEW S
        PROVE  Targets(VerdictsOf(ds), S) = Targets(ds, S)
    BY <1>2 DEF Targets
  <1>5. Cycles(VerdictsOf(ds)) = Cycles(ds)
    BY <1>3, <1>4 DEF Cycles
  <1> QED
    BY <1>5 DEF Acyclic

------------------------------------------------------------------------------
(* Every grouped PR is shown *)

Shown(r, g) == \A p \in PRs : g[p] # 0 => r[p] # None

ShownInv ==
    /\ Shown(rows, groupOf)
    /\ \A copy \in saved : Shown(copy.rows, copy.groupOf)
    /\ \A w \in Workers : Shown(runs[w].rows, runs[w].groupOf)

LEMMA RunShown ==
    ASSUME TypeOK, ShownInv, NEW v \in Workers, RunStep(v) \/ Ingest(v)
    PROVE  \A w \in Workers : Shown(runs'[w].rows, runs'[w].groupOf)
  <1>0. /\ runs \in [Workers -> Run]
        /\ \A w \in Workers : Shown(runs[w].rows, runs[w].groupOf)
    BY DEF TypeOK, ShownInv
  <1>1. \A r : Shown(r, [p \in PRs |-> 0])
    BY DEF Shown
  <1>2. ASSUME SaveRunState(v) \/ FailRun(v)
        PROVE  \A w \in Workers : Shown(runs'[w].rows, runs'[w].groupOf)
    BY <1>0, <1>1, <1>2 DEF SaveRunState, FailRun, NoRun
  <1>3. CASE Ingest(v)
    BY <1>0, <1>1, <1>3 DEF Ingest, NoRun
  <1>4. CASE RetryRun(v)
    BY <1>0, <1>1, <1>4 DEF RetryRun, NoRun
  <1>5. CASE LoadVersions(v)
    BY <1>0, <1>5 DEF LoadVersions, Run
  <1>6. CASE Assign(v)
    <2>1. PICK f \in Placements(runs[v].rows, runs[v].id) :
             runs' = [runs EXCEPT ![v].phase = "planned", ![v].groupOf = f]
      BY <1>6 DEF Assign
    <2>2. Shown(runs[v].rows, f)
      BY DEF Placements, Shown
    <2>3. runs'[v].rows = runs[v].rows /\ runs'[v].groupOf = f
      BY <1>0, <2>1 DEF Run
    <2>4. \A w \in Workers \ {v} : runs'[w] = runs[w]
      BY <1>0, <2>1
    <2> QED
      BY <1>0, <2>2, <2>3, <2>4
  <1> QED
    BY <1>2, <1>3, <1>4, <1>5, <1>6 DEF RunStep

LEMMA ShownStep ==
    ASSUME TypeOK, ShownInv, [Next]_vars
    PROVE  ShownInv'
  <1>1. ASSUME NEW req \in sent, Deliver(req)
        PROVE  ShownInv'
    BY <1>1, WriteStep DEF ShownInv, outside, placement
  <1>2. ASSUME NEW w \in Workers, SaveRunState(w)
        PROVE  ShownInv'
    <2>1. Shown(rows', groupOf') /\ saved' = saved
      BY <1>2 DEF SaveRunState, ShownInv
    <2> QED
      BY <1>2, <2>1, RunShown DEF ShownInv, RunStep
  <1>3. ASSUME NEW w \in Workers,
               \/ Ingest(w) \/ LoadVersions(w) \/ Assign(w)
               \/ RetryRun(w) \/ FailRun(w)
        PROVE  ShownInv'
    <2>1. rows' = rows /\ groupOf' = groupOf /\ saved' = saved
      BY <1>3 DEF Ingest, LoadVersions, Assign, RetryRun, FailRun, placement
    <2> QED
      BY <1>3, <2>1, RunShown DEF ShownInv, RunStep
  <1>4. CASE BackupStore
    BY <1>4 DEF BackupStore, StoreContent, ShownInv, outside, placement
  <1>5. ASSUME NEW copy \in saved, RestoreStore(copy)
        PROVE  ShownInv'
    BY <1>5 DEF RestoreStore, ShownInv, outside
  <1>6. CASE Compose \/ Refresh \/ UNCHANGED vars
    BY <1>6 DEF Compose, Refresh, vars, ShownInv, outside, placement
  <1> QED
    BY <1>1, <1>2, <1>3, <1>4, <1>5, <1>6 DEF Next, RunStep

------------------------------------------------------------------------------
(* A write of dispositions is a judgement *)

\* Items bound to the rows of their group are well formed among all shown PRs.
LEMMA BoundItemsWellFormed ==
    ASSUME TypeOK, ShownInv, NEW items, NEW g \in Groups, Applies(items, g)
    PROVE  LET new == BindRevisions(items, rows)
           IN  /\ new \in SUBSET Item
               /\ WellFormed(new, rows, {p \in PRs : rows[p] # None}, TRUE)
               /\ new = BindRevisions(new, rows)
  <1> DEFINE Bind(i) == [i EXCEPT !.rev = rows[i.pr],
                                  !.ofRev = IF i.kind = "duplicate"
                                            THEN rows[i.of] ELSE None]
             new == {Bind(i) : i \in items}
             open == {p \in PRs : rows[p] # None}
  <1>1. BindRevisions(items, rows) = new
    BY DEF BindRevisions
  <1>2. /\ items \in SUBSET Item
        /\ WellFormed(items, rows, Members(g), TRUE)
    BY DEF Applies
  <1>3. new \in SUBSET Item
    BY <1>1, <1>2, WellFormedBindType
  <1>4. Members(g) \subseteq open
    BY BoundsAssumption DEF Members, ShownInv, Shown, Groups
  <1>5. ASSUME NEW i \in items
        PROVE  /\ Bind(i).pr = i.pr
               /\ Bind(i).kind = i.kind
               /\ Bind(i).of = i.of
               /\ Bind(i).rev = rows[i.pr]
               /\ Bind(i).ofRev = IF i.kind = "duplicate" THEN rows[i.of] ELSE None
               /\ Bind(Bind(i)) = Bind(i)
    <2>1. i \in Item
      BY <1>2
    <2> QED
      BY <2>1 DEF Item
  <1> HIDE DEF Bind
  <1>6. ASSUME NEW i \in items
        PROVE  /\ i.pr \in Members(g)
               /\ i.kind \in EvidenceBound => rows[i.pr] \in CompleteRevs
               /\ IF i.kind = "duplicate"
                  THEN /\ i.of \in Members(g) \ {i.pr}
                       /\ rows[i.of] \in CompleteRevs
                  ELSE i.of = None
    BY <1>2 DEF WellFormed
  <1>7. new # {}
    BY <1>2 DEF WellFormed
  <1>8. \A i, j \in items : Bind(i).pr = Bind(j).pr => Bind(i) = Bind(j)
    <2>1. \A i, j \in items : i.pr = j.pr => i = j
      BY <1>2 DEF WellFormed
    <2> QED
      BY <1>5, <2>1
  <1>9. new = {Bind(b) : b \in new}
    BY <1>5
  <1>10. WellFormed(new, rows, open, TRUE)
    <2>1. \A b, c \in new : b.pr = c.pr => b = c
      BY <1>8
    <2>2. ASSUME NEW b \in new
          PROVE  /\ b.pr \in open
                 /\ b.rev \in {None, rows[b.pr]}
                 /\ b.kind \in EvidenceBound => rows[b.pr] \in CompleteRevs
                 /\ IF b.kind = "duplicate"
                    THEN /\ b.of \in open \ {b.pr}
                         /\ b.ofRev \in {None, rows[b.of]}
                         /\ rows[b.of] \in CompleteRevs
                    ELSE b.of = None /\ b.ofRev = None
      <3>1. PICK i \in items : b = Bind(i)
        OBVIOUS
      <3> QED
        BY <1>4, <1>5, <1>6, <3>1
    <2> QED
      BY <1>7, <2>1, <2>2 DEF WellFormed
  <1> QED
    BY <1>1, <1>3, <1>9, <1>10 DEF BindRevisions, Bind

------------------------------------------------------------------------------

LEMMA WriteJudges ==
    ASSUME TypeOK, ShownInv, NEW req \in sent, Deliver(req)
    PROVE  Ledger!Judge \/ UNCHANGED Ledger!ledger
  <1>1. UNCHANGED <<placement, saved>>
    BY WriteStep
  <1>2. CASE dispositions' = dispositions
    BY <1>1, <1>2 DEF Ledger!ledger, placement
  <1>3. ASSUME NEW items, NEW g \in Groups, Applies(items, g)
        PROVE  Ledger!Judge
    <2> DEFINE new == BindRevisions(items, rows)
               open == {p \in PRs : rows[p] # None}
    <2>1. /\ new \in SUBSET Item
          /\ WellFormed(new, rows, open, TRUE)
          /\ new = BindRevisions(new, rows)
      BY <1>3, BoundItemsWellFormed
    <2>2. /\ dispositions' = Replace(dispositions, Finalize(new))
          /\ Acyclic(dispositions')
      BY <1>3 DEF Applies
    <2> HIDE DEF new
    <2>3. VerdictsOf(dispositions') = Replace(VerdictsOf(dispositions), new)
      BY <2>1, <2>2, VerdictsReplace
    <2>4. Acyclic(VerdictsOf(dispositions'))
      BY <2>2, VerdictsAcyclic
    <2>5. new \in SUBSET VerdictsOf(dispositions')
      BY <2>3 DEF Replace
    <2> QED
      BY <1>1, <2>1, <2>3, <2>4, <2>5, SameRules
         DEF Ledger!Judge, VerdictsOf, placement
  <1> QED
    BY <1>2, <1>3, DispositionStep

\* A publication shows other revisions and leaves every verdict as it was.
LEMMA PublishShows ==
    ASSUME TypeOK, NEW w \in Workers, SaveRunState(w)
    PROVE  Ledger!Show
  <1>1. rows' \in [PRs -> Revs \cup {None}]
    BY DEF SaveRunState, TypeOK, Run, Rows
  <1>2. dispositions' = dispositions /\ saved' = saved
    BY PublishStep DEF judgements
  <1> QED
    BY <1>1, <1>2 DEF Ledger!Show

LEMMA BackupKeeps ==
    ASSUME BackupStore
    PROVE  Ledger!Keep
  <1> DEFINE Kept(copy) == [shown |-> copy.rows,
                            verdicts |-> {Verdict(d) : d \in copy.dispositions}]
  <1>1. saved' = saved \cup {StoreContent}
    BY DEF BackupStore
  <1>2. Kept(StoreContent) = [shown |-> rows,
                              verdicts |-> {Verdict(d) : d \in dispositions}]
    BY DEF StoreContent
  <1>3. {Kept(copy) : copy \in saved'} =
           {Kept(copy) : copy \in saved} \cup {Kept(StoreContent)}
    BY <1>1
  <1>4. rows' = rows /\ dispositions' = dispositions
    BY DEF BackupStore, placement, judgements
  <1> QED
    BY <1>2, <1>3, <1>4 DEF Ledger!Keep

LEMMA RestorePutsBack ==
    ASSUME NEW copy \in saved, RestoreStore(copy)
    PROVE  Ledger!PutBack
  <1> DEFINE kept == [shown |-> copy.rows,
                      verdicts |-> {Verdict(d) : d \in copy.dispositions}]
  <1>1. /\ rows' = kept.shown
        /\ {Verdict(d) : d \in dispositions'} = kept.verdicts
        /\ saved' = saved
    BY DEF RestoreStore
  <1> QED
    BY <1>1 DEF Ledger!PutBack

\* Forms, agents, runs and operators together implement the ledger: every
\* verdict is entered by one judgement about what is shown, none is erased by
\* a new revision, and only a kept copy put back undoes one.
THEOREM LedgerImplemented == Spec => ImplementsLedger
  <1>1. Init => Ledger!LedgerInit
    BY DEF Init, Ledger!LedgerInit
  <1>2. Init => ShownInv
    BY DEF Init, ShownInv, Shown, NoRun
  <1>3. TypeOK /\ ShownInv /\ [Next]_vars => ShownInv'
    BY ShownStep
  <1>4. TypeOK /\ ShownInv /\ [Next]_vars => [Ledger!LedgerNext]_(Ledger!ledger)
    <2> SUFFICES ASSUME TypeOK, ShownInv, [Next]_vars
                 PROVE  Ledger!LedgerNext \/ UNCHANGED Ledger!ledger
      OBVIOUS
    <2>1. ASSUME NEW req \in sent, Deliver(req)
          PROVE  Ledger!Judge \/ UNCHANGED Ledger!ledger
      BY <2>1, WriteJudges
    <2>2. CASE StoreUnchanged
      BY <2>2 DEF StoreUnchanged, Ledger!ledger, placement, judgements
    <2> QED
      BY <2>1, <2>2, StepKinds, PublishShows, BackupKeeps, RestorePutsBack
         DEF Ledger!LedgerNext
  <1> QED
    BY <1>1, <1>2, <1>3, <1>4, TypeCorrect, PTL
       DEF Spec, ImplementsLedger, Ledger!LedgerSpec

==============================================================================
