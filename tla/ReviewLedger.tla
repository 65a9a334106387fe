----------------------------- MODULE ReviewLedger -----------------------------
(***************************************************************************)
(* What the store promises about local review, without versions, keys,     *)
(* proposals, forms or runs: a ledger of verdicts over the revisions shown *)
(* now.  A verdict is entered for PRs that are shown, about exactly the    *)
(* revision shown, by one atomic judgement; a new revision never carries   *)
(* an old verdict with it and never erases one; nothing else touches the   *)
(* ledger but putting a kept copy back.                                    *)
(***************************************************************************)
EXTENDS ReviewRules

VARIABLES
    shown,      \* the revision shown for each PR, None when it is closed
    verdicts,   \* the verdict on record for each judged PR
    kept        \* copies kept of both

ledger == <<shown, verdicts, kept>>

LedgerInit ==
    /\ shown = [p \in PRs |-> None]
    /\ verdicts = {}
    /\ kept = {}

\* The snapshot of the repository is replaced; what was judged stays as said.
Show ==
    /\ shown' \in [PRs -> Revs \cup {None}]
    /\ UNCHANGED <<verdicts, kept>>

\* One judgement of some shown PRs among themselves: all of it or nothing.
Judge ==
    /\ \E new \in SUBSET verdicts' :
          /\ new \subseteq Item
          /\ WellFormed(new, shown, {p \in PRs : shown[p] # None}, TRUE)
          /\ new = BindRevisions(new, shown)
          /\ verdicts' = Replace(verdicts, new)
    /\ Acyclic(verdicts')
    /\ UNCHANGED <<shown, kept>>

Keep ==
    /\ kept' = kept \cup {[shown |-> shown, verdicts |-> verdicts]}
    /\ UNCHANGED <<shown, verdicts>>

PutBack ==
    /\ \E copy \in kept : shown' = copy.shown /\ verdicts' = copy.verdicts
    /\ UNCHANGED kept

LedgerNext == Show \/ Judge \/ Keep \/ PutBack

LedgerSpec == LedgerInit /\ [][LedgerNext]_ledger

==============================================================================
