----------------------------- MODULE ReviewRules -----------------------------
(***************************************************************************)
(* The pure rules of local review: which per-PR dispositions are well      *)
(* formed, which are active against the current pull-request rows, and in  *)
(* which pile of the work queue a group is shown.  No state lives here:    *)
(* every operator takes the rows and records it judges.                    *)
(*                                                                         *)
(* A revision (head SHA, base SHA, content digest, source) is one element  *)
(* of Revs; whether its evidence is complete is a property of the revision *)
(* because the digest covers the bytes that decide it.  `rows' is the      *)
(* store's last_prs: a function from PRs to the revision bound to the open *)
(* row, None for a PR that has no row.                                     *)
(***************************************************************************)
EXTENDS Naturals, FiniteSets

CONSTANTS
    PRs,            \* pull-request numbers
    Revs,           \* exact revision identities
    CompleteRevs,   \* revisions whose patches, counts and SHAs are complete
    None            \* "no row", "no target", "no revision supplied"

ASSUME RevsAssumption == CompleteRevs \subseteq Revs
ASSUME NoneAssumption == None \notin PRs \cup Revs

DISPOSITIONS ==
    {"keep", "duplicate", "reject", "needs_hardware", "upgrade", "pending"}

DECISIONS == {"approve", "reject", "hardware", "upgrade"}

\* Dispositions that need complete exact evidence before they may be saved.
EvidenceBound == {"keep", "duplicate"}

\* What a form, an agent or a proposal says of one PR.  rev and ofRev are the
\* revision references the caller may supply, None when it omits them.
Item == [pr : PRs, rev : Revs \cup {None}, kind : DISPOSITIONS,
         of : PRs \cup {None}, ofRev : Revs \cup {None}]

------------------------------------------------------------------------------
(* Duplicate chains *)

Duplicates(ds) == {d \in ds : d.kind = "duplicate"}

Targets(ds, S) == {d.of : d \in {x \in Duplicates(ds) : x.pr \in S}}

\* A set of PRs that the duplicate references map onto itself is a union of
\* cycles: every PR has one outgoing reference at most.
Cycles(ds) == {S \in SUBSET {d.pr : d \in Duplicates(ds)} :
                  S # {} /\ Targets(ds, S) = S}

Acyclic(ds) == Cycles(ds) = {}

\* Rows of the same PR are replaced, the others stay.
Replace(ds, new) == {d \in ds : \A n \in new : n.pr # d.pr} \cup new

------------------------------------------------------------------------------
(* Groups *)

\* Where assign_incremental may put the PRs of open: to one that was kept in
\* its group, or under the next numbers.
PlacedAround(f, open, stayed, issued) ==
    \A p \in open :
        \/ \E q \in stayed : f[p] = f[q]
        \/ f[p] > issued /\ \/ f[p] = issued + 1
                            \/ \E q \in open : f[q] = f[p] - 1

------------------------------------------------------------------------------
(* Validation of the items of a write against one group's captured rows *)

\* Mutant: the evidence of the canonical PR is not looked at.
WellFormedAlone(items, rows, members, requireComplete) ==
    /\ items # {}
    /\ \A i, j \in items : i.pr = j.pr => i = j
    /\ \A i \in items :
          /\ i.pr \in members
          /\ i.rev \in {None, rows[i.pr]}
          /\ requireComplete /\ i.kind \in EvidenceBound =>
                rows[i.pr] \in CompleteRevs
          /\ IF i.kind = "duplicate"
             THEN i.of \in members \ {i.pr} /\ i.ofRev \in {None, rows[i.of]}
             ELSE i.of = None /\ i.ofRev = None

WellFormed(items, rows, members, requireComplete) ==
    /\ items # {}
    /\ \A i, j \in items : i.pr = j.pr => i = j
    /\ \A i \in items :
          /\ i.pr \in members
          /\ i.rev \in {None, rows[i.pr]}
          /\ requireComplete /\ i.kind \in EvidenceBound =>
                rows[i.pr] \in CompleteRevs
          /\ IF i.kind = "duplicate"
             THEN /\ i.of \in members \ {i.pr}
                  /\ i.ofRev \in {None, rows[i.of]}
                  /\ requireComplete => rows[i.of] \in CompleteRevs
             ELSE i.of = None /\ i.ofRev = None

\* The writer binds every item to the captured revision.
BindRevisions(items, rows) ==
    {[i EXCEPT !.rev = rows[i.pr],
               !.ofRev = IF i.kind = "duplicate" THEN rows[i.of] ELSE None] :
        i \in items}

\* Earlier decisions of the group that still describe its current revisions.
ExistingCurrent(ds, rows, members) ==
    {d \in ds : d.pr \in members /\ d.rev = rows[d.pr]}

------------------------------------------------------------------------------
(* What counts when the queue is shown *)

IsActive(d, ds, rows) ==
    /\ \A e \in ds : e.pr = d.pr => e = d
    /\ rows[d.pr] # None
    /\ d.rev = rows[d.pr]
    /\ d.kind \in EvidenceBound => d.rev \in CompleteRevs
    /\ d.kind = "duplicate" =>
          /\ d.of \in PRs \ {d.pr}
          /\ d.ofRev = rows[d.of]
          /\ d.ofRev \in CompleteRevs

ActiveDispositions(ds, rows) ==
    LET candidates == {d \in ds : IsActive(d, ds, rows)}
    IN  {d \in candidates : \A S \in Cycles(candidates) : d.pr \notin S}

\* Mutant: the decision follows the group's number.
RuleFollows(r, g, bound, evidence) == r.group = g

\* A group decision applies to its exact membership and revisions only; the
\* comparison covers the cache snapshot the evidence was captured from.
RuleApplies(r, g, bound, evidence) ==
    /\ r.group = g
    /\ r.bound = bound
    /\ r.evidence = evidence
    /\ r.decision = "approve" =>
          \A p \in DOMAIN bound : bound[p] \in CompleteRevs

PileOfDecision(decision) ==
    CASE decision = "approve" -> "known"
      [] decision = "reject" -> "junk"
      [] OTHER -> decision

\* Local dispositions outrank the group's rule; without either it waits.
Pile(g, bound, evidence, active, rules) ==
    LET locals == {d \in active : d.pr \in DOMAIN bound}
        settled == {d \in locals : d.kind # "pending"}
        applying == {r \in rules : RuleApplies(r, g, bound, evidence)}
    IN  IF locals # {}
        THEN IF {d.pr : d \in settled} = DOMAIN bound
             THEN "reviewed" ELSE "needs_you"
        ELSE IF applying # {}
             THEN PileOfDecision((CHOOSE r \in applying : TRUE).decision)
             ELSE "needs_you"

==============================================================================
