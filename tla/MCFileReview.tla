---------------------------- MODULE MCFileReview ----------------------------
(***************************************************************************)
(* Instances of FileReview for TLC.  Revision r1 changes a, completely     *)
(* shown, and b, without a patch; in r2 both are renamed along a chain, so *)
(* that a names another file than before and b only a former name.         *)
(***************************************************************************)
EXTENDS FileReview, TLC

CONSTANTS a, b, c, r1, r2

File(path, previous, patch) ==
    [path |-> path, previous |-> previous, patch |-> patch]

\* From r1 to r2, a becomes c, only partly shown, and b becomes a.
Chained ==
    (r1 :> {File(a, None, "complete"), File(b, None, "missing")})
    @@ (r2 :> {File(c, a, "partial"), File(a, b, "complete")})

NoOffers == {}

Claims(p, said) == [path |-> p, status |-> said]

\* A finding and a claim about the file called a, or b, and claims about both.
\* Inspecting b takes bytes that r1 does not have; in r2 both names stand for
\* one file, which the two first offers say different things of.
FewOffers ==
    {[findings |-> {a}, coverage |-> {Claims(a, "skipped")}],
     [findings |-> {b}, coverage |-> {Claims(b, "inspected")}],
     [findings |-> {}, coverage |-> {Claims(a, "inspected"),
                                     Claims(b, "missing")}]}

Of(n, ops) == [ops |-> ops, texts |-> {"first"}, sent |-> n]

\* Humans who record findings and act on them, humans who do that and mark
\* files, and agents that draft, with humans who decide on the drafts.
EveryMix == {Of(3, {"finding", "action"}),
             Of(2, {"review", "finding", "action"}),
             Of(3, {"draft", "adopt"})}

Symmetric == Permutations(Keys)

==============================================================================
