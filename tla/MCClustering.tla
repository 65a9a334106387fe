----------------------------- MODULE MCClustering -----------------------------
(***************************************************************************)
(* An instance of Clustering for TLC, with a threshold of 3/4: a set of    *)
(* three paths and one of four that includes it are just alike, so sets of *)
(* three are only connected through the four.                              *)
(***************************************************************************)
EXTENDS Clustering

Sets == {{}, {1}} \cup {s \in SUBSET (1..4) : Cardinality(s) >= 3}

\* None is kept, the first one, the first two in one group or in two.
Kept == {[p \in PRs |-> IF p = 1 THEN g ELSE IF p = 2 THEN h ELSE 0] :
            g \in {0, 1, 2}, h \in {0, 2}}

Upwards == [p \in PRs |-> p]
Downwards == [p \in PRs |-> 9 - p]

Both == {Upwards, Downwards}

ThreeQuarters == [num |-> 3, den |-> 4]

==============================================================================
