------------------------------ MODULE Clustering ------------------------------
(***************************************************************************)
(* The grouping of a pipeline run: which pull requests change so nearly    *)
(* the same files that they are reviewed together (triage/cluster.py,      *)
(* unionfind.py), and how those that are new or have moved are placed      *)
(* around the groups that keep members (assign_incremental).               *)
(*                                                                         *)
(* Two sets of files are alike when their Jaccard index reaches a          *)
(* threshold.  The program does not compare all pairs: it compares those   *)
(* that share one of their rarest paths, and joins them in a union-find    *)
(* forest.  Paths are numbered in alphabetical order.  Which PRs keep      *)
(* their groups is decided before (TriageStore), and is an input here.     *)
(***************************************************************************)
EXTENDS Naturals, FiniteSets, Sequences

CONSTANTS
    PRs,            \* pull-request numbers
    None,           \* "no set is probed"
    FileSets,       \* bound: the sets of paths that PRs change
    Keepings,       \* bound: which PRs keep which group, 0 for none
    Orders,         \* bound: the orders in which PRs are listed
    Issued,         \* the greatest reserved group number
    CONFIRM         \* FILE_JACCARD_CONFIRM, as a fraction

ASSUME InputsAssumption ==
    /\ PRs \subseteq Nat /\ IsFiniteSet(PRs)
    /\ \A s \in FileSets : s \subseteq Nat /\ IsFiniteSet(s)
    /\ Keepings \subseteq [PRs -> 0..Issued]
    /\ Orders \subseteq [PRs -> Nat]
    /\ \A listed \in Orders : \A p, q \in PRs :
          listed[p] = listed[q] => p = q
ASSUME ThresholdAssumption ==
    /\ Issued \in Nat
    /\ CONFIRM \in [num : Nat \ {0}, den : Nat \ {0}]
    /\ CONFIRM.num <= CONFIRM.den

VARIABLES
    files,          \* the paths of each PR, {} when they are not known
    kept,           \* the group that a PR keeps, or 0
    listed,         \* its place in the list
    parent, rank,   \* the union-find forest over the PRs without a group
    finding,        \* the finds under way: from a PR, at a PR
    unjoined,       \* PRs not yet joined to those with the same files
    indexed,        \* the sets of files in the prefix index
    probe,          \* the set that is compared, and what is left for it
    root,           \* the roots found for the components
    groupOf         \* the group of each PR, 0 for not yet

input == <<files, kept, listed>>
forest == <<parent, rank>>
agenda == <<unjoined, indexed, probe>>
vars == <<input, forest, finding, agenda, root, groupOf>>

Fresh == {p \in PRs : kept[p] = 0}

Buckets == {files[p] : p \in Fresh} \ {{}}

------------------------------------------------------------------------------
(* Similarity *)

Common(s, t) == Cardinality(s \cap t)

Either(s, t) == Cardinality(s) + Cardinality(t) - Common(s, t)

\* _file_jaccard reaches the threshold.
Alike(s, t) ==
    /\ s # {} /\ t # {}
    /\ Common(s, t) * CONFIRM.den >= CONFIRM.num * Either(s, t)

\* _can_reach_threshold.
CanReach(s, t) ==
    /\ Cardinality(s) * CONFIRM.den >= CONFIRM.num * Cardinality(t)
    /\ Cardinality(t) * CONFIRM.den >= CONFIRM.num * Cardinality(s)

Frequency(path) == Cardinality({s \in Buckets : path \in s})

Rarer(x, y) ==
    \/ Frequency(x) < Frequency(y)
    \/ Frequency(x) = Frequency(y) /\ x < y

\* Mutant: the prefix is one path too short.
ShortPrefix(s) ==
    Cardinality(s)
    - (CONFIRM.num * Cardinality(s) + CONFIRM.den - 1) \div CONFIRM.den

\* The division rounds up.
PrefixLength(s) ==
    Cardinality(s)
    - (CONFIRM.num * Cardinality(s) + CONFIRM.den - 1) \div CONFIRM.den + 1

\* The rarest paths of a set.
Prefix(s) ==
    {x \in s : Cardinality({y \in s : Rarer(y, x)}) < PrefixLength(s)}

------------------------------------------------------------------------------

\* members[0] of a bucket: the first one listed.
IsAnchor(p, s) ==
    /\ p \in Fresh /\ files[p] = s
    /\ \A q \in Fresh : files[q] = s => listed[p] <= listed[q]

Init ==
    /\ files \in [PRs -> FileSets]
    /\ kept \in Keepings
    /\ listed \in Orders
    /\ parent = [p \in Fresh |-> p]
    /\ rank = [p \in Fresh |-> 0]
    /\ finding = << >>
    /\ unjoined = {p \in Fresh : files[p] # {} /\ ~IsAnchor(p, files[p])}
    /\ indexed = {}
    /\ probe = None
    /\ root = << >>
    /\ groupOf = kept

------------------------------------------------------------------------------
(* UnionFind *)

From(p) == [of |-> p, at |-> p]

AtRoot(i) == parent[finding[i].at] = finding[i].at

\* find goes on to the grandparent, and halves the path on its way.
Climb ==
    \E i \in DOMAIN finding :
        LET x == finding[i].at
            above == parent[parent[x]] IN
        /\ \A j \in 1..(i - 1) : AtRoot(j)
        /\ ~AtRoot(i)
        /\ parent' = [parent EXCEPT ![x] = above]
        /\ finding' = [finding EXCEPT ![i] = [of |-> @.of, at |-> above]]
        /\ UNCHANGED <<input, rank, agenda, root, groupOf>>

\* union, when both finds are done: the root of lower rank goes below.
Link ==
    /\ Len(finding) = 2
    /\ AtRoot(1) /\ AtRoot(2)
    /\ LET a == finding[1].at
           b == finding[2].at IN
       /\ parent' = IF a = b THEN parent
                    ELSE IF rank[a] < rank[b] THEN [parent EXCEPT ![a] = b]
                    ELSE [parent EXCEPT ![b] = a]
       /\ rank' = IF a # b /\ rank[a] = rank[b]
                  THEN [rank EXCEPT ![a] = @ + 1] ELSE rank
    /\ finding' = << >>
    /\ UNCHANGED <<input, agenda, root, groupOf>>

------------------------------------------------------------------------------
(* cluster_prs *)

\* Of the sets S, the one with the smallest number of a PR.
IsFirst(s, S) ==
    /\ s \in S
    /\ \E p \in Fresh :
          /\ files[p] = s
          /\ \A q \in Fresh : files[q] \in S => p <= q

\* PRs with equal sets of files are joined first.
JoinEqual(p, a) ==
    /\ finding = << >>
    /\ p \in unjoined
    /\ IsFirst(files[p], {files[q] : q \in unjoined})
    /\ \A q \in unjoined : files[q] = files[p] => listed[p] <= listed[q]
    /\ IsAnchor(a, files[p])
    /\ finding' = <<From(a), From(p)>>
    /\ unjoined' = unjoined \ {p}
    /\ UNCHANGED <<input, forest, indexed, probe, root, groupOf>>

\* The sets that share a path of the prefix are looked up in the index ...
Probe(s) ==
    /\ finding = << >> /\ unjoined = {} /\ probe = None
    /\ IsFirst(s, Buckets \ indexed)
    /\ probe' = [set |-> s,
                 left |-> {t \in indexed : Prefix(s) \cap Prefix(t) # {}}]
    /\ UNCHANGED <<input, forest, finding, unjoined, indexed, root, groupOf>>

Probing(t) ==
    /\ finding = << >> /\ probe # None
    /\ IsFirst(t, probe.left)
    /\ probe' = [probe EXCEPT !.left = @ \ {t}]
    /\ UNCHANGED <<input, forest, unjoined, indexed, root, groupOf>>

\* ... those that are alike are joined ...
JoinAlike(t, a, b) ==
    /\ Probing(t)
    /\ CanReach(probe.set, t) /\ Alike(probe.set, t)
    /\ IsAnchor(a, probe.set) /\ IsAnchor(b, t)
    /\ finding' = <<From(a), From(b)>>

PassOver(t) ==
    /\ Probing(t)
    /\ ~(CanReach(probe.set, t) /\ Alike(probe.set, t))
    /\ UNCHANGED finding

\* ... and the set is indexed itself.
Index ==
    /\ finding = << >> /\ probe # None
    /\ probe.left = {}
    /\ indexed' = indexed \cup {probe.set}
    /\ probe' = None
    /\ UNCHANGED <<input, forest, finding, unjoined, root, groupOf>>

Joined == unjoined = {} /\ indexed = Buckets

\* components: the root of every PR.
Find(p) ==
    /\ finding = << >> /\ Joined
    /\ p \in Fresh \ DOMAIN root
    /\ \A q \in Fresh \ DOMAIN root : listed[p] <= listed[q]
    /\ finding' = <<From(p)>>
    /\ UNCHANGED <<input, forest, agenda, root, groupOf>>

Found ==
    /\ Len(finding) = 1
    /\ AtRoot(1)
    /\ root' = [p \in DOMAIN root \cup {finding[1].of} |->
                  IF p \in DOMAIN root THEN root[p] ELSE finding[1].at]
    /\ finding' = << >>
    /\ UNCHANGED <<input, forest, agenda, groupOf>>

Cluster(p) == {q \in DOMAIN root : root[q] = root[p]}

------------------------------------------------------------------------------
(* assign_incremental *)

\* The clusters are taken in the order of their smallest numbers.
IsNext(p) ==
    /\ finding = << >> /\ DOMAIN root = Fresh
    /\ p \in Fresh /\ groupOf[p] = 0
    /\ \A q \in Fresh : groupOf[q] = 0 => p <= q

\* Is (s, t) closer than (u, v)?
Closer(s, t, u, v) == Common(s, t) * Either(u, v) > Common(u, v) * Either(s, t)

\* The groups, and their sets of files, that share a path with C.
Candidates(C) ==
    {g \in 1..Issued : \E p \in C : \E q \in PRs :
        groupOf[q] = g /\ files[p] \cap files[q] # {}}

Pairs(C, g) ==
    {<<files[p], files[q]>> : p \in C, q \in {r \in PRs : groupOf[r] = g}}

\* Mutant: any group within reach.
WithinReach(C) ==
    {g \in Candidates(C) : \E x \in Pairs(C, g) : Alike(x[1], x[2])}

\* The groups with a set that no set of another group is closer than.
Closest(C) ==
    {g \in Candidates(C) :
        \E x \in Pairs(C, g) :
            /\ CanReach(x[1], x[2]) /\ Alike(x[1], x[2])
            /\ \A h \in Candidates(C) : \A y \in Pairs(C, h) :
                  CanReach(y[1], y[2]) => ~Closer(y[1], y[2], x[1], x[2])}

\* Mutant: numbers go on from the groups that are shown.
NextShown ==
    CHOOSE n \in 1..(Issued + Cardinality(PRs) + 1) :
        /\ \A p \in PRs : groupOf[p] < n
        /\ n = 1 \/ \E p \in PRs : groupOf[p] = n - 1

NextNumber ==
    Issued + 1 + Cardinality({groupOf[p] : p \in PRs} \ (0..Issued))

Place(C, g) ==
    /\ groupOf' = [p \in PRs |-> IF p \in C THEN g ELSE groupOf[p]]
    /\ UNCHANGED <<input, forest, finding, agenda, root>>

Unknown(C) == \E p \in C : files[p] = {}

\* Among equally close groups the first one is joined.
Attach(p, g) ==
    /\ IsNext(p)
    /\ ~Unknown(Cluster(p))
    /\ g \in Closest(Cluster(p))
    /\ \A h \in Closest(Cluster(p)) : g <= h
    /\ Place(Cluster(p), g)

OpenGroup(p) ==
    /\ IsNext(p)
    /\ ~Unknown(Cluster(p))
    /\ Closest(Cluster(p)) = {}
    /\ Place(Cluster(p), NextNumber)

\* PRs without paths stay alone.
LeaveAlone(p) ==
    /\ IsNext(p)
    /\ Unknown(Cluster(p))
    /\ Place({p}, NextNumber)

Done == \A p \in PRs : groupOf[p] # 0

Finished == Done /\ UNCHANGED vars

------------------------------------------------------------------------------

Next ==
    \/ Climb
    \/ Link
    \/ \E p, a \in PRs : JoinEqual(p, a)
    \/ \E s \in FileSets : Probe(s) \/ PassOver(s)
    \/ \E s \in FileSets : \E a, b \in PRs : JoinAlike(s, a, b)
    \/ Index
    \/ \E p \in PRs : Find(p)
    \/ Found
    \/ \E p \in PRs : \E g \in 1..Issued : Attach(p, g)
    \/ \E p \in PRs : OpenGroup(p) \/ LeaveAlone(p)
    \/ Finished

Spec == Init /\ [][Next]_vars

------------------------------------------------------------------------------
(* Reference *)

\* Two PRs are connected if no set of PRs that has all that are like its
\* members separates them.
Closed(S) ==
    \A x \in S : \A y \in Fresh : Alike(files[x], files[y]) => y \in S

Connected(p, q) == \A S \in SUBSET Fresh : p \in S /\ Closed(S) => q \in S

Component(p) == {q \in Fresh : Connected(p, q)}

\* The groups with a kept member that no other kept PR is closer to C than.
Homes(C) ==
    {g \in 1..Issued :
        \E p \in C : \E q \in PRs :
            /\ kept[q] = g /\ Alike(files[p], files[q])
            /\ \A r \in C : \A s \in PRs \ Fresh :
                  ~Closer(files[r], files[s], files[p], files[q])}

------------------------------------------------------------------------------
(* Properties *)

\* The pruned join finds exactly the connected components of the graph of all
\* pairs, whatever the paths, their frequencies and the order of the list.
ClustersAreComponents ==
    \A p, q \in DOMAIN root : root[p] = root[q] <=> Connected(p, q)

\* Where a PR is placed is determined by the files and by the kept groups
\* alone: a component joins the closest kept group within reach, the first of
\* those that are equally close, or is a group by itself.
AssignedAsDefined ==
    \A p \in Fresh : groupOf[p] # 0 =>
        LET g == groupOf[p]
            homes == Homes(Component(p)) IN
        IF homes = {}
        THEN g > Issued /\ {q \in PRs : groupOf[q] = g} = Component(p)
        ELSE g \in homes /\ \A h \in homes : g <= h

Rules == INSTANCE ReviewRules WITH Revs <- {}, CompleteRevs <- {}

\* The outcome is one that TriageStore allows a run to plan.
PlacedAsAllowed ==
    Done => /\ \A p \in PRs \ Fresh : groupOf[p] = kept[p]
            /\ Rules!PlacedAround(groupOf, PRs, PRs \ Fresh, Issued)

==============================================================================
