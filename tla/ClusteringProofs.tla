--------------------------- MODULE ClusteringProofs ---------------------------
(***************************************************************************)
(* Proofs about Clustering for any pull requests, sets of files, order of  *)
(* the list and threshold: the prefix index loses no pair of sets that are *)
(* alike, the forest joins exactly what is connected, and where a PR is    *)
(* placed follows from the files and the kept groups alone.                *)
(***************************************************************************)
EXTENDS Clustering, FiniteSetTheorems, TLAPS

------------------------------------------------------------------------------
(* Least elements of finite sets *)

\* Some element of a finite set has the least measure f.
LEMMA LeastExists ==
    ASSUME NEW T, IsFiniteSet(T), T # {}, NEW f \in [T -> Nat]
    PROVE  \E x \in T : \A y \in T : f[x] <= f[y]
<1> DEFINE Below(x) == {y \in T : f[y] <= f[x]}
           All == {Below(x) : x \in T}
<1>1. IsWellFoundedOn(StrictSubsetOrdering(T), FiniteSubsetsOf(T))
    BY FS_StrictSubsetOrderingWellFounded
<1>2. All \subseteq FiniteSubsetsOf(T) /\ All # {}
  <2>1. FiniteSubsetsOf(T) = SUBSET T
      BY FS_FiniteSubsetsOfFinite
  <2>2. All \subseteq SUBSET T
      OBVIOUS
  <2>3. PICK z \in T : TRUE
      OBVIOUS
  <2>4. Below(z) \in All
      OBVIOUS
  <2> QED BY <2>1, <2>2, <2>4
<1>3. PICK m \in All : \A u \in All : <<u, m>> \notin StrictSubsetOrdering(T)
  <2> HIDE DEF All
  <2> QED BY <1>1, <1>2, WFMin
<1>4. PICK x \in T : m = Below(x)
    OBVIOUS
<1>5. SUFFICES ASSUME NEW y \in T, ~(f[x] <= f[y]) PROVE FALSE
    OBVIOUS
<1>6. f[y] < f[x] /\ f[x] \in Nat /\ f[y] \in Nat
    BY <1>5
<1>7. Below(y) \subseteq Below(x) /\ x \notin Below(y) /\ x \in Below(x)
  <2>1. \A z \in T : f[z] \in Nat
      OBVIOUS
  <2> QED BY <1>6, <2>1
<1>8. <<Below(y), m>> \in StrictSubsetOrdering(T)
    BY <1>4, <1>7 DEF StrictSubsetOrdering
<1> QED BY <1>3, <1>8

------------------------------------------------------------------------------
(* Pruning *)

LEMMA Fractions ==
    CONFIRM.num \in Nat \ {0} /\ CONFIRM.den \in Nat \ {0}
    /\ CONFIRM.num <= CONFIRM.den
BY ThresholdAssumption

\* Rounding up: what is at least n/d of a is at least the rounded fraction.
LEMMA RoundsUp ==
    ASSUME NEW a \in Nat, NEW c \in Nat,
           NEW n \in Nat \ {0}, NEW d \in Nat \ {0},
           c * d >= n * a
    PROVE  c >= (n * a + d - 1) \div d
<1> DEFINE x == n * a + d - 1
           q == x \div d
<1>1. x \in Nat
    OBVIOUS
<1>2. q \in Nat /\ q * d <= x
    BY <1>1
<1>3. c * d + d > q * d
    BY <1>2
<1>4. SUFFICES ASSUME c < q PROVE FALSE
    BY <1>2
<1>5. (c + 1) * d <= q * d
    BY <1>2, <1>4
<1> QED BY <1>3, <1>5

LEMMA CommonSizes ==
    ASSUME NEW s, NEW t, IsFiniteSet(s), IsFiniteSet(t)
    PROVE  /\ Common(s, t) \in Nat
           /\ Cardinality(s) \in Nat /\ Cardinality(t) \in Nat
           /\ Common(s, t) <= Cardinality(s) /\ Common(s, t) <= Cardinality(t)
           /\ Either(s, t) \in Nat
           /\ Cardinality(s) <= Either(s, t) /\ Cardinality(t) <= Either(s, t)
           /\ Common(s, t) = Common(t, s) /\ Either(s, t) = Either(t, s)
<1>1. IsFiniteSet(s \cap t)
      /\ Cardinality(s \cap t) <= Cardinality(s)
      /\ Cardinality(s \cap t) <= Cardinality(t)
    BY FS_Intersection
<1>2. s \cap t = t \cap s
    OBVIOUS
<1>3. Common(s, t) \in Nat /\ Cardinality(s) \in Nat /\ Cardinality(t) \in Nat
    BY <1>1, FS_CardinalityType DEF Common
<1>4. Common(s, t) = Common(t, s)
    BY <1>2 DEF Common
<1>5. Common(s, t) <= Cardinality(s) /\ Common(s, t) <= Cardinality(t)
    BY <1>1 DEF Common
<1> QED BY <1>3, <1>4, <1>5 DEF Either

\* The bound on the sizes never turns down sets that are alike
\* (_can_reach_threshold).
THEOREM SizesReach ==
    ASSUME NEW s, NEW t, IsFiniteSet(s), IsFiniteSet(t), Alike(s, t)
    PROVE  CanReach(s, t)
<1> DEFINE n == CONFIRM.num
           d == CONFIRM.den
           a == Cardinality(s)
           b == Cardinality(t)
           c == Common(s, t)
           e == Either(s, t)
<1>1. a \in Nat /\ b \in Nat /\ c \in Nat /\ e \in Nat /\ n \in Nat /\ d \in Nat
      /\ c <= a /\ c <= b /\ a <= e /\ b <= e
    BY CommonSizes, Fractions
<1>2. c * d >= n * e
    BY DEF Alike
<1>3. a * d >= c * d /\ b * d >= c * d
  <2> HIDE DEF a, b, c, d
  <2> QED BY <1>1
<1>4. n * e >= n * a /\ n * e >= n * b
  <2> HIDE DEF a, b, e, n
  <2> QED BY <1>1
<1>5. a * d >= n * b /\ b * d >= n * a
  <2> HIDE DEF a, b, c, d, e, n
  <2>1. a * d \in Nat /\ b * d \in Nat /\ c * d \in Nat
        /\ n * e \in Nat /\ n * a \in Nat /\ n * b \in Nat
      BY <1>1
  <2> QED BY <1>2, <1>3, <1>4, <2>1
<1> QED BY <1>5 DEF CanReach

InputOK ==
    /\ files \in [PRs -> FileSets]
    /\ kept \in [PRs -> 0..Issued]
    /\ listed \in Orders

LEMMA FreshFinite == IsFiniteSet(Fresh) /\ Fresh \subseteq PRs
<1>1. Fresh \in SUBSET PRs
    BY DEF Fresh
<1> QED BY <1>1, InputsAssumption, FS_Subset

LEMMA FilesFinite ==
    ASSUME InputOK
    PROVE  \A p \in PRs : files[p] \subseteq Nat /\ IsFiniteSet(files[p])
BY InputsAssumption DEF InputOK

LEMMA BucketsFinite ==
    ASSUME InputOK
    PROVE  /\ IsFiniteSet(Buckets)
           /\ \A s \in Buckets : s # {} /\ s \subseteq Nat /\ IsFiniteSet(s)
<1> DEFINE All == {files[p] : p \in Fresh}
           f == [p \in Fresh |-> files[p]]
<1>1. f \in Surjection(Fresh, All)
    BY DEF Surjection
<1>2. IsFiniteSet(All)
  <2> HIDE DEF f, All
  <2> QED BY <1>1, FreshFinite, FS_Surjection
<1>3. Buckets \in SUBSET All
    BY DEF Buckets
<1>4. IsFiniteSet(Buckets)
  <2> HIDE DEF All
  <2> QED BY <1>2, <1>3, FS_Subset
<1>5. ASSUME NEW s \in Buckets
      PROVE  s # {} /\ s \subseteq Nat /\ IsFiniteSet(s)
  <2>1. s # {} /\ \E p \in PRs : s = files[p]
      BY FreshFinite DEF Buckets
  <2> QED BY <2>1, FilesFinite
<1> QED BY <1>4, <1>5

LEMMA FrequencyNat ==
    ASSUME InputOK
    PROVE  \A x : Frequency(x) \in Nat
<1> SUFFICES ASSUME NEW x PROVE Frequency(x) \in Nat
    OBVIOUS
<1>1. {s \in Buckets : x \in s} \in SUBSET Buckets
    OBVIOUS
<1> QED BY <1>1, BucketsFinite, FS_Subset, FS_CardinalityType DEF Frequency

\* A finite set of paths has a rarest one.
LEMMA RarestExists ==
    ASSUME InputOK, NEW T, IsFiniteSet(T), T # {}, T \subseteq Nat
    PROVE  \E w \in T : \A y \in T : ~Rarer(y, w)
<1> DEFINE f == [x \in T |-> Frequency(x)]
<1>1. f \in [T -> Nat]
    BY FrequencyNat
<1>2. PICK r \in T : \A y \in T : f[r] <= f[y]
  <2> HIDE DEF f
  <2> QED BY <1>1, LeastExists
<1> DEFINE U == {y \in T : f[y] = f[r]}
           g == [x \in U |-> x]
<1>3. IsFiniteSet(U) /\ U # {} /\ g \in [U -> Nat]
  <2>1. U \in SUBSET T /\ r \in U
      OBVIOUS
  <2> QED BY <2>1, FS_Subset
<1>4. PICK w \in U : \A y \in U : g[w] <= g[y]
  <2> HIDE DEF g, U
  <2> QED BY <1>3, LeastExists
<1>5. ASSUME NEW y \in T, Rarer(y, w) PROVE FALSE
  <2>1. f[y] = Frequency(y) /\ f[w] = Frequency(w)
        /\ f[r] \in Nat /\ f[y] \in Nat /\ f[w] = f[r] /\ f[r] <= f[y]
      BY <1>1, <1>2
  <2>2. y \in U
      BY <1>5, <2>1 DEF Rarer
  <2>3. w <= y
      BY <1>4, <2>2
  <2> QED BY <1>5, <2>1, <2>2, <2>3 DEF Rarer
<1> QED BY <1>5

\* Every other path of a set without this one comes before it, if it is not in
\* the prefix.
LEMMA OutsidePrefix ==
    ASSUME InputOK, NEW s, IsFiniteSet(s), s \subseteq Nat,
           NEW T, T \subseteq s, NEW w \in T, w \notin Prefix(s),
           \A y \in T : ~Rarer(y, w)
    PROVE  Cardinality(T) <= Cardinality(s) - PrefixLength(s)
<1> DEFINE P == {y \in s : Rarer(y, w)}
<1>1. IsFiniteSet(P) /\ IsFiniteSet(s \ P)
      /\ Cardinality(P) \in Nat /\ Cardinality(s) \in Nat
      /\ Cardinality(s \ P) = Cardinality(s) - Cardinality(P)
  <2>1. P \in SUBSET s /\ s \cap P = P
      OBVIOUS
  <2> HIDE DEF P
  <2>2. IsFiniteSet(P) /\ Cardinality(P) \in Nat /\ Cardinality(s) \in Nat
      BY <2>1, FS_Subset, FS_CardinalityType
  <2>3. /\ IsFiniteSet(s \ P)
        /\ Cardinality(s \ P) = Cardinality(s) - Cardinality(s \cap P)
      BY FS_Difference
  <2> QED BY <2>1, <2>2, <2>3
<1>2. PrefixLength(s) \in Int
    BY <1>1, Fractions DEF PrefixLength
<1>3. Cardinality(P) >= PrefixLength(s)
  <2>1. w \in s
      OBVIOUS
  <2>2. ~(Cardinality(P) < PrefixLength(s))
      BY <2>1 DEF Prefix
  <2> QED BY <1>1, <1>2, <2>2
<1>4. Cardinality(T) \in Nat /\ Cardinality(T) <= Cardinality(s \ P)
  <2>1. T \in SUBSET (s \ P)
      OBVIOUS
  <2> QED BY <1>1, <2>1, FS_Subset, FS_CardinalityType
<1> HIDE DEF P
<1> QED BY <1>1, <1>2, <1>3, <1>4

\* The prefix index finds every pair of sets that reaches the threshold,
\* whatever the frequencies of their paths.
THEOREM PrefixesMeet ==
    ASSUME InputOK, NEW s \in Buckets, NEW t \in Buckets, Alike(s, t)
    PROVE  Prefix(s) \cap Prefix(t) # {}
<1> DEFINE T == s \cap t
<1>1. IsFiniteSet(s) /\ IsFiniteSet(t) /\ s \subseteq Nat /\ t \subseteq Nat
    BY BucketsFinite
<1>2. ASSUME NEW u \in {s, t}
      PROVE  Cardinality(T) > Cardinality(u) - PrefixLength(u)
  <2>1. Common(s, t) = Cardinality(T)
      BY DEF Common
  <2>2. Cardinality(T) \in Nat /\ Cardinality(u) \in Nat
        /\ Either(s, t) \in Nat /\ Cardinality(u) <= Either(s, t)
      BY <1>1, <2>1, CommonSizes
  <2>3. Cardinality(T) * CONFIRM.den >= CONFIRM.num * Either(s, t)
      BY <2>1 DEF Alike
  <2>4. CONFIRM.num * Either(s, t) >= CONFIRM.num * Cardinality(u)
      BY <2>2, Fractions
  <2>5. Cardinality(T) * CONFIRM.den >= CONFIRM.num * Cardinality(u)
    <3>1. /\ Cardinality(T) * CONFIRM.den \in Nat
          /\ CONFIRM.num * Either(s, t) \in Nat
          /\ CONFIRM.num * Cardinality(u) \in Nat
        BY <2>2, Fractions
    <3> QED BY <2>3, <2>4, <3>1
  <2>6. Cardinality(T) >=
            (CONFIRM.num * Cardinality(u) + CONFIRM.den - 1) \div CONFIRM.den
      BY <2>2, <2>5, Fractions, RoundsUp
  <2>7. (CONFIRM.num * Cardinality(u) + CONFIRM.den - 1) \div CONFIRM.den \in Int
      BY <2>2, Fractions
  <2> QED BY <2>2, <2>6, <2>7 DEF PrefixLength
<1>3. Cardinality(T) # 0 /\ IsFiniteSet(T)
  <2>1. IsFiniteSet(T) /\ Common(s, t) = Cardinality(T)
      BY <1>1, FS_Intersection DEF Common
  <2>2. Either(s, t) \in Nat /\ Cardinality(s) <= Either(s, t)
        /\ Cardinality(s) \in Nat
      BY <1>1, CommonSizes
  <2>3. Cardinality(s) # 0
      BY <1>1, FS_EmptySet DEF Alike
  <2>4. CONFIRM.num * Either(s, t) > 0
      BY <2>2, <2>3, Fractions
  <2>5. Cardinality(T) * CONFIRM.den >= CONFIRM.num * Either(s, t)
      BY <2>1 DEF Alike
  <2>6. CONFIRM.num * Either(s, t) \in Nat
      BY <2>2, Fractions
  <2>7. SUFFICES ASSUME Cardinality(T) = 0 PROVE FALSE
      BY <2>1
  <2>8. Cardinality(T) * CONFIRM.den = 0
      BY <2>7, Fractions
  <2> QED BY <2>4, <2>5, <2>6, <2>8
<1>4. T # {} /\ T \subseteq Nat
    BY <1>1, <1>3, FS_EmptySet
<1>5. PICK w \in T : \A y \in T : ~Rarer(y, w)
  <2> HIDE DEF T
  <2> QED BY <1>3, <1>4, RarestExists
<1>6. ASSUME NEW u \in {s, t}, w \notin Prefix(u) PROVE FALSE
  <2>1. T \subseteq u /\ IsFiniteSet(u) /\ u \subseteq Nat
      BY <1>1
  <2> HIDE DEF T
  <2>2. Cardinality(T) <= Cardinality(u) - PrefixLength(u)
      BY <1>5, <1>6, <2>1, OutsidePrefix
  <2>3. Cardinality(T) \in Nat /\ Cardinality(u) \in Nat
      BY <1>3, <2>1, FS_CardinalityType
  <2>4. PrefixLength(u) \in Int
      BY <2>3, Fractions DEF PrefixLength
  <2> QED BY <1>2, <2>2, <2>3, <2>4
<1> QED BY <1>6

------------------------------------------------------------------------------
(* Forests: functions f on F that map every element to the one above it *)

\* A set that no link of the forest leaves or enters.
Whole(F, f, S) == \A z \in F : z \in S <=> f[z] \in S

\* x and y are in the same tree.
Together(F, f, x, y) ==
    \A S \in SUBSET F : Whole(F, f, S) /\ x \in S => y \in S

LEMMA TogetherSymmetric ==
    ASSUME NEW F, NEW f \in [F -> F], NEW x \in F, NEW y \in F,
           Together(F, f, x, y)
    PROVE  Together(F, f, y, x)
<1> SUFFICES ASSUME NEW S \in SUBSET F, Whole(F, f, S), y \in S, x \notin S
             PROVE  FALSE
    BY DEF Together
<1>1. Whole(F, f, F \ S)
    BY DEF Whole
<1>2. x \in F \ S /\ y \notin F \ S
    OBVIOUS
<1> QED BY <1>1, <1>2 DEF Together

LEMMA TogetherTransitive ==
    ASSUME NEW F, NEW f, NEW x, NEW y, NEW z,
           Together(F, f, x, y), Together(F, f, y, z)
    PROVE  Together(F, f, x, z)
BY DEF Together

LEMMA TogetherReflexive ==
    ASSUME NEW F, NEW f, NEW x
    PROVE  Together(F, f, x, x)
BY DEF Together

LEMMA TogetherAbove ==
    ASSUME NEW F, NEW f \in [F -> F], NEW x \in F
    PROVE  Together(F, f, x, f[x])
BY DEF Together, Whole

\* Halving a path takes nothing out of a tree.
LEMMA HalvingKeepsTrees ==
    ASSUME NEW F, NEW f \in [F -> F], NEW x \in F, f[x] # x,
           NEW g, g = [f EXCEPT ![x] = f[f[x]]], NEW a, NEW b
    PROVE  Together(F, g, a, b) <=> Together(F, f, a, b)
<1>1. \A z \in F : g[z] = IF z = x THEN f[f[x]] ELSE f[z]
    OBVIOUS
<1>2. f[x] \in F /\ f[f[x]] \in F
    OBVIOUS
<1>3. ASSUME NEW S \in SUBSET F
      PROVE  Whole(F, g, S) <=> Whole(F, f, S)
  <2>1. ASSUME Whole(F, f, S) PROVE Whole(F, g, S)
    <3>1. x \in S <=> f[f[x]] \in S
        BY <1>2, <2>1 DEF Whole
    <3> QED BY <1>1, <2>1, <3>1 DEF Whole
  <2>2. ASSUME Whole(F, g, S) PROVE Whole(F, f, S)
    <3>1. x \in S <=> f[f[x]] \in S
        BY <1>1, <2>2 DEF Whole
    <3>2. f[x] \in S <=> f[f[x]] \in S
        BY <1>1, <1>2, <2>2 DEF Whole
    <3> QED BY <1>1, <2>2, <3>1, <3>2 DEF Whole
  <2> QED BY <2>1, <2>2
<1> QED BY <1>3 DEF Together

\* Linking a root puts two trees together and takes none apart.
LEMMA LinkingJoinsTrees ==
    ASSUME NEW F, NEW f \in [F -> F], NEW a \in F, NEW b \in F, f[a] = a,
           NEW g, g = [f EXCEPT ![a] = b]
    PROVE  /\ Together(F, g, a, b)
           /\ \A x, y : Together(F, f, x, y) => Together(F, g, x, y)
<1>1. \A z \in F : g[z] = IF z = a THEN b ELSE f[z]
    OBVIOUS
<1>2. g \in [F -> F]
    OBVIOUS
<1>3. Together(F, g, a, b)
  <2>1. Together(F, g, a, g[a])
      BY <1>2, TogetherAbove
  <2> QED BY <1>1, <2>1
<1>4. ASSUME NEW S \in SUBSET F, Whole(F, g, S)
      PROVE  Whole(F, f, S)
    BY <1>1, <1>4 DEF Whole
<1> QED BY <1>3, <1>4 DEF Together

\* A tree has one root: the set of those whose path meets a root is whole.
LEMMA OneRoot ==
    ASSUME NEW F, NEW f \in [F -> F], NEW r \in F, NEW q \in F,
           f[r] = r, f[q] = q, Together(F, f, r, q)
    PROVE  r = q
<1> DEFINE Upward(S) == \A z \in S : f[z] \in S
           D == {x \in F : \A S \in SUBSET F : Upward(S) /\ x \in S => r \in S}
<1>1. ASSUME NEW x \in F, f[x] \in D PROVE x \in D
    BY <1>1
<1>2. ASSUME NEW x \in D PROVE f[x] \in D
  <2>1. f[x] \in F
      OBVIOUS
  <2>2. SUFFICES ASSUME NEW S \in SUBSET F, Upward(S), f[x] \in S
                 PROVE  r \in S
      BY <2>1
  <2>3. Upward(S \cup {x}) /\ S \cup {x} \in SUBSET F /\ x \in S \cup {x}
      BY <2>2
  <2>4. r \in S \cup {x}
      BY <2>3
  <2> QED BY <2>2, <2>4
<1>3. r \in D
    OBVIOUS
<1>4. D \in SUBSET F /\ Whole(F, f, D)
  <2> HIDE DEF D
  <2>1. D \in SUBSET F
      BY DEF D
  <2> QED BY <1>1, <1>2, <2>1 DEF Whole
<1>5. q \in D
  <2> HIDE DEF D
  <2> QED BY <1>3, <1>4 DEF Together
<1>6. Upward({q}) /\ {q} \in SUBSET F
    OBVIOUS
<1> QED BY <1>5, <1>6

------------------------------------------------------------------------------
(* Types *)

Cursor == [of : Fresh, at : Fresh]

Probes == [set : Buckets \ indexed, left : SUBSET indexed]

TypeInv ==
    /\ InputOK
    /\ parent \in [Fresh -> Fresh]
    /\ rank \in [Fresh -> Nat]
    /\ finding \in Seq(Cursor) /\ Len(finding) <= 2
    /\ unjoined \subseteq {p \in Fresh : files[p] # {}}
    /\ indexed \subseteq Buckets
    /\ probe # None => probe \in Probes
    /\ DOMAIN root \subseteq Fresh /\ root \in [DOMAIN root -> Fresh]
    /\ groupOf \in [PRs -> Nat]

\* Before the components are read off, everything is joined, and it stays so.
PhaseInv ==
    /\ indexed # {} \/ probe # None => unjoined = {}
    /\ Len(finding) = 1 \/ DOMAIN root # {} => Joined
    /\ Len(finding) = 2 => DOMAIN root = {}

LEMMA SameInput ==
    ASSUME UNCHANGED input
    PROVE  /\ files' = files /\ kept' = kept /\ listed' = listed
           /\ Fresh' = Fresh /\ Buckets' = Buckets /\ Cursor' = Cursor
           /\ InputOK' <=> InputOK
BY DEF input, Fresh, Buckets, Cursor, InputOK

LEMMA AnchorInBucket ==
    ASSUME NEW a, NEW s, IsAnchor(a, s)
    PROVE  a \in Fresh /\ files[a] = s
BY DEF IsAnchor

LEMMA OneAnchor ==
    ASSUME InputOK, NEW s, NEW a, NEW b, IsAnchor(a, s), IsAnchor(b, s)
    PROVE  a = b
<1>1. a \in PRs /\ b \in PRs
    BY FreshFinite DEF IsAnchor
<1>2. listed[a] <= listed[b] /\ listed[b] <= listed[a]
      /\ listed[a] \in Nat /\ listed[b] \in Nat
    BY <1>1, InputsAssumption DEF IsAnchor, InputOK
<1>3. listed[a] = listed[b]
    BY <1>2
<1> QED BY <1>1, <1>3, InputsAssumption DEF InputOK

LEMMA AnchorExists ==
    ASSUME InputOK, NEW p \in Fresh
    PROVE  \E a \in Fresh : IsAnchor(a, files[p])
<1> DEFINE B == {q \in Fresh : files[q] = files[p]}
           f == [q \in B |-> listed[q]]
<1>1. IsFiniteSet(B) /\ B # {}
  <2>1. B \in SUBSET Fresh /\ p \in B
      OBVIOUS
  <2> QED BY <2>1, FreshFinite, FS_Subset
<1>2. f \in [B -> Nat]
    BY FreshFinite, InputsAssumption DEF InputOK
<1>3. PICK a \in B : \A q \in B : f[a] <= f[q]
  <2> HIDE DEF B, f
  <2> QED BY <1>1, <1>2, LeastExists
<1> QED BY <1>3 DEF IsAnchor

LEMMA TypeInit == Init => TypeInv /\ PhaseInv
<1> SUFFICES ASSUME Init PROVE TypeInv /\ PhaseInv
    OBVIOUS
<1>1. InputOK
    BY InputsAssumption DEF Init, InputOK
<1>2. kept \in [PRs -> Nat]
    BY <1>1, ThresholdAssumption DEF InputOK
<1>3. finding = << >> /\ Len(finding) = 0 /\ finding \in Seq(Cursor)
    BY DEF Init
<1>4. DOMAIN root = {} /\ root \in [DOMAIN root -> Fresh]
    BY DEF Init
<1>5. TypeInv
    BY <1>1, <1>2, <1>3, <1>4 DEF Init, TypeInv
<1>6. PhaseInv
    BY <1>3, <1>4 DEF Init, PhaseInv
<1> QED BY <1>5, <1>6

LEMMA Cursors ==
    ASSUME NEW a \in Fresh, NEW b \in Fresh
    PROVE  /\ <<From(a), From(b)>> \in Seq(Cursor)
           /\ Len(<<From(a), From(b)>>) = 2
           /\ <<From(a)>> \in Seq(Cursor) /\ Len(<<From(a)>>) = 1
           /\ << >> \in Seq(Cursor) /\ Len(<< >>) = 0
<1>1. From(a) \in Cursor /\ From(b) \in Cursor
    BY DEF From, Cursor
<1> QED BY <1>1

LEMMA EmptyFinding == ASSUME finding = << >> PROVE Len(finding) = 0
OBVIOUS

LEMMA CursorAt ==
    ASSUME TypeInv, NEW i \in DOMAIN finding
    PROVE  finding[i].of \in Fresh /\ finding[i].at \in Fresh
<1> HIDE DEF Cursor
<1>1. finding[i] \in Cursor
    BY DEF TypeInv
<1> QED BY <1>1 DEF Cursor

LEMMA CursorsOfTwo ==
    ASSUME TypeInv, Len(finding) = 2
    PROVE  /\ DOMAIN finding = {1, 2}
           /\ finding[1].of \in Fresh /\ finding[1].at \in Fresh
           /\ finding[2].of \in Fresh /\ finding[2].at \in Fresh
<1>1. DOMAIN finding = 1..2
    BY DEF TypeInv
<1>2. 1 \in DOMAIN finding /\ 2 \in DOMAIN finding /\ 1..2 = {1, 2}
    BY <1>1
<1> QED BY <1>1, <1>2, CursorAt

LEMMA CursorOfOne ==
    ASSUME TypeInv, Len(finding) = 1
    PROVE  /\ DOMAIN finding = {1}
           /\ finding[1].of \in Fresh /\ finding[1].at \in Fresh
<1>1. DOMAIN finding = 1..1
    BY DEF TypeInv
<1>2. 1 \in DOMAIN finding /\ 1..1 = {1}
    BY <1>1
<1> QED BY <1>1, <1>2, CursorAt

LEMMA NumbersFinite ==
    ASSUME TypeInv
    PROVE  LET N == {groupOf[p] : p \in PRs} IN
           /\ N \subseteq Nat /\ IsFiniteSet(N)
           /\ IsFiniteSet(N \ (0..Issued))
           /\ NextNumber \in Nat /\ NextNumber > Issued
<1> DEFINE N == {groupOf[p] : p \in PRs}
           f == [p \in PRs |-> groupOf[p]]
<1>1. N \subseteq Nat
    BY DEF TypeInv
<1>2. IsFiniteSet(N)
  <2>1. f \in Surjection(PRs, N)
      BY DEF Surjection
  <2> HIDE DEF f, N
  <2> QED BY <2>1, InputsAssumption, FS_Surjection
<1>3. IsFiniteSet(N \ (0..Issued)) /\ Cardinality(N \ (0..Issued)) \in Nat
  <2> HIDE DEF N
  <2>1. IsFiniteSet(N \ (0..Issued))
      BY <1>2, FS_Difference
  <2> QED BY <2>1, FS_CardinalityType
<1>4. NextNumber \in Nat /\ NextNumber > Issued
    BY <1>3, ThresholdAssumption DEF NextNumber
<1> QED BY <1>1, <1>2, <1>3, <1>4

\* One cursor moves, and the others and where all come from stay.
LEMMA CursorMoves ==
    ASSUME TypeInv, NEW i \in DOMAIN finding, NEW y \in Fresh,
           finding' = [finding EXCEPT ![i] = [of |-> finding[i].of, at |-> y]]
    PROVE  /\ finding' \in Seq(Cursor) /\ Len(finding') = Len(finding)
           /\ \A j \in DOMAIN finding :
                 /\ finding'[j].of = finding[j].of
                 /\ finding'[j].at = IF j = i THEN y ELSE finding[j].at
<1> DEFINE n == Len(finding)
<1>1. n \in Nat /\ DOMAIN finding = 1..n /\ DOMAIN finding' = 1..n
    BY DEF TypeInv
<1>2. \A j \in 1..n : finding[j] \in Cursor
    BY DEF TypeInv
<1>3. [of |-> finding[i].of, at |-> y] \in Cursor
    BY CursorAt DEF Cursor
<1>4. \A j \in 1..n : finding'[j] \in Cursor
    BY <1>1, <1>2, <1>3
<1>5. finding' = [j \in 1..n |-> finding'[j]]
    BY <1>1
<1>6. finding' \in [1..n -> Cursor]
    BY <1>4, <1>5
<1>7. finding' \in Seq(Cursor) /\ Len(finding') = n
  <2>1. PICK R : R = Cursor
      OBVIOUS
  <2>2. PICK f : f = finding'
      OBVIOUS
  <2>3. f \in [1..n -> R] /\ n \in Nat
      BY <1>1, <1>6, <2>1, <2>2
  <2>4. f \in Seq(R)
      BY <2>3
  <2>5. Len(f) = n
    <3> HIDE DEF n
    <3> QED BY <2>3, <2>4
  <2> QED BY <2>1, <2>2, <2>4, <2>5
<1>8. ASSUME NEW j \in DOMAIN finding
      PROVE  /\ finding'[j].of = finding[j].of
             /\ finding'[j].at = IF j = i THEN y ELSE finding[j].at
  <2>1. CASE j = i
    <3>1. finding'[j] = [of |-> finding[i].of, at |-> y]
        BY <2>1
    <3> QED BY <2>1, <3>1
  <2>2. CASE j # i
    <3>1. finding'[j] = finding[j]
        BY <2>2
    <3> QED BY <2>2, <3>1
  <2> QED BY <2>1, <2>2
<1> QED BY <1>7, <1>8

LEMMA TypeClimb ==
    ASSUME TypeInv, PhaseInv, Climb PROVE TypeInv' /\ PhaseInv'
<1>0. PICK i \in DOMAIN finding :
       LET x == finding[i].at
           above == parent[parent[x]] IN
       /\ ~AtRoot(i)
       /\ parent' = [parent EXCEPT ![x] = above]
       /\ finding' = [finding EXCEPT ![i] = [of |-> @.of, at |-> above]]
       /\ UNCHANGED <<input, rank, agenda, root, groupOf>>
    BY DEF Climb
<1> DEFINE x == finding[i].at
           above == parent[parent[x]]
<1>1. x \in Fresh /\ above \in Fresh
    BY CursorAt DEF TypeInv
<1>a. /\ parent' = [parent EXCEPT ![x] = above]
      /\ UNCHANGED <<input, rank, agenda, root, groupOf>>
    BY <1>0
<1>2. finding' \in Seq(Cursor) /\ Len(finding') = Len(finding)
  <2>1. PICK y \in Fresh : y = above
      BY <1>1
  <2>2. finding' = [finding EXCEPT ![i] = [of |-> finding[i].of, at |-> y]]
      BY <1>0, <2>1
  <2> HIDE DEF x, above
  <2> QED BY <2>2, CursorMoves
<1>3. UNCHANGED <<unjoined, indexed, probe>>
    BY <1>a DEF agenda
<1>4. parent' \in [Fresh -> Fresh]
    BY <1>1, <1>a DEF TypeInv
<1>5. TypeInv'
    BY <1>a, <1>2, <1>3, <1>4, SameInput DEF TypeInv, Probes
<1>6. PhaseInv'
    BY <1>a, <1>2, <1>3, SameInput DEF PhaseInv, Joined
<1> QED BY <1>5, <1>6

LEMMA TypeLink ==
    ASSUME TypeInv, PhaseInv, Link PROVE TypeInv' /\ PhaseInv'
<1>1. UNCHANGED <<input, agenda, root, groupOf>> /\ finding' = << >>
    BY DEF Link
<1>2. UNCHANGED <<unjoined, indexed, probe>>
    BY <1>1 DEF agenda
<1>3. finding' \in Seq(Cursor) /\ Len(finding') = 0
    BY <1>1
<1>4. parent' \in [Fresh -> Fresh] /\ rank' \in [Fresh -> Nat]
  <2> DEFINE a == finding[1].at
             b == finding[2].at
  <2>1. a \in Fresh /\ b \in Fresh
      BY CursorsOfTwo DEF Link
  <2>2. parent' \in {parent, [parent EXCEPT ![a] = b], [parent EXCEPT ![b] = a]}
      BY DEF Link
  <2>3. rank' \in {rank, [rank EXCEPT ![a] = @ + 1]}
      BY DEF Link
  <2>4. parent \in [Fresh -> Fresh] /\ rank \in [Fresh -> Nat]
      BY DEF TypeInv
  <2> HIDE DEF a, b
  <2>5. parent' \in [Fresh -> Fresh]
      BY <2>1, <2>2, <2>4
  <2>6. rank[a] + 1 \in Nat
      BY <2>1, <2>4
  <2>7. rank' \in [Fresh -> Nat]
      BY <2>1, <2>3, <2>4, <2>6
  <2> QED BY <2>5, <2>7
<1>5. TypeInv'
  <2>1. /\ Fresh' = Fresh /\ Cursor' = Cursor /\ Buckets' = Buckets
        /\ files' = files /\ InputOK'
      BY <1>1, SameInput DEF TypeInv
  <2>2. Probes' = Probes
      BY <1>2, <2>1 DEF Probes
  <2>3. parent' \in [Fresh' -> Fresh'] /\ rank' \in [Fresh' -> Nat]
      BY <1>4, <2>1
  <2>4. finding' \in Seq(Cursor') /\ Len(finding') <= 2
      BY <1>3, <2>1
  <2>5. /\ unjoined' \subseteq {p \in Fresh' : files'[p] # {}}
        /\ indexed' \subseteq Buckets'
        /\ (probe' # None => probe' \in Probes')
      BY <1>2, <2>1, <2>2 DEF TypeInv
  <2>6. /\ DOMAIN root' \subseteq Fresh' /\ root' \in [DOMAIN root' -> Fresh']
        /\ groupOf' \in [PRs -> Nat]
      BY <1>1, <2>1 DEF TypeInv
  <2> QED BY <2>1, <2>3, <2>4, <2>5, <2>6 DEF TypeInv
<1>6. PhaseInv'
  <2>1. Len(finding) = 2
      BY DEF Link
  <2> QED BY <1>1, <1>2, <1>3, <2>1, SameInput DEF PhaseInv, Joined
<1> QED BY <1>5, <1>6

LEMMA TypeJoinEqual ==
    ASSUME TypeInv, PhaseInv, NEW p, NEW a, JoinEqual(p, a)
    PROVE  TypeInv' /\ PhaseInv'
<1>1. /\ UNCHANGED <<input, forest, indexed, probe, root, groupOf>>
      /\ p \in unjoined /\ unjoined' = unjoined \ {p}
      /\ finding' = <<From(a), From(p)>> /\ finding = << >>
    BY DEF JoinEqual
<1>2. a \in Fresh /\ p \in Fresh
    BY <1>1, AnchorInBucket DEF JoinEqual, TypeInv
<1>3. finding' \in Seq(Cursor) /\ Len(finding') = 2
    BY <1>1, <1>2, Cursors
<1>4. UNCHANGED <<parent, rank>>
    BY <1>1 DEF forest
<1>5. TypeInv'
    BY <1>1, <1>3, <1>4, SameInput DEF TypeInv, Probes
<1>6. PhaseInv'
  <2>1. DOMAIN root = {} /\ indexed = {} /\ probe = None
      BY <1>1 DEF PhaseInv, Joined
  <2> QED BY <1>1, <1>3, <2>1 DEF PhaseInv
<1> QED BY <1>5, <1>6

LEMMA TypeProbe ==
    ASSUME TypeInv, PhaseInv, NEW s, Probe(s) PROVE TypeInv' /\ PhaseInv'
<1>1. /\ UNCHANGED <<input, forest, finding, unjoined, indexed, root, groupOf>>
      /\ finding = << >> /\ unjoined = {} /\ probe = None
      /\ s \in Buckets \ indexed
      /\ probe' = [set |-> s,
                   left |-> {t \in indexed : Prefix(s) \cap Prefix(t) # {}}]
    BY DEF Probe, IsFirst
<1>2. UNCHANGED <<parent, rank>>
    BY <1>1 DEF forest
<1>3. probe' \in Probes
    BY <1>1 DEF Probes
<1>4. TypeInv'
    BY <1>1, <1>2, <1>3, SameInput DEF TypeInv, Probes
<1>5. PhaseInv'
    BY <1>1, SameInput DEF PhaseInv, Joined
<1> QED BY <1>4, <1>5

\* What a comparison leaves to do.
LEMMA Compared ==
    ASSUME TypeInv, PhaseInv, NEW t, Probing(t)
    PROVE  /\ UNCHANGED <<input, forest, parent, rank, unjoined, indexed, root,
                          groupOf>>
           /\ finding = << >> /\ probe # None /\ t \in probe.left
           /\ probe.set \in Buckets \ indexed /\ probe.left \subseteq indexed
           /\ probe' = [set |-> probe.set, left |-> probe.left \ {t}]
           /\ probe' \in Probes' /\ unjoined = {} /\ ~Joined
<1>1. /\ UNCHANGED <<input, forest, unjoined, indexed, root, groupOf>>
      /\ finding = << >> /\ probe # None /\ t \in probe.left
      /\ probe' = [probe EXCEPT !.left = @ \ {t}]
    BY DEF Probing, IsFirst
<1>2. probe \in Probes
    BY <1>1 DEF TypeInv
<1>3. /\ probe.set \in Buckets \ indexed /\ probe.left \subseteq indexed
      /\ probe' = [set |-> probe.set, left |-> probe.left \ {t}]
    BY <1>1, <1>2 DEF Probes
<1>4. probe' \in Probes'
    BY <1>1, <1>3, SameInput DEF Probes
<1>5. unjoined = {} /\ ~Joined
    BY <1>1, <1>3 DEF PhaseInv, Joined
<1> QED BY <1>1, <1>3, <1>4, <1>5 DEF forest

LEMMA TypeJoinAlike ==
    ASSUME TypeInv, PhaseInv, NEW t, NEW a, NEW b, JoinAlike(t, a, b)
    PROVE  TypeInv' /\ PhaseInv'
<1>1. Probing(t) /\ finding' = <<From(a), From(b)>>
    BY DEF JoinAlike
<1>2. a \in Fresh /\ b \in Fresh
    BY AnchorInBucket DEF JoinAlike
<1>3. finding' \in Seq(Cursor) /\ Len(finding') = 2
    BY <1>1, <1>2, Cursors
<1>4. /\ UNCHANGED <<input, parent, rank, unjoined, indexed, root, groupOf>>
      /\ probe' \in Probes' /\ unjoined = {} /\ ~Joined
    BY <1>1, Compared
<1>5. TypeInv'
    BY <1>3, <1>4, SameInput DEF TypeInv
<1>6. PhaseInv'
  <2>1. DOMAIN root = {}
      BY <1>4 DEF PhaseInv
  <2> QED BY <1>3, <1>4, <2>1 DEF PhaseInv
<1> QED BY <1>5, <1>6

LEMMA TypePassOver ==
    ASSUME TypeInv, PhaseInv, NEW t, PassOver(t) PROVE TypeInv' /\ PhaseInv'
<1>1. Probing(t) /\ UNCHANGED finding
    BY DEF PassOver
<1>2. TypeInv'
    BY <1>1, Compared, SameInput DEF TypeInv
<1>3. PhaseInv'
    BY <1>1, Compared, SameInput DEF PhaseInv, Joined
<1> QED BY <1>2, <1>3

LEMMA TypeIndex ==
    ASSUME TypeInv, PhaseInv, Index PROVE TypeInv' /\ PhaseInv'
<1>1. /\ UNCHANGED <<input, forest, finding, unjoined, root, groupOf>>
      /\ finding = << >> /\ probe # None /\ probe' = None
      /\ indexed' = indexed \cup {probe.set}
    BY DEF Index
<1>2. UNCHANGED <<parent, rank>>
    BY <1>1 DEF forest
<1>3. probe.set \in Buckets \ indexed
    BY <1>1 DEF TypeInv, Probes
<1>4. TypeInv'
    BY <1>1, <1>2, <1>3, SameInput DEF TypeInv
<1>5. PhaseInv'
    BY <1>1, <1>3, SameInput, EmptyFinding DEF PhaseInv, Joined
<1> QED BY <1>4, <1>5

LEMMA TypeFind ==
    ASSUME TypeInv, PhaseInv, NEW p, Find(p) PROVE TypeInv' /\ PhaseInv'
<1>1. /\ UNCHANGED <<input, forest, agenda, root, groupOf>>
      /\ p \in Fresh /\ Joined /\ finding' = <<From(p)>>
    BY DEF Find
<1>2. UNCHANGED <<parent, rank, unjoined, indexed, probe>>
    BY <1>1 DEF forest, agenda
<1>3. finding' \in Seq(Cursor) /\ Len(finding') = 1
    BY <1>1, Cursors
<1>4. TypeInv'
    BY <1>1, <1>2, <1>3, SameInput DEF TypeInv, Probes
<1>5. PhaseInv'
    BY <1>1, <1>2, <1>3, SameInput DEF PhaseInv, Joined
<1> QED BY <1>4, <1>5

LEMMA TypeFound ==
    ASSUME TypeInv, PhaseInv, Found PROVE TypeInv' /\ PhaseInv'
<1> DEFINE D == DOMAIN root \cup {finding[1].of}
<1>1. /\ UNCHANGED <<input, forest, agenda, groupOf>>
      /\ Len(finding) = 1 /\ finding' = << >>
      /\ root' = [p \in D |-> IF p \in DOMAIN root THEN root[p]
                              ELSE finding[1].at]
    BY DEF Found
<1>2. UNCHANGED <<parent, rank, unjoined, indexed, probe>>
    BY <1>1 DEF forest, agenda
<1>3. finding' \in Seq(Cursor) /\ Len(finding') = 0
    BY <1>1
<1>4. finding[1].of \in Fresh /\ finding[1].at \in Fresh
    BY <1>1, CursorOfOne
<1>5. DOMAIN root' = D /\ root' \in [D -> Fresh] /\ D \subseteq Fresh
    BY <1>1, <1>4 DEF TypeInv
<1>6. TypeInv'
    BY <1>1, <1>2, <1>3, <1>5, SameInput DEF TypeInv, Probes
<1>7. PhaseInv'
    BY <1>1, <1>2, <1>3, SameInput DEF PhaseInv, Joined
<1> QED BY <1>6, <1>7

\* The PRs are only placed when every root is known.
LEMMA Placed ==
    ASSUME TypeInv, NEW p,
           (\E g \in 1..Issued : Attach(p, g)) \/ OpenGroup(p) \/ LeaveAlone(p)
    PROVE  /\ UNCHANGED <<input, forest, finding, agenda, root>>
           /\ UNCHANGED <<parent, rank, unjoined, indexed, probe>>
           /\ finding = << >> /\ DOMAIN root = Fresh
           /\ p \in Fresh /\ groupOf[p] = 0
           /\ \A q \in Fresh : groupOf[q] = 0 => p <= q
           /\ groupOf' \in [PRs -> Nat]
<1>1. PICK C, g : Place(C, g) /\ g \in Nat
  <2>1. NextNumber \in Nat
      BY NumbersFinite
  <2> QED BY <2>1 DEF Attach, OpenGroup, LeaveAlone
<1>2. groupOf' \in [PRs -> Nat]
    BY <1>1 DEF Place, TypeInv
<1>3. IsNext(p)
    BY DEF Attach, OpenGroup, LeaveAlone
<1> QED BY <1>1, <1>2, <1>3 DEF Place, IsNext, forest, agenda

LEMMA TypePlaced ==
    ASSUME TypeInv, PhaseInv,
           UNCHANGED <<input, forest, finding, agenda, root>>,
           groupOf' \in [PRs -> Nat]
    PROVE  TypeInv' /\ PhaseInv'
<1>1. UNCHANGED <<parent, rank, unjoined, indexed, probe>>
    BY DEF forest, agenda
<1>2. TypeInv'
    BY <1>1, SameInput DEF TypeInv, Probes
<1>3. PhaseInv'
    BY <1>1, SameInput DEF PhaseInv, Joined
<1> QED BY <1>2, <1>3

LEMMA TypeNext ==
    ASSUME TypeInv, PhaseInv, [Next]_vars PROVE TypeInv' /\ PhaseInv'
<1>1. CASE UNCHANGED vars
    BY <1>1, TypePlaced DEF vars, TypeInv
<1>2. CASE Climb
    BY <1>2, TypeClimb
<1>3. CASE Link
    BY <1>3, TypeLink
<1>4. CASE \E p, a \in PRs : JoinEqual(p, a)
    BY <1>4, TypeJoinEqual
<1>5. CASE \E s \in FileSets : Probe(s)
    BY <1>5, TypeProbe
<1>6. CASE \E s \in FileSets : PassOver(s)
    BY <1>6, TypePassOver
<1>7. CASE \E s \in FileSets : \E a, b \in PRs : JoinAlike(s, a, b)
    BY <1>7, TypeJoinAlike
<1>8. CASE Index
    BY <1>8, TypeIndex
<1>9. CASE \E p \in PRs : Find(p)
    BY <1>9, TypeFind
<1>10. CASE Found
    BY <1>10, TypeFound
<1>11. CASE \E p \in PRs : \/ \E g \in 1..Issued : Attach(p, g)
                           \/ OpenGroup(p) \/ LeaveAlone(p)
    BY <1>11, Placed, TypePlaced
<1> QED BY <1>1, <1>2, <1>3, <1>4, <1>5, <1>6, <1>7, <1>8, <1>9, <1>10, <1>11
        DEF Next, Finished

------------------------------------------------------------------------------
(* The graph of similar PRs *)

LEMMA AlikeSymmetric ==
    ASSUME NEW s, NEW t, IsFiniteSet(s), IsFiniteSet(t), Alike(s, t)
    PROVE  Alike(t, s)
BY CommonSizes DEF Alike

\* Equal sets are alike, whatever the threshold.
LEMMA AlikeItself ==
    ASSUME NEW s, IsFiniteSet(s), s # {}
    PROVE  Alike(s, s)
<1> DEFINE c == Cardinality(s)
<1>1. c \in Nat /\ Common(s, s) = c
  <2>1. s \cap s = s
      OBVIOUS
  <2> QED BY <2>1, FS_CardinalityType DEF Common
<1>2. Either(s, s) = c
    BY <1>1 DEF Either
<1>3. c * CONFIRM.den >= CONFIRM.num * c
  <2> HIDE DEF c
  <2> QED BY <1>1, Fractions
<1> QED BY <1>1, <1>2, <1>3 DEF Alike

LEMMA ComplementClosed ==
    ASSUME InputOK, NEW S \in SUBSET Fresh, Closed(S)
    PROVE  Closed(Fresh \ S)
<1> SUFFICES ASSUME NEW x \in Fresh \ S, NEW y \in Fresh,
                    Alike(files[x], files[y]), y \in S
             PROVE  FALSE
    BY DEF Closed
<1>1. Alike(files[y], files[x])
    BY FreshFinite, FilesFinite, AlikeSymmetric
<1> QED BY <1>1 DEF Closed

LEMMA ConnectedSymmetric ==
    ASSUME InputOK, NEW p \in Fresh, NEW q \in Fresh, Connected(p, q)
    PROVE  Connected(q, p)
<1> SUFFICES ASSUME NEW S \in SUBSET Fresh, q \in S, Closed(S), p \notin S
             PROVE  FALSE
    BY DEF Connected
<1>1. Closed(Fresh \ S) /\ p \in Fresh \ S /\ q \notin Fresh \ S
    BY ComplementClosed
<1> QED BY <1>1 DEF Connected

LEMMA ConnectedTransitive ==
    ASSUME NEW p, NEW q, NEW r, Connected(p, q), Connected(q, r)
    PROVE  Connected(p, r)
BY DEF Connected

LEMMA AlikeConnected ==
    ASSUME NEW p \in Fresh, NEW q \in Fresh, Alike(files[p], files[q])
    PROVE  Connected(p, q)
BY DEF Connected, Closed

------------------------------------------------------------------------------
(* The forest and the graph *)

Same(x, y) == Together(Fresh, parent, x, y)

\* The pair that is being joined.
Pending(x, y) == Len(finding) = 2 /\ finding[1].of = x /\ finding[2].of = y

Bound(x, y) == Same(x, y) \/ Pending(x, y) \/ Pending(y, x)

\* What is in one tree is connected ...
SoundInv == \A x \in Fresh : Connected(x, parent[x])

CursorInv == \A i \in DOMAIN finding : Same(finding[i].of, finding[i].at)

PairInv ==
    Len(finding) = 2 => Alike(files[finding[1].of], files[finding[2].of])

\* ... and what was compared and is alike is in one tree, or about to be.
EqualInv ==
    \A p \in Fresh \ unjoined : \A a \in Fresh :
        files[p] # {} /\ IsAnchor(a, files[p]) => Bound(a, p)

AnchorsBound(s, t) ==
    Alike(s, t) => \A a, b \in Fresh :
                      IsAnchor(a, s) /\ IsAnchor(b, t) => Bound(a, b)

IndexInv == \A s, t \in indexed : AnchorsBound(s, t)

ProbeInv ==
    probe # None => \A t \in indexed \ probe.left : AnchorsBound(probe.set, t)

RootInv ==
    \A p \in DOMAIN root : parent[root[p]] = root[p] /\ Same(p, root[p])

ForestInv ==
    /\ SoundInv /\ CursorInv /\ PairInv
    /\ EqualInv /\ IndexInv /\ ProbeInv
    /\ RootInv

LEMMA SameGraph ==
    ASSUME UNCHANGED input
    PROVE  /\ \A a, s : IsAnchor(a, s)' <=> IsAnchor(a, s)
           /\ \A p, q : Connected(p, q)' <=> Connected(p, q)
<1>1. files' = files /\ listed' = listed /\ Fresh' = Fresh
    BY SameInput
<1>2. \A a, s : IsAnchor(a, s)' <=> IsAnchor(a, s)
    BY <1>1 DEF IsAnchor
<1>3. \A S : Closed(S)' <=> Closed(S)
    BY <1>1 DEF Closed
<1>4. \A p, q : Connected(p, q)' <=> Connected(p, q)
    BY <1>1, <1>3 DEF Connected
<1> QED BY <1>2, <1>4

LEMMA SameForest ==
    ASSUME UNCHANGED <<input, parent>>
    PROVE  \A x, y : Same(x, y)' <=> Same(x, y)
BY SameInput DEF Same

LEMMA SameConnected ==
    ASSUME TypeInv, SoundInv, NEW x \in Fresh, NEW y \in Fresh, Same(x, y)
    PROVE  Connected(x, y)
<1> SUFFICES ASSUME NEW S \in SUBSET Fresh, x \in S, Closed(S)
             PROVE  y \in S
    BY DEF Connected
<1>1. Whole(Fresh, parent, S)
  <2> SUFFICES ASSUME NEW z \in Fresh PROVE z \in S <=> parent[z] \in S
      BY DEF Whole
  <2>1. parent[z] \in Fresh
      BY DEF TypeInv
  <2>2. Connected(z, parent[z]) /\ Connected(parent[z], z)
      BY <2>1, ConnectedSymmetric DEF SoundInv, TypeInv
  <2> QED BY <2>2 DEF Connected
<1> QED BY <1>1 DEF Same, Together

LEMMA SameIsEquivalence ==
    ASSUME TypeInv
    PROVE  /\ \A x \in Fresh : Same(x, x)
           /\ \A x, y \in Fresh : Same(x, y) => Same(y, x)
           /\ \A x, y, z \in Fresh : Same(x, y) /\ Same(y, z) => Same(x, z)
<1>1. parent \in [Fresh -> Fresh]
    BY DEF TypeInv
<1> QED BY <1>1, TogetherReflexive, TogetherSymmetric, TogetherTransitive DEF Same

\* As long as what is bound stays bound, and the agenda stays, nothing that
\* was joined comes apart.
LEMMA BoundStays ==
    ASSUME TypeInv, UNCHANGED <<input, agenda>>,
           EqualInv, IndexInv, ProbeInv,
           \A x, y \in Fresh : Bound(x, y) => Bound(x, y)'
    PROVE  EqualInv' /\ IndexInv' /\ ProbeInv'
<1>1. /\ files' = files /\ Fresh' = Fresh
      /\ unjoined' = unjoined /\ indexed' = indexed /\ probe' = probe
    BY SameInput DEF agenda
<1>2. \A a, s : IsAnchor(a, s)' <=> IsAnchor(a, s)
    BY SameGraph
<1>3. EqualInv'
    BY <1>1, <1>2 DEF EqualInv
<1>4. \A s, t : AnchorsBound(s, t) => AnchorsBound(s, t)'
    BY <1>1, <1>2 DEF AnchorsBound
<1>5. IndexInv'
    BY <1>1, <1>4 DEF IndexInv
<1>6. ProbeInv'
    BY <1>1, <1>4 DEF ProbeInv
<1> QED BY <1>3, <1>5, <1>6

LEMMA ForestInit == Init => ForestInv
<1> SUFFICES ASSUME Init PROVE ForestInv
    OBVIOUS
<1>1. TypeInv
    BY TypeInit
<1>2. SoundInv
  <2>1. \A x \in Fresh : Connected(x, x)
      BY DEF Connected
  <2> QED BY <2>1 DEF Init, SoundInv
<1>3. DOMAIN finding = {} /\ Len(finding) = 0 /\ indexed = {} /\ probe = None
      /\ DOMAIN root = {}
    BY DEF Init
<1>4. EqualInv
  <2> SUFFICES ASSUME NEW p \in Fresh \ unjoined, NEW a \in Fresh,
                      files[p] # {}, IsAnchor(a, files[p])
               PROVE  Bound(a, p)
      BY DEF EqualInv
  <2>1. IsAnchor(p, files[p])
      BY DEF Init
  <2>2. a = p
      BY <1>1, <2>1, OneAnchor DEF TypeInv
  <2> QED BY <1>1, <2>2, SameIsEquivalence DEF Bound
<1> QED BY <1>2, <1>3, <1>4
        DEF ForestInv, CursorInv, PairInv, IndexInv, ProbeInv, RootInv

LEMMA ForestClimb ==
    ASSUME TypeInv, ForestInv, Climb PROVE ForestInv'
<1>0. PICK i \in DOMAIN finding :
       LET x == finding[i].at
           above == parent[parent[x]] IN
       /\ ~AtRoot(i)
       /\ parent' = [parent EXCEPT ![x] = above]
       /\ finding' = [finding EXCEPT ![i] = [of |-> @.of, at |-> above]]
       /\ UNCHANGED <<input, rank, agenda, root, groupOf>>
    BY DEF Climb
<1> DEFINE x == finding[i].at
           above == parent[parent[x]]
<1>1. x \in Fresh /\ parent[x] \in Fresh /\ above \in Fresh
    BY CursorAt DEF TypeInv
<1>2. /\ parent' = [parent EXCEPT ![x] = above]
      /\ UNCHANGED <<input, agenda, root>> /\ parent[x] # x
      /\ finding' = [finding EXCEPT ![i] = [of |-> finding[i].of, at |-> above]]
    BY <1>0 DEF AtRoot
<1>3. parent \in [Fresh -> Fresh] /\ files' = files /\ Fresh' = Fresh
    BY <1>2, SameInput DEF TypeInv
<1>4. /\ Len(finding') = Len(finding) /\ DOMAIN finding' = DOMAIN finding
      /\ \A j \in DOMAIN finding :
            /\ finding'[j].of = finding[j].of
            /\ finding'[j].at = IF j = i THEN above ELSE finding[j].at
  <2>1. DOMAIN finding' = DOMAIN finding
      BY <1>2
  <2>2. PICK y \in Fresh : y = above
      BY <1>1
  <2>3. finding' = [finding EXCEPT ![i] = [of |-> finding[i].of, at |-> y]]
      BY <1>2, <2>2
  <2>4. /\ Len(finding') = Len(finding)
        /\ \A j \in DOMAIN finding :
              /\ finding'[j].of = finding[j].of
              /\ finding'[j].at = IF j = i THEN y ELSE finding[j].at
    <3> HIDE DEF x, above
    <3> QED BY <2>3, CursorMoves
  <2> HIDE DEF x, above
  <2> QED BY <2>1, <2>2, <2>4
<1> HIDE DEF above
<1>5. \A p, q : Same(p, q)' <=> Same(p, q)
  <2>1. parent' = [parent EXCEPT ![x] = parent[parent[x]]]
      BY <1>2 DEF above
  <2>2. PICK g : g = parent'
      OBVIOUS
  <2>3. \A p, q : Together(Fresh, g, p, q) <=> Together(Fresh, parent, p, q)
    <3> HIDE DEF x
    <3> QED BY <1>1, <1>2, <1>3, <2>1, <2>2, HalvingKeepsTrees
  <2> QED BY <1>3, <2>2, <2>3 DEF Same
<1>6. Same(x, above)
  <2>1. Same(x, parent[x]) /\ Same(parent[x], above)
      BY <1>1, <1>3, TogetherAbove DEF Same, above
  <2> QED BY <1>1, <2>1, SameIsEquivalence
<1> HIDE DEF x
<1>7. SoundInv'
  <2>1. ASSUME NEW z \in Fresh PROVE Connected(z, parent'[z])
    <3>1. CASE z = x
      <4>1. Connected(x, above)
          BY <1>1, <1>6, SameConnected DEF ForestInv
      <4>2. parent'[x] = above
          BY <1>1, <1>2, <1>3
      <4> QED BY <3>1, <4>1, <4>2
    <3>2. CASE z # x
      <4>1. parent'[z] = parent[z]
          BY <1>2, <1>3, <3>2
      <4> QED BY <4>1 DEF ForestInv, SoundInv
    <3> QED BY <3>1, <3>2
  <2> QED BY <1>2, <1>3, <2>1, SameGraph DEF SoundInv
<1>8. CursorInv'
  <2>1. ASSUME NEW j \in DOMAIN finding
        PROVE  Same(finding[j].of, finding'[j].at)
    <3>1. Same(finding[j].of, finding[j].at)
        BY DEF ForestInv, CursorInv
    <3>2. CASE j # i
        BY <1>4, <3>1, <3>2
    <3>3. CASE j = i
      <4>1. finding[j].of \in Fresh
          BY CursorAt
      <4>2. Same(finding[j].of, x)
          BY <3>1, <3>3 DEF x
      <4> QED BY <1>1, <1>4, <1>6, <3>3, <4>1, <4>2, SameIsEquivalence
    <3> QED BY <3>2, <3>3
  <2> QED BY <1>4, <1>5, <2>1 DEF CursorInv
<1>9. Len(finding) = 2 => 1 \in DOMAIN finding /\ 2 \in DOMAIN finding
    BY CursorsOfTwo
<1>10. PairInv'
    BY <1>3, <1>4, <1>9 DEF ForestInv, PairInv
<1>11. \A p, q \in Fresh : Bound(p, q) => Bound(p, q)'
    BY <1>4, <1>5, <1>9 DEF Bound, Pending
<1>12. EqualInv' /\ IndexInv' /\ ProbeInv'
    BY <1>2, <1>11, BoundStays DEF ForestInv
<1>13. RootInv'
  <2>1. ASSUME NEW p \in DOMAIN root
        PROVE  parent'[root[p]] = root[p] /\ Same(p, root[p])
    <3>1. root[p] \in Fresh /\ parent[root[p]] = root[p] /\ Same(p, root[p])
        BY DEF TypeInv, ForestInv, RootInv
    <3>2. root[p] # x
        BY <1>2, <3>1
    <3> QED BY <1>2, <1>3, <3>1, <3>2
  <2> QED BY <1>2, <1>5, <2>1 DEF RootInv
<1> QED BY <1>7, <1>8, <1>10, <1>12, <1>13 DEF ForestInv

LEMMA ForestLink ==
    ASSUME TypeInv, PhaseInv, ForestInv, Link PROVE ForestInv'
<1>0. PICK a, b, u, v : /\ a = finding[1].at /\ b = finding[2].at
                        /\ u = finding[1].of /\ v = finding[2].of
    OBVIOUS
<1>1. /\ Len(finding) = 2 /\ finding' = << >> /\ Len(finding') = 0
      /\ parent[a] = a /\ parent[b] = b
      /\ \/ parent' = [parent EXCEPT ![a] = b]
         \/ parent' = [parent EXCEPT ![b] = a]
         \/ a = b /\ parent' = parent
      /\ UNCHANGED <<input, agenda, root, groupOf>>
    BY <1>0 DEF Link, AtRoot
<1>2. /\ DOMAIN finding = {1, 2}
      /\ a \in Fresh /\ b \in Fresh /\ u \in Fresh /\ v \in Fresh
    BY <1>0, <1>1, CursorsOfTwo
<1>3. Same(u, a) /\ Same(v, b) /\ Alike(files[u], files[v])
    BY <1>0, <1>1, <1>2 DEF ForestInv, CursorInv, PairInv
<1>4. parent \in [Fresh -> Fresh] /\ files' = files /\ Fresh' = Fresh
    BY <1>1, SameInput DEF TypeInv
<1>5. \A x, y \in Fresh : Pending(x, y) => x = u /\ y = v
    BY <1>0 DEF Pending
<1>6. Same(a, b)' /\ Same(b, a)' /\ \A x, y : Same(x, y) => Same(x, y)'
  <2>1. PICK g : g = parent'
      OBVIOUS
  <2>2. /\ Together(Fresh, g, a, b) \/ Together(Fresh, g, b, a)
        /\ \A x, y : Together(Fresh, parent, x, y) => Together(Fresh, g, x, y)
    <3>1. CASE g = [parent EXCEPT ![a] = b]
        BY <1>1, <1>2, <1>4, <3>1, LinkingJoinsTrees
    <3>2. CASE g = [parent EXCEPT ![b] = a]
        BY <1>1, <1>2, <1>4, <3>2, LinkingJoinsTrees
    <3>3. CASE a = b /\ g = parent
        BY <3>3, TogetherReflexive
    <3> QED BY <1>1, <2>1, <3>1, <3>2, <3>3
  <2>3. g \in [Fresh -> Fresh]
      BY <1>1, <1>2, <1>4, <2>1
  <2>4. Together(Fresh, g, a, b) /\ Together(Fresh, g, b, a)
      BY <1>2, <2>2, <2>3, TogetherSymmetric
  <2> QED BY <1>4, <2>1, <2>2, <2>4 DEF Same
<1>7. Connected(a, b) /\ Connected(b, a)
  <2>1. Same(a, u)
      BY <1>2, <1>3, SameIsEquivalence
  <2>2. Connected(a, u) /\ Connected(v, b)
      BY <1>2, <1>3, <2>1, SameConnected DEF ForestInv
  <2>3. Connected(u, v)
      BY <1>2, <1>3, AlikeConnected
  <2>4. Connected(a, b)
      BY <2>2, <2>3, ConnectedTransitive
  <2> QED BY <1>2, <2>4, ConnectedSymmetric DEF TypeInv
<1>8. SoundInv'
  <2>1. ASSUME NEW z \in Fresh PROVE Connected(z, parent'[z])
    <3>1. Connected(z, parent[z])
        BY DEF ForestInv, SoundInv
    <3>2. \/ parent'[z] = parent[z]
          \/ z = a /\ parent'[z] = b
          \/ z = b /\ parent'[z] = a
        BY <1>1, <1>2, <1>4
    <3> QED BY <1>7, <3>1, <3>2
  <2> QED BY <1>1, <1>4, <2>1, SameGraph DEF SoundInv
<1>9. CursorInv' /\ PairInv'
    BY <1>1 DEF CursorInv, PairInv
<1>10. \A x, y \in Fresh : Bound(x, y) => Bound(x, y)'
  <2>1. Same(u, v)' /\ Same(v, u)'
    <3>1. Same(b, v) /\ Same(a, u)
        BY <1>2, <1>3, SameIsEquivalence
    <3>2. Same(u, a)' /\ Same(v, b)' /\ Same(b, v)' /\ Same(a, u)'
        BY <1>3, <1>6, <3>1
    <3>3. \A x, y, z : Same(x, y)' /\ Same(y, z)' => Same(x, z)'
        BY DEF Same, Together
    <3> QED BY <1>6, <3>2, <3>3
  <2> QED BY <1>5, <1>6, <2>1 DEF Bound
<1>11. EqualInv' /\ IndexInv' /\ ProbeInv'
    BY <1>1, <1>10, BoundStays DEF ForestInv
<1>12. RootInv'
    BY <1>1 DEF PhaseInv, RootInv
<1> QED BY <1>8, <1>9, <1>11, <1>12 DEF ForestInv

\* When no find is under way, what is bound is in one tree.
LEMMA NothingPending ==
    ASSUME Len(finding) # 2
    PROVE  \A x, y : Bound(x, y) <=> Same(x, y)
BY DEF Bound, Pending

\* While the forest stands still, trees and connections do.
LEMMA StillForest ==
    ASSUME TypeInv, ForestInv, UNCHANGED <<input, parent>>
    PROVE  /\ SoundInv'
           /\ \A x, y : Same(x, y)' <=> Same(x, y)
           /\ Len(finding) # 2 =>
                 \A x, y \in Fresh : Bound(x, y) => Bound(x, y)'
           /\ root' = root => RootInv'
<1>1. \A x, y : Same(x, y)' <=> Same(x, y)
    BY SameForest
<1>2. SoundInv'
    BY SameInput, SameGraph DEF SoundInv, ForestInv
<1>3. Len(finding) # 2 => \A x, y \in Fresh : Bound(x, y) => Bound(x, y)'
    BY <1>1, NothingPending DEF Bound
<1>4. root' = root => RootInv'
    BY <1>1 DEF ForestInv, RootInv
<1> QED BY <1>1, <1>2, <1>3, <1>4

\* The finds of a new pair start at its members.
LEMMA PairStarts ==
    ASSUME NEW a \in Fresh, NEW b \in Fresh,
           finding' = <<From(a), From(b)>>,
           UNCHANGED <<input, parent>>, TypeInv,
           Alike(files[a], files[b])
    PROVE  CursorInv' /\ PairInv' /\ Pending(a, b)'
<1>1. /\ Len(finding') = 2 /\ DOMAIN finding' = {1, 2}
      /\ finding'[1] = From(a) /\ finding'[2] = From(b)
    OBVIOUS
<1>2. /\ finding'[1].of = a /\ finding'[1].at = a
      /\ finding'[2].of = b /\ finding'[2].at = b
    BY <1>1 DEF From
<1>3. Same(a, a)' /\ Same(b, b)'
    BY SameForest, SameIsEquivalence
<1>4. CursorInv'
    BY <1>1, <1>2, <1>3 DEF CursorInv
<1>5. PairInv'
    BY <1>2, SameInput DEF PairInv
<1> QED BY <1>1, <1>2, <1>4, <1>5 DEF Pending

LEMMA ForestJoinEqual ==
    ASSUME TypeInv, ForestInv, NEW p, NEW a, JoinEqual(p, a)
    PROVE  ForestInv'
<1>1. /\ UNCHANGED <<input, forest, indexed, probe, root, groupOf>>
      /\ p \in unjoined /\ unjoined' = unjoined \ {p}
      /\ IsAnchor(a, files[p])
      /\ finding' = <<From(a), From(p)>> /\ Len(finding) # 2
    BY EmptyFinding DEF JoinEqual
<1>2. parent' = parent /\ files' = files /\ Fresh' = Fresh
    BY <1>1, SameInput DEF forest
<1>3. a \in Fresh /\ p \in Fresh /\ files[a] = files[p] /\ files[p] # {}
    BY <1>1, AnchorInBucket DEF TypeInv
<1>4. Alike(files[a], files[p])
    BY <1>3, FreshFinite, FilesFinite, AlikeItself DEF TypeInv
<1>5. CursorInv' /\ PairInv' /\ Pending(a, p)'
    BY <1>1, <1>2, <1>3, <1>4, PairStarts
<1>6. /\ SoundInv' /\ RootInv'
      /\ \A x, y \in Fresh : Bound(x, y) => Bound(x, y)'
    BY <1>1, <1>2, StillForest
<1>7. \A c, s : IsAnchor(c, s)' <=> IsAnchor(c, s)
    BY <1>1, SameGraph
<1>8. EqualInv'
  <2>1. ASSUME NEW q \in Fresh \ unjoined', NEW c \in Fresh,
               files[q] # {}, IsAnchor(c, files[q])
        PROVE  Bound(c, q)'
    <3>1. CASE q = p
      <4>1. c = a
          BY <1>1, <2>1, <3>1, OneAnchor DEF TypeInv
      <4> QED BY <1>5, <3>1, <4>1 DEF Bound
    <3>2. CASE q # p
        BY <1>1, <1>6, <2>1, <3>2 DEF ForestInv, EqualInv
    <3> QED BY <3>1, <3>2
  <2> QED BY <1>2, <1>7, <2>1 DEF EqualInv
<1>9. \A s, t : AnchorsBound(s, t) => AnchorsBound(s, t)'
    BY <1>2, <1>6, <1>7 DEF AnchorsBound
<1>10. IndexInv' /\ ProbeInv'
    BY <1>1, <1>9 DEF ForestInv, IndexInv, ProbeInv
<1> QED BY <1>5, <1>6, <1>8, <1>10 DEF ForestInv

\* What holds of the forest when the finds end, or none began, and the agenda
\* moves on.
LEMMA QuietSteps ==
    ASSUME TypeInv, ForestInv, UNCHANGED <<input, parent, unjoined, root>>,
           Len(finding) # 2
    PROVE  /\ SoundInv' /\ RootInv' /\ EqualInv'
           /\ \A s, t : AnchorsBound(s, t) => AnchorsBound(s, t)'
<1>1. files' = files /\ Fresh' = Fresh
    BY SameInput
<1>2. /\ SoundInv' /\ RootInv'
      /\ \A x, y \in Fresh : Bound(x, y) => Bound(x, y)'
    BY StillForest
<1>3. \A c, s : IsAnchor(c, s)' <=> IsAnchor(c, s)
    BY SameGraph
<1>4. EqualInv'
    BY <1>1, <1>2, <1>3 DEF ForestInv, EqualInv
<1>5. \A s, t : AnchorsBound(s, t) => AnchorsBound(s, t)'
    BY <1>1, <1>2, <1>3 DEF AnchorsBound
<1> QED BY <1>2, <1>4, <1>5

LEMMA NoFinds ==
    ASSUME finding' = << >> PROVE CursorInv' /\ PairInv'
<1>1. DOMAIN finding' = {} /\ Len(finding') = 0
    OBVIOUS
<1> QED BY <1>1 DEF CursorInv, PairInv

LEMMA ForestProbe ==
    ASSUME TypeInv, ForestInv, NEW s, Probe(s) PROVE ForestInv'
<1>1. /\ UNCHANGED <<input, forest, finding, unjoined, indexed, root, groupOf>>
      /\ finding = << >> /\ s \in Buckets
      /\ probe' = [set |-> s,
                   left |-> {t \in indexed : Prefix(s) \cap Prefix(t) # {}}]
    BY DEF Probe, IsFirst
<1>2. parent' = parent /\ Len(finding) # 2 /\ finding' = << >>
    BY <1>1 DEF forest
<1>3. /\ SoundInv' /\ RootInv' /\ EqualInv' /\ CursorInv' /\ PairInv'
      /\ \A u, v : AnchorsBound(u, v) => AnchorsBound(u, v)'
    BY <1>1, <1>2, QuietSteps, NoFinds
<1>4. IndexInv'
    BY <1>1, <1>3 DEF ForestInv, IndexInv
<1>5. ASSUME NEW t \in indexed, Prefix(s) \cap Prefix(t) = {}
      PROVE  AnchorsBound(s, t)
  <2>1. ~Alike(s, t)
      BY <1>1, <1>5, PrefixesMeet DEF TypeInv
  <2> QED BY <2>1 DEF AnchorsBound
<1>6. ProbeInv'
    BY <1>1, <1>3, <1>5 DEF ProbeInv
<1> QED BY <1>3, <1>4, <1>6 DEF ForestInv

LEMMA ForestPassOver ==
    ASSUME TypeInv, PhaseInv, ForestInv, NEW t, PassOver(t) PROVE ForestInv'
<1>1. /\ Probing(t) /\ finding' = finding
      /\ ~(CanReach(probe.set, t) /\ Alike(probe.set, t))
    BY DEF PassOver
<1>2. /\ UNCHANGED <<input, parent, unjoined, indexed, root>>
      /\ finding = << >> /\ probe # None /\ t \in indexed
      /\ probe.set \in Buckets
      /\ probe' = [set |-> probe.set, left |-> probe.left \ {t}]
    BY <1>1, Compared
<1>3. /\ SoundInv' /\ RootInv' /\ EqualInv' /\ CursorInv' /\ PairInv'
      /\ \A u, v : AnchorsBound(u, v) => AnchorsBound(u, v)'
    BY <1>1, <1>2, QuietSteps, NoFinds, EmptyFinding
<1>4. IndexInv'
    BY <1>2, <1>3 DEF ForestInv, IndexInv
<1>5. AnchorsBound(probe.set, t)
  <2>1. IsFiniteSet(probe.set) /\ IsFiniteSet(t)
      BY <1>2, BucketsFinite DEF TypeInv
  <2>2. ~Alike(probe.set, t)
      BY <1>1, <2>1, SizesReach
  <2> QED BY <2>2 DEF AnchorsBound
<1>6. ProbeInv'
    BY <1>2, <1>3, <1>5 DEF ForestInv, ProbeInv
<1> QED BY <1>3, <1>4, <1>6 DEF ForestInv

LEMMA ForestJoinAlike ==
    ASSUME TypeInv, PhaseInv, ForestInv, NEW t, NEW a, NEW b,
           JoinAlike(t, a, b)
    PROVE  ForestInv'
<1>0. PICK s : s = probe.set
    OBVIOUS
<1>1. /\ Probing(t) /\ finding' = <<From(a), From(b)>>
      /\ Alike(probe.set, t) /\ IsAnchor(a, probe.set) /\ IsAnchor(b, t)
    BY DEF JoinAlike
<1>2. /\ UNCHANGED <<input, parent, unjoined, indexed, root>>
      /\ finding = << >> /\ probe # None /\ t \in indexed
      /\ probe' = [set |-> probe.set, left |-> probe.left \ {t}]
    BY <1>1, Compared
<1>3. a \in Fresh /\ b \in Fresh /\ files[a] = probe.set /\ files[b] = t
    BY <1>1, AnchorInBucket
<1>4. CursorInv' /\ PairInv' /\ Pending(a, b)'
    BY <1>1, <1>2, <1>3, PairStarts
<1>5. /\ SoundInv' /\ RootInv' /\ EqualInv'
      /\ \A u, v : AnchorsBound(u, v) => AnchorsBound(u, v)'
    BY <1>2, QuietSteps, EmptyFinding
<1>6. IndexInv'
    BY <1>2, <1>5 DEF ForestInv, IndexInv
<1>7. AnchorsBound(s, t)'
  <2>1. ASSUME NEW c \in Fresh, NEW d \in Fresh, IsAnchor(c, s), IsAnchor(d, t)
        PROVE  Bound(c, d)'
    <3>1. c = a /\ d = b
        BY <1>0, <1>1, <2>1, OneAnchor DEF TypeInv
    <3> QED BY <1>4, <3>1 DEF Bound
  <2> QED BY <1>2, <2>1, SameInput, SameGraph DEF AnchorsBound
<1>8. ProbeInv'
    BY <1>0, <1>2, <1>5, <1>7 DEF ForestInv, ProbeInv
<1> QED BY <1>4, <1>5, <1>6, <1>8 DEF ForestInv

LEMMA AnchorsBoundSymmetric ==
    ASSUME TypeInv, NEW s \in Buckets, NEW t \in Buckets, AnchorsBound(s, t),
           Len(finding) # 2
    PROVE  AnchorsBound(t, s)
<1> SUFFICES ASSUME Alike(t, s), NEW a \in Fresh, NEW b \in Fresh,
                    IsAnchor(a, t), IsAnchor(b, s)
             PROVE  Bound(a, b)
    BY DEF AnchorsBound
<1>1. Alike(s, t)
    BY BucketsFinite, AlikeSymmetric DEF TypeInv
<1>2. Same(b, a)
    BY <1>1, NothingPending DEF AnchorsBound
<1> QED BY <1>2, SameIsEquivalence DEF Bound

LEMMA ForestIndex ==
    ASSUME TypeInv, ForestInv, Index PROVE ForestInv'
<1>0. PICK s : s = probe.set
    OBVIOUS
<1>1. /\ UNCHANGED <<input, forest, finding, unjoined, root, groupOf>>
      /\ finding = << >> /\ probe # None /\ probe' = None
      /\ probe.left = {} /\ indexed' = indexed \cup {s}
    BY <1>0 DEF Index
<1>2. parent' = parent /\ Len(finding) # 2 /\ finding' = << >>
    BY <1>1 DEF forest
<1>3. /\ SoundInv' /\ RootInv' /\ EqualInv' /\ CursorInv' /\ PairInv'
      /\ \A u, v : AnchorsBound(u, v) => AnchorsBound(u, v)'
    BY <1>1, <1>2, QuietSteps, NoFinds
<1>4. s \in Buckets /\ indexed \subseteq Buckets
    BY <1>0, <1>1 DEF TypeInv, Probes
<1>5. \A t \in indexed : AnchorsBound(s, t) /\ AnchorsBound(t, s)
  <2> SUFFICES ASSUME NEW t \in indexed
               PROVE  AnchorsBound(s, t) /\ AnchorsBound(t, s)
      OBVIOUS
  <2>1. AnchorsBound(s, t)
      BY <1>0, <1>1 DEF ForestInv, ProbeInv
  <2> QED BY <1>2, <1>4, <2>1, AnchorsBoundSymmetric
<1>6. AnchorsBound(s, s)
  <2>1. ASSUME NEW a \in Fresh, NEW b \in Fresh, IsAnchor(a, s), IsAnchor(b, s)
        PROVE  Bound(a, b)
    <3>1. a = b
        BY <2>1, OneAnchor DEF TypeInv
    <3> QED BY <3>1, SameIsEquivalence DEF Bound
  <2> QED BY <2>1 DEF AnchorsBound
<1>7. IndexInv'
    BY <1>1, <1>3, <1>5, <1>6 DEF ForestInv, IndexInv
<1>8. ProbeInv'
    BY <1>1 DEF ProbeInv
<1> QED BY <1>3, <1>7, <1>8 DEF ForestInv

LEMMA ForestFind ==
    ASSUME TypeInv, ForestInv, NEW p, Find(p) PROVE ForestInv'
<1>1. /\ UNCHANGED <<input, parent, unjoined, indexed, probe, root>>
      /\ p \in Fresh /\ finding' = <<From(p)>> /\ Len(finding) # 2
    BY EmptyFinding DEF Find, forest, agenda
<1>2. /\ SoundInv' /\ RootInv' /\ EqualInv'
      /\ \A u, v : AnchorsBound(u, v) => AnchorsBound(u, v)'
    BY <1>1, QuietSteps
<1>3. IndexInv' /\ ProbeInv'
    BY <1>1, <1>2 DEF ForestInv, IndexInv, ProbeInv
<1>4. Len(finding') = 1 /\ DOMAIN finding' = {1} /\ finding'[1] = From(p)
    BY <1>1
<1>5. CursorInv' /\ PairInv'
  <2>1. finding'[1].of = p /\ finding'[1].at = p
      BY <1>4 DEF From
  <2>2. Same(p, p)'
      BY <1>1, SameForest, SameIsEquivalence
  <2> QED BY <1>4, <2>1, <2>2 DEF CursorInv, PairInv
<1> QED BY <1>2, <1>3, <1>5 DEF ForestInv

LEMMA ForestFound ==
    ASSUME TypeInv, ForestInv, Found PROVE ForestInv'
<1>0. PICK u, a : u = finding[1].of /\ a = finding[1].at
    OBVIOUS
<1>1. /\ UNCHANGED <<input, parent, unjoined, indexed, probe>>
      /\ Len(finding) = 1 /\ finding' = << >> /\ parent[a] = a
      /\ root' = [p \in DOMAIN root \cup {u} |->
                    IF p \in DOMAIN root THEN root[p] ELSE a]
    BY <1>0 DEF Found, forest, agenda, AtRoot
<1>2. /\ SoundInv'
      /\ \A x, y : Same(x, y)' <=> Same(x, y)
      /\ \A x, y \in Fresh : Bound(x, y) => Bound(x, y)'
    BY <1>1, StillForest
<1>3. EqualInv' /\ IndexInv' /\ ProbeInv'
  <2>1. UNCHANGED agenda
      BY <1>1 DEF agenda
  <2> QED BY <1>1, <1>2, <2>1, BoundStays DEF ForestInv
<1>4. CursorInv' /\ PairInv'
    BY <1>1, NoFinds
<1>5. Same(u, a)
    BY <1>0, <1>1, CursorOfOne DEF ForestInv, CursorInv
<1>6. RootInv'
  <2>1. \A p \in DOMAIN root : parent[root[p]] = root[p] /\ Same(p, root[p])
      BY DEF ForestInv, RootInv
  <2> QED BY <1>1, <1>2, <1>5, <2>1 DEF RootInv
<1> QED BY <1>2, <1>3, <1>4, <1>6 DEF ForestInv

LEMMA ForestPlaced ==
    ASSUME TypeInv, ForestInv,
           UNCHANGED <<input, forest, finding, agenda, root>>
    PROVE  ForestInv'
<1>1. UNCHANGED <<parent, unjoined, indexed, probe>>
    BY DEF forest, agenda
<1>2. /\ SoundInv' /\ RootInv'
      /\ \A x, y : Same(x, y)' <=> Same(x, y)
    BY <1>1, StillForest
<1>3. \A x, y \in Fresh : Bound(x, y) => Bound(x, y)'
    BY <1>2 DEF Bound, Pending
<1>4. EqualInv' /\ IndexInv' /\ ProbeInv'
    BY <1>3, BoundStays DEF ForestInv
<1>5. CursorInv' /\ PairInv'
    BY <1>2, SameInput DEF ForestInv, CursorInv, PairInv
<1> QED BY <1>2, <1>4, <1>5 DEF ForestInv

LEMMA ForestNext ==
    ASSUME TypeInv, PhaseInv, ForestInv, [Next]_vars PROVE ForestInv'
<1>1. CASE UNCHANGED vars
    BY <1>1, ForestPlaced DEF vars
<1>2. CASE Climb
    BY <1>2, ForestClimb
<1>3. CASE Link
    BY <1>3, ForestLink
<1>4. CASE \E p, a \in PRs : JoinEqual(p, a)
    BY <1>4, ForestJoinEqual
<1>5. CASE \E s \in FileSets : Probe(s)
    BY <1>5, ForestProbe
<1>6. CASE \E s \in FileSets : PassOver(s)
    BY <1>6, ForestPassOver
<1>7. CASE \E s \in FileSets : \E a, b \in PRs : JoinAlike(s, a, b)
    BY <1>7, ForestJoinAlike
<1>8. CASE Index
    BY <1>8, ForestIndex
<1>9. CASE \E p \in PRs : Find(p)
    BY <1>9, ForestFind
<1>10. CASE Found
    BY <1>10, ForestFound
<1>11. CASE \E p \in PRs : \/ \E g \in 1..Issued : Attach(p, g)
                           \/ OpenGroup(p) \/ LeaveAlone(p)
    BY <1>11, Placed, ForestPlaced
<1> QED BY <1>1, <1>2, <1>3, <1>4, <1>5, <1>6, <1>7, <1>8, <1>9, <1>10, <1>11
        DEF Next, Finished

\* Once everything is compared, whatever is alike is in one tree.
LEMMA AlikeSame ==
    ASSUME TypeInv, ForestInv, Joined, Len(finding) # 2,
           NEW x \in Fresh, NEW y \in Fresh, Alike(files[x], files[y])
    PROVE  Same(x, y)
<1>1. files[x] # {} /\ files[y] # {}
    BY DEF Alike
<1>2. PICK a \in Fresh : IsAnchor(a, files[x])
    BY AnchorExists DEF TypeInv
<1>3. PICK b \in Fresh : IsAnchor(b, files[y])
    BY AnchorExists DEF TypeInv
<1>4. Same(a, x) /\ Same(b, y)
    BY <1>1, <1>2, <1>3, NothingPending DEF Joined, ForestInv, EqualInv
<1>5. files[x] \in indexed /\ files[y] \in indexed
    BY <1>1 DEF Joined, Buckets
<1>6. Same(a, b)
    BY <1>2, <1>3, <1>5, NothingPending DEF ForestInv, IndexInv, AnchorsBound
<1> QED BY <1>4, <1>6, SameIsEquivalence

LEMMA ConnectedSame ==
    ASSUME TypeInv, ForestInv, Joined, Len(finding) # 2,
           NEW p \in Fresh, NEW q, Connected(p, q)
    PROVE  Same(p, q)
<1> DEFINE S == {y \in Fresh : Same(p, y)}
<1>1. p \in S
    BY SameIsEquivalence
<1>2. Closed(S)
  <2> SUFFICES ASSUME NEW x \in S, NEW y \in Fresh, Alike(files[x], files[y])
               PROVE  Same(p, y)
      BY DEF Closed
  <2>1. Same(x, y)
      BY AlikeSame
  <2> QED BY <2>1, SameIsEquivalence
<1>3. q \in S
  <2> HIDE DEF S
  <2>1. S \in SUBSET Fresh
      BY DEF S
  <2> QED BY <1>1, <1>2, <2>1 DEF Connected
<1> QED BY <1>3

LEMMA ComponentsFound ==
    ASSUME TypeInv, PhaseInv, ForestInv PROVE ClustersAreComponents
<1> SUFFICES ASSUME NEW p \in DOMAIN root, NEW q \in DOMAIN root
             PROVE  root[p] = root[q] <=> Connected(p, q)
    BY DEF ClustersAreComponents
<1>1. Joined /\ Len(finding) # 2
    BY DEF PhaseInv
<1>2. /\ p \in Fresh /\ q \in Fresh /\ root[p] \in Fresh /\ root[q] \in Fresh
      /\ parent \in [Fresh -> Fresh]
    BY DEF TypeInv
<1>3. /\ parent[root[p]] = root[p] /\ Same(p, root[p])
      /\ parent[root[q]] = root[q] /\ Same(q, root[q])
    BY DEF ForestInv, RootInv
<1>4. ASSUME root[p] = root[q] PROVE Connected(p, q)
  <2>1. Same(p, q)
      BY <1>2, <1>3, <1>4, SameIsEquivalence
  <2> QED BY <1>2, <2>1, SameConnected DEF ForestInv
<1>5. ASSUME Connected(p, q) PROVE root[p] = root[q]
  <2>1. Same(p, q)
      BY <1>1, <1>2, <1>5, ConnectedSame
  <2>2. Same(root[p], root[q])
      BY <1>2, <1>3, <2>1, SameIsEquivalence
  <2> QED BY <1>2, <1>3, <2>2, OneRoot DEF Same
<1> QED BY <1>4, <1>5

\* The pruned join with its forest finds exactly the connected components of
\* the graph of all pairs (cluster_prs), for any files, order and threshold.
THEOREM ClustersFound == Spec => []ClustersAreComponents
<1>1. Init => TypeInv /\ PhaseInv /\ ForestInv
    BY TypeInit, ForestInit
<1>2. TypeInv /\ PhaseInv /\ ForestInv /\ [Next]_vars
      => TypeInv' /\ PhaseInv' /\ ForestInv'
    BY TypeNext, ForestNext
<1>3. TypeInv /\ PhaseInv /\ ForestInv => ClustersAreComponents
    BY ComponentsFound
<1> QED BY <1>1, <1>2, <1>3, PTL DEF Spec

------------------------------------------------------------------------------
(* Placing the components *)

Numbers == {groupOf[p] : p \in PRs} \ (0..Issued)

KeptInv == \A q \in PRs \ Fresh : groupOf[q] = kept[q]

\* Nobody is placed before every root is known.
LastInv == (\E p \in Fresh : groupOf[p] # 0) => DOMAIN root = Fresh

\* Those that are connected are placed together.
WholeInv ==
    \A p, q \in Fresh :
        groupOf[p] # 0 /\ Connected(p, q) => groupOf[q] = groupOf[p]

\* The new numbers follow one another.
NumbersInv == Numbers = (Issued + 1)..(NextNumber - 1)

GroupInv ==
    KeptInv /\ LastInv /\ WholeInv /\ NumbersInv /\ AssignedAsDefined

\* Whatever is closer than what is alike is alike.
LEMMA CloserAlike ==
    ASSUME NEW s, NEW t, NEW u, NEW v,
           IsFiniteSet(s), IsFiniteSet(t), IsFiniteSet(u), IsFiniteSet(v),
           Closer(s, t, u, v), Alike(u, v)
    PROVE  Alike(s, t) /\ s \cap t # {}
<1> PICK c, e, x, y, n, d :
       /\ c = Common(s, t) /\ e = Either(s, t)
       /\ x = Common(u, v) /\ y = Either(u, v)
       /\ n = CONFIRM.num /\ d = CONFIRM.den
    OBVIOUS
<1>1. /\ c \in Nat /\ e \in Nat /\ x \in Nat /\ y \in Nat
      /\ n \in Nat \ {0} /\ d \in Nat \ {0}
    BY CommonSizes, Fractions
<1>2. c * y > x * e
    BY DEF Closer
<1>3. x * d >= n * y
    BY DEF Alike
<1>4. y # 0
  <2>1. Cardinality(u) \in Nat /\ Cardinality(u) <= y
      BY CommonSizes
  <2>2. Cardinality(u) # 0
      BY FS_EmptySet DEF Alike
  <2> QED BY <1>1, <2>1, <2>2
<1>5. c # 0
  <2> SUFFICES ASSUME c = 0 PROVE FALSE
      OBVIOUS
  <2>1. c * y = 0 /\ x * e \in Nat
      BY <1>1
  <2> QED BY <1>2, <2>1
<1>6. c * d >= n * e
  <2>1. (c * y) * d > (x * e) * d
    <3>1. PICK k, l : k = c * y /\ l = x * e
        OBVIOUS
    <3>2. k \in Nat /\ l \in Nat /\ k >= l + 1
        BY <1>1, <1>2, <3>1
    <3>3. k * d >= (l + 1) * d /\ (l + 1) * d = l * d + d /\ l * d \in Nat
          /\ k * d \in Nat
        BY <1>1, <3>2
    <3>4. k * d > l * d
        BY <1>1, <3>3
    <3> QED BY <3>1, <3>4
  <2>2. (x * d) * e >= (n * y) * e
      BY <1>1, <1>3
  <2>3. (c * d) * y = (c * y) * d /\ (x * e) * d = (x * d) * e
        /\ (n * e) * y = (n * y) * e
      BY <1>1
  <2>4. /\ c * d \in Nat /\ n * e \in Nat /\ (c * d) * y \in Nat
        /\ (n * e) * y \in Nat /\ (x * e) * d \in Nat /\ (x * d) * e \in Nat
        /\ (n * y) * e \in Nat /\ (c * y) * d \in Nat
      BY <1>1
  <2>5. (c * d) * y > (n * e) * y
      BY <2>1, <2>2, <2>3, <2>4
  <2> SUFFICES ASSUME c * d < n * e PROVE FALSE
      BY <2>4
  <2>6. (c * d) * y <= (n * e) * y
      BY <1>1, <2>4
  <2> QED BY <2>4, <2>5, <2>6
<1>7. s \cap t # {}
    BY <1>5, FS_EmptySet DEF Common
<1> QED BY <1>6, <1>7 DEF Alike

LEMMA AlikeMeet ==
    ASSUME NEW s, NEW t, IsFiniteSet(s), IsFiniteSet(t), Alike(s, t)
    PROVE  s \cap t # {}
<1> SUFFICES ASSUME s \cap t = {} PROVE FALSE
    OBVIOUS
<1>1. Common(s, t) = 0
    BY FS_EmptySet DEF Common
<1>2. /\ Cardinality(s) \in Nat /\ Either(s, t) \in Nat
      /\ Cardinality(s) <= Either(s, t) /\ Cardinality(s) # 0
    BY CommonSizes, FS_EmptySet DEF Alike
<1>3. CONFIRM.num * Either(s, t) > 0
    BY <1>2, Fractions
<1>4. 0 * CONFIRM.den >= CONFIRM.num * Either(s, t)
    BY <1>1 DEF Alike
<1>5. 0 * CONFIRM.den = 0 /\ CONFIRM.num * Either(s, t) \in Nat
    BY <1>2, Fractions
<1> QED BY <1>3, <1>4, <1>5

\* When a PR is placed, its cluster is its component, and waits as a whole.
LEMMA ClusterIsComponent ==
    ASSUME TypeInv, ClustersAreComponents, DOMAIN root = Fresh,
           WholeInv, NEW p \in Fresh, groupOf[p] = 0
    PROVE  /\ Cluster(p) = Component(p) /\ p \in Component(p)
           /\ Component(p) \subseteq Fresh
           /\ \A q \in Component(p) : groupOf[q] = 0
<1>1. \A q \in Fresh : root[q] = root[p] <=> Connected(p, q)
    BY DEF ClustersAreComponents
<1>2. Cluster(p) = Component(p) /\ p \in Component(p)
    BY <1>1 DEF Cluster, Component
<1>3. ASSUME NEW q \in Component(p), groupOf[q] # 0 PROVE FALSE
  <2>1. q \in Fresh /\ Connected(q, p)
      BY ConnectedSymmetric DEF Component, TypeInv
  <2> QED BY <1>3, <2>1 DEF WholeInv
<1> QED BY <1>2, <1>3 DEF Component

\* The groups that come closest are those that the kept PRs alone determine:
\* PRs that were placed since are not alike, or they would be connected.
LEMMA ClosestAreHomes ==
    ASSUME TypeInv, GroupInv, ClustersAreComponents, DOMAIN root = Fresh,
           NEW p \in Fresh, groupOf[p] = 0
    PROVE  Closest(Component(p)) = Homes(Component(p))
<1> PICK C : C = Component(p)
    OBVIOUS
<1>1. /\ C \subseteq Fresh /\ \A q \in C : groupOf[q] = 0
      /\ Fresh \subseteq PRs
    BY ClusterIsComponent, FreshFinite DEF GroupInv
<1>2. \A q \in PRs : IsFiniteSet(files[q])
    BY FilesFinite DEF TypeInv
<1>3. \A q \in PRs : groupOf[q] \in Nat /\ kept[q] \in 0..Issued
    BY DEF TypeInv, InputOK
<1>4. ASSUME NEW a \in C, NEW q \in PRs, Alike(files[a], files[q]),
             groupOf[q] # 0
      PROVE  q \in PRs \ Fresh /\ groupOf[q] = kept[q]
  <2>1. ASSUME q \in Fresh PROVE FALSE
    <3>1. Connected(p, a) /\ Connected(a, q)
        BY <1>1, <1>4, <2>1, AlikeConnected DEF Component
    <3>2. q \in C
        BY <2>1, <3>1, ConnectedTransitive DEF Component
    <3> QED BY <1>1, <1>4, <3>2
  <2> QED BY <2>1 DEF GroupInv, KeptInv
<1>5. ASSUME NEW g \in Closest(C) PROVE g \in Homes(C)
  <2>1. PICK a \in C, q \in PRs :
           /\ groupOf[q] = g /\ g \in 1..Issued
           /\ Alike(files[a], files[q])
           /\ \A h \in Candidates(C) : \A y \in Pairs(C, h) :
                 CanReach(y[1], y[2])
                 => ~Closer(y[1], y[2], files[a], files[q])
    <3>1. PICK x \in Pairs(C, g) :
             /\ g \in Candidates(C) /\ Alike(x[1], x[2])
             /\ \A h \in Candidates(C) : \A y \in Pairs(C, h) :
                   CanReach(y[1], y[2]) => ~Closer(y[1], y[2], x[1], x[2])
        BY <1>5 DEF Closest
    <3>2. PICK a \in C, q \in PRs :
             groupOf[q] = g /\ x = <<files[a], files[q]>>
        BY DEF Pairs
    <3>3. x[1] = files[a] /\ x[2] = files[q] /\ g \in 1..Issued
        BY <3>1, <3>2 DEF Candidates
    <3> QED BY <3>1, <3>2, <3>3
  <2>2. q \in PRs \ Fresh /\ kept[q] = g
    <3>1. groupOf[q] # 0
        BY <2>1, ThresholdAssumption
    <3> QED BY <1>4, <2>1, <3>1
  <2>3. ASSUME NEW r \in C, NEW s \in PRs \ Fresh,
               Closer(files[r], files[s], files[a], files[q])
        PROVE  FALSE
    <3>1. Alike(files[r], files[s]) /\ files[r] \cap files[s] # {}
        BY <1>1, <1>2, <2>1, <2>3, CloserAlike
    <3>2. CanReach(files[r], files[s])
        BY <1>1, <1>2, <3>1, SizesReach
    <3>3. groupOf[s] = kept[s] /\ kept[s] \in 1..Issued
        BY <1>3, ThresholdAssumption DEF GroupInv, KeptInv, Fresh
    <3>4. kept[s] \in Candidates(C)
          /\ <<files[r], files[s]>> \in Pairs(C, kept[s])
        BY <3>1, <3>3 DEF Candidates, Pairs
    <3> QED BY <2>1, <2>3, <3>2, <3>4
  <2> QED BY <2>1, <2>2, <2>3 DEF Homes
<1>6. ASSUME NEW g \in Homes(C) PROVE g \in Closest(C)
  <2>1. PICK a \in C, q \in PRs :
           /\ kept[q] = g /\ g \in 1..Issued /\ Alike(files[a], files[q])
           /\ \A r \in C : \A s \in PRs \ Fresh :
                 ~Closer(files[r], files[s], files[a], files[q])
      BY <1>6 DEF Homes
  <2>2. q \in PRs \ Fresh /\ groupOf[q] = g
      BY <2>1, ThresholdAssumption DEF Fresh, GroupInv, KeptInv
  <2>3. /\ files[a] \cap files[q] # {}
        /\ CanReach(files[a], files[q])
      BY <1>1, <1>2, <2>1, AlikeMeet, SizesReach
  <2>4. /\ g \in Candidates(C)
        /\ <<files[a], files[q]>> \in Pairs(C, g)
      BY <2>1, <2>2, <2>3 DEF Candidates, Pairs
  <2>5. ASSUME NEW h \in Candidates(C), NEW y \in Pairs(C, h),
               Closer(y[1], y[2], files[a], files[q])
        PROVE  FALSE
    <3>1. PICK r \in C, s \in PRs :
             groupOf[s] = h /\ y = <<files[r], files[s]>>
        BY DEF Pairs
    <3>2. h \in 1..Issued /\ y[1] = files[r] /\ y[2] = files[s]
        BY <3>1 DEF Candidates
    <3>3. Alike(files[r], files[s])
        BY <1>1, <1>2, <2>1, <2>5, <3>2, CloserAlike
    <3>4. s \in PRs \ Fresh
      <4>1. groupOf[s] # 0
          BY <3>1, <3>2, ThresholdAssumption
      <4> QED BY <1>4, <3>3, <4>1
    <3> QED BY <2>1, <2>5, <3>2, <3>4
  <2> QED BY <2>1, <2>3, <2>4, <2>5 DEF Closest
<1> QED BY <1>5, <1>6

LEMMA SameHomes ==
    ASSUME UNCHANGED input
    PROVE  /\ \A p : Component(p)' = Component(p)
           /\ \A C : Homes(C)' = Homes(C)
<1>1. files' = files /\ kept' = kept /\ Fresh' = Fresh
    BY SameInput
<1>2. \A p, q : Connected(p, q)' <=> Connected(p, q)
    BY SameGraph
<1>3. \A p : Component(p)' = Component(p)
    BY <1>1, <1>2 DEF Component
<1>4. \A C : Homes(C)' = Homes(C)
    BY <1>1 DEF Homes
<1> QED BY <1>3, <1>4

LEMMA ComponentsAgree ==
    ASSUME InputOK, NEW p \in Fresh, NEW q \in Component(p)
    PROVE  Component(q) = Component(p)
<1>1. q \in Fresh /\ Connected(p, q) /\ Connected(q, p)
    BY ConnectedSymmetric DEF Component
<1> QED BY <1>1, ConnectedTransitive DEF Component

\* A PR without known paths is not like any other one.
LEMMA UnknownAlone ==
    ASSUME InputOK, NEW p \in Fresh, Unknown(Component(p))
    PROVE  Component(p) = {p} /\ Homes({p}) = {}
<1>1. PICK u \in Component(p) : files[u] = {}
    BY DEF Unknown
<1>2. u \in Fresh /\ Connected(u, p)
    BY <1>1, ConnectedSymmetric DEF Component
<1>3. Closed({u}) /\ {u} \in SUBSET Fresh
    BY <1>1, <1>2 DEF Closed, Alike
<1>4. p = u
    BY <1>2, <1>3 DEF Connected
<1>5. ASSUME NEW q \in Component(p) PROVE q = p
    BY <1>3, <1>4, <1>5 DEF Component, Connected
<1>6. p \in Component(p)
    BY <1>1, <1>4
<1>7. Homes({p}) = {}
    BY <1>1, <1>4 DEF Homes, Alike
<1> QED BY <1>5, <1>6, <1>7

LEMMA NextIsFree ==
    ASSUME TypeInv, NumbersInv
    PROVE  /\ NextNumber \in Nat /\ NextNumber > Issued
           /\ \A q \in PRs : groupOf[q] < NextNumber
<1>1. NextNumber \in Nat /\ NextNumber > Issued
    BY NumbersFinite
<1>2. ASSUME NEW q \in PRs PROVE groupOf[q] < NextNumber
  <2>1. groupOf[q] \in Nat
      BY DEF TypeInv
  <2>2. CASE groupOf[q] \in 0..Issued
      BY <1>1, <2>2, ThresholdAssumption
  <2>3. CASE groupOf[q] \notin 0..Issued
    <3>1. groupOf[q] \in Numbers
        BY <2>3 DEF Numbers
    <3> QED BY <1>1, <3>1, ThresholdAssumption DEF NumbersInv
  <2> QED BY <2>2, <2>3
<1> QED BY <1>1, <1>2

LEMMA GroupInit == Init => GroupInv
<1> SUFFICES ASSUME Init PROVE GroupInv
    OBVIOUS
<1>1. TypeInv /\ groupOf = kept
    BY TypeInit DEF Init
<1>2. \A p \in PRs : kept[p] \in 0..Issued
    BY <1>1 DEF TypeInv, InputOK
<1>3. \A p \in Fresh : groupOf[p] = 0
    BY <1>1 DEF Fresh
<1>4. NumbersInv
  <2>1. Numbers = {}
      BY <1>1, <1>2 DEF Numbers
  <2>2. NextNumber = Issued + 1
      BY <2>1, FS_EmptySet, ThresholdAssumption DEF Numbers, NextNumber
  <2> QED BY <2>1, <2>2, ThresholdAssumption DEF NumbersInv
<1> QED BY <1>1, <1>3, <1>4
        DEF GroupInv, KeptInv, LastInv, WholeInv, AssignedAsDefined

\* Before the placing, only roots are added.
LEMMA GroupQuiet ==
    ASSUME GroupInv, UNCHANGED <<input, groupOf>>,
           DOMAIN root = Fresh => DOMAIN root' = Fresh
    PROVE  GroupInv'
<1>1. Fresh' = Fresh /\ kept' = kept
    BY SameInput
<1>2. KeptInv' /\ LastInv'
    BY <1>1 DEF GroupInv, KeptInv, LastInv
<1>3. WholeInv'
    BY <1>1, SameGraph DEF GroupInv, WholeInv
<1>4. NumbersInv'
    BY DEF GroupInv, NumbersInv, Numbers, NextNumber
<1>5. AssignedAsDefined'
    BY <1>1, SameHomes DEF GroupInv, AssignedAsDefined
<1> QED BY <1>2, <1>3, <1>4, <1>5 DEF GroupInv

\* A component is placed: with the first of its homes, or under the next
\* number if it has none.
LEMMA GroupPlace ==
    ASSUME TypeInv, GroupInv, ClustersAreComponents, DOMAIN root = Fresh,
           UNCHANGED <<input, root>>,
           NEW p \in Fresh, groupOf[p] = 0, NEW C, C = Component(p), NEW g,
           \/ g \in Homes(C) /\ \A h \in Homes(C) : g <= h
           \/ Homes(C) = {} /\ g = NextNumber,
           groupOf' = [q \in PRs |-> IF q \in C THEN g ELSE groupOf[q]]
    PROVE  GroupInv'
<1>1. /\ p \in C /\ C \subseteq Fresh /\ Fresh \subseteq PRs
      /\ \A q \in C : groupOf[q] = 0
    BY ClusterIsComponent, FreshFinite DEF GroupInv
<1>2. /\ Fresh' = Fresh /\ kept' = kept
      /\ \A q \in PRs : groupOf'[q] = IF q \in C THEN g ELSE groupOf[q]
      /\ \A q \in PRs : groupOf[q] \in Nat
    BY SameInput DEF TypeInv
<1>3. /\ NextNumber \in Nat /\ NextNumber > Issued /\ Issued \in Nat
      /\ \A q \in PRs : groupOf[q] < NextNumber
    BY NextIsFree, ThresholdAssumption DEF GroupInv
<1>4. g \in Nat /\ g # 0 /\ (Homes(C) # {} => g <= Issued)
  <2>1. Homes(C) \subseteq 1..Issued
      BY DEF Homes
  <2> QED BY <1>3, <2>1
<1>5. \A q \in Fresh : q \notin C => Component(q) \cap C = {}
  <2> SUFFICES ASSUME NEW q \in Fresh, NEW r \in Component(q), r \in C
               PROVE  q \in C
      OBVIOUS
  <2>1. Component(r) = Component(q) /\ Component(r) = C
      BY ComponentsAgree DEF TypeInv
  <2>2. Connected(q, q)
      BY DEF Connected
  <2> QED BY <2>1, <2>2 DEF Component
<1>6. KeptInv' /\ LastInv'
    BY <1>1, <1>2 DEF GroupInv, KeptInv, LastInv
<1>7. WholeInv'
  <2>1. ASSUME NEW q \in Fresh, NEW r \in Fresh, groupOf'[q] # 0, Connected(q, r)
        PROVE  groupOf'[r] = groupOf'[q]
    <3>1. CASE q \in C
      <4>1. r \in C
          BY <2>1, <3>1, ConnectedTransitive DEF Component
      <4> QED BY <1>1, <1>2, <3>1, <4>1
    <3>2. CASE q \notin C
      <4>1. r \notin C
          BY <1>5, <2>1, <3>2 DEF Component
      <4> QED BY <1>1, <1>2, <2>1, <3>2, <4>1 DEF GroupInv, WholeInv
    <3> QED BY <3>1, <3>2
  <2> QED BY <1>2, <2>1, SameGraph DEF WholeInv
<1>8. NumbersInv'
  <2>1. CASE g <= Issued
    <3>1. Numbers' = Numbers
      <4>1. ASSUME NEW n \in Numbers PROVE n \in Numbers'
        <5>1. PICK q \in PRs : groupOf[q] = n /\ n \notin 0..Issued
            BY DEF Numbers
        <5>2. q \notin C
            BY <1>1, <1>3, <5>1
        <5> QED BY <1>2, <5>1, <5>2 DEF Numbers
      <4>2. ASSUME NEW n \in Numbers' PROVE n \in Numbers
        <5>1. PICK q \in PRs : groupOf'[q] = n /\ n \notin 0..Issued
            BY DEF Numbers
        <5>2. q \notin C
            BY <1>2, <1>4, <2>1, <1>3, <5>1
        <5> QED BY <1>2, <5>1, <5>2 DEF Numbers
      <4> QED BY <4>1, <4>2
    <3>2. NextNumber' = NextNumber
        BY <3>1 DEF NextNumber, Numbers
    <3> QED BY <3>1, <3>2 DEF GroupInv, NumbersInv
  <2>2. CASE g = NextNumber
    <3>1. Numbers' = Numbers \cup {g}
      <4>1. ASSUME NEW n \in Numbers PROVE n \in Numbers'
        <5>1. PICK q \in PRs : groupOf[q] = n /\ n \notin 0..Issued
            BY DEF Numbers
        <5>2. q \notin C
            BY <1>1, <1>3, <5>1
        <5> QED BY <1>2, <5>1, <5>2 DEF Numbers
      <4>2. ASSUME NEW n \in Numbers' PROVE n \in Numbers \cup {g}
        <5>1. PICK q \in PRs : groupOf'[q] = n /\ n \notin 0..Issued
            BY DEF Numbers
        <5> QED BY <1>2, <5>1 DEF Numbers
      <4>3. g \in Numbers'
        <5>1. groupOf'[p] = g /\ g \notin 0..Issued
            BY <1>1, <1>2, <1>3, <2>2
        <5> QED BY <1>1, <5>1 DEF Numbers
      <4> QED BY <4>1, <4>2, <4>3
    <3>2. g \notin Numbers /\ IsFiniteSet(Numbers)
          /\ Cardinality(Numbers) \in Nat
          /\ NextNumber = Issued + 1 + Cardinality(Numbers)
      <4>1. g \notin Numbers
          BY <1>3, <2>2 DEF Numbers
      <4>2. IsFiniteSet(Numbers)
          BY NumbersFinite DEF Numbers
      <4> QED BY <4>1, <4>2, FS_CardinalityType DEF Numbers, NextNumber
    <3>3. Cardinality(Numbers') = Cardinality(Numbers) + 1
        BY <3>1, <3>2, FS_AddElement
    <3>4. NextNumber' = Issued + 1 + Cardinality(Numbers')
        BY DEF NextNumber, Numbers
    <3>5. NextNumber' = g + 1
        BY <1>3, <2>2, <3>2, <3>3, <3>4
    <3>6. Numbers = (Issued + 1)..(g - 1)
        BY <2>2 DEF GroupInv, NumbersInv
    <3> QED BY <1>3, <1>4, <2>2, <3>1, <3>5, <3>6 DEF NumbersInv
  <2> QED BY <1>4, <2>1, <2>2
<1>9. AssignedAsDefined'
  <2>1. ASSUME NEW q \in Fresh, groupOf'[q] # 0
        PROVE  IF Homes(Component(q)) = {}
               THEN /\ groupOf'[q] > Issued
                    /\ {r \in PRs : groupOf'[r] = groupOf'[q]} = Component(q)
               ELSE /\ groupOf'[q] \in Homes(Component(q))
                    /\ \A h \in Homes(Component(q)) : groupOf'[q] <= h
    <3>1. CASE q \in C
      <4>1. Component(q) = C
          BY <3>1, ComponentsAgree DEF TypeInv
      <4>2. groupOf'[q] = g
          BY <1>1, <1>2, <3>1
      <4>3. CASE Homes(C) # {}
          BY <4>1, <4>2, <4>3
      <4>4. CASE Homes(C) = {}
        <5>1. g = NextNumber
            BY <4>4
        <5>2. {r \in PRs : groupOf'[r] = g} = C
            BY <1>1, <1>2, <1>3, <5>1
        <5> QED BY <1>3, <4>1, <4>2, <4>4, <5>1, <5>2
      <4> QED BY <4>3, <4>4
    <3>2. CASE q \notin C
      <4>1. groupOf'[q] = groupOf[q] /\ q \in PRs
          BY <1>1, <1>2, <3>2
      <4>2. IF Homes(Component(q)) = {}
            THEN /\ groupOf[q] > Issued
                 /\ {r \in PRs : groupOf[r] = groupOf[q]} = Component(q)
            ELSE /\ groupOf[q] \in Homes(Component(q))
                 /\ \A h \in Homes(Component(q)) : groupOf[q] <= h
          BY <2>1, <4>1 DEF GroupInv, AssignedAsDefined
      <4>3. CASE Homes(Component(q)) # {}
          BY <4>1, <4>2, <4>3
      <4>4. CASE Homes(Component(q)) = {}
        <5>1. g # groupOf[q]
            BY <1>2, <1>3, <1>4, <4>1, <4>2, <4>4
        <5>2. \A r \in PRs : groupOf'[r] = groupOf[q] <=> groupOf[r] = groupOf[q]
            BY <1>1, <1>2, <1>3, <2>1, <4>1, <5>1
        <5> QED BY <4>1, <4>2, <4>4, <5>2
      <4> QED BY <4>3, <4>4
    <3> QED BY <3>1, <3>2
  <2> QED BY <1>2, <2>1, SameHomes DEF AssignedAsDefined
<1> QED BY <1>6, <1>7, <1>8, <1>9 DEF GroupInv

LEMMA GroupAttach ==
    ASSUME TypeInv, GroupInv, ClustersAreComponents, NEW p \in PRs,
           NEW g \in 1..Issued, Attach(p, g)
    PROVE  GroupInv'
<1>1. /\ UNCHANGED <<input, root>> /\ DOMAIN root = Fresh
      /\ p \in Fresh /\ groupOf[p] = 0
    BY Placed
<1>2. PICK C : C = Component(p)
    OBVIOUS
<1>3. Cluster(p) = C
    BY <1>1, <1>2, ClusterIsComponent DEF GroupInv
<1>4. Closest(C) = Homes(C)
    BY <1>1, <1>2, ClosestAreHomes
<1>5. /\ g \in Homes(C) /\ \A h \in Homes(C) : g <= h
      /\ groupOf' = [q \in PRs |-> IF q \in C THEN g ELSE groupOf[q]]
    BY <1>3, <1>4 DEF Attach, Place
<1> QED BY <1>1, <1>2, <1>5, GroupPlace

LEMMA GroupOpen ==
    ASSUME TypeInv, GroupInv, ClustersAreComponents, NEW p \in PRs,
           OpenGroup(p)
    PROVE  GroupInv'
<1>1. /\ UNCHANGED <<input, root>> /\ DOMAIN root = Fresh
      /\ p \in Fresh /\ groupOf[p] = 0
    BY Placed
<1>2. PICK C, g : C = Component(p) /\ g = NextNumber
    OBVIOUS
<1>3. Cluster(p) = C
    BY <1>1, <1>2, ClusterIsComponent DEF GroupInv
<1>4. Closest(C) = Homes(C)
    BY <1>1, <1>2, ClosestAreHomes
<1>5. /\ Homes(C) = {}
      /\ groupOf' = [q \in PRs |-> IF q \in C THEN g ELSE groupOf[q]]
    BY <1>2, <1>3, <1>4 DEF OpenGroup, Place
<1> QED BY <1>1, <1>2, <1>5, GroupPlace

LEMMA GroupAlone ==
    ASSUME TypeInv, GroupInv, ClustersAreComponents, NEW p \in PRs,
           LeaveAlone(p)
    PROVE  GroupInv'
<1>1. /\ UNCHANGED <<input, root>> /\ DOMAIN root = Fresh
      /\ p \in Fresh /\ groupOf[p] = 0
    BY Placed
<1>2. PICK C, g : C = Component(p) /\ g = NextNumber
    OBVIOUS
<1>3. Cluster(p) = C
    BY <1>1, <1>2, ClusterIsComponent DEF GroupInv
<1>4. C = {p} /\ Homes(C) = {}
  <2>1. Cluster(p) = Component(p)
      BY <1>2, <1>3
  <2>2. Unknown(Component(p))
      BY <2>1 DEF LeaveAlone, Unknown
  <2>3. Component(p) = {p} /\ Homes({p}) = {}
      BY <1>1, <2>2, UnknownAlone DEF TypeInv
  <2>4. C = {p}
      BY <1>2, <2>3
  <2> QED BY <2>3, <2>4
<1>5. groupOf' = [q \in PRs |-> IF q \in C THEN g ELSE groupOf[q]]
    BY <1>2, <1>4 DEF LeaveAlone, Place
<1> QED BY <1>1, <1>2, <1>4, <1>5, GroupPlace

LEMMA GroupNext ==
    ASSUME TypeInv, PhaseInv, GroupInv, ClustersAreComponents,
           [Next]_vars
    PROVE  GroupInv'
<1>1. CASE UNCHANGED <<input, root, groupOf>>
    BY <1>1, GroupQuiet
<1>2. CASE Found
  <2>1. DOMAIN root' \subseteq Fresh' /\ UNCHANGED <<input, groupOf>>
      BY <1>2, TypeFound DEF TypeInv, Found
  <2>2. DOMAIN root \subseteq DOMAIN root'
      BY <1>2 DEF Found
  <2> QED BY <2>1, <2>2, SameInput, GroupQuiet
<1>3. CASE \E p \in PRs : \/ \E g \in 1..Issued : Attach(p, g)
                          \/ OpenGroup(p) \/ LeaveAlone(p)
    BY <1>3, GroupAttach, GroupOpen, GroupAlone
<1> QED BY <1>1, <1>2, <1>3 DEF Next, Finished, vars, Climb, Link,
           JoinEqual, Probe, PassOver, JoinAlike, Probing, Index, Find

\* Where a PR is placed is determined by the files and by the kept groups
\* alone (assign_incremental): not by the order of the list, nor by what was
\* placed before.
THEOREM PlacedByFiles == Spec => []AssignedAsDefined
<1> DEFINE Inv == TypeInv /\ PhaseInv /\ ForestInv /\ GroupInv
<1>1. Init => Inv
    BY TypeInit, ForestInit, GroupInit
<1>2. Inv /\ [Next]_vars => Inv'
    BY TypeNext, ForestNext, ComponentsFound, GroupNext
<1>3. Inv => AssignedAsDefined
    BY DEF GroupInv
<1> QED BY <1>1, <1>2, <1>3, PTL DEF Spec

LEMMA OutcomeAllowed ==
    ASSUME TypeInv, GroupInv PROVE PlacedAsAllowed
<1> SUFFICES ASSUME Done
             PROVE  /\ \A p \in PRs \ Fresh : groupOf[p] = kept[p]
                    /\ Rules!PlacedAround(groupOf, PRs, PRs \ Fresh, Issued)
    BY DEF PlacedAsAllowed
<1>1. \A p \in PRs \ Fresh : groupOf[p] = kept[p]
    BY DEF GroupInv, KeptInv
<1>2. SUFFICES ASSUME NEW p \in PRs
               PROVE  \/ \E q \in PRs \ Fresh : groupOf[p] = groupOf[q]
                      \/ /\ groupOf[p] > Issued
                         /\ \/ groupOf[p] = Issued + 1
                            \/ \E q \in PRs : groupOf[q] = groupOf[p] - 1
    BY <1>1 DEF Rules!PlacedAround
<1>3. CASE p \notin Fresh
    BY <1>3
<1>4. CASE p \in Fresh /\ groupOf[p] <= Issued
  <2>1. groupOf[p] # 0 /\ groupOf[p] \in Nat
      BY DEF Done, TypeInv
  <2>2. groupOf[p] \in Homes(Component(p))
      BY <1>4, <2>1, ThresholdAssumption DEF GroupInv, AssignedAsDefined
  <2>3. PICK q \in PRs : kept[q] = groupOf[p]
      BY <2>2 DEF Homes
  <2>4. q \notin Fresh
      BY <2>1, <2>3 DEF Fresh
  <2> QED BY <1>1, <2>3, <2>4
<1>5. CASE groupOf[p] > Issued
  <2>1. groupOf[p] \in Nat /\ NextNumber \in Nat /\ Issued \in Nat
      BY NextIsFree, ThresholdAssumption DEF TypeInv, GroupInv
  <2>2. groupOf[p] \in Numbers
      BY <1>5, <2>1 DEF Numbers
  <2>3. Numbers = (Issued + 1)..(NextNumber - 1)
      BY DEF GroupInv, NumbersInv
  <2>4. CASE groupOf[p] # Issued + 1
    <3>1. groupOf[p] - 1 \in Numbers
        BY <1>5, <2>1, <2>2, <2>3, <2>4
    <3>2. \E q \in PRs : groupOf[q] = groupOf[p] - 1
        BY <3>1 DEF Numbers
    <3> QED BY <1>5, <3>2
  <2> QED BY <1>5, <2>4
<1> QED BY <1>3, <1>4, <1>5, ThresholdAssumption DEF TypeInv

\* What is placed is within what TriageStore lets a run plan: kept PRs stay,
\* the others go to kept groups or to the numbers after the reserved ones.
THEOREM OutcomeIsAllowed == Spec => []PlacedAsAllowed
<1> DEFINE Inv == TypeInv /\ PhaseInv /\ ForestInv /\ GroupInv
<1>1. Init => Inv
    BY TypeInit, ForestInit, GroupInit
<1>2. Inv /\ [Next]_vars => Inv'
    BY TypeNext, ForestNext, ComponentsFound, GroupNext
<1>3. Inv => PlacedAsAllowed
    BY OutcomeAllowed
<1> QED BY <1>1, <1>2, <1>3, PTL DEF Spec

==============================================================================
