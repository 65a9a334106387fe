-------------------------- MODULE SnapshotSyncProofs --------------------------
(***************************************************************************)
(* Theorems about SnapshotSync, for every number of pull requests, pushes, *)
(* processes, rounds and snapshots, and every page size and limit.         *)
(***************************************************************************)
EXTENDS SnapshotSync, FiniteSetTheorems, TLAPS

------------------------------------------------------------------------------
(* Functions on some of a set *)

LEMMA OnSomeFunctions ==
    ASSUME NEW S, NEW V, NEW f
    PROVE  f \in OnSome(S, V)
           <=> /\ DOMAIN f \subseteq S
               /\ f = [x \in DOMAIN f |-> f[x]]
               /\ \A x \in DOMAIN f : f[x] \in V
  <1>1. ASSUME f \in OnSome(S, V)
        PROVE  /\ DOMAIN f \subseteq S
               /\ f = [x \in DOMAIN f |-> f[x]]
               /\ \A x \in DOMAIN f : f[x] \in V
    <2>1. PICK D \in SUBSET S : f \in [D -> V]
      BY <1>1 DEF OnSome
    <2> QED
      BY <2>1
  <1>2. ASSUME /\ DOMAIN f \subseteq S
               /\ f = [x \in DOMAIN f |-> f[x]]
               /\ \A x \in DOMAIN f : f[x] \in V
        PROVE  f \in OnSome(S, V)
    <2>1. f \in [DOMAIN f -> V]
      BY <1>2
    <2> QED
      BY <1>2, <2>1 DEF OnSome
  <1> QED
    BY <1>1, <1>2

LEMMA PutOnSome ==
    ASSUME NEW S, NEW V, NEW f \in OnSome(S, V), NEW n \in S, NEW v \in V
    PROVE  Put(f, n, v) \in OnSome(S, V)
  <1>1. /\ DOMAIN f \subseteq S
        /\ \A x \in DOMAIN f : f[x] \in V
    BY OnSomeFunctions
  <1>2. /\ DOMAIN Put(f, n, v) = DOMAIN f \cup {n}
        /\ \A m \in DOMAIN f \cup {n} : Put(f, n, v)[m] \in V
    BY <1>1 DEF Put
  <1>3. PICK g : g = Put(f, n, v)
    OBVIOUS
  <1>4. g = [m \in DOMAIN g |-> g[m]]
    BY <1>3 DEF Put
  <1> QED
    BY <1>1, <1>2, <1>3, <1>4, OnSomeFunctions

LEMMA DropOnSome ==
    ASSUME NEW S, NEW V, NEW f \in OnSome(S, V), NEW n
    PROVE  Drop(f, n) \in OnSome(S, V)
  <1>1. /\ DOMAIN f \subseteq S
        /\ \A x \in DOMAIN f : f[x] \in V
    BY OnSomeFunctions
  <1>2. /\ DOMAIN Drop(f, n) = DOMAIN f \ {n}
        /\ \A m \in DOMAIN f \ {n} : Drop(f, n)[m] = f[m]
    BY DEF Drop
  <1>3. PICK g : g = Drop(f, n)
    OBVIOUS
  <1>4. g = [m \in DOMAIN g |-> g[m]]
    BY <1>3 DEF Drop
  <1> QED
    BY <1>1, <1>2, <1>3, <1>4, OnSomeFunctions

\* A function given by its values.
LEMMA SomeFunction ==
    ASSUME NEW S, NEW V, NEW D, NEW f, f = [x \in D |-> f[x]], D \subseteq S,
           \A x \in D : f[x] \in V
    PROVE  f \in OnSome(S, V) /\ DOMAIN f = D
  <1>1. DOMAIN f = D
    OBVIOUS
  <1> QED
    BY <1>1, OnSomeFunctions

LEMMA EmptyFunction ==
    ASSUME NEW S, NEW V
    PROVE  << >> \in OnSome(S, V) /\ DOMAIN << >> = {}
  <1>1. PICK f : f = << >>
    OBVIOUS
  <1>2. f = [x \in {} |-> f[x]]
    BY <1>1
  <1>3. f \in OnSome(S, V) /\ DOMAIN f = {}
    BY <1>2, SomeFunction
  <1> QED
    BY <1>1, <1>3

------------------------------------------------------------------------------
(* The invariant *)

\* The bytes of e are of its revision or of later ones, up to h.
Between(e, h) ==
    e.bytes # {} /\ \A b \in e.bytes : e.rev <= b /\ b <= h

\* What a listing says was true, if it is no longer.
NotAhead(listing) ==
    \A n \in DOMAIN listing : listing[n] # None => listing[n] <= head[n]

ReadingOK(s) ==
    /\ s.todo \subseteq DOMAIN s.listing
    /\ s.phase # "files" => s.todo = {}
    /\ s.phase = "files" => DOMAIN s.part = {}
    /\ DOMAIN s.reading \subseteq s.todo
    /\ \A n \in DOMAIN s.reading :
          /\ s.listing[n] # None
          /\ s.reading[n] # {}
          /\ \A b \in s.reading[n] : s.listing[n] <= b /\ b <= head[n]

\* What was staged may have moved while it was read, but not since a
\* confirming listing named it.
StagedOK(s) ==
    /\ s.phase # "writing" =>
          \A n \in DOMAIN s.staged : Between(s.staged[n], head[n])
    /\ s.phase = "confirming" =>
          \A n \in DOMAIN s.staged \cap DOMAIN s.part :
             s.part[n] # None => Between(s.staged[n], s.part[n])

\* What needs no more staging has its files.
CompleteOK(s) ==
    s.phase \in {"files", "confirming"} =>
        \A n \in (DOMAIN s.listing \cap s.scope) \ s.todo :
            s.listing[n] # None => Has(s.staged, n, s.listing[n])

WholeFor(evidence, listing) ==
    \A n \in DOMAIN evidence :
        /\ n \in DOMAIN listing
        /\ evidence[n].rev = listing[n]
        /\ evidence[n].bytes = {evidence[n].rev}

WritingOK(s) ==
    s.phase = "writing" =>
        /\ s.generation = Len(published) + 1
        /\ WholeFor(s.staged, s.listing)
        /\ s.round < MAX_RECONCILIATION_ROUNDS =>
              \A n \in DOMAIN s.listing \cap s.scope :
                 s.listing[n] # None => n \in DOMAIN s.staged

SyncOK(s) ==
    /\ s.base \in 0..Len(published)
    /\ NotAhead(s.part) /\ NotAhead(s.listing)
    /\ ReadingOK(s)
    /\ StagedOK(s)
    /\ CompleteOK(s)
    /\ WritingOK(s)

SnapshotOK(i) ==
    /\ published[i].generation = i
    /\ NotAhead(published[i].listing)
    /\ WholeFor(published[i].evidence, published[i].listing)

SyncInv ==
    /\ TypeOK
    /\ \A p \in Procs : sync[p].phase # "idle" => lock = p
    /\ \A p \in Procs : SyncOK(sync[p])
    /\ \A i \in DOMAIN published : SnapshotOK(i)

------------------------------------------------------------------------------
(* Types *)

LEMMA HeadsAreNat ==
    /\ Heads \subseteq Nat
    /\ \A n \in PRs : 1..MaxHead[n] \subseteq Heads
  BY BoundsAssumption DEF Heads

LEMMA NoneIsNoHead == None \notin Heads
  BY HeadsAreNat, NobodyAssumption

LEMMA TypedSync ==
    ASSUME TypeOK, NEW p \in Procs
    PROVE  /\ sync \in [Procs -> Sync]
           /\ sync[p] \in Sync
           /\ sync[p].listing \in Listing /\ sync[p].part \in Listing
           /\ DOMAIN sync[p].listing \subseteq PRs
           /\ DOMAIN sync[p].part \subseteq PRs
           /\ sync[p].staged \in OnSome(PRs, Evidence)
           /\ sync[p].reading \in OnSome(PRs, SUBSET Heads)
           /\ sync[p].scope \subseteq PRs /\ sync[p].todo \subseteq PRs
           /\ sync[p].round \in 0..MAX_RECONCILIATION_ROUNDS
           /\ sync[p].base \in Nat /\ sync[p].page \in Nat
           /\ sync[p].generation \in Nat
           /\ sync[p].steady \subseteq PRs
           /\ sync[p].shifted \in BOOLEAN
  <1>1. sync \in [Procs -> Sync] /\ sync[p] \in Sync
    BY DEF TypeOK
  <1>2. sync[p].listing \in Listing /\ sync[p].part \in Listing
    BY <1>1 DEF Sync
  <1>3. /\ DOMAIN sync[p].listing \subseteq PRs
        /\ DOMAIN sync[p].part \subseteq PRs
    BY <1>2, OnSomeFunctions DEF Listing
  <1> QED
    BY <1>1, <1>2, <1>3 DEF Sync

LEMMA IdleIsTyped == Idle \in Sync /\ Idle.phase = "idle"
  <1>1. << >> \in Listing /\ << >> \in OnSome(PRs, SUBSET Heads)
        /\ << >> \in OnSome(PRs, Evidence)
    BY EmptyFunction DEF Listing
  <1>2. 0 \in 0..MAX_RECONCILIATION_ROUNDS
    BY BoundsAssumption
  <1> QED
    BY <1>1, <1>2 DEF Idle, Sync

LEMMA ListedHead ==
    ASSUME TypeOK, NEW n \in PRs
    PROVE  /\ head[n] \in Heads /\ head[n] \in Nat
           /\ Listed(n) \in Revision
           /\ Listed(n) # None => Listed(n) = head[n]
  <1>1. head[n] \in Heads
    BY DEF TypeOK
  <1> QED
    BY <1>1, HeadsAreNat DEF Listed, Revision

------------------------------------------------------------------------------
(* What disturbs nothing *)

\* Heads only grow, snapshots are only added.
GitHubGrows ==
    /\ head' \in [PRs -> Heads]
    /\ \A n \in PRs : head[n] <= head'[n]

LEMMA StaysNotAhead ==
    ASSUME TypeOK, GitHubGrows, NEW listing \in Listing, NotAhead(listing)
    PROVE  NotAhead(listing)'
  <1>1. /\ DOMAIN listing \subseteq PRs
        /\ \A n \in DOMAIN listing : listing[n] \in Revision
    BY OnSomeFunctions DEF Listing
  <1>2. ASSUME NEW n \in DOMAIN listing, listing[n] # None
        PROVE  listing[n] <= head'[n]
    <2>1. listing[n] \in Nat /\ head[n] \in Nat /\ head'[n] \in Nat
      BY <1>1, <1>2, HeadsAreNat DEF Revision, TypeOK, GitHubGrows
    <2>2. listing[n] <= head[n] /\ head[n] <= head'[n]
      BY <1>1, <1>2 DEF NotAhead, GitHubGrows
    <2> QED
      BY <2>1, <2>2
  <1> QED
    BY <1>2 DEF NotAhead

LEMMA StaysBetween ==
    ASSUME NEW e \in Evidence, NEW h \in Nat, NEW k \in Nat, h <= k,
           Between(e, h)
    PROVE  Between(e, k)
  <1>1. e.bytes \subseteq Nat
    BY HeadsAreNat DEF Evidence
  <1> QED
    BY <1>1 DEF Between

\* A refresh is not disturbed by a push, nor by a snapshot that is published
\* when it is not writing one.
LEMMA SyncStays ==
    ASSUME TypeOK, GitHubGrows, NEW s \in Sync, SyncOK(s),
           Len(published) \in Nat, Len(published') \in Nat,
           Len(published) <= Len(published'),
           s.phase = "writing" => Len(published') = Len(published)
    PROVE  SyncOK(s)'
  <1>1. /\ s.listing \in Listing /\ s.part \in Listing
        /\ s.staged \in OnSome(PRs, Evidence)
        /\ s.reading \in OnSome(PRs, SUBSET Heads)
        /\ s.base \in Nat
    BY DEF Sync
  <1>2. \A n \in PRs :
           head[n] \in Nat /\ head'[n] \in Nat /\ head[n] <= head'[n]
    BY HeadsAreNat DEF TypeOK, GitHubGrows
  <1>3. NotAhead(s.part)' /\ NotAhead(s.listing)'
    BY <1>1, StaysNotAhead DEF SyncOK
  <1>4. ReadingOK(s)'
    <2>1. ASSUME NEW n \in DOMAIN s.reading, NEW b \in s.reading[n]
          PROVE  b <= head'[n]
      <3>1. n \in PRs /\ b \in Nat
        BY <1>1, OnSomeFunctions, HeadsAreNat
      <3>2. b <= head[n]
        BY DEF SyncOK, ReadingOK
      <3> QED
        BY <1>2, <3>1, <3>2
    <2> QED
      BY <2>1 DEF SyncOK, ReadingOK
  <1>5. StagedOK(s)'
    <2>1. ASSUME NEW n \in DOMAIN s.staged, Between(s.staged[n], head[n])
          PROVE  Between(s.staged[n], head'[n])
      <3>1. n \in PRs /\ s.staged[n] \in Evidence
        BY <1>1, OnSomeFunctions
      <3> QED
        BY <1>2, <2>1, <3>1, StaysBetween
    <2> QED
      BY <2>1 DEF SyncOK, StagedOK
  <1>6. CompleteOK(s)' /\ WritingOK(s)'
    BY DEF SyncOK, CompleteOK, WritingOK
  <1>7. s.base \in 0..Len(published')
    BY DEF SyncOK
  <1> QED
    BY <1>3, <1>4, <1>5, <1>6, <1>7 DEF SyncOK

LEMMA SnapshotStays ==
    ASSUME TypeOK, GitHubGrows, NEW i \in DOMAIN published, SnapshotOK(i),
           published'[i] = published[i]
    PROVE  SnapshotOK(i)'
  <1>1. published[i].listing \in Listing
    <2>1. published[i] \in Snapshot
      BY DEF TypeOK
    <2> QED
      BY <2>1 DEF Snapshot
  <1>2. PICK l \in Listing : l = published[i].listing
    BY <1>1
  <1>3. NotAhead(l)'
    BY <1>2, StaysNotAhead DEF SnapshotOK
  <1> QED
    BY <1>2, <1>3 DEF SnapshotOK, NotAhead

------------------------------------------------------------------------------
(* One process at a time *)

\* A step of process p.
OnlySync(p) ==
    /\ sync' = [q \in Procs |-> sync'[q]]
    /\ \A q \in Procs \ {p} : sync'[q] = sync[q]

\* Process p goes on with its refresh, and publishes nothing.
LEMMA OneSync ==
    ASSUME SyncInv, NEW p \in Procs, OnlySync(p),
           sync[p].phase # "idle", sync'[p] \in Sync, SyncOK(sync[p])',
           UNCHANGED <<github, published, lock>>
    PROVE  SyncInv'
  <1>1. TypeOK'
    <2>1. \A q \in Procs : sync'[q] \in Sync
      BY DEF OnlySync, SyncInv, TypeOK
    <2>2. sync' \in [Procs -> Sync]
      BY <2>1 DEF OnlySync
    <2> QED
      BY <2>2 DEF SyncInv, TypeOK, github
  <1>2. ASSUME NEW q \in Procs, q # p
        PROVE  SyncOK(sync[q])'
    <2>1. sync'[q] = sync[q] /\ SyncOK(sync[q])
      BY <1>2 DEF OnlySync, SyncInv
    <2> QED
      BY <2>1 DEF SyncOK, NotAhead, ReadingOK, StagedOK, CompleteOK, WritingOK,
                  github
  <1>3. \A q \in Procs : sync'[q].phase # "idle" => lock' = q
    BY DEF OnlySync, SyncInv
  <1>4. \A i \in DOMAIN published' : SnapshotOK(i)'
    BY DEF SyncInv, SnapshotOK, NotAhead, github
  <1> QED
    BY <1>1, <1>2, <1>3, <1>4 DEF SyncInv

LEMMA IdleIsOK ==
    ASSUME TypeOK
    PROVE  SyncOK(Idle)
  <1>1. Len(published) \in Nat
    BY DEF TypeOK
  <1> QED
    BY <1>1 DEF SyncOK, Idle, NotAhead, ReadingOK, StagedOK, CompleteOK,
                WritingOK

\* It ends, published or not.
LEMMA ReleaseKeepsInv ==
    ASSUME SyncInv, NEW p \in Procs, sync[p].phase # "idle", Release(p),
           UNCHANGED <<github, published>>
    PROVE  SyncInv'
  <1>1. sync \in [Procs -> Sync] /\ TypeOK
    BY DEF SyncInv, TypeOK
  <1>2. sync' = [sync EXCEPT ![p] = Idle] /\ lock' = None
    BY DEF Release
  <1>3. TypeOK'
    BY <1>1, <1>2, IdleIsTyped DEF TypeOK, github
  <1>4. ASSUME NEW q \in Procs
        PROVE  /\ sync'[q].phase = "idle"
               /\ SyncOK(sync[q])'
    <2>1. CASE q = p
      <3>1. sync'[q] = Idle
        BY <1>1, <1>2, <2>1
      <3>2. SyncOK(Idle)'
        BY <1>3, IdleIsOK, PTL
      <3>3. SyncOK(sync[q])'
        BY <3>1, <3>2 DEF SyncOK, NotAhead, ReadingOK, StagedOK, CompleteOK,
                          WritingOK
      <3> QED
        BY <3>1, <3>3, IdleIsTyped
    <2>2. CASE q # p
      <3>1. sync'[q] = sync[q] /\ SyncOK(sync[q])
        BY <1>1, <1>2, <2>2 DEF SyncInv
      <3>2. sync[q].phase = "idle"
        BY <2>2 DEF SyncInv
      <3> QED
        BY <3>1, <3>2 DEF SyncOK, NotAhead, ReadingOK, StagedOK, CompleteOK,
                          WritingOK, github
    <2> QED
      BY <2>1, <2>2
  <1>5. \A i \in DOMAIN published' : SnapshotOK(i)'
    BY DEF SyncInv, SnapshotOK, NotAhead, github
  <1> QED
    BY <1>3, <1>4, <1>5 DEF SyncInv

LEMMA PushKeepsInv ==
    ASSUME SyncInv, NEW n \in PRs, Push(n) \/ Open(n) \/ Close(n)
    PROVE  SyncInv'
  <1>1. TypeOK /\ head \in [PRs -> Heads] /\ sync \in [Procs -> Sync]
    BY DEF SyncInv, TypeOK
  <1> DEFINE closed(q) == [sync[q] EXCEPT !.steady = sync[q].steady \ {n},
                                          !.shifted = sync[q].shifted
                                                      \/ Confirming(q)]
  <1>2. Close(n) => /\ sync' = [q \in Procs |-> closed(q)]
                    /\ open' = open \ {n}
                    /\ UNCHANGED <<head, published, lock>>
    BY Zenon DEF Close
  <1> HIDE DEF closed
  <1>3. UNCHANGED <<published, lock>>
    BY <1>2 DEF Push, Open
  <1>4. GitHubGrows
    <2>1. CASE Push(n)
      <3>1. head[n] \in Nat /\ MaxHead[n] \in Nat
        BY <1>1, HeadsAreNat, BoundsAssumption
      <3>2. head[n] + 1 \in Heads
        <4>1. head[n] + 1 \in 1..MaxHead[n]
          BY <2>1, <3>1 DEF Push
        <4> QED
          BY <4>1, HeadsAreNat
      <3>3. \A m \in PRs : head[m] \in Nat
        BY <1>1, HeadsAreNat
      <3> QED
        BY <1>1, <2>1, <3>2, <3>3 DEF Push, GitHubGrows
    <2>2. CASE UNCHANGED head
      <3>1. \A m \in PRs : head[m] \in Nat
        BY <1>1, HeadsAreNat
      <3> QED
        BY <1>1, <2>2, <3>1 DEF GitHubGrows
    <2> QED
      BY <1>2, <2>1, <2>2 DEF Open
  <1>5. Len(published) \in Nat
    BY <1>1 DEF TypeOK
  <1>6. ASSUME NEW q \in Procs
        PROVE  /\ sync'[q] \in Sync
               /\ sync'[q].phase = sync[q].phase
               /\ SyncOK(sync[q])'
    <2>1. sync[q] \in Sync /\ SyncOK(sync[q])
      BY <1>1 DEF SyncInv
    <2>2. PICK s \in Sync : s = sync[q]
      BY <2>1
    <2>3. SyncOK(s)'
      BY <1>1, <1>3, <1>4, <1>5, <2>1, <2>2, SyncStays
    <2>4. CASE UNCHANGED sync
      BY <2>1, <2>2, <2>3, <2>4 DEF SyncOK, NotAhead, ReadingOK, StagedOK,
                                    CompleteOK, WritingOK
    <2>5. CASE Close(n)
      <3>1. PICK x \in BOOLEAN :
               closed(q) = [s EXCEPT !.steady = s.steady \ {n}, !.shifted = x]
        BY Zenon, <2>2 DEF closed
      <3>2. /\ sync'[q] \in Sync
            /\ sync'[q].phase = s.phase
            /\ sync'[q].base = s.base /\ sync'[q].scope = s.scope
            /\ sync'[q].round = s.round /\ sync'[q].part = s.part
            /\ sync'[q].listing = s.listing /\ sync'[q].todo = s.todo
            /\ sync'[q].reading = s.reading /\ sync'[q].staged = s.staged
            /\ sync'[q].generation = s.generation
        <4>1. sync'[q] = closed(q)
          BY <1>2, <2>5
        <4>2. s.steady \ {n} \in SUBSET PRs
          BY DEF Sync
        <4>3. PICK r : /\ r = closed(q)
                       /\ r = [s EXCEPT !.steady = s.steady \ {n},
                                       !.shifted = x]
          BY <3>1
        <4>4. /\ r \in Sync
              /\ r.phase = s.phase
              /\ r.base = s.base /\ r.scope = s.scope
              /\ r.round = s.round /\ r.part = s.part
              /\ r.listing = s.listing /\ r.todo = s.todo
              /\ r.reading = s.reading /\ r.staged = s.staged
              /\ r.generation = s.generation
          BY <4>2, <4>3 DEF Sync
        <4> QED
          BY <4>1, <4>3, <4>4
      <3> QED
        BY <2>2, <2>3, <3>2 DEF SyncOK, NotAhead, ReadingOK, StagedOK,
                                CompleteOK, WritingOK
    <2> QED
      BY <2>4, <2>5, <2>1 DEF Push, Open
  <1>7. TypeOK'
    <2>1. sync' \in [Procs -> Sync]
      <3>1. sync' = [q \in Procs |-> sync'[q]]
        BY <1>1, <1>2 DEF Push, Open
      <3> QED
        BY <1>6, <3>1
    <2>2. open' \subseteq PRs
      BY <1>1, <1>2 DEF Push, Open, TypeOK
    <2> QED
      BY <1>1, <1>3, <1>4, <2>1, <2>2 DEF TypeOK, GitHubGrows
  <1>8. \A i \in DOMAIN published' : SnapshotOK(i)'
    BY <1>1, <1>3, <1>4, SnapshotStays DEF SyncInv
  <1> QED
    BY <1>3, <1>6, <1>7, <1>8 DEF SyncInv

------------------------------------------------------------------------------
(* Listing *)

LEMMA ReceivedIs ==
    ASSUME SyncInv, NEW p \in Procs
    PROVE  /\ Received(p) \in Listing
           /\ DOMAIN Received(p) = DOMAIN sync[p].part \cup NextPage(p)
           /\ NotAhead(Received(p))
           /\ sync[p].phase = "confirming" =>
                 \A n \in DOMAIN sync[p].staged \cap DOMAIN Received(p) :
                    Received(p)[n] # None
                    => Between(sync[p].staged[n], Received(p)[n])
  <1> DEFINE D == DOMAIN sync[p].part \cup NextPage(p)
  <1>1. /\ TypeOK
        /\ sync[p].part \in Listing
        /\ DOMAIN sync[p].part \subseteq PRs
        /\ SyncOK(sync[p])
    BY TypedSync DEF SyncInv
  <1>2. D \subseteq PRs
    BY <1>1 DEF NextPage, Page, TypeOK
  <1>3. PICK f : f = Received(p)
    OBVIOUS
  <1>4. f = [n \in D |-> f[n]] /\ DOMAIN f = D
    BY <1>3 DEF Received
  <1>5. ASSUME NEW n \in D
        PROVE  /\ f[n] \in Revision
               /\ f[n] # None => f[n] <= head[n]
               /\ f[n] # None =>
                     \/ f[n] = head[n]
                     \/ n \in DOMAIN sync[p].part /\ f[n] = sync[p].part[n]
    <2>1. CASE n \in NextPage(p)
      <3>1. f[n] = Listed(n)
        BY <1>3, <2>1 DEF Received
      <3> QED
        BY <1>1, <1>2, <3>1, ListedHead
    <2>2. CASE n \notin NextPage(p)
      <3>1. f[n] = sync[p].part[n] /\ n \in DOMAIN sync[p].part
        BY <1>3, <2>2 DEF Received
      <3>2. sync[p].part[n] \in Revision
        BY <1>1, <3>1, OnSomeFunctions DEF Listing
      <3> QED
        BY <1>1, <3>1, <3>2 DEF SyncOK, NotAhead
    <2> QED
      BY <2>1, <2>2
  <1>6. f \in Listing
    BY <1>2, <1>4, <1>5, OnSomeFunctions DEF Listing
  <1>7. NotAhead(f)
    BY <1>4, <1>5 DEF NotAhead
  <1>8. ASSUME sync[p].phase = "confirming",
               NEW n \in DOMAIN sync[p].staged \cap DOMAIN f, f[n] # None
        PROVE  Between(sync[p].staged[n], f[n])
    BY <1>1, <1>4, <1>5, <1>8 DEF SyncOK, StagedOK
  <1> QED
    BY <1>3, <1>4, <1>6, <1>7, <1>8

\* A step within a refresh: its new state is s.
LEMMA SyncIs ==
    ASSUME SyncInv, NEW p \in Procs, NEW s \in Sync,
           sync' = [sync EXCEPT ![p] = s],
           sync[p].phase # "idle", SyncOK(s),
           UNCHANGED <<github, published, lock>>
    PROVE  SyncInv'
  <1>1. sync \in [Procs -> Sync]
    BY DEF SyncInv, TypeOK
  <1>2. sync'[p] = s /\ OnlySync(p)
    BY <1>1 DEF OnlySync
  <1>3. SyncOK(sync[p])'
    BY <1>2 DEF SyncOK, NotAhead, ReadingOK, StagedOK, CompleteOK, WritingOK,
                github
  <1> QED
    BY <1>2, <1>3, OneSync

LEMMA BeginKeepsInv ==
    ASSUME SyncInv, NEW p \in Procs, Begin(p)
    PROVE  SyncInv'
  <1>1. TypeOK /\ sync \in [Procs -> Sync] /\ Len(published) \in Nat
    BY DEF SyncInv, TypeOK
  <1>2. PICK limit \in Limits :
           sync' = [sync EXCEPT ![p] = [Idle EXCEPT !.phase = "listing",
                                                   !.base = Len(published),
                                                   !.limit = limit]]
    BY Zenon DEF Begin
  <1>3. limit \in Nat
    BY BoundsAssumption
  <1>4. PICK s : s = [Idle EXCEPT !.phase = "listing", !.base = Len(published),
                                  !.limit = limit]
    OBVIOUS
  <1>5. s \in Sync
    BY <1>1, <1>3, <1>4, IdleIsTyped DEF Sync
  <1>6. SyncOK(s)
    BY <1>1, <1>4 DEF SyncOK, Idle, NotAhead, ReadingOK, StagedOK, CompleteOK,
                      WritingOK
  <1>7. sync'[p] = s /\ \A q \in Procs \ {p} : sync'[q] = sync[q]
    BY <1>1, <1>2, <1>4
  <1>8. lock = None /\ lock' = p /\ UNCHANGED <<github, published>>
    BY DEF Begin, Free
  <1>9. ASSUME NEW q \in Procs
        PROVE  SyncOK(sync[q])' /\ (sync'[q].phase # "idle" => q = p)
    <2>1. PICK r : r = sync'[q] /\ SyncOK(r)
      BY <1>6, <1>7 DEF SyncInv
    <2>2. sync'[q].phase # "idle" => q = p
      BY <1>7, <1>8, NobodyAssumption DEF SyncInv
    <2> QED
      BY <1>8, <2>1, <2>2 DEF SyncOK, NotAhead, ReadingOK, StagedOK, CompleteOK,
                              WritingOK, github
  <1>10. TypeOK'
    BY <1>1, <1>2, <1>4, <1>5, <1>8 DEF TypeOK, github
  <1>11. \A i \in DOMAIN published' : SnapshotOK(i)'
    BY <1>8 DEF SyncInv, SnapshotOK, NotAhead, github
  <1> QED
    BY <1>8, <1>9, <1>10, <1>11 DEF SyncInv

PageTurned(x, r, f) ==
    /\ x \in Sync
    /\ x.phase = r.phase /\ x.base = r.base /\ x.scope = r.scope
    /\ x.part = f /\ x.listing = r.listing /\ x.todo = r.todo
    /\ x.reading = r.reading /\ x.staged = r.staged

LEMMA TurnedPage ==
    ASSUME NEW r \in Sync, NEW f \in Listing, NEW page \in Nat,
           NEW steady \in SUBSET PRs, NEW x,
           x = [r EXCEPT !.part = f, !.page = page, !.steady = steady]
    PROVE  PageTurned(x, r, f)
  <1>1. x \in Sync
    BY DEF Sync
  <1>2. x.phase = r.phase /\ x.base = r.base /\ x.scope = r.scope
    BY DEF Sync
  <1>3. x.part = f /\ x.listing = r.listing /\ x.todo = r.todo
    BY DEF Sync
  <1>4. x.reading = r.reading /\ x.staged = r.staged
    BY DEF Sync
  <1> QED
    BY <1>1, <1>2, <1>3, <1>4 DEF PageTurned

LEMMA ReadPageKeepsInv ==
    ASSUME SyncInv, NEW p \in Procs, ReadPage(p)
    PROVE  SyncInv'
  <1>1. TypeOK /\ SyncOK(sync[p]) /\ sync[p] \in Sync
    BY TypedSync DEF SyncInv
  <1>2. PICK f : f = Received(p)
    OBVIOUS
  <1>3. /\ f \in Listing /\ NotAhead(f)
        /\ sync[p].phase = "confirming" =>
              \A n \in DOMAIN sync[p].staged \cap DOMAIN f :
                 f[n] # None => Between(sync[p].staged[n], f[n])
    BY <1>2, ReceivedIs
  <1>4. PICK steady \in SUBSET PRs :
           steady = IF sync[p].phase = "confirming" THEN Steady(p) ELSE {}
    BY <1>1, TypedSync DEF Steady, TypeOK
  <1>5. PICK r \in Sync, page \in Nat : r = sync[p] /\ page = sync[p].page + 1
    BY <1>1, TypedSync
  <1>6. PICK s : s = [r EXCEPT !.part = f, !.page = page, !.steady = steady]
    OBVIOUS
  <1>7. sync' = [sync EXCEPT ![p] = s]
    BY <1>1, <1>2, <1>4, <1>5, <1>6, TypedSync DEF ReadPage
  <1>8. /\ s \in Sync
        /\ s.phase = sync[p].phase
        /\ s.base = sync[p].base /\ s.scope = sync[p].scope
        /\ s.part = f
        /\ s.listing = sync[p].listing /\ s.todo = sync[p].todo
        /\ s.reading = sync[p].reading /\ s.staged = sync[p].staged
    <2>1. f \in Listing
      BY <1>3
    <2>2. PageTurned(s, r, f)
      BY Zenon, <1>4, <1>5, <1>6, <2>1, TurnedPage
    <2> QED
      BY <1>5, <2>2 DEF PageTurned
  <1>9. sync[p].phase \in {"listing", "confirming"}
    BY DEF ReadPage
  <1>10. SyncOK(s)
    BY <1>1, <1>3, <1>8, <1>9 DEF SyncOK, ReadingOK, StagedOK, CompleteOK,
                                  WritingOK
  <1> QED
    BY <1>7, <1>8, <1>9, <1>10, SyncIs DEF ReadPage

ListingStaged(x, r, f, scope, todo, e) ==
    /\ x \in Sync
    /\ x.phase = "files" /\ x.base = r.base /\ x.scope = scope
    /\ x.part = e /\ x.listing = f /\ x.todo = todo
    /\ x.reading = r.reading /\ x.staged = r.staged

LEMMA StagedListing ==
    ASSUME NEW r \in Sync, NEW f \in Listing, NEW scope \in SUBSET PRs,
           NEW todo \in SUBSET PRs, NEW e \in Listing, NEW z \in Nat,
           NEW st \in SUBSET PRs, NEW b \in BOOLEAN,
           NEW round \in 0..MAX_RECONCILIATION_ROUNDS, NEW x,
           x = [r EXCEPT !.phase = "files", !.listing = f, !.scope = scope,
                         !.round = round, !.todo = todo, !.part = e,
                         !.page = z, !.steady = st, !.shifted = b]
    PROVE  ListingStaged(x, r, f, scope, todo, e)
  <1>1. x \in Sync
    BY DEF Sync
  <1>2. x.phase = "files" /\ x.base = r.base /\ x.scope = scope
    BY DEF Sync
  <1>3. x.part = e /\ x.listing = f /\ x.todo = todo
    BY DEF Sync
  <1>4. x.reading = r.reading /\ x.staged = r.staged
    BY DEF Sync
  <1> QED
    BY <1>1, <1>2, <1>3, <1>4 DEF ListingStaged

\* A listing is staged, the first one or another.
LEMMA StagingIs ==
    ASSUME SyncInv, NEW p \in Procs, NEW f, f \in Listing, NotAhead(f),
           NEW scope \in SUBSET PRs, NEW round \in 0..MAX_RECONCILIATION_ROUNDS,
           sync[p].phase \in {"listing", "confirming"},
           sync' = [sync EXCEPT ![p] = Staging(sync[p], f, scope, round)],
           UNCHANGED <<github, published, lock>>
    PROVE  SyncInv'
  <1>1. TypeOK /\ SyncOK(sync[p]) /\ sync[p] \in Sync
    BY TypedSync DEF SyncInv
  <1>2. << >> \in Listing /\ DOMAIN << >> = {}
    BY EmptyFunction DEF Listing
  <1>3. PICK r \in Sync, todo \in SUBSET PRs, part \in Listing, page \in Nat,
             steady \in SUBSET PRs, shifted \in BOOLEAN :
           /\ r = sync[p] /\ todo = DOMAIN f \cap scope
           /\ part = << >> /\ page = 0 /\ steady = {} /\ shifted = FALSE
    BY <1>1, <1>2
  <1>4. PICK s : /\ s = Staging(sync[p], f, scope, round)
                 /\ s = [r EXCEPT !.phase = "files", !.listing = f,
                                  !.scope = scope, !.round = round,
                                  !.todo = todo, !.part = part, !.page = page,
                                  !.steady = steady, !.shifted = shifted]
    BY <1>3 DEF Staging
  <1>5. /\ s \in Sync
        /\ s.phase = "files"
        /\ s.base = sync[p].base /\ s.scope = scope
        /\ s.part = << >>
        /\ s.listing = f /\ s.todo = DOMAIN f \cap scope
        /\ s.reading = sync[p].reading /\ s.staged = sync[p].staged
    <2>1. s = [r EXCEPT !.phase = "files", !.listing = f, !.scope = scope,
                        !.round = round, !.todo = todo, !.part = part,
                        !.page = page, !.steady = steady, !.shifted = shifted]
      BY <1>4
    <2>2. ListingStaged(s, r, f, scope, todo, part)
      BY ZenonT(60), <2>1, StagedListing
    <2> QED
      BY <1>3, <2>2 DEF ListingStaged
  <1>6. DOMAIN sync[p].reading = {}
    BY <1>1 DEF SyncOK, ReadingOK
  <1>7. SyncOK(s)
    BY <1>1, <1>2, <1>5, <1>6 DEF SyncOK, NotAhead, ReadingOK, StagedOK,
                                  CompleteOK, WritingOK
  <1> QED
    BY <1>4, <1>5, <1>7, SyncIs

LEMMA ListingsKeepInv ==
    ASSUME SyncInv, NEW p \in Procs, EndListing(p) \/ Reconcile(p)
    PROVE  SyncInv'
  <1>1. Received(p) \in Listing /\ NotAhead(Received(p))
    BY ReceivedIs
  <1>2. PICK f : f = Received(p) /\ f \in Listing /\ NotAhead(f)
    BY <1>1
  <1>3. CASE EndListing(p)
    <2>1. PICK scope : scope = ScopeOf(Received(p), sync[p].limit)
      OBVIOUS
    <2>2. scope \subseteq PRs
      BY <1>2, <2>1, OnSomeFunctions DEF ScopeOf, Listing
    <2>3. 0 \in 0..MAX_RECONCILIATION_ROUNDS
      BY BoundsAssumption
    <2>4. /\ sync' = [sync EXCEPT ![p] = Staging(sync[p], f, scope, 0)]
          /\ sync[p].phase = "listing"
          /\ UNCHANGED <<github, published, lock>>
      BY <1>2, <1>3, <2>1 DEF EndListing, Answered
    <2> QED
      BY <1>2, <2>2, <2>3, <2>4, StagingIs
  <1>4. CASE Reconcile(p)
    <2>1. PICK round : round = sync[p].round + 1
      OBVIOUS
    <2>2. /\ sync[p].scope \in SUBSET PRs
          /\ sync[p].round \in 0..MAX_RECONCILIATION_ROUNDS
      BY TypedSync DEF SyncInv
    <2>3. round \in 0..MAX_RECONCILIATION_ROUNDS
      BY <1>4, <2>1, <2>2, BoundsAssumption DEF Reconcile, Moved
    <2>4. /\ sync' = [sync EXCEPT ![p] =
                         Staging(sync[p], f, sync[p].scope, round)]
          /\ sync[p].phase = "confirming"
          /\ UNCHANGED <<github, published, lock>>
      BY <1>2, <1>4, <2>1 DEF Reconcile, Answered, Counted
    <2> QED
      BY <1>2, <2>2, <2>3, <2>4, StagingIs
  <1> QED
    BY <1>3, <1>4

------------------------------------------------------------------------------
(* Staging *)

FilesStaged(x, r, staged, todo, reading) ==
    /\ x \in Sync
    /\ x.phase = r.phase /\ x.base = r.base /\ x.scope = r.scope
    /\ x.part = r.part /\ x.listing = r.listing
    /\ x.staged = staged /\ x.todo = todo /\ x.reading = reading

LEMMA StagedFiles ==
    ASSUME NEW r \in Sync, NEW g \in OnSome(PRs, Evidence),
           NEW t \in SUBSET PRs, NEW d \in OnSome(PRs, SUBSET Heads), NEW x,
           x = [r EXCEPT !.staged = g, !.todo = t, !.reading = d]
    PROVE  FilesStaged(x, r, g, t, d)
  <1>1. x \in Sync
    BY DEF Sync
  <1>2. x.phase = r.phase /\ x.base = r.base /\ x.scope = r.scope
    BY DEF Sync
  <1>3. x.part = r.part /\ x.listing = r.listing
    BY DEF Sync
  <1>4. x.staged = g /\ x.todo = t /\ x.reading = d
    BY DEF Sync
  <1> QED
    BY <1>1, <1>2, <1>3, <1>4 DEF FilesStaged

\* A step that stages files, or begins to: what it leaves is as good as before.
LEMMA StagesIs ==
    ASSUME SyncInv, NEW p \in Procs, sync[p].phase = "files",
           NEW staged \in OnSome(PRs, Evidence), NEW todo \in SUBSET PRs,
           NEW reading \in OnSome(PRs, SUBSET Heads),
           NEW s, s = [sync[p] EXCEPT !.staged = staged, !.todo = todo,
                                      !.reading = reading],
           sync' = [sync EXCEPT ![p] = s],
           UNCHANGED <<github, published, lock>>,
           todo \subseteq sync[p].todo,
           DOMAIN reading \subseteq todo,
           \A n \in DOMAIN reading :
              /\ sync[p].listing[n] # None
              /\ reading[n] # {}
              /\ \A b \in reading[n] : sync[p].listing[n] <= b /\ b <= head[n],
           \A n \in DOMAIN staged : Between(staged[n], head[n]),
           \A n \in (DOMAIN sync[p].listing \cap sync[p].scope) \ todo :
              sync[p].listing[n] # None => Has(staged, n, sync[p].listing[n])
    PROVE  SyncInv'
  <1>1. TypeOK /\ SyncOK(sync[p])
    BY DEF SyncInv
  <1>2. PICK r \in Sync : r = sync[p]
    BY <1>1, TypedSync
  <1>3. s = [r EXCEPT !.staged = staged, !.todo = todo, !.reading = reading]
    BY <1>2
  <1>4. FilesStaged(s, r, staged, todo, reading)
    BY ZenonT(60), <1>3, StagedFiles
  <1>5. SyncOK(s)
    BY <1>1, <1>2, <1>4 DEF FilesStaged, SyncOK, NotAhead, ReadingOK, StagedOK,
                            CompleteOK, WritingOK
  <1> QED
    BY <1>4, <1>5, SyncIs DEF FilesStaged

LEMMA BaseIs ==
    ASSUME SyncInv, NEW p \in Procs
    PROVE  /\ BaseEvidence(sync[p]) \in OnSome(PRs, Evidence)
           /\ \A n \in DOMAIN BaseEvidence(sync[p]) :
                 Between(BaseEvidence(sync[p])[n], head[n])
  <1>1. TypeOK /\ SyncOK(sync[p]) /\ Len(published) \in Nat
    BY DEF SyncInv, TypeOK
  <1>2. CASE sync[p].base = 0
    BY <1>2, EmptyFunction DEF BaseEvidence
  <1>3. CASE sync[p].base # 0
    <2>1. PICK i \in DOMAIN published : i = sync[p].base
      BY <1>1, <1>3 DEF SyncOK, TypeOK
    <2>2. /\ published[i] \in Snapshot
          /\ published[i].evidence \in OnSome(PRs, Evidence)
          /\ SnapshotOK(i)
      <3>1. published[i] \in Snapshot
        BY <1>1 DEF TypeOK
      <3> QED
        BY <3>1 DEF Snapshot, SyncInv
    <2>3. PICK e : e = published[i].evidence
      OBVIOUS
    <2>4. BaseEvidence(sync[p]) = e
      BY <1>3, <2>1, <2>3 DEF BaseEvidence
    <2>5. ASSUME NEW n \in DOMAIN e
          PROVE  Between(e[n], head[n])
      <3>1. e[n] \in Evidence /\ n \in PRs
        BY <2>2, <2>3, OnSomeFunctions
      <3>2. e[n].rev \in Heads /\ e[n].rev \in Nat /\ e[n].rev # None
        BY <3>1, HeadsAreNat, NoneIsNoHead DEF Evidence
      <3>3. /\ n \in DOMAIN published[i].listing
            /\ e[n].rev = published[i].listing[n]
            /\ e[n].bytes = {e[n].rev}
        BY <2>2, <2>3 DEF SnapshotOK, WholeFor
      <3>4. e[n].rev <= head[n]
        BY <2>2, <3>2, <3>3 DEF SnapshotOK, NotAhead
      <3> QED
        BY <3>2, <3>3, <3>4 DEF Between
    <2> QED
      BY <2>2, <2>3, <2>4, <2>5
  <1> QED
    BY <1>2, <1>3

LEMMA SourceIs ==
    ASSUME SyncInv, NEW p \in Procs, sync[p].phase = "files", NEW n,
           AtHand(sync[p], n)
    PROVE  LET e == Source(sync[p], n)[n] IN
           /\ n \in PRs
           /\ e \in Evidence
           /\ e.rev = sync[p].listing[n]
           /\ Between(e, head[n])
  <1>1. PICK f : f = Source(sync[p], n)
    OBVIOUS
  <1>2. f = sync[p].staged \/ f = BaseEvidence(sync[p])
    BY <1>1 DEF Source
  <1>3. sync[p].staged \in OnSome(PRs, Evidence) /\ SyncOK(sync[p])
    BY TypedSync DEF SyncInv
  <1>4. /\ f \in OnSome(PRs, Evidence)
        /\ \A m \in DOMAIN f : Between(f[m], head[m])
    BY <1>2, <1>3, BaseIs DEF SyncOK, StagedOK
  <1>5. n \in DOMAIN f /\ f[n].rev = sync[p].listing[n]
    BY <1>1 DEF AtHand, Has
  <1> QED
    BY <1>1, <1>4, <1>5, OnSomeFunctions

LEMMA ReuseKeepsInv ==
    ASSUME SyncInv, NEW p \in Procs, NEW n \in PRs, Reuse(p, n)
    PROVE  SyncInv'
  <1>1. /\ TypeOK /\ SyncOK(sync[p]) /\ sync \in [Procs -> Sync]
        /\ sync[p] \in Sync
        /\ sync[p].staged \in OnSome(PRs, Evidence)
        /\ sync[p].reading \in OnSome(PRs, SUBSET Heads)
        /\ sync[p].todo \subseteq PRs
    BY TypedSync DEF SyncInv
  <1>2. /\ sync[p].phase = "files"
        /\ n \in sync[p].todo \ DOMAIN sync[p].reading
        /\ sync[p].listing[n] = None \/ AtHand(sync[p], n)
        /\ UNCHANGED <<github, published, lock>>
    BY DEF Reuse
  <1>3. PICK staged \in OnSome(PRs, Evidence) :
           /\ staged = IF AtHand(sync[p], n)
                       THEN Put(sync[p].staged, n, Source(sync[p], n)[n])
                       ELSE Drop(sync[p].staged, n)
           /\ \A m \in DOMAIN staged : Between(staged[m], head[m])
           /\ \A m \in DOMAIN sync[p].staged \ {n} :
                 m \in DOMAIN staged /\ staged[m] = sync[p].staged[m]
           /\ AtHand(sync[p], n) => Has(staged, n, sync[p].listing[n])
    <2>1. \A m \in DOMAIN sync[p].staged : Between(sync[p].staged[m], head[m])
      BY <1>1, <1>2 DEF SyncOK, StagedOK
    <2>2. CASE AtHand(sync[p], n)
      <3>1. PICK e \in Evidence : /\ e = Source(sync[p], n)[n]
                                  /\ e.rev = sync[p].listing[n]
                                  /\ Between(e, head[n])
        BY <1>2, <2>2, SourceIs
      <3>2. PICK f \in OnSome(PRs, Evidence) : f = sync[p].staged
        BY <1>1
      <3>3. PICK g : g = Put(f, n, e)
        OBVIOUS
      <3>4. /\ g \in OnSome(PRs, Evidence)
            /\ DOMAIN g = DOMAIN f \cup {n}
            /\ g[n] = e
            /\ \A m \in DOMAIN f \ {n} : g[m] = f[m]
        <4>1. Put(f, n, e) \in OnSome(PRs, Evidence)
          BY Zenon, PutOnSome
        <4> QED
          BY <3>3, <4>1 DEF Put
      <3>5. \A m \in DOMAIN g : Between(g[m], head[m])
        BY <2>1, <3>1, <3>2, <3>4
      <3>6. Has(g, n, sync[p].listing[n])
        BY <3>1, <3>4 DEF Has
      <3> QED
        BY <2>2, <3>1, <3>2, <3>3, <3>4, <3>5, <3>6
    <2>3. CASE ~AtHand(sync[p], n)
      <3>1. PICK f \in OnSome(PRs, Evidence) : f = sync[p].staged
        BY <1>1
      <3>2. PICK g : g = Drop(f, n)
        OBVIOUS
      <3>3. /\ g \in OnSome(PRs, Evidence)
            /\ DOMAIN g = DOMAIN f \ {n}
            /\ \A m \in DOMAIN f \ {n} : g[m] = f[m]
        <4>1. Drop(f, n) \in OnSome(PRs, Evidence)
          BY Zenon, DropOnSome
        <4> QED
          BY <3>2, <4>1 DEF Drop
      <3> QED
        BY <2>1, <2>3, <3>1, <3>2, <3>3
    <2> QED
      BY <2>2, <2>3
  <1>4. PICK todo \in SUBSET PRs : todo = sync[p].todo \ {n}
    BY <1>1
  <1>5. PICK reading \in OnSome(PRs, SUBSET Heads) : reading = sync[p].reading
    BY <1>1
  <1>6. PICK s : s = [sync[p] EXCEPT !.staged = staged, !.todo = todo,
                                     !.reading = reading]
    OBVIOUS
  <1>7. sync' = [sync EXCEPT ![p] = s]
    <2>1. sync' = [sync EXCEPT ![p].staged = staged, ![p].todo = todo]
      BY <1>1, <1>3, <1>4 DEF Reuse
    <2>2. s = [sync[p] EXCEPT !.staged = staged, !.todo = todo]
      BY <1>1, <1>5, <1>6 DEF Sync
    <2> QED
      BY <1>1, <2>1, <2>2
  <1>8. ASSUME NEW m \in (DOMAIN sync[p].listing \cap sync[p].scope) \ todo,
               sync[p].listing[m] # None
        PROVE  Has(staged, m, sync[p].listing[m])
    <2>1. CASE m = n
      BY <1>2, <1>3, <1>8, <2>1
    <2>2. CASE m # n
      <3>1. Has(sync[p].staged, m, sync[p].listing[m])
        BY <1>1, <1>2, <1>4, <1>8, <2>2 DEF SyncOK, CompleteOK
      <3> QED
        BY <1>3, <2>2, <3>1 DEF Has
    <2> QED
      BY <2>1, <2>2
  <1>9. /\ DOMAIN reading \subseteq todo
        /\ \A m \in DOMAIN reading :
              /\ sync[p].listing[m] # None
              /\ reading[m] # {}
              /\ \A b \in reading[m] : sync[p].listing[m] <= b /\ b <= head[m]
    BY <1>1, <1>2, <1>4, <1>5 DEF SyncOK, ReadingOK
  <1> QED
    BY <1>2, <1>3, <1>4, <1>6, <1>7, <1>8, <1>9, StagesIs

LEMMA DownloadKeepsInv ==
    ASSUME SyncInv, NEW p \in Procs, NEW n \in PRs, Download(p, n)
    PROVE  SyncInv'
  <1>1. /\ TypeOK /\ SyncOK(sync[p]) /\ sync \in [Procs -> Sync]
        /\ sync[p] \in Sync
        /\ sync[p].listing \in Listing
    BY TypedSync DEF SyncInv
  <1>2. /\ sync[p].phase = "files"
        /\ n \in sync[p].todo \ DOMAIN sync[p].reading
        /\ sync[p].listing[n] # None
        /\ UNCHANGED <<github, published, lock>>
    BY DEF Download
  <1>3. PICK f \in OnSome(PRs, Evidence), d \in OnSome(PRs, SUBSET Heads),
             todo \in SUBSET PRs, h \in Heads :
           /\ f = sync[p].staged /\ d = sync[p].reading /\ todo = sync[p].todo
           /\ h = head[n]
    BY <1>1, TypedSync, ListedHead
  <1>4. PICK bytes \in SUBSET Heads : bytes = {h}
    OBVIOUS
  <1>5. PICK staged : staged = Drop(f, n)
    OBVIOUS
  <1>6. /\ staged \in OnSome(PRs, Evidence)
        /\ DOMAIN staged = DOMAIN f \ {n}
        /\ \A m \in DOMAIN f \ {n} : staged[m] = f[m]
    <2>1. Drop(f, n) \in OnSome(PRs, Evidence)
      BY Zenon, DropOnSome
    <2> QED
      BY <1>5, <2>1 DEF Drop
  <1>7. PICK reading : reading = Put(d, n, bytes)
    OBVIOUS
  <1>8. /\ reading \in OnSome(PRs, SUBSET Heads)
        /\ DOMAIN reading = DOMAIN d \cup {n}
        /\ reading[n] = bytes
        /\ \A m \in DOMAIN d \ {n} : reading[m] = d[m]
    <2>1. Put(d, n, bytes) \in OnSome(PRs, SUBSET Heads)
      BY Zenon, PutOnSome
    <2> QED
      BY <1>7, <2>1 DEF Put
  <1>9. PICK s : s = [sync[p] EXCEPT !.staged = staged, !.todo = todo,
                                     !.reading = reading]
    OBVIOUS
  <1>10. sync' = [sync EXCEPT ![p] = s]
    <2>1. sync' = [sync EXCEPT ![p].reading = reading, ![p].staged = staged]
      BY <1>3, <1>4, <1>5, <1>7 DEF Download
    <2>2. s = [sync[p] EXCEPT !.reading = reading, !.staged = staged]
      BY <1>1, <1>3, <1>9 DEF Sync
    <2> QED
      BY <1>1, <2>1, <2>2
  <1>11. /\ DOMAIN reading \subseteq todo
         /\ \A m \in DOMAIN reading :
               /\ sync[p].listing[m] # None
               /\ reading[m] # {}
               /\ \A b \in reading[m] : sync[p].listing[m] <= b /\ b <= head[m]
    <2>1. /\ DOMAIN d \subseteq todo
          /\ \A m \in DOMAIN d :
                /\ sync[p].listing[m] # None
                /\ d[m] # {}
                /\ \A b \in d[m] : sync[p].listing[m] <= b /\ b <= head[m]
      BY <1>1, <1>3 DEF SyncOK, ReadingOK
    <2>2. n \in todo /\ n \in DOMAIN sync[p].listing
      BY <1>1, <1>2, <1>3 DEF SyncOK, ReadingOK
    <2>3. sync[p].listing[n] <= head[n]
      BY <1>1, <1>2, <2>2 DEF SyncOK, NotAhead
    <2>4. h <= h
      BY HeadsAreNat
    <2> QED
      BY <1>2, <1>3, <1>4, <1>8, <2>1, <2>2, <2>3, <2>4
  <1>12. \A m \in DOMAIN staged : Between(staged[m], head[m])
    BY <1>1, <1>2, <1>3, <1>6 DEF SyncOK, StagedOK
  <1>13. ASSUME NEW m \in (DOMAIN sync[p].listing \cap sync[p].scope) \ todo,
                sync[p].listing[m] # None
         PROVE  Has(staged, m, sync[p].listing[m])
    <2>1. Has(f, m, sync[p].listing[m]) /\ m # n
      BY <1>1, <1>2, <1>3, <1>13 DEF SyncOK, CompleteOK
    <2> QED
      BY <1>6, <2>1 DEF Has
  <1> QED
    BY <1>2, <1>3, <1>6, <1>8, <1>9, <1>10, <1>11, <1>12, <1>13, StagesIs

LEMMA EndDownloadKeepsInv ==
    ASSUME SyncInv, NEW p \in Procs, NEW n \in PRs, EndDownload(p, n)
    PROVE  SyncInv'
  <1>1. /\ TypeOK /\ SyncOK(sync[p]) /\ sync \in [Procs -> Sync]
        /\ sync[p] \in Sync
        /\ sync[p].listing \in Listing
    BY TypedSync DEF SyncInv
  <1>2. /\ sync[p].phase = "files"
        /\ n \in DOMAIN sync[p].reading
        /\ UNCHANGED <<github, published, lock>>
    BY DEF EndDownload
  <1>3. PICK f \in OnSome(PRs, Evidence), d \in OnSome(PRs, SUBSET Heads),
             h \in Heads :
           f = sync[p].staged /\ d = sync[p].reading /\ h = head[n]
    BY <1>1, TypedSync, ListedHead
  <1>4. PICK todo \in SUBSET PRs : todo = sync[p].todo \ {n}
    BY <1>1, TypedSync
  <1>5. /\ DOMAIN d \subseteq sync[p].todo
        /\ \A m \in DOMAIN d :
              /\ sync[p].listing[m] # None
              /\ d[m] # {}
              /\ \A b \in d[m] : sync[p].listing[m] <= b /\ b <= head[m]
    BY <1>1, <1>3 DEF SyncOK, ReadingOK
  <1>6. /\ n \in DOMAIN sync[p].listing
        /\ sync[p].listing[n] # None
        /\ sync[p].listing[n] <= head[n]
    BY <1>1, <1>2, <1>3, <1>5 DEF SyncOK, ReadingOK, NotAhead
  <1>7. sync[p].listing[n] \in Heads /\ d[n] \in SUBSET Heads
    BY <1>1, <1>2, <1>3, <1>6, OnSomeFunctions DEF Listing, Revision
  <1>8. PICK e \in Evidence : e = [rev |-> sync[p].listing[n],
                                   bytes |-> d[n] \cup {h}]
    BY <1>7 DEF Evidence
  <1>9. Between(e, head[n])
    <2>1. e.rev = sync[p].listing[n] /\ e.bytes = d[n] \cup {h}
      BY <1>8
    <2>2. h <= h
      BY HeadsAreNat
    <2> QED
      BY <1>2, <1>3, <1>5, <1>6, <2>1, <2>2 DEF Between
  <1>10. PICK staged : staged = Put(f, n, e)
    OBVIOUS
  <1>11. /\ staged \in OnSome(PRs, Evidence)
         /\ DOMAIN staged = DOMAIN f \cup {n}
         /\ staged[n] = e
         /\ \A m \in DOMAIN f \ {n} : staged[m] = f[m]
    <2>1. Put(f, n, e) \in OnSome(PRs, Evidence)
      BY Zenon, PutOnSome
    <2> QED
      BY <1>10, <2>1 DEF Put
  <1>12. PICK reading : reading = Drop(d, n)
    OBVIOUS
  <1>13. /\ reading \in OnSome(PRs, SUBSET Heads)
         /\ DOMAIN reading = DOMAIN d \ {n}
         /\ \A m \in DOMAIN d \ {n} : reading[m] = d[m]
    <2>1. Drop(d, n) \in OnSome(PRs, SUBSET Heads)
      BY Zenon, DropOnSome
    <2> QED
      BY <1>12, <2>1 DEF Drop
  <1>14. PICK s : s = [sync[p] EXCEPT !.staged = staged, !.todo = todo,
                                      !.reading = reading]
    OBVIOUS
  <1>15. sync' = [sync EXCEPT ![p] = s]
    <2>1. sync' = [sync EXCEPT ![p].staged = staged, ![p].reading = reading,
                               ![p].todo = todo]
      BY <1>3, <1>4, <1>8, <1>10, <1>12 DEF EndDownload
    <2>2. s = [sync[p] EXCEPT !.staged = staged, !.reading = reading,
                              !.todo = todo]
      BY <1>1, <1>14 DEF Sync
    <2> QED
      BY <1>1, <2>1, <2>2
  <1>16. /\ DOMAIN reading \subseteq todo
         /\ \A m \in DOMAIN reading :
               /\ sync[p].listing[m] # None
               /\ reading[m] # {}
               /\ \A b \in reading[m] : sync[p].listing[m] <= b /\ b <= head[m]
    BY <1>4, <1>5, <1>13
  <1>17. \A m \in DOMAIN staged : Between(staged[m], head[m])
    BY <1>1, <1>2, <1>3, <1>9, <1>11 DEF SyncOK, StagedOK
  <1>18. ASSUME NEW m \in (DOMAIN sync[p].listing \cap sync[p].scope) \ todo,
                sync[p].listing[m] # None
         PROVE  Has(staged, m, sync[p].listing[m])
    <2>1. CASE m = n
      BY <1>8, <1>11, <2>1 DEF Has
    <2>2. CASE m # n
      <3>1. Has(f, m, sync[p].listing[m])
        BY <1>1, <1>2, <1>3, <1>4, <1>18, <2>2 DEF SyncOK, CompleteOK
      <3> QED
        BY <1>11, <2>2, <3>1 DEF Has
    <2> QED
      BY <2>1, <2>2
  <1> QED
    BY <1>2, <1>4, <1>11, <1>13, <1>14, <1>15, <1>16, <1>17, <1>18, StagesIs

StagingEnded(x, r, g) ==
    /\ x \in Sync
    /\ x.phase = "confirming" /\ x.base = r.base /\ x.scope = r.scope
    /\ x.part = r.part /\ x.listing = r.listing
    /\ x.staged = g /\ x.todo = r.todo /\ x.reading = r.reading

LEMMA EndedStaging ==
    ASSUME NEW r \in Sync, NEW g \in OnSome(PRs, Evidence), NEW x,
           x = [r EXCEPT !.phase = "confirming", !.staged = g]
    PROVE  StagingEnded(x, r, g)
  <1>1. x \in Sync
    BY DEF Sync
  <1>2. x.phase = "confirming" /\ x.base = r.base /\ x.scope = r.scope
    BY DEF Sync
  <1>3. x.part = r.part /\ x.listing = r.listing
    BY DEF Sync
  <1>4. x.staged = g /\ x.todo = r.todo /\ x.reading = r.reading
    BY DEF Sync
  <1> QED
    BY <1>1, <1>2, <1>3, <1>4 DEF StagingEnded

LEMMA EndStagingKeepsInv ==
    ASSUME SyncInv, NEW p \in Procs, EndStaging(p)
    PROVE  SyncInv'
  <1>1. /\ TypeOK /\ SyncOK(sync[p]) /\ sync \in [Procs -> Sync]
        /\ sync[p] \in Sync
        /\ DOMAIN sync[p].listing \subseteq PRs
        /\ sync[p].staged \in OnSome(PRs, Evidence)
    BY TypedSync DEF SyncInv
  <1>2. /\ sync[p].phase = "files" /\ sync[p].todo = {}
        /\ UNCHANGED <<github, published, lock>>
    BY DEF EndStaging
  <1>3. PICK f \in OnSome(PRs, Evidence), B \in SUBSET PRs :
           f = sync[p].staged /\ B = Beyond(sync[p])
    BY <1>1 DEF Beyond
  <1>4. PICK D : D = {m \in DOMAIN f \cup B : m \in B => AtHand(sync[p], m)}
    OBVIOUS
  <1>5. PICK g : g = [n \in D |-> IF n \in B THEN Source(sync[p], n)[n]
                                           ELSE f[n]]
    OBVIOUS
  <1>6. ASSUME NEW n \in D
        PROVE  n \in PRs /\ g[n] \in Evidence /\ Between(g[n], head[n])
    <2>1. CASE n \in B
      <3>1. AtHand(sync[p], n) /\ g[n] = Source(sync[p], n)[n]
        BY <1>4, <1>5, <2>1
      <3> QED
        BY <1>2, <3>1, SourceIs
    <2>2. CASE n \notin B
      <3>1. n \in DOMAIN f /\ g[n] = f[n]
        BY <1>4, <1>5, <2>2
      <3>2. f[n] \in Evidence /\ n \in PRs
        BY <3>1, OnSomeFunctions
      <3> QED
        BY <1>1, <1>2, <1>3, <3>1, <3>2 DEF SyncOK, StagedOK
    <2> QED
      BY <2>1, <2>2
  <1>7. g \in OnSome(PRs, Evidence) /\ DOMAIN g = D
    <2>1. g = [n \in D |-> g[n]] /\ DOMAIN g = D
      BY <1>5
    <2> QED
      BY <1>6, <2>1, OnSomeFunctions
  <1>8. PICK r \in Sync : r = sync[p]
    BY <1>1
  <1>9. PICK s : s = [r EXCEPT !.phase = "confirming", !.staged = g]
    OBVIOUS
  <1>10. sync' = [sync EXCEPT ![p] = s]
    <2>1. sync' = [sync EXCEPT ![p].phase = "confirming", ![p].staged = g]
      BY <1>3, <1>4, <1>5 DEF EndStaging
    <2> QED
      BY <1>1, <1>8, <1>9, <2>1
  <1>11. StagingEnded(s, r, g)
    BY Zenon, <1>7, <1>9, EndedStaging
  <1>12. ASSUME NEW n \in DOMAIN s.listing \cap s.scope, s.listing[n] # None
         PROVE  Has(g, n, s.listing[n])
    <2>1. Has(f, n, s.listing[n])
      BY <1>1, <1>2, <1>3, <1>8, <1>11, <1>12
         DEF StagingEnded, SyncOK, CompleteOK
    <2>2. n \notin B
      BY <1>3, <1>8, <1>11 DEF StagingEnded, Beyond
    <2>3. n \in D /\ g[n] = f[n]
      BY <1>4, <1>5, <2>1, <2>2 DEF Has
    <2> QED
      BY <1>7, <2>1, <2>3 DEF Has
  <1>13. \A n \in DOMAIN g : Between(g[n], head[n])
    BY <1>6, <1>7
  <1>14. SyncOK(s)
    <2>1. /\ s.base \in 0..Len(published)
          /\ NotAhead(s.part)
          /\ NotAhead(s.listing)
      BY <1>1, <1>8, <1>11 DEF StagingEnded, SyncOK
    <2>2. ReadingOK(s)
      BY <1>1, <1>2, <1>8, <1>11 DEF StagingEnded, SyncOK, ReadingOK
    <2>3. DOMAIN s.part = {}
      BY <1>1, <1>2, <1>8, <1>11 DEF StagingEnded, SyncOK, ReadingOK
    <2>4. StagedOK(s)
      BY <1>11, <1>13, <2>3 DEF StagingEnded, StagedOK
    <2>5. CompleteOK(s) /\ WritingOK(s)
      BY <1>11, <1>12 DEF StagingEnded, CompleteOK, WritingOK
    <2> QED
      BY <2>1, <2>2, <2>4, <2>5 DEF SyncOK
  <1> QED
    BY <1>2, <1>10, <1>11, <1>14, SyncIs DEF StagingEnded

------------------------------------------------------------------------------
(* Publication *)

Materialised(x, r, e, f, u, k) ==
    /\ x \in Sync
    /\ x.phase = "writing" /\ x.base = r.base /\ x.scope = r.scope
    /\ x.part = e /\ x.listing = f /\ x.staged = u /\ x.generation = k
    /\ x.todo = r.todo /\ x.reading = r.reading /\ x.round = r.round

LEMMA MaterialisedIs ==
    ASSUME NEW r \in Sync, NEW e \in Listing, NEW f \in Listing,
           NEW u \in OnSome(PRs, Evidence), NEW k \in Nat, NEW z \in Nat,
           NEW st \in SUBSET PRs, NEW x,
           x = [r EXCEPT !.phase = "writing", !.part = e, !.page = z,
                         !.listing = f, !.staged = u, !.generation = k,
                         !.steady = st]
    PROVE  Materialised(x, r, e, f, u, k)
  <1>1. x \in Sync
    BY DEF Sync
  <1>2. x.phase = "writing" /\ x.base = r.base /\ x.scope = r.scope
    BY DEF Sync
  <1>3. x.part = e /\ x.listing = f /\ x.staged = u /\ x.generation = k
    BY DEF Sync
  <1>4. x.todo = r.todo /\ x.reading = r.reading /\ x.round = r.round
    BY DEF Sync
  <1> QED
    BY <1>1, <1>2, <1>3, <1>4 DEF Materialised

\* What is usable is whole for the final listing.
LEMMA UsableIsWhole ==
    ASSUME SyncInv, NEW p \in Procs, sync[p].phase = "confirming",
           NEW f \in Listing, f = Received(p), NEW u,
           u = Usable(sync[p].staged, f)
    PROVE  /\ u \in OnSome(PRs, Evidence)
           /\ WholeFor(u, f)
           /\ \A n \in DOMAIN f : Has(sync[p].staged, n, f[n]) => n \in DOMAIN u
  <1>1. PICK g \in OnSome(PRs, Evidence) : g = sync[p].staged
    BY TypedSync DEF SyncInv
  <1>2. \A n \in DOMAIN g : n \in PRs /\ g[n] \in Evidence
    BY OnSomeFunctions
  <1>3. PICK D : D = {m \in DOMAIN g \cap DOMAIN f : Has(g, m, f[m])}
    OBVIOUS
  <1>4. u = [n \in D |-> g[n]]
    BY <1>1, <1>3 DEF Usable
  <1>5. u = [n \in D |-> u[n]] /\ DOMAIN u = D /\ \A n \in D : u[n] = g[n]
    BY <1>4
  <1>6. u \in OnSome(PRs, Evidence)
    BY <1>2, <1>3, <1>5, OnSomeFunctions
  <1>7. ASSUME NEW n \in DOMAIN u
        PROVE  /\ n \in DOMAIN f
               /\ u[n].rev = f[n]
               /\ u[n].bytes = {u[n].rev}
    <2>1. n \in DOMAIN f /\ n \in DOMAIN g /\ g[n].rev = f[n] /\ u[n] = g[n]
      BY <1>3, <1>5 DEF Has
    <2>2. PICK e \in Evidence : e = g[n]
      BY <1>2, <2>1
    <2>3. /\ e.rev \in Nat /\ e.rev # None /\ e.bytes \subseteq Nat
      BY HeadsAreNat, NoneIsNoHead DEF Evidence
    <2>4. Between(e, e.rev)
      BY <1>1, <2>1, <2>2, <2>3, ReceivedIs
    <2>5. e.bytes = {e.rev}
      BY <2>3, <2>4 DEF Between
    <2> QED
      BY <2>1, <2>2, <2>5
  <1> QED
    BY <1>1, <1>3, <1>5, <1>6, <1>7 DEF WholeFor, Has

LEMMA MaterialiseKeepsInv ==
    ASSUME SyncInv, NEW p \in Procs, Materialise(p)
    PROVE  SyncInv'
  <1>1. /\ TypeOK /\ SyncOK(sync[p]) /\ sync \in [Procs -> Sync]
        /\ sync[p] \in Sync
        /\ published \in Seq(Snapshot) /\ Len(published) \in Nat
    BY TypedSync DEF SyncInv, TypeOK
  <1>2. /\ sync[p].phase = "confirming"
        /\ ~Moved(sync[p], Received(p))
        /\ UNCHANGED <<github, published, lock>>
    BY DEF Materialise, Answered
  <1>3. PICK f \in Listing : f = Received(p) /\ NotAhead(f)
    BY ReceivedIs
  <1>4. PICK u : u = Usable(sync[p].staged, f)
    OBVIOUS
  <1>5. /\ u \in OnSome(PRs, Evidence)
        /\ WholeFor(u, f)
        /\ \A n \in DOMAIN f : Has(sync[p].staged, n, f[n]) => n \in DOMAIN u
    BY <1>2, <1>3, <1>4, UsableIsWhole
  <1>6. PICK k \in Nat : /\ k = Len(published) + 1
                         /\ k = IF published = << >> THEN 1
                                ELSE published[Len(published)].generation + 1
    <2>1. CASE published = << >>
      BY <2>1
    <2>2. CASE published # << >>
      <3>1. Len(published) \in DOMAIN published
        BY <1>1, <2>2
      <3> QED
        BY <1>1, <2>2, <3>1 DEF SyncInv, SnapshotOK
    <2> QED
      BY <2>1, <2>2
  <1>7. << >> \in Listing /\ DOMAIN << >> = {}
    BY EmptyFunction DEF Listing
  <1>8. Steady(p) \in SUBSET PRs
    BY <1>1, TypedSync DEF Steady, TypeOK
  <1>9. PICK r \in Sync, e \in Listing, z \in Nat, st \in SUBSET PRs :
           /\ r = sync[p] /\ e = << >> /\ z = 0 /\ st = Steady(p)
    BY <1>1, <1>7, <1>8
  <1>10. PICK s : s = [r EXCEPT !.phase = "writing", !.part = e, !.page = z,
                                !.listing = f, !.staged = u,
                                !.generation = k, !.steady = st]
    OBVIOUS
  <1>11. sync' = [sync EXCEPT ![p] = s]
    <2>1. sync' = [sync EXCEPT ![p].phase = "writing", ![p].part = e,
                               ![p].page = z, ![p].listing = f,
                               ![p].staged = u, ![p].generation = k,
                               ![p].steady = st]
      BY <1>3, <1>4, <1>6, <1>9 DEF Materialise
    <2> QED
      BY <1>1, <1>9, <1>10, <2>1
  <1>12. Materialised(s, r, e, f, u, k)
    BY ZenonT(60), <1>5, <1>10, MaterialisedIs
  <1>13. SyncOK(s)
    <2>1. s.base \in 0..Len(published) /\ NotAhead(s.listing)
      BY <1>1, <1>3, <1>9, <1>12 DEF Materialised, SyncOK
    <2>2. DOMAIN s.part = {} /\ NotAhead(s.part)
      BY <1>7, <1>9, <1>12 DEF Materialised, NotAhead
    <2>3. s.todo = {} /\ DOMAIN s.reading = {}
      BY <1>1, <1>2, <1>9, <1>12 DEF Materialised, SyncOK, ReadingOK
    <2>4. ReadingOK(s) /\ StagedOK(s) /\ CompleteOK(s)
      BY <1>12, <2>2, <2>3 DEF Materialised, ReadingOK, StagedOK, CompleteOK
    <2>5. ASSUME r.round < MAX_RECONCILIATION_ROUNDS,
                 NEW n \in DOMAIN f \cap r.scope, f[n] # None
          PROVE  n \in DOMAIN u
      <3>1. n \in DOMAIN r.listing /\ r.listing[n] = f[n]
        BY <1>2, <1>3, <1>9, <2>5 DEF Moved
      <3>2. Has(r.staged, n, f[n])
        BY <1>1, <1>2, <1>9, <2>5, <3>1 DEF SyncOK, ReadingOK, CompleteOK
      <3> QED
        BY <1>5, <1>9, <3>2
    <2>6. WritingOK(s)
      BY <1>5, <1>6, <1>12, <2>5 DEF Materialised, WritingOK
    <2> QED
      BY <2>1, <2>2, <2>4, <2>6 DEF SyncOK
  <1> QED
    BY <1>2, <1>11, <1>12, <1>13, SyncIs DEF Materialised

LEMMA ActivateKeepsInv ==
    ASSUME SyncInv, NEW p \in Procs, Activate(p)
    PROVE  SyncInv'
  <1>1. /\ TypeOK /\ SyncOK(sync[p]) /\ sync \in [Procs -> Sync]
        /\ sync[p] \in Sync
        /\ published \in Seq(Snapshot) /\ Len(published) \in Nat
    BY TypedSync DEF SyncInv, TypeOK
  <1>2. PICK snapshot : snapshot = [generation |-> sync[p].generation,
                                    listing |-> sync[p].listing,
                                    evidence |-> sync[p].staged]
    OBVIOUS
  <1>3. snapshot \in Snapshot
    BY <1>1, <1>2, TypedSync DEF Snapshot
  <1>4. /\ sync[p].phase = "writing"
        /\ published' = Append(published, snapshot)
        /\ lock' = None /\ sync' = [sync EXCEPT ![p] = Idle]
        /\ head' = head /\ open' = open
    BY <1>2 DEF Activate, Release, github
  <1>5. /\ published' \in Seq(Snapshot)
        /\ Len(published') = Len(published) + 1
        /\ DOMAIN published' = DOMAIN published \cup {Len(published) + 1}
        /\ \A i \in DOMAIN published : published'[i] = published[i]
        /\ published'[Len(published) + 1] = snapshot
    BY <1>1, <1>3, <1>4
  <1>6. TypeOK'
    BY <1>1, <1>4, <1>5, IdleIsTyped DEF TypeOK
  <1>7. GitHubGrows
    <2>1. \A n \in PRs : head[n] \in Nat
      BY <1>1, HeadsAreNat DEF TypeOK
    <2> QED
      BY <1>1, <1>4, <2>1 DEF TypeOK, GitHubGrows
  <1>8. ASSUME NEW q \in Procs
        PROVE  sync'[q].phase = "idle" /\ SyncOK(sync[q])'
    <2>1. CASE q = p
      <3>1. sync'[q] = Idle
        BY <1>1, <1>4, <2>1
      <3>2. SyncOK(Idle)'
        BY <1>6, IdleIsOK, PTL
      <3>3. SyncOK(sync[q])'
        BY <3>1, <3>2 DEF SyncOK, NotAhead, ReadingOK, StagedOK, CompleteOK,
                          WritingOK
      <3> QED
        BY <3>1, <3>3, IdleIsTyped
    <2>2. CASE q # p
      <3>1. PICK s \in Sync : s = sync[q] /\ s = sync'[q] /\ SyncOK(s)
        BY <1>1, <1>4, <2>2 DEF SyncInv
      <3>2. s.phase = "idle"
        BY <1>4, <2>2, <3>1 DEF SyncInv
      <3>3. SyncOK(s)'
        BY <1>1, <1>5, <1>7, <3>1, <3>2, SyncStays
      <3> QED
        BY <3>1, <3>2, <3>3 DEF SyncOK, NotAhead, ReadingOK, StagedOK,
                                CompleteOK, WritingOK
    <2> QED
      BY <2>1, <2>2
  <1>9. ASSUME NEW i \in DOMAIN published'
        PROVE  SnapshotOK(i)'
    <2>1. CASE i \in DOMAIN published
      BY <1>1, <1>5, <1>7, <2>1, SnapshotStays DEF SyncInv
    <2>2. CASE i = Len(published) + 1
      <3>1. /\ snapshot.generation = i
            /\ NotAhead(snapshot.listing)
            /\ WholeFor(snapshot.evidence, snapshot.listing)
        BY <1>1, <1>2, <1>4, <2>2 DEF SyncOK, WritingOK
      <3>2. published'[i] = snapshot
        BY <1>5, <2>2
      <3> QED
        BY <1>4, <3>1, <3>2 DEF SnapshotOK, NotAhead, WholeFor
    <2> QED
      BY <1>5, <2>1, <2>2
  <1> QED
    BY <1>6, <1>8, <1>9 DEF SyncInv

------------------------------------------------------------------------------
(* The theorems *)

LEMMA InitInv == Init => SyncInv
  <1> SUFFICES ASSUME Init
               PROVE  SyncInv
    OBVIOUS
  <1>1. \A n \in PRs : 1 \in Heads
    BY HeadsAreNat, BoundsAssumption
  <1>2. TypeOK
    BY <1>1, IdleIsTyped, NobodyAssumption DEF Init, TypeOK
  <1>3. \A p \in Procs : sync[p] = Idle
    BY DEF Init
  <1>4. DOMAIN published = {}
    BY DEF Init
  <1> QED
    BY <1>2, <1>3, <1>4, IdleIsOK, IdleIsTyped DEF SyncInv

LEMMA StepInv == SyncInv /\ [Next]_vars => SyncInv'
  <1> SUFFICES ASSUME SyncInv, [Next]_vars
               PROVE  SyncInv'
    OBVIOUS
  <1>1. ASSUME NEW n \in PRs, Push(n) \/ Open(n) \/ Close(n)
        PROVE  SyncInv'
    BY <1>1, PushKeepsInv
  <1>2. ASSUME NEW p \in Procs, Begin(p)
        PROVE  SyncInv'
    BY <1>2, BeginKeepsInv
  <1>3. ASSUME NEW p \in Procs, SyncStep(p)
        PROVE  SyncInv'
    <2>1. CASE ReadPage(p)
      BY <2>1, ReadPageKeepsInv
    <2>2. CASE RefuseListing(p)
      BY <2>2, ReleaseKeepsInv DEF RefuseListing
    <2>3. CASE EndListing(p) \/ Reconcile(p)
      BY <2>3, ListingsKeepInv
    <2>4. ASSUME NEW n \in PRs,
                 Reuse(p, n) \/ Download(p, n) \/ EndDownload(p, n)
          PROVE  SyncInv'
      BY <2>4, ReuseKeepsInv, DownloadKeepsInv, EndDownloadKeepsInv
    <2>5. CASE EndStaging(p)
      BY <2>5, EndStagingKeepsInv
    <2>6. CASE Materialise(p)
      BY <2>6, MaterialiseKeepsInv
    <2>7. CASE Activate(p)
      BY <2>7, ActivateKeepsInv
    <2> QED
      BY <1>3, <2>1, <2>2, <2>3, <2>4, <2>5, <2>6, <2>7 DEF SyncStep
  <1>4. ASSUME NEW p \in Procs, Fail(p)
        PROVE  SyncInv'
    BY <1>4, ReleaseKeepsInv DEF Fail
  <1>5. CASE UNCHANGED vars
    BY <1>5 DEF vars, github, SyncInv, TypeOK, SyncOK, NotAhead, ReadingOK,
                StagedOK, CompleteOK, WritingOK, SnapshotOK
  <1> QED
    BY <1>1, <1>2, <1>3, <1>4, <1>5 DEF Next

\* Whatever GitHub does, whoever fails or is killed, the invariant holds.
THEOREM AlwaysInv == Spec => []SyncInv
  BY InitInv, StepInv, PTL DEF Spec

\* In every state of the refreshes, revisions, listings, staged files, rounds
\* and snapshots have their types, for any repository and any bounds.
THEOREM TypeCorrect == Spec => []TypeOK
  <1>1. SyncInv => TypeOK
    BY DEF SyncInv
  <1> QED
    BY <1>1, AlwaysInv, PTL

\* Whatever moves during a refresh, a pull request in scope goes to print
\* without files only when no round is left.
THEOREM BareOnlyMoving == Spec => []BareOnlyIfMoving
  <1>1. SyncInv => BareOnlyIfMoving
    BY DEF SyncInv, SyncOK, WritingOK, BareOnlyIfMoving
  <1> QED
    BY <1>1, AlwaysInv, PTL

\* A snapshot, and all of them, as the cache promises them.
View(snapshot) ==
    [generation |-> snapshot.generation,
     listing |-> snapshot.listing,
     evidence |-> [n \in DOMAIN snapshot.evidence |->
                     snapshot.evidence[n].bytes]]

CacheView(snapshots) == [i \in DOMAIN snapshots |-> View(snapshots[i])]

LEMMA OnlyActivatePublishes ==
    ASSUME [Next]_vars
    PROVE  UNCHANGED published \/ \E p \in Procs : Activate(p)
  <1>1. CASE \E n \in PRs : Push(n) \/ Open(n) \/ Close(n)
    <2>1. \A n \in PRs : Push(n) => UNCHANGED published
      BY Zenon DEF Push
    <2>2. \A n \in PRs : Open(n) => UNCHANGED published
      BY Zenon DEF Open
    <2>3. \A n \in PRs : Close(n) => UNCHANGED published
      BY Zenon DEF Close
    <2> QED
      BY <1>1, <2>1, <2>2, <2>3
  <1>2. ASSUME NEW p \in Procs, Begin(p) \/ Fail(p)
        PROVE  UNCHANGED published
    BY <1>2 DEF Begin, Fail
  <1>3. ASSUME NEW p \in Procs, SyncStep(p)
        PROVE  UNCHANGED published \/ Activate(p)
    <2>1. ReadPage(p) \/ RefuseListing(p) \/ EndListing(p)
          => UNCHANGED published
      BY DEF ReadPage, RefuseListing, EndListing
    <2>2. ASSUME NEW n \in PRs,
                 Reuse(p, n) \/ Download(p, n) \/ EndDownload(p, n)
          PROVE  UNCHANGED published
      BY <2>2 DEF Reuse, Download, EndDownload
    <2>3. EndStaging(p) \/ Reconcile(p) \/ Materialise(p) => UNCHANGED published
      BY DEF EndStaging, Reconcile, Materialise
    <2> QED
      BY <1>3, <2>1, <2>2, <2>3 DEF SyncStep
  <1>4. CASE UNCHANGED vars
    BY <1>4 DEF vars
  <1> QED
    BY <1>1, <1>2, <1>3, <1>4 DEF Next

LEMMA OneLonger ==
    ASSUME NEW k \in Nat, NEW old, NEW new,
           old = [i \in 1..k |-> old[i]], new = [i \in 1..(k + 1) |-> new[i]],
           \A i \in 1..k : new[i] = old[i]
    PROVE  Len(old) = k /\ Len(new) = k + 1 /\ new = Append(old, new[k + 1])
  <1>1. PICK V : V = {new[i] : i \in 1..(k + 1)}
    OBVIOUS
  <1>2. old \in [1..k -> V] /\ new \in [1..(k + 1) -> V] /\ new[k + 1] \in V
    <2>1. \A i \in 1..(k + 1) : new[i] \in V
      BY <1>1
    <2>2. 1..k \subseteq 1..(k + 1) /\ k + 1 \in 1..(k + 1)
      OBVIOUS
    <2>3. \A i \in 1..k : old[i] \in V
      BY <2>1, <2>2
    <2>4. old \in [1..k -> V]
      BY <2>3
    <2>5. new \in [1..(k + 1) -> V]
      BY <2>1
    <2> QED
      BY <2>1, <2>2, <2>4, <2>5
  <1>3. old \in Seq(V) /\ new \in Seq(V) /\ Len(old) = k /\ Len(new) = k + 1
    BY <1>2
  <1>4. PICK longer : longer = Append(old, new[k + 1])
    OBVIOUS
  <1>5. /\ longer \in Seq(V) /\ Len(longer) = k + 1
        /\ \A i \in 1..k : longer[i] = old[i]
        /\ longer[k + 1] = new[k + 1]
    BY <1>2, <1>3, <1>4
  <1>6. \A i \in 1..(k + 1) : longer[i] = new[i]
    <2>1. \A i \in 1..(k + 1) : i \in 1..k \/ i = k + 1
      OBVIOUS
    <2> QED
      BY <1>5, <2>1
  <1>7. longer = new
    BY <1>3, <1>5, <1>6
  <1> QED
    BY <1>3, <1>4, <1>7

\* A publication is one of the cache.
LEMMA ActivatePublishes ==
    ASSUME SyncInv, NEW p \in Procs, Activate(p)
    PROVE  Cache!Publish
  <1>1. /\ SyncOK(sync[p]) /\ sync[p].listing \in Listing
        /\ sync[p].staged \in OnSome(PRs, Evidence)
        /\ published \in Seq(Snapshot) /\ Len(published) \in Nat
    BY TypedSync DEF SyncInv, TypeOK
  <1>2. PICK listing \in Listing, staged \in OnSome(PRs, Evidence) :
           listing = sync[p].listing /\ staged = sync[p].staged
    BY <1>1
  <1>3. PICK snapshot : snapshot = [generation |-> Len(published) + 1,
                                    listing |-> listing, evidence |-> staged]
    OBVIOUS
  <1>4. WholeFor(staged, listing) /\ published' = Append(published, snapshot)
    BY <1>1, <1>2, <1>3 DEF Activate, SyncOK, WritingOK
  <1>5. PICK S : S = DOMAIN staged
    OBVIOUS
  <1>6. /\ S \in SUBSET Cache!Versioned(listing)
        /\ \A n \in S : staged[n].bytes = {listing[n]}
    <2>1. ASSUME NEW n \in S
          PROVE  /\ n \in DOMAIN listing /\ listing[n] # None
                 /\ staged[n].bytes = {listing[n]}
      <3>1. staged[n] \in Evidence
        BY <1>5, OnSomeFunctions
      <3>2. staged[n].rev # None
        BY <3>1, NoneIsNoHead DEF Evidence
      <3> QED
        BY <1>4, <1>5, <3>2 DEF WholeFor
    <2> QED
      BY <2>1 DEF Cache!Versioned
  <1>7. listing \in Cache!Listings
    BY DEF Listing, OnSome, Revision, Cache!Listings
  <1>8. PICK old : old = CacheView(published)
    OBVIOUS
  <1>9. PICK new : new = CacheView(published')
    OBVIOUS
  <1>10. PICK k \in Nat : k = Len(published)
    BY <1>1
  <1>11. /\ DOMAIN published = 1..k
         /\ DOMAIN published' = 1..(k + 1)
         /\ \A i \in 1..k : published'[i] = published[i]
         /\ published'[k + 1] = snapshot
    <2>1. snapshot \in Snapshot
      BY <1>2, <1>3, <1>10 DEF Snapshot
    <2> QED
      BY <1>1, <1>4, <1>10, <2>1
  <1>12. /\ old = [i \in 1..k |-> old[i]]
         /\ new = [i \in 1..(k + 1) |-> new[i]]
         /\ \A i \in 1..k : new[i] = old[i]
    <2>1. /\ old = [i \in 1..k |-> View(published[i])]
          /\ new = [i \in 1..(k + 1) |-> View(published'[i])]
      BY <1>8, <1>9, <1>11 DEF CacheView
    <2>2. 1..k \subseteq 1..(k + 1)
      OBVIOUS
    <2> QED
      BY <1>11, <2>1, <2>2
  <1>13. new[k + 1] = [generation |-> k + 1, listing |-> listing,
                       evidence |-> [n \in S |-> {listing[n]}]]
    <2>1. new[k + 1] = View(snapshot)
      <3>1. k + 1 \in 1..(k + 1)
        OBVIOUS
      <3> QED
        BY <1>9, <1>11, <3>1 DEF CacheView
    <2>2. /\ snapshot.generation = k + 1 /\ snapshot.listing = listing
          /\ snapshot.evidence = staged
      BY <1>3, <1>10
    <2>3. [n \in DOMAIN staged |-> staged[n].bytes] = [n \in S |-> {listing[n]}]
      BY <1>5, <1>6
    <2> QED
      BY <2>1, <2>2, <2>3 DEF View
  <1>14. Len(old) = k /\ Len(new) = k + 1 /\ new = Append(old, new[k + 1])
    BY <1>12, OneLonger
  <1>15. Cache!Snapshot(listing, S) = new[k + 1]
    <2>1. Len(CacheView(published)) = k
      BY <1>8, <1>14
    <2> QED
      BY <1>13, <2>1 DEF CacheView, View, Cache!Snapshot
  <1>16. /\ Len(new) = Len(old) + 1
         /\ new = Append(old, Cache!Snapshot(listing, S))
    BY <1>14, <1>15
  <1>17. /\ Len(CacheView(published')) = Len(CacheView(published)) + 1
         /\ CacheView(published') = Append(CacheView(published),
                                           Cache!Snapshot(listing, S))
    BY <1>8, <1>9, <1>16
  <1>18. S \in SUBSET Cache!Versioned(listing) /\ listing \in Cache!Listings
    BY <1>6, <1>7
  <1> QED
    BY Zenon, <1>17, <1>18 DEF CacheView, View, Cache!Publish

\* The refreshes implement the cache: whatever moves, fails or is killed, what
\* becomes active is the next snapshot, with the files of exactly the revisions
\* it lists.
THEOREM CacheImplemented == Spec => ImplementsCache
  <1>1. Init => Cache!CacheInit
    <2>1. ASSUME NEW f, f = << >>
          PROVE  CacheView(f) = << >>
      <3>1. DOMAIN f = {}
        BY <2>1
      <3> QED
        BY <3>1 DEF CacheView
    <2> QED
      BY <2>1 DEF Init, Cache!CacheInit, CacheView, View
  <1>2. SyncInv /\ [Next]_vars => [Cache!Publish]_(CacheView(published))
    BY OnlyActivatePublishes, ActivatePublishes DEF CacheView, View
  <1> QED
    BY <1>1, <1>2, AlwaysInv, PTL
       DEF Spec, CacheView, View, ImplementsCache, Cache!CacheSpec

------------------------------------------------------------------------------
(* Places in a list *)

\* The place of n in the list of S, newest first.
Rank(S, n) == Cardinality({m \in S : m > n})

LEMMA RankGrows ==
    ASSUME NEW T \in SUBSET Nat, IsFiniteSet(T), NEW S \in SUBSET T, NEW n
    PROVE  /\ Rank(S, n) \in Nat /\ Rank(T, n) \in Nat
           /\ Rank(S, n) <= Rank(T, n)
  <1>1. PICK newer : newer = {m \in T : m > n}
    OBVIOUS
  <1>2. PICK some : some = {m \in S : m > n}
    OBVIOUS
  <1>3. newer \subseteq T /\ some \subseteq newer
    BY <1>1, <1>2
  <1>4. IsFiniteSet(newer) /\ IsFiniteSet(some)
        /\ Cardinality(some) <= Cardinality(newer)
    BY <1>3, FS_Subset
  <1>5. Cardinality(some) \in Nat /\ Cardinality(newer) \in Nat
    BY <1>4, FS_CardinalityType
  <1> QED
    BY <1>1, <1>2, <1>4, <1>5 DEF Rank

LEMMA RankOrders ==
    ASSUME NEW S \in SUBSET Nat, IsFiniteSet(S), NEW n \in S
    PROVE  /\ Rank(S, n) \in 0..(Cardinality(S) - 1)
           /\ \A k \in S : k > n => Rank(S, k) < Rank(S, n)
  <1>1. ASSUME NEW A, NEW B \in SUBSET S, NEW k \in B, A \subseteq B, k \notin A
        PROVE  Cardinality(A) < Cardinality(B)
    <2>1. IsFiniteSet(B) /\ IsFiniteSet(A)
      BY <1>1, FS_Subset
    <2>2. Cardinality(A) \in Nat /\ Cardinality(B) \in Nat
      BY <2>1, FS_CardinalityType
    <2>3. Cardinality(A) <= Cardinality(B) /\ Cardinality(A) # Cardinality(B)
      BY <1>1, <2>1, FS_Subset
    <2> QED
      BY <2>2, <2>3
  <1>2. PICK newer : newer = {m \in S : m > n}
    OBVIOUS
  <1>3. newer \subseteq S /\ n \notin newer
    BY <1>2
  <1>4. Cardinality(newer) < Cardinality(S)
    BY <1>1, <1>3
  <1>5. Cardinality(newer) \in Nat /\ Cardinality(S) \in Nat
    BY <1>3, FS_Subset, FS_CardinalityType
  <1>6. ASSUME NEW k \in S, k > n
        PROVE  Rank(S, k) < Rank(S, n)
    <2>1. PICK least : least = {m \in S : m > k}
      OBVIOUS
    <2>2. \A m \in S : m > k => m > n
      BY <1>6
    <2>3. ~(k > k)
      OBVIOUS
    <2>4. least \subseteq newer /\ k \in newer /\ k \notin least
      BY <1>2, <1>6, <2>1, <2>2, <2>3
    <2> QED
      BY <1>1, <1>2, <1>3, <2>1, <2>4 DEF Rank
  <1> QED
    BY <1>2, <1>4, <1>5, <1>6 DEF Rank

\* Every place of the list is taken, by one.
LEMMA RanksFill ==
    ASSUME NEW S \in SUBSET Nat, IsFiniteSet(S),
           NEW r \in 0..(Cardinality(S) - 1)
    PROVE  \E n \in S : Rank(S, n) = r
  <1>1. PICK c \in Nat : c = Cardinality(S)
    BY FS_CardinalityType
  <1>2. PICK places : places = 0..(c - 1)
    OBVIOUS
  <1>3. IsFiniteSet(places) /\ Cardinality(places) = c
    <2>1. 0 \in Int /\ c - 1 \in Int
      BY <1>1
    <2> QED
      BY <1>1, <1>2, <2>1, FS_Interval
  <1>4. PICK f : f = [n \in S |-> Rank(S, n)]
    OBVIOUS
  <1>5. f \in [S -> places]
    BY <1>1, <1>2, <1>4, RankOrders
  <1>6. ASSUME NEW n \in S, NEW k \in S, f[n] = f[k]
        PROVE  n = k
    <2>1. f[n] \in Int /\ f[k] \in Int
      BY <1>2, <1>5
    <2>2. ~(n > k) /\ ~(k > n)
      BY <1>4, <1>6, <2>1, RankOrders
    <2> QED
      BY <2>2
  <1>7. f \in Injection(S, places)
    BY <1>5, <1>6 DEF Injection, IsInjective
  <1>8. f \in Surjection(S, places)
    BY <1>1, <1>3, <1>7, FS_Injection
  <1> QED
    BY <1>1, <1>2, <1>4, <1>8 DEF Surjection

\* Whoever comes after the z places that follow q sees all of them taken.
LEMMA FullPage ==
    ASSUME NEW S \in SUBSET Nat, IsFiniteSet(S), NEW q \in Nat, NEW z \in Nat,
           NEW n \in S, Rank(S, n) >= q + z
    PROVE  Cardinality({m \in S : Rank(S, m) \in q..(q + z - 1)}) = z
  <1>1. PICK c \in Nat : c = Cardinality(S)
    BY FS_CardinalityType
  <1>2. PICK page : page = {m \in S : Rank(S, m) \in q..(q + z - 1)}
    OBVIOUS
  <1>3. PICK places : places = q..(q + z - 1)
    OBVIOUS
  <1>4. IsFiniteSet(places) /\ Cardinality(places) = z
    <2>1. q \in Int /\ q + z - 1 \in Int
      OBVIOUS
    <2> QED
      BY <1>3, <2>1, FS_Interval
  <1>5. PICK f : f = [m \in page |-> Rank(S, m)]
    OBVIOUS
  <1>6. f \in [page -> places]
    BY <1>2, <1>3, <1>5
  <1>7. ASSUME NEW m \in page, NEW k \in page, f[m] = f[k]
        PROVE  m = k
    <2>1. f[m] \in Int /\ f[k] \in Int /\ m \in S /\ k \in S
      BY <1>2, <1>3, <1>6
    <2>2. ~(m > k) /\ ~(k > m)
      BY <1>5, <1>7, <2>1, RankOrders
    <2> QED
      BY <2>1, <2>2
  <1>8. f \in Injection(page, places)
    BY <1>6, <1>7 DEF Injection, IsInjective
  <1>9. ASSUME NEW r \in places
        PROVE  \E m \in page : f[m] = r
    <2>1. Rank(S, n) \in 0..(c - 1)
      BY <1>1, RankOrders
    <2>2. r \in 0..(c - 1)
      BY <1>3, <2>1
    <2>3. PICK m \in S : Rank(S, m) = r
      BY <1>1, <2>2, RanksFill
    <2> QED
      BY <1>2, <1>3, <1>5, <2>3
  <1>10. f \in Surjection(page, places)
    BY <1>6, <1>9 DEF Surjection
  <1> QED
    BY <1>2, <1>4, <1>8, <1>10, FS_Injection

------------------------------------------------------------------------------
(* Who is missed by a listing *)

\* Between two pages: those who stayed open and are not listed yet come after
\* the pages read, unless somebody closed.
ListedSoFar(s) ==
    s.phase = "confirming" /\ s.page > 0 =>
        /\ s.steady \subseteq open
        /\ ~s.shifted => \A n \in s.steady \ DOMAIN s.part :
                            Rank(open, n) >= s.page * PageSize

ListedWhole(s) ==
    s.phase = "writing" /\ ~s.shifted => s.steady \subseteq DOMAIN s.listing

ListingOK(s) ==
    /\ s.phase = "files" => s.page = 0
    /\ ListedSoFar(s)
    /\ ListedWhole(s)

NoneMissed == \A p \in Procs : ListingOK(sync[p])

LEMMA OpenIsFinite ==
    ASSUME TypeOK
    PROVE  open \in SUBSET Nat /\ IsFiniteSet(open)
  BY NumbersAssumption, FS_Subset DEF TypeOK

\* A page, by the places of its pull requests.
LEMMA PageIs ==
    ASSUME NEW k \in Nat, NEW q, q = k * PageSize
    PROVE  /\ q \in Nat
           /\ (k + 1) * PageSize = q + PageSize
           /\ Page(k) = {n \in open : Rank(open, n) \in q..(q + PageSize - 1)}
  <1>1. q \in Nat /\ (k + 1) * PageSize = q + PageSize
    BY BoundsAssumption
  <1>2. Page(k) = {n \in open : Rank(open, n) \in
                                  k * PageSize .. (k + 1) * PageSize - 1}
    BY Zenon DEF Page, Rank
  <1>3. PICK last : last = (k + 1) * PageSize
    OBVIOUS
  <1>4. Page(k) = {n \in open : Rank(open, n) \in q .. last - 1}
    BY Zenon, <1>2, <1>3
  <1>5. last - 1 = q + PageSize - 1
    BY <1>1, <1>3, BoundsAssumption
  <1> QED
    BY Zenon, <1>1, <1>4, <1>5

\* Who stayed open and is not on the pages read, the one that has just
\* arrived included, has a whole page of others before him.
LEMMA StillAwaited ==
    ASSUME SyncInv, NoneMissed, NEW p \in Procs,
           sync[p].phase = "confirming", ~sync[p].shifted,
           NEW n \in Steady(p) \ DOMAIN Received(p)
    PROVE  /\ n \in open
           /\ Rank(open, n) >= sync[p].page * PageSize + PageSize
  <1>1. /\ open \in SUBSET Nat /\ IsFiniteSet(open)
        /\ sync[p].page \in Nat
        /\ DOMAIN Received(p) = DOMAIN sync[p].part \cup NextPage(p)
    BY OpenIsFinite, TypedSync, ReceivedIs DEF SyncInv
  <1>2. ListedSoFar(sync[p])
    BY DEF NoneMissed, ListingOK
  <1>3. PageSize \in Nat /\ Rank(open, n) \in Nat
    BY <1>1, BoundsAssumption, RankGrows
  <1>4. PICK k \in Nat, q \in Nat : k = sync[p].page /\ q = k * PageSize
    BY <1>1, <1>3
  <1>5. n \in open /\ Rank(open, n) >= q
    <2>1. CASE k = 0
      <3>1. q = 0
        BY <1>3, <1>4, <2>1
      <3> QED
        BY <1>3, <1>4, <2>1, <3>1 DEF Steady
    <2>2. CASE k > 0
      BY <1>1, <1>2, <1>4, <2>2 DEF ListedSoFar, Steady
    <2> QED
      BY <2>1, <2>2
  <1>6. NextPage(p) = {m \in open : Rank(open, m) \in q..(q + PageSize - 1)}
    BY <1>4, PageIs DEF NextPage
  <1>7. Rank(open, n) \notin q..(q + PageSize - 1)
    BY <1>1, <1>5, <1>6
  <1> QED
    BY <1>3, <1>4, <1>5, <1>7

\* So the last page leaves nobody out.
LEMMA LastPageIsLast ==
    ASSUME SyncInv, NoneMissed, NEW p \in Procs,
           sync[p].phase = "confirming", ~sync[p].shifted, LastPage(p)
    PROVE  Steady(p) \subseteq DOMAIN Received(p)
  <1> SUFFICES ASSUME NEW n \in Steady(p) \ DOMAIN Received(p)
               PROVE  FALSE
    OBVIOUS
  <1>1. /\ open \in SUBSET Nat /\ IsFiniteSet(open)
        /\ sync[p].page \in Nat /\ PageSize \in Nat
    BY OpenIsFinite, TypedSync, BoundsAssumption DEF SyncInv
  <1>2. PICK k \in Nat, q \in Nat : k = sync[p].page /\ q = k * PageSize
    BY <1>1
  <1>3. n \in open /\ Rank(open, n) >= q + PageSize
    BY <1>2, StillAwaited
  <1>4. NextPage(p) = {m \in open : Rank(open, m) \in q..(q + PageSize - 1)}
    BY <1>2, PageIs DEF NextPage
  <1>5. Cardinality({m \in open : Rank(open, m) \in q..(q + PageSize - 1)})
        = PageSize
    BY <1>1, <1>3, FullPage
  <1>6. Cardinality(NextPage(p)) = PageSize
    BY Zenon, <1>4, <1>5
  <1> QED
    BY <1>1, <1>6 DEF LastPage

\* A step of process p alone.
LEMMA OthersStay ==
    ASSUME SyncInv, NoneMissed, NEW p \in Procs, NEW s, ListingOK(s),
           sync' = [sync EXCEPT ![p] = s], UNCHANGED open
    PROVE  NoneMissed'
  <1>1. sync \in [Procs -> Sync]
    BY DEF SyncInv, TypeOK
  <1>2. ASSUME NEW q \in Procs
        PROVE  ListingOK(sync'[q])
    BY <1>1 DEF NoneMissed
  <1>3. ASSUME NEW q \in Procs
        PROVE  ListingOK(sync[q])'
    BY <1>2 DEF ListingOK, ListedSoFar, ListedWhole
  <1> QED
    BY <1>3 DEF NoneMissed

LEMMA ReadPageMissesNone ==
    ASSUME SyncInv, NoneMissed, NEW p \in Procs, ReadPage(p)
    PROVE  NoneMissed'
  <1>1. sync[p] \in Sync /\ sync[p].page \in Nat /\ PageSize \in Nat
    BY TypedSync, BoundsAssumption DEF SyncInv
  <1>2. PICK r, f, steady :
           /\ r \in Sync /\ r = sync[p] /\ f = Received(p)
           /\ steady = IF sync[p].phase = "confirming" THEN Steady(p) ELSE {}
    BY <1>1
  <1>3. PICK s : s = [r EXCEPT !.part = f, !.page = r.page + 1,
                               !.steady = steady]
    OBVIOUS
  <1>4. sync' = [sync EXCEPT ![p] = s]
    BY <1>1, <1>2, <1>3, TypedSync DEF ReadPage
  <1>5. /\ s.phase = r.phase /\ s.part = f /\ s.page = r.page + 1
        /\ s.steady = steady /\ s.shifted = r.shifted
    BY <1>3 DEF Sync
  <1>6. r.phase \in {"listing", "confirming"} /\ UNCHANGED open
    BY <1>2 DEF ReadPage, github
  <1>7. CASE r.phase = "confirming"
    <2>1. Steady(p) \subseteq open
      BY <1>1, <1>2, <1>7 DEF Steady, NoneMissed, ListingOK, ListedSoFar
    <2>2. (r.page + 1) * PageSize = r.page * PageSize + PageSize
      BY <1>1, <1>2
    <2>3. ASSUME ~r.shifted, NEW n \in Steady(p) \ DOMAIN f
          PROVE  Rank(open, n) >= (r.page + 1) * PageSize
      BY <1>2, <1>7, <2>2, <2>3, StillAwaited
    <2>4. ListedSoFar(s)
      BY <1>2, <1>5, <1>7, <2>1, <2>3 DEF ListedSoFar
    <2>5. ListingOK(s)
      BY <1>5, <1>7, <2>4 DEF ListingOK, ListedWhole
    <2> QED
      BY <1>4, <1>6, <2>5, OthersStay
  <1>8. CASE r.phase = "listing"
    <2>1. ListingOK(s)
      BY <1>5, <1>8 DEF ListingOK, ListedSoFar, ListedWhole
    <2> QED
      BY <1>4, <1>6, <2>1, OthersStay
  <1> QED
    BY <1>6, <1>7, <1>8

LEMMA MaterialiseMissesNone ==
    ASSUME SyncInv, NoneMissed, NEW p \in Procs, Materialise(p)
    PROVE  NoneMissed'
  <1>1. sync[p] \in Sync
    BY TypedSync DEF SyncInv
  <1>2. PICK r, e, f, u, k, steady :
           /\ r \in Sync /\ r = sync[p] /\ e = << >> /\ f = Received(p)
           /\ u = Usable(sync[p].staged, Received(p))
           /\ k = IF published = << >> THEN 1
                  ELSE published[Len(published)].generation + 1
           /\ steady = Steady(p)
    BY <1>1
  <1>3. PICK s : s = [r EXCEPT !.phase = "writing", !.part = e, !.page = 0,
                               !.listing = f, !.staged = u, !.generation = k,
                               !.steady = steady]
    OBVIOUS
  <1>4. sync' = [sync EXCEPT ![p] = s]
    <2>1. sync' = [sync EXCEPT ![p].phase = "writing", ![p].part = e,
                               ![p].page = 0, ![p].listing = f,
                               ![p].staged = u, ![p].generation = k,
                               ![p].steady = steady]
      BY <1>2 DEF Materialise
    <2> QED
      BY <1>2, <1>3, <2>1, TypedSync DEF SyncInv
  <1>5. /\ s.phase = "writing" /\ s.listing = f
        /\ s.steady = steady /\ s.shifted = r.shifted
    BY <1>3 DEF Sync
  <1>6. r.phase = "confirming" /\ LastPage(p) /\ UNCHANGED open
    BY <1>2 DEF Materialise, Answered, github
  <1>7. ~r.shifted => steady \subseteq DOMAIN f
    BY <1>2, <1>6, LastPageIsLast
  <1>8. ListingOK(s)
    BY <1>5, <1>7 DEF ListingOK, ListedSoFar, ListedWhole
  <1> QED
    BY <1>4, <1>6, <1>8, OthersStay

\* A listing ends ...
LEMMA ListingsMissNone ==
    ASSUME SyncInv, NoneMissed, NEW p \in Procs, EndListing(p) \/ Reconcile(p)
    PROVE  NoneMissed'
  <1>1. PICK f, scope, round :
           /\ sync' = [sync EXCEPT ![p] = Staging(sync[p], f, scope, round)]
           /\ UNCHANGED open
    BY DEF EndListing, Reconcile, github
  <1>2. PICK s : s = Staging(sync[p], f, scope, round)
    OBVIOUS
  <1>3. s.phase = "files" /\ s.page = 0
    BY <1>2, TypedSync DEF SyncInv, Staging, Sync
  <1>4. ListingOK(s)
    BY <1>3 DEF ListingOK, ListedSoFar, ListedWhole
  <1> QED
    BY <1>1, <1>2, <1>4, OthersStay

LEMMA StillStaging ==
    ASSUME NoneMissed, NEW p \in Procs, sync[p].phase = "files",
           NEW s, s.phase \in {"files", "confirming"}, s.page = sync[p].page
    PROVE  ListingOK(s)
  <1>1. s.page = 0
    BY DEF NoneMissed, ListingOK
  <1> QED
    BY <1>1 DEF ListingOK, ListedSoFar, ListedWhole

\* ... and its files are fetched, one by one.
LEMMA StagingMissesNone ==
    ASSUME SyncInv, NoneMissed, NEW p \in Procs,
           \/ \E n \in PRs : Reuse(p, n) \/ Download(p, n) \/ EndDownload(p, n)
           \/ EndStaging(p)
    PROVE  NoneMissed'
  <1>1. sync \in [Procs -> Sync] /\ sync[p] \in Sync
    BY TypedSync DEF SyncInv
  <1>2. ASSUME NEW n \in PRs, Reuse(p, n)
        PROVE  NoneMissed'
    <2>1. sync[p].phase = "files" /\ UNCHANGED open
      BY Zenon, <1>2 DEF Reuse, github
    <2>2. PICK f, t : sync' = [sync EXCEPT ![p].staged = f, ![p].todo = t]
      BY Zenon, <1>2 DEF Reuse
    <2>3. PICK s : s = [sync[p] EXCEPT !.staged = f, !.todo = t]
      OBVIOUS
    <2>4. sync' = [sync EXCEPT ![p] = s]
      BY <1>1, <2>2, <2>3
    <2>5. s.phase \in {"files", "confirming"} /\ s.page = sync[p].page
      BY <1>1, <2>1, <2>3 DEF Sync
    <2>6. ListingOK(s)
      BY <2>1, <2>5, StillStaging
    <2> QED
      BY <2>1, <2>4, <2>6, OthersStay
  <1>3. ASSUME NEW n \in PRs, Download(p, n)
        PROVE  NoneMissed'
    <2>1. sync[p].phase = "files" /\ UNCHANGED open
      BY Zenon, <1>3 DEF Download, github
    <2>2. PICK f, d : sync' = [sync EXCEPT ![p].reading = d, ![p].staged = f]
      BY Zenon, <1>3 DEF Download
    <2>3. PICK s : s = [sync[p] EXCEPT !.reading = d, !.staged = f]
      OBVIOUS
    <2>4. sync' = [sync EXCEPT ![p] = s]
      BY <1>1, <2>2, <2>3
    <2>5. s.phase \in {"files", "confirming"} /\ s.page = sync[p].page
      BY <1>1, <2>1, <2>3 DEF Sync
    <2>6. ListingOK(s)
      BY <2>1, <2>5, StillStaging
    <2> QED
      BY <2>1, <2>4, <2>6, OthersStay
  <1>4. ASSUME NEW n \in PRs, EndDownload(p, n)
        PROVE  NoneMissed'
    <2>1. sync[p].phase = "files" /\ UNCHANGED open
      BY Zenon, <1>4 DEF EndDownload, github
    <2>2. PICK f, d, t : sync' = [sync EXCEPT ![p].staged = f,
                                             ![p].reading = d, ![p].todo = t]
      BY Zenon, <1>4 DEF EndDownload
    <2>3. PICK s : s = [sync[p] EXCEPT !.staged = f, !.reading = d, !.todo = t]
      OBVIOUS
    <2>4. sync' = [sync EXCEPT ![p] = s]
      BY <1>1, <2>2, <2>3
    <2>5. s.phase \in {"files", "confirming"} /\ s.page = sync[p].page
      BY <1>1, <2>1, <2>3 DEF Sync
    <2>6. ListingOK(s)
      BY <2>1, <2>5, StillStaging
    <2> QED
      BY <2>1, <2>4, <2>6, OthersStay
  <1>5. CASE EndStaging(p)
    <2>1. sync[p].phase = "files" /\ UNCHANGED open
      BY Zenon, <1>5 DEF EndStaging, github
    <2>2. PICK f : sync' = [sync EXCEPT ![p].phase = "confirming",
                                        ![p].staged = f]
      BY Zenon, <1>5 DEF EndStaging
    <2>3. PICK s : s = [sync[p] EXCEPT !.phase = "confirming", !.staged = f]
      OBVIOUS
    <2>4. sync' = [sync EXCEPT ![p] = s]
      BY <1>1, <2>2, <2>3
    <2>5. s.phase \in {"files", "confirming"} /\ s.page = sync[p].page
      BY <1>1, <2>3 DEF Sync
    <2>6. ListingOK(s)
      BY <2>1, <2>5, StillStaging
    <2> QED
      BY <2>1, <2>4, <2>6, OthersStay
  <1> QED
    BY <1>2, <1>3, <1>4, <1>5

\* Who opens, closes or is pushed to between two pages.
LEMMA MovesMissNone ==
    ASSUME SyncInv, NoneMissed, NEW n \in PRs, Push(n) \/ Open(n) \/ Close(n)
    PROVE  NoneMissed'
  <1>1. TypeOK /\ sync \in [Procs -> Sync]
    BY DEF SyncInv, TypeOK
  <1>2. CASE Push(n)
    <2>1. UNCHANGED <<open, sync>>
      BY Zenon, <1>2 DEF Push
    <2> QED
      BY <2>1 DEF NoneMissed, ListingOK, ListedSoFar, ListedWhole, Rank
  <1>3. CASE Open(n)
    <2>1. open' = open \cup {n} /\ UNCHANGED sync
      BY Zenon, <1>3 DEF Open
    <2>2. PICK new : new = open'
      OBVIOUS
    <2>3. new \in SUBSET Nat /\ IsFiniteSet(new) /\ open \in SUBSET new
      <3>1. new \subseteq PRs /\ open \in SUBSET new
        BY <1>1, <2>1, <2>2 DEF TypeOK
      <3> QED
        BY <3>1, NumbersAssumption, FS_Subset
    <2>4. ASSUME NEW p \in Procs
          PROVE  ListingOK(sync[p])'
      <3>1. PICK s \in Sync, k \in Nat : s = sync[p] /\ k = s.page * PageSize
        BY <1>1, TypedSync, BoundsAssumption
      <3>2. ListingOK(s)
        BY <3>1 DEF NoneMissed
      <3>3. ASSUME NEW m, Rank(open, m) >= k
            PROVE  Rank(new, m) >= k
        BY <2>3, <3>3, RankGrows
      <3>4. ListedSoFar(s)'
        BY <2>2, <2>3, <3>1, <3>2, <3>3 DEF ListingOK, ListedSoFar
      <3>5. ListingOK(s)'
        BY <3>2, <3>4 DEF ListingOK, ListedWhole
      <3> QED
        BY <2>1, <3>1, <3>5 DEF ListingOK, ListedSoFar, ListedWhole
    <2> QED
      BY <2>4 DEF NoneMissed
  <1>4. CASE Close(n)
    <2> DEFINE closed(q) ==
            [sync[q] EXCEPT !.steady = sync[q].steady \ {n},
                            !.shifted = sync[q].shifted \/ Confirming(q)]
    <2>1. sync' = [q \in Procs |-> closed(q)] /\ open' = open \ {n}
      BY Zenon, <1>4 DEF Close
    <2> HIDE DEF closed
    <2>2. ASSUME NEW p \in Procs
          PROVE  ListingOK(sync[p])'
      <3>1. PICK r \in Sync : r = sync[p] /\ ListingOK(r)
        BY <1>1 DEF NoneMissed
      <3>2. PICK x \in BOOLEAN : x <=> r.shifted \/ Confirming(p)
        OBVIOUS
      <3>3. PICK s : /\ s = closed(p)
                     /\ s = [r EXCEPT !.steady = r.steady \ {n}, !.shifted = x]
        <4>1. r.shifted \in BOOLEAN /\ Confirming(p) \in BOOLEAN
          BY <3>1 DEF Sync, Confirming
        <4>2. x = (r.shifted \/ Confirming(p))
          BY <3>2
        <4> QED
          BY Zenon, <3>1, <4>2 DEF closed
      <3>4. sync'[p] = s
        BY <2>1, <3>3
      <3>5. /\ s.phase = r.phase /\ s.page = r.page /\ s.part = r.part
            /\ s.listing = r.listing /\ s.steady = r.steady \ {n}
            /\ s.shifted = x
        BY <3>3 DEF Sync
      <3>6. r.phase = "confirming" /\ r.page > 0 => x
        BY <3>1, <3>2 DEF Confirming
      <3>7. ~x => ~r.shifted
        BY <3>2
      <3>8. ListingOK(s)'
        BY <2>1, <3>1, <3>5, <3>6, <3>7
           DEF ListingOK, ListedSoFar, ListedWhole
      <3> QED
        BY <3>4, <3>8 DEF ListingOK, ListedSoFar, ListedWhole
    <2> QED
      BY <2>2 DEF NoneMissed
  <1> QED
    BY <1>2, <1>3, <1>4

\* A refresh that ends or begins has read no page.
LEMMA EndsMissNone ==
    ASSUME SyncInv, NoneMissed, NEW p \in Procs,
           Begin(p) \/ Fail(p) \/ RefuseListing(p) \/ Activate(p)
    PROVE  NoneMissed'
  <1>1. CASE Begin(p)
    <2>1. PICK k, l :
             /\ sync' = [sync EXCEPT ![p] = [Idle EXCEPT !.phase = "listing",
                                                         !.base = k,
                                                         !.limit = l]]
             /\ UNCHANGED open
      BY Zenon, <1>1 DEF Begin, github
    <2>2. PICK s : s = [Idle EXCEPT !.phase = "listing", !.base = k,
                                    !.limit = l]
      OBVIOUS
    <2>3. s.phase = "listing"
      BY <2>2 DEF Idle
    <2>4. ListingOK(s)
      BY <2>3 DEF ListingOK, ListedSoFar, ListedWhole
    <2> QED
      BY <2>1, <2>2, <2>4, OthersStay
  <1>2. CASE Fail(p) \/ RefuseListing(p) \/ Activate(p)
    <2>1. sync' = [sync EXCEPT ![p] = Idle] /\ UNCHANGED open
      BY <1>2 DEF Fail, RefuseListing, Activate, Release, github
    <2>2. ListingOK(Idle)
      BY IdleIsTyped DEF ListingOK, ListedSoFar, ListedWhole
    <2> QED
      BY <2>1, <2>2, OthersStay
  <1> QED
    BY <1>1, <1>2

\* Whatever opens, closes or is pushed to while the pages are read, a pull
\* request that stayed open is in the list to be published, unless another one
\* closed between two pages of it.
THEOREM MissedOnlyShifted == Spec => []MissedOnlyByShift
  <1>1. Init => NoneMissed
    <2> SUFFICES ASSUME Init, NEW p \in Procs
                 PROVE  ListingOK(sync[p])
      BY DEF NoneMissed
    <2>1. sync[p] = Idle
      BY DEF Init
    <2> QED
      BY <2>1, IdleIsTyped DEF ListingOK, ListedSoFar, ListedWhole
  <1>2. SyncInv /\ NoneMissed /\ [Next]_vars => NoneMissed'
    <2> SUFFICES ASSUME SyncInv, NoneMissed, [Next]_vars
                 PROVE  NoneMissed'
      OBVIOUS
    <2>1. ASSUME NEW n \in PRs, Push(n) \/ Open(n) \/ Close(n)
          PROVE  NoneMissed'
      BY <2>1, MovesMissNone
    <2>2. ASSUME NEW p \in Procs, Begin(p) \/ SyncStep(p) \/ Fail(p)
          PROVE  NoneMissed'
      BY <2>2, EndsMissNone, ReadPageMissesNone, ListingsMissNone,
         StagingMissesNone, MaterialiseMissesNone DEF SyncStep
    <2>3. CASE UNCHANGED vars
      BY <2>3 DEF vars, github, NoneMissed, ListingOK, ListedSoFar,
                  ListedWhole, Rank
    <2> QED
      BY <2>1, <2>2, <2>3 DEF Next
  <1>3. NoneMissed => MissedOnlyByShift
    BY DEF NoneMissed, ListingOK, ListedWhole, MissedOnlyByShift
  <1> QED
    BY <1>1, <1>2, <1>3, AlwaysInv, PTL DEF Spec

==============================================================================
