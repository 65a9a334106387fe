----------------------------- MODULE SnapshotSync -----------------------------
(***************************************************************************)
(* The GitHub snapshot service (triage/gh.py): processes that refresh the  *)
(* cache of one repository while its pull requests are pushed to, closed   *)
(* and reopened.                                                           *)
(*                                                                         *)
(* GitHub answers one page at a time, and names a pull request by its      *)
(* number, not by a revision: what a listing says may be old when its last *)
(* page arrives, and the files of a pull request are whatever it holds     *)
(* when each page of them is read.  A refresh lists, downloads, lists      *)
(* again, and downloads again what moved, a bounded number of times; what  *)
(* still moves is published without files.                                 *)
(*                                                                         *)
(* The revisions of a pull request are numbered in the order of its        *)
(* pushes: a head is not pushed away and later pushed back.                *)
(***************************************************************************)
EXTENDS Naturals, FiniteSets, Sequences

CONSTANTS
    PRs,            \* numbers of the pull requests, in order of creation
    Procs,          \* threads and processes that sync this repository
    None,           \* "no revision known", "nobody"
    MaxHead,        \* bound: the last head of each pull request
    Unversioned,    \* heads, <<number, head>>, listed without a SHA pair
    Limits,         \* the caps on file downloads in use; 0 is none
    PageSize,       \* pull requests per page of a listing (100)
    MAX_RECONCILIATION_ROUNDS,
    MaxPublished    \* bound: snapshots

ASSUME NumbersAssumption == PRs \subseteq Nat /\ IsFiniteSet(PRs)
ASSUME NobodyAssumption == None \notin Nat /\ None \notin Procs
ASSUME BoundsAssumption ==
    /\ MaxHead \in [PRs -> Nat \ {0}]
    /\ Limits \subseteq Nat
    /\ PageSize \in Nat \ {0}
    /\ MAX_RECONCILIATION_ROUNDS \in Nat
    /\ MaxPublished \in Nat

VARIABLES
    head,           \* GitHub: the head each pull request has now
    open,           \* GitHub: the open pull requests
    published,      \* the snapshots on disk, the last one active
    lock,           \* who holds .sync.lock
    sync            \* the refresh of each process

github == <<head, open>>
vars == <<github, published, lock, sync>>

------------------------------------------------------------------------------
(* Types *)

Heads == UNION {1..MaxHead[n] : n \in PRs}

\* The revision an item of a listing carries.
Revision == Heads \cup {None}

OnSome(S, V) == UNION {[D -> V] : D \in SUBSET S}

Listing == OnSome(PRs, Revision)

\* Files for a revision, and the heads whose pages they really are.
Evidence == [rev : Heads, bytes : SUBSET Heads]

Snapshot == [generation : Nat, listing : Listing,
             evidence : OnSome(PRs, Evidence)]

Sync == [phase : {"idle", "listing", "files", "confirming", "writing"},
         base : Nat,                \* the snapshot active at the start, or 0
         limit : Nat,
         scope : SUBSET PRs,        \* scope_numbers; all without a limit
         round : 0..MAX_RECONCILIATION_ROUNDS,
         page : Nat,                \* the page of the listing to read next
         part : Listing,            \* the pages read so far
         listing : Listing,         \* the listing being staged, then the final
         todo : SUBSET PRs,         \* numbers still to be staged
         reading : OnSome(PRs, SUBSET Heads),   \* downloads not yet complete
         staged : OnSome(PRs, Evidence),
         generation : Nat,          \* of the snapshot to be published
         steady : SUBSET PRs,       \* open since the confirmation began ...
         shifted : BOOLEAN]         \* ... and did any close since (auxiliary)

TypeOK ==
    /\ head \in [PRs -> Heads]
    /\ open \subseteq PRs
    /\ published \in Seq(Snapshot)
    /\ lock \in Procs \cup {None}
    /\ sync \in [Procs -> Sync]

------------------------------------------------------------------------------

Idle == [phase |-> "idle", base |-> 0, limit |-> 0, scope |-> {}, round |-> 0,
         page |-> 0, part |-> << >>, listing |-> << >>, todo |-> {},
         reading |-> << >>, staged |-> << >>, generation |-> 0,
         steady |-> {}, shifted |-> FALSE]

Init ==
    /\ head = [n \in PRs |-> 1]
    /\ open \in SUBSET PRs
    /\ published = << >>
    /\ lock = None
    /\ sync = [p \in Procs |-> Idle]

Put(f, n, v) == [m \in DOMAIN f \cup {n} |-> IF m = n THEN v ELSE f[m]]

Drop(f, n) == [m \in DOMAIN f \ {n} |-> f[m]]

------------------------------------------------------------------------------
(* GitHub moves at any time *)

Push(n) ==
    /\ head[n] < MaxHead[n]
    /\ head' = [head EXCEPT ![n] = @ + 1]
    /\ UNCHANGED <<open, published, lock, sync>>

Open(n) ==
    /\ n \notin open
    /\ open' = open \cup {n}
    /\ UNCHANGED <<head, published, lock, sync>>

Confirming(p) == sync[p].phase = "confirming" /\ sync[p].page > 0

Close(n) ==
    /\ n \in open
    /\ open' = open \ {n}
    /\ sync' = [p \in Procs |->
                  [sync[p] EXCEPT !.steady = @ \ {n},
                                  !.shifted = @ \/ Confirming(p)]]
    /\ UNCHANGED <<head, published, lock>>

------------------------------------------------------------------------------
(* _sync_lock, and how a refresh begins and fails *)

\* Mutant: threads and processes do not wait for each other.
NobodyWaits == TRUE

Free == lock = None

Begin(p) ==
    /\ sync[p].phase = "idle"
    /\ Free
    /\ Len(published) < MaxPublished
    /\ lock' = p
    /\ \E limit \in Limits :
          sync' = [sync EXCEPT ![p] = [Idle EXCEPT !.phase = "listing",
                                                  !.base = Len(published),
                                                  !.limit = limit]]
    /\ UNCHANGED <<github, published>>

Release(p) ==
    /\ lock' = None
    /\ sync' = [sync EXCEPT ![p] = Idle]

\* A request, a check or a write fails, or the process is killed: the active
\* snapshot stays, and nothing refers to what was staged.
Fail(p) ==
    /\ sync[p].phase # "idle"
    /\ Release(p)
    /\ UNCHANGED <<github, published>>

------------------------------------------------------------------------------
(* request_listing: the open pull requests, newest first, page by page *)

\* The k-th page of the open list as it is now.
Page(k) ==
    {n \in open : Cardinality({m \in open : m > n}) \in
                      k * PageSize .. (k + 1) * PageSize - 1}

NextPage(p) == Page(sync[p].page)

Listed(n) == IF <<n, head[n]>> \in Unversioned THEN None ELSE head[n]

\* _validate_pulls_listing refuses a list that names a number twice.
Repeats(p) == NextPage(p) \cap DOMAIN sync[p].part # {}

\* Mutant: a page that is just full is taken for the last one.
FullIsLast(p) == Cardinality(NextPage(p)) <= PageSize

\* Only a page that is not full is the last one.
LastPage(p) == Cardinality(NextPage(p)) < PageSize

Received(p) ==
    [n \in DOMAIN sync[p].part \cup NextPage(p) |->
        IF n \in NextPage(p) THEN Listed(n) ELSE sync[p].part[n]]

Steady(p) == IF sync[p].page = 0 THEN open ELSE sync[p].steady

ReadPage(p) ==
    /\ sync[p].phase \in {"listing", "confirming"}
    /\ ~Repeats(p) /\ ~LastPage(p)
    /\ sync' = [sync EXCEPT ![p].part = Received(p),
                            ![p].page = @ + 1,
                            ![p].steady = IF sync[p].phase = "confirming"
                                          THEN Steady(p) ELSE {}]
    /\ UNCHANGED <<github, published, lock>>

RefuseListing(p) ==
    /\ sync[p].phase \in {"listing", "confirming"}
    /\ Repeats(p)
    /\ Release(p)
    /\ UNCHANGED <<github, published>>

\* The whole list has arrived.
Answered(p, phase) == sync[p].phase = phase /\ ~Repeats(p) /\ LastPage(p)

------------------------------------------------------------------------------
(* Staging: a listing, once or in rounds *)

\* The first `limit` of the first listing, for the whole refresh.
ScopeOf(listing, limit) ==
    IF limit = 0 THEN PRs
    ELSE {n \in DOMAIN listing :
             Cardinality({m \in DOMAIN listing : m > n}) < limit}

Staging(s, listing, scope, round) ==
    [s EXCEPT !.phase = "files", !.listing = listing, !.scope = scope,
              !.round = round, !.todo = DOMAIN listing \cap scope,
              !.part = << >>, !.page = 0, !.steady = {}, !.shifted = FALSE]

EndListing(p) ==
    /\ Answered(p, "listing")
    /\ sync' = [sync EXCEPT ![p] =
          Staging(@, Received(p), ScopeOf(Received(p), @.limit), 0)]
    /\ UNCHANGED <<github, published, lock>>

BaseEvidence(s) ==
    IF s.base = 0 THEN << >> ELSE published[s.base].evidence

\* Mutant: files count whatever revision they are of.
HasAny(f, n, rev) == n \in DOMAIN f

\* Files for exactly this revision; an unknown one has none.
Has(f, n, rev) == n \in DOMAIN f /\ f[n].rev = rev

\* What was staged in this refresh comes first, then the active snapshot.
Source(s, n) ==
    IF Has(s.staged, n, s.listing[n]) THEN s.staged ELSE BaseEvidence(s)

AtHand(s, n) == Has(Source(s, n), n, s.listing[n])

\* stage_one without a download.
Reuse(p, n) ==
    /\ sync[p].phase = "files"
    /\ n \in sync[p].todo \ DOMAIN sync[p].reading
    /\ sync[p].listing[n] = None \/ AtHand(sync[p], n)
    /\ sync' = [sync EXCEPT
                  ![p].staged = IF AtHand(sync[p], n)
                                THEN Put(@, n, Source(sync[p], n)[n])
                                ELSE Drop(@, n),
                  ![p].todo = @ \ {n}]
    /\ UNCHANGED <<github, published, lock>>

\* stage_one asks for the files of number n, whose head may be another by
\* now: the first page ...
Download(p, n) ==
    /\ sync[p].phase = "files"
    /\ n \in sync[p].todo \ DOMAIN sync[p].reading
    /\ sync[p].listing[n] # None /\ ~AtHand(sync[p], n)
    /\ sync' = [sync EXCEPT ![p].reading = Put(@, n, {head[n]}),
                            ![p].staged = Drop(@, n)]
    /\ UNCHANGED <<github, published, lock>>

\* ... and the others, under the revision that was listed.
EndDownload(p, n) ==
    /\ sync[p].phase = "files"
    /\ n \in DOMAIN sync[p].reading
    /\ sync' = [sync EXCEPT
                  ![p].staged =
                      Put(@, n, [rev |-> sync[p].listing[n],
                                 bytes |-> sync[p].reading[n] \cup {head[n]}]),
                  ![p].reading = Drop(@, n),
                  ![p].todo = @ \ {n}]
    /\ UNCHANGED <<github, published, lock>>

\* Numbers beyond the limit, which are never downloaded.
Beyond(s) == DOMAIN s.listing \ s.scope

EndStaging(p) ==
    /\ sync[p].phase = "files"
    /\ sync[p].todo = {}
    /\ sync' = [sync EXCEPT
                  ![p].phase = "confirming",
                  ![p].staged =
                      [n \in {m \in DOMAIN @ \cup Beyond(sync[p]) :
                                m \in Beyond(sync[p]) => AtHand(sync[p], m)} |->
                          IF n \in Beyond(sync[p])
                          THEN Source(sync[p], n)[n] ELSE @[n]]]
    /\ UNCHANGED <<github, published, lock>>

------------------------------------------------------------------------------
(* Confirmation, reconciliation and publication *)

\* Mutants: one round too many; only numbers known before count.
OneMoreRound(s, confirmed) ==
    /\ s.round <= MAX_RECONCILIATION_ROUNDS
    /\ \E n \in DOMAIN confirmed \cap s.scope :
          n \in DOMAIN s.listing => s.listing[n] # confirmed[n]
KnownMoved(s, confirmed) ==
    /\ s.round < MAX_RECONCILIATION_ROUNDS
    /\ \E n \in DOMAIN confirmed \cap s.scope \cap DOMAIN s.listing :
          s.listing[n] # confirmed[n]

\* revision_changed: a number in scope is new or has moved; and rounds are
\* left.
Moved(s, confirmed) ==
    /\ s.round < MAX_RECONCILIATION_ROUNDS
    /\ \E n \in DOMAIN confirmed \cap s.scope :
          n \in DOMAIN s.listing => s.listing[n] # confirmed[n]

\* Mutant: the rounds are not counted.
Uncounted(s) == s.round

Counted(s) == s.round + 1

Reconcile(p) ==
    /\ Answered(p, "confirming")
    /\ Moved(sync[p], Received(p))
    /\ sync' = [sync EXCEPT ![p] =
                  Staging(@, Received(p), @.scope, Counted(@))]
    /\ UNCHANGED <<github, published, lock>>

\* Mutant: whatever was staged is published.
AsStaged(staged, listing) ==
    [n \in DOMAIN staged \cap DOMAIN listing |-> staged[n]]

\* Only files staged for the very revision of the final listing.
Usable(staged, listing) ==
    [n \in {m \in DOMAIN staged \cap DOMAIN listing :
              Has(staged, m, listing[m])} |-> staged[n]]

\* The list and the files are written, and the generation is read.
Materialise(p) ==
    /\ Answered(p, "confirming")
    /\ ~Moved(sync[p], Received(p))
    /\ sync' = [sync EXCEPT
                  ![p].phase = "writing",
                  ![p].part = << >>,
                  ![p].page = 0,
                  ![p].listing = Received(p),
                  ![p].staged = Usable(@, Received(p)),
                  ![p].generation =
                      IF published = << >> THEN 1
                      ELSE published[Len(published)].generation + 1,
                  ![p].steady = Steady(p)]
    /\ UNCHANGED <<github, published, lock>>

\* The metadata, then the active pointer.
Activate(p) ==
    /\ sync[p].phase = "writing"
    /\ published' = Append(published, [generation |-> sync[p].generation,
                                       listing |-> sync[p].listing,
                                       evidence |-> sync[p].staged])
    /\ Release(p)
    /\ UNCHANGED github

------------------------------------------------------------------------------

SyncStep(p) ==
    \/ ReadPage(p)
    \/ RefuseListing(p)
    \/ EndListing(p)
    \/ \E n \in PRs : Reuse(p, n) \/ Download(p, n) \/ EndDownload(p, n)
    \/ EndStaging(p)
    \/ Reconcile(p)
    \/ Materialise(p)
    \/ Activate(p)

Next ==
    \/ \E n \in PRs : Push(n) \/ Open(n) \/ Close(n)
    \/ \E p \in Procs : Begin(p) \/ SyncStep(p) \/ Fail(p)

Spec == Init /\ [][Next]_vars

\* A refresh that has begun keeps running: its requests have timeouts.
FairSpec == Spec /\ \A p \in Procs : WF_vars(SyncStep(p))

------------------------------------------------------------------------------
(* Properties *)

\* A pull request in scope, at a known revision, is published without files
\* only if the list was still moving when the last round had been used up.
BareOnlyIfMoving ==
    \A p \in Procs :
        sync[p].phase = "writing" /\ sync[p].round < MAX_RECONCILIATION_ROUNDS
        => \A n \in DOMAIN sync[p].listing \cap sync[p].scope :
              sync[p].listing[n] # None => n \in DOMAIN sync[p].staged

\* A pull request that stayed open is missing from the list that is about to
\* be published only if another one was closed between two pages of it, which
\* moves the rest of the list up; and whatever is listed twice is refused.
MissedOnlyByShift ==
    \A p \in Procs :
        sync[p].phase = "writing" /\ ~sync[p].shifted
        => sync[p].steady \subseteq DOMAIN sync[p].listing

\* A refresh ends, published or failed: reconciliation is bounded, however
\* GitHub moves.
SyncEnds == \A p \in Procs : sync[p].phase # "idle" ~> sync[p].phase = "idle"

------------------------------------------------------------------------------
(* Refinement *)

Cache == INSTANCE EvidenceCache WITH
    published <- [i \in DOMAIN published |->
        [generation |-> published[i].generation,
         listing |-> published[i].listing,
         evidence |-> [n \in DOMAIN published[i].evidence |->
                         published[i].evidence[n].bytes]]]

\* Whatever moves or fails meanwhile, what becomes active is the next snapshot
\* of EvidenceCache: numbered in order, and with the files of exactly the
\* revisions it lists.
ImplementsCache == Cache!CacheSpec

==============================================================================
