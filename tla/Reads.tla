-------------------------------- MODULE Reads --------------------------------
(***************************************************************************)
(* Paged reads of a store that moves (triage/service.py), as an agent      *)
(* makes them through the bridge (triage/mcp_server.py): a first call,     *)
(* then every continuation that an answer advertises, each pinned to the   *)
(* versions of that answer.                                                *)
(*                                                                         *)
(* A read loads the store; some operations load it a second and a third    *)
(* time.  An operation pages one list or several; a patch is read in       *)
(* chunks of bytes.  An entry of a list is known by the version it was     *)
(* read from, the snapshot its evidence was read from, and its place.      *)
(***************************************************************************)
EXTENDS ServedStore, FiniteSets

CONSTANTS
    Readers,        \* agents
    ReadsOf,        \* per agent, the workspace it reads
    Operations,     \* the reads they make
    ListsOf,        \* per operation, the lists it pages
    Lengths,        \* per list, its lengths in the versions, in turn
    PageSize,       \* entries per page
    Patch,          \* byte offsets at which characters start, and the end
    PatchLimit      \* bytes per chunk, at least those of a character

ASSUME ReadsAssumption ==
    /\ ReadsOf \in [Readers -> Workspaces]
    /\ ListsOf \in [Operations -> SUBSET DOMAIN Lengths]
    /\ \A l \in DOMAIN Lengths : Lengths[l] \in Seq(Nat) /\ Lengths[l] # << >>
    /\ PageSize \in Nat \ {0}
    /\ PatchLimit \in Nat \ {0}

VARIABLE readers

\* Cursors, one per list of the operation.
CursorOf(op) == [ListsOf[op] -> Nat]

Entry == [version : Nat, snapshot : Nat, at : Nat]

\*  phase       "idle", "asked", "loaded", "reread", "answered", "complete",
\*              "refused" or "denied"
\*  op, repo    what it reads, and where
\*  cursor      of the call under way
\*  pinned      does that call name versions?
\*  pin         the version that its answers named, 0 for none
\*  loaded      the version of the first load
\*  data        the version the answer is made from
\*  todo        continuations not yet followed
\*  asked       calls made
\*  got         the entries of its answers, per list
\*  token       the epoch of its session token
\*  renewed     has this call renewed the token?
\*  since       the epoch when the call began (auxiliary)
ReadsTypeOK ==
    /\ DOMAIN readers = Readers
    /\ \A r \in Readers :
          LET x == readers[r] IN
          /\ x.repo \in Workspaces
          /\ {x.pin, x.loaded, x.data, x.token, x.since} \subseteq Nat
          /\ {x.pinned, x.renewed} \subseteq BOOLEAN
          /\ IF x.phase = "idle" THEN x.op = None
             ELSE /\ x.phase \in {"asked", "loaded", "reread", "answered",
                                  "complete", "refused", "denied"}
                  /\ x.op \in Operations
                  /\ {x.cursor} \cup x.todo \cup x.asked \subseteq CursorOf(x.op)
                  /\ x.got \in [ListsOf[x.op] -> SUBSET Entry]

Unread(w, token) ==
    [phase |-> "idle", op |-> None, repo |-> w, cursor |-> << >>,
     pinned |-> FALSE, pin |-> 0, loaded |-> 0, data |-> 0, todo |-> {},
     asked |-> {}, got |-> << >>, token |-> token, renewed |-> FALSE,
     since |-> 0]

\* An agent's token is of this server, or of an earlier one.
ReadsInit ==
    \E token \in [Readers -> 0..epoch] :
       readers = [r \in Readers |-> Unread(ReadsOf[r], token[r])]

------------------------------------------------------------------------------
(* Lists and patches *)

LengthOf(list, v) == Lengths[list][1 + (v % Len(Lengths[list]))]

PagesOf(n) == (n + PageSize - 1) \div PageSize

HasNext(n, page) == page < PagesOf(n)

\* _page_info, and the slice that goes with it.
PageAt(n, page) ==
    [entries |-> ((page - 1) * PageSize + 1 .. page * PageSize) \cap 1..n,
     next |-> IF HasNext(n, page) THEN page + 1 ELSE 0]

Boundaries == Patch.starts \cup {Patch.bytes}

\* Where a chunk may end: as far as the limit goes, but not in a character.
Ends(start) == {end \in Boundaries : start <= end /\ end <= start + PatchLimit}

\* A chunk takes four bytes or more, so that a character fits.
ASSUME PatchAssumption ==
    /\ Patch.bytes \in Nat
    /\ 0 \in Boundaries /\ Boundaries \subseteq 0..Patch.bytes
    /\ \A b \in Boundaries \ {Patch.bytes} : Ends(b) # {b}

\* _patch_chunk: an offset within a character is moved to the next one, ...
ChunkStart(offset) ==
    CHOOSE b \in Boundaries :
       b >= offset /\ \A c \in Boundaries : c >= offset => b <= c

\* ... and the chunk is as long as may be.
ChunkEnd(start) == CHOOSE e \in Ends(start) : \A f \in Ends(start) : f <= e

ChunkAt(offset) ==
    LET start == ChunkStart(offset)
        end == ChunkEnd(start) IN
    [entries |-> start + 1 .. end,
     next |-> IF end < Patch.bytes THEN end ELSE 0]

PartOf(list, v, cursor) ==
    IF list = "patch" THEN ChunkAt(cursor) ELSE PageAt(LengthOf(list, v), cursor)

Start(list) == IF list = "patch" THEN 0 ELSE 1

FirstCursor(op) == [l \in ListsOf[op] |-> Start(l)]

\* All that a list holds.
Whole(list, v) ==
    IF list = "patch" THEN 1..Patch.bytes ELSE 1..LengthOf(list, v)

------------------------------------------------------------------------------
(* An agent *)

\* An agent reads something, from the start.
BeginRead(r, op) ==
    /\ readers[r].phase \in {"idle", "complete", "refused", "denied"}
    /\ readers' = [readers EXCEPT ![r] =
          [Unread(@.repo, @.token) EXCEPT
             !.phase = "asked", !.op = op, !.cursor = FirstCursor(op),
             !.asked = {FirstCursor(op)},
             !.got = [l \in ListsOf[op] |-> {}],
             !.since = epoch]]
    /\ UNCHANGED served

\* It follows a continuation; some agents leave out the versions.
FollowUp(r, cursor, pinned) ==
    /\ readers[r].phase = "answered"
    /\ cursor \in readers[r].todo
    /\ readers' = [readers EXCEPT ![r].phase = "asked",
                                  ![r].cursor = cursor,
                                  ![r].pinned = pinned,
                                  ![r].todo = @ \ {cursor},
                                  ![r].asked = @ \cup {cursor},
                                  ![r].renewed = FALSE,
                                  ![r].since = epoch]
    /\ UNCHANGED served

------------------------------------------------------------------------------
(* The bridge: BackendClient.read *)

Renewed(r) == readers[r].renewed

TokenRefused(r) == readers[r].phase = "asked" /\ readers[r].token # epoch

\* The token is of an earlier server: a new one is fetched, once per call.
RenewToken(r) ==
    /\ TokenRefused(r)
    /\ ~Renewed(r)
    /\ readers' = [readers EXCEPT ![r].token = epoch, ![r].renewed = TRUE]
    /\ UNCHANGED served

Deny(r) ==
    /\ TokenRefused(r)
    /\ Renewed(r)
    /\ readers' = [readers EXCEPT ![r].phase = "denied"]
    /\ UNCHANGED served

------------------------------------------------------------------------------
(* The server *)

Admitted(r) == readers[r].phase = "asked" /\ readers[r].token = epoch

\* Mutant: continuations need no versions.
Unguarded(r) == FALSE

\* _continuation_guard.
Unpinned(r) ==
    /\ readers[r].cursor # FirstCursor(readers[r].op)
    /\ ~readers[r].pinned

\* _context: the versions that the call expects are no longer there.
Stale(r) ==
    /\ readers[r].pinned
    /\ Version(readers[r].repo) # readers[r].pin

NoStore(r) == Version(readers[r].repo) = 0

RefuseRead(r) ==
    /\ Admitted(r)
    /\ NoStore(r) \/ Stale(r) \/ Unpinned(r)
    /\ readers' = [readers EXCEPT ![r].phase = "refused"]
    /\ UNCHANGED served

\* _context.
LoadContext(r) ==
    /\ Admitted(r)
    /\ ~NoStore(r) /\ ~Stale(r) /\ ~Unpinned(r)
    /\ readers' = [readers EXCEPT ![r].phase = "loaded",
                                  ![r].loaded = Version(readers[r].repo),
                                  ![r].data = Version(readers[r].repo)]
    /\ UNCHANGED served

\* Operations whose data come from another load of the store.
Rereads(op) == op \in {"find_related", "get_file_review"}

Reread(r) ==
    /\ readers[r].phase = "loaded"
    /\ Rereads(readers[r].op)
    /\ readers' = [readers EXCEPT ![r].phase = "reread",
                                  ![r].data = Version(readers[r].repo)]
    /\ UNCHANGED served

\* Mutant: the second load is taken as it is.
AsLoaded(r) == FALSE

\* The second load is compared; find_related compares a third one instead.
Moved(r) ==
    LET x == readers[r] IN
    \/ x.op = "find_related" /\ Version(x.repo) # x.loaded
    \/ x.op = "get_file_review" /\ x.data # x.loaded

ReadyToAnswer(r) ==
    IF Rereads(readers[r].op) THEN readers[r].phase = "reread"
    ELSE readers[r].phase = "loaded"

RefuseMoved(r) ==
    /\ ReadyToAnswer(r)
    /\ Moved(r)
    /\ readers' = [readers EXCEPT ![r].phase = "refused"]
    /\ UNCHANGED served

\* Mutant: evidence of the snapshot that is active now.
ActiveSnapshot(w, v) == cache[w]

\* _bundle: evidence of the very snapshot that the row names.
PinnedSnapshot(w, v) == store[w][v]

EntriesOf(x, list) ==
    {[version |-> x.data, snapshot |-> PinnedSnapshot(x.repo, x.data), at |-> i] :
        i \in PartOf(list, x.data, x.cursor[list]).entries}

\* _retrieval_plan: one continuation per list that goes on, the cursors of the
\* other lists as they are.
Continuations(x) ==
    {[x.cursor EXCEPT ![l] = PartOf(l, x.data, x.cursor[l]).next] :
        l \in {m \in DOMAIN x.cursor :
                 PartOf(m, x.data, x.cursor[m]).next # 0}}

AnswerRead(r) ==
    LET x == readers[r]
        todo == (x.todo \cup Continuations(x)) \ x.asked IN
    /\ ReadyToAnswer(r)
    /\ ~Moved(r)
    /\ readers' = [readers EXCEPT
          ![r].phase = IF todo = {} THEN "complete" ELSE "answered",
          ![r].pin = x.loaded,
          ![r].loaded = 0,
          ![r].data = 0,
          ![r].todo = todo,
          ![r].got = [l \in DOMAIN x.got |-> x.got[l] \cup EntriesOf(x, l)]]
    /\ UNCHANGED served

\* A restart cuts off the calls that the server is working on.
CutOffReads ==
    readers' = [r \in Readers |->
                  IF readers[r].phase \in {"loaded", "reread"}
                  THEN [readers[r] EXCEPT !.phase = "refused"]
                  ELSE readers[r]]

------------------------------------------------------------------------------

ReaderStep(r) ==
    \/ \E op \in Operations : BeginRead(r, op)
    \/ \E cursor \in readers[r].todo : \E pinned \in BOOLEAN :
          FollowUp(r, cursor, pinned)
    \/ RenewToken(r)
    \/ Deny(r)
    \/ RefuseRead(r)
    \/ LoadContext(r)
    \/ Reread(r)
    \/ RefuseMoved(r)
    \/ AnswerRead(r)

------------------------------------------------------------------------------
(* Properties *)

\* Who has followed every continuation has, of every list, all of one version
\* of the store and nothing else, with the evidence that its rows name,
\* however the store and the cache moved between the calls and within them.
ReadsAreWhole ==
    \A r \in Readers : readers[r].phase = "complete" =>
        LET x == readers[r] IN
        \A l \in DOMAIN x.got :
            x.got[l] = {[version |-> x.pin, snapshot |-> store[x.repo][x.pin],
                         at |-> i] : i \in Whole(l, x.pin)}

\* A read is denied for its token only if the server restarted under it: an
\* agent outlives a restart.
DeniedOnlyByRestart ==
    \A r \in Readers : readers[r].phase = "denied" => epoch > readers[r].since

==============================================================================
