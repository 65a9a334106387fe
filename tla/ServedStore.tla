----------------------------- MODULE ServedStore -----------------------------
(***************************************************************************)
(* What the local server serves: per workspace, the versions of its store  *)
(* and the snapshots of its GitHub cache.  A version names one content of  *)
(* the store (TriageStore), whose rows name the cache snapshot they were   *)
(* made from; snapshots are numbered and never change (EvidenceCache).     *)
(*                                                                         *)
(* The parts of the server share these, and nothing else but its life: a   *)
(* restart drops what they keep in memory.                                 *)
(***************************************************************************)
EXTENDS Naturals, Sequences

CONSTANTS
    Workspaces,     \* repositories with a store each
    None,
    MaxVersion,     \* bound, per workspace: versions that others write
    MaxSnapshot,    \* bound, per workspace: snapshots that others sync
    MaxRestarts     \* bound: restarts of the server

ASSUME NoneAssumption == None \notin Workspaces
ASSUME BoundsAssumption ==
    /\ MaxVersion \in [Workspaces -> Nat]
    /\ MaxSnapshot \in [Workspaces -> Nat]
    /\ MaxRestarts \in Nat

VARIABLES
    store,          \* per version of a workspace, the snapshot of its rows
    cache,          \* the last snapshot of each workspace, 0 for none
    epoch           \* starts of the server; a session token is of one epoch

served == <<store, cache, epoch>>

StoreTypeOK ==
    /\ store \in [Workspaces -> Seq(Nat)]
    /\ cache \in [Workspaces -> Nat]
    /\ epoch \in Nat

\* A workspace is new, or was synced once.
StoreInit ==
    /\ store \in [Workspaces -> {<< >>, <<1>>}]
    /\ cache = [w \in Workspaces |-> Len(store[w])]
    /\ epoch = 1

------------------------------------------------------------------------------

Version(w) == Len(store[w])

Write(w, snapshot) ==
    store' = [store EXCEPT ![w] = Append(@, snapshot)]

\* Reviews, decisions, runs of the command line and restored backups: the new
\* version has rows of some snapshot, older ones included.
WriteElsewhere(w) ==
    /\ Version(w) < MaxVersion[w]
    /\ \E snapshot \in 1..cache[w] : Write(w, snapshot)
    /\ UNCHANGED <<cache, epoch>>

\* Another process syncs.
SyncElsewhere(w) ==
    /\ cache[w] < MaxSnapshot[w]
    /\ cache' = [cache EXCEPT ![w] = @ + 1]
    /\ UNCHANGED <<store, epoch>>

==============================================================================
