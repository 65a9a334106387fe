----------------------------- MODULE DurableFile -----------------------------
(***************************************************************************)
(* How the store's JSON document gets onto the disk (triage/store.py): the *)
(* atomic replacement with one remembered predecessor, the explicit backup *)
(* and the restore, step by step, with processes that are killed or fail   *)
(* between any two steps, power losses and damaged bytes.                  *)
(*                                                                         *)
(* A directory maps each name to what a reader finds under it.  A          *)
(* replacement is visible at once (shown) but on the medium (stable) only  *)
(* when the directory was synced; a power loss may undo any replacement    *)
(* that was not.  A temporary file's bytes are synced before its name is   *)
(* used, so a name never leads to half a document.                         *)
(*                                                                         *)
(* An operation that reads the store twice reads it in two steps, since    *)
(* damage may fall between them: the lock keeps out this program only.     *)
(*                                                                         *)
(* The sidecar lock is held from the first read of an operation to its     *)
(* end: exclusively by writers and restores, shared by backups.  It is not *)
(* a variable: an operation under way holds it, a dead one does not.       *)
(***************************************************************************)
EXTENDS Naturals

CONSTANTS
    Procs,          \* processes and threads that operate on the store
    Absent,         \* no file under a name
    Unreadable,     \* bytes that are not a valid store
    MaxClock,       \* bound: writes and restores ever begun
    MaxDamages      \* bound: times the primary is damaged

ASSUME ContentsAssumption ==
    Absent \notin [version : Nat, data : Nat] \cup {Unreadable}
    /\ Unreadable \notin [version : Nat, data : Nat]
ASSUME BoundsAssumption == MaxClock \in Nat /\ MaxDamages \in Nat

VARIABLES
    shown,          \* directory as processes see it
    stable,         \* directory as a power loss would leave it
    job,            \* the operation each process is at, with its step
    clock,          \* wall clock; versions and data are named by it
    acked,          \* documents whose write was reported done (auxiliary)
    before,         \* what the last replacement of the store replaced (aux.)
    damages,        \* times the primary was damaged so far
    raced           \* damage fell between a validation and its copy (aux.)

vars == <<shown, stable, job, clock, acked, before, damages, raced>>

\* A document: its store_version, and which write its data stems from.
Doc == [version : Nat, data : Nat]

\* Mutant: an empty store has no data.
BareStore == [version |-> 0]

\* What reading a file that does not exist returns.
EmptyStore == [version |-> 0, data |-> 0]

Content == Doc \cup {Absent, Unreadable}

\* The store, store.json.bak and store.json.pre-restore.
FILES == {"store", "bak", "pre"}

Directory == [FILES -> Content]

\* begun: a commit's next document is made and its temporary file synced.
\* validated: the store's bytes were found valid once more.  read: a restore
\* has its source and the store's bytes.  copied: the bytes to set aside are
\* read (current), and the document to publish is made.  aside: they are in
\* .bak (a commit) or .pre-restore (a restore), the name not yet synced.
\* ready: that is done.  replaced: the target is replaced, the name not yet
\* synced.
Job == [op : {"none", "commit", "restore", "backup"},
        step : {"idle", "begun", "validated", "read", "copied", "aside",
                "ready", "replaced"},
        doc : Doc, current : Content]

TypeOK ==
    /\ shown \in Directory
    /\ stable \in Directory
    /\ job \in [Procs -> Job]
    /\ clock \in Nat
    /\ acked \subseteq Doc
    /\ before \in Content
    /\ damages \in Nat
    /\ raced \in BOOLEAN

Idle == [op |-> "none", step |-> "idle", doc |-> EmptyStore,
         current |-> Absent]

Init ==
    /\ shown = [f \in FILES |-> Absent]
    /\ stable = shown
    /\ job = [p \in Procs |-> Idle]
    /\ clock = 0
    /\ acked = {}
    /\ before = Absent
    /\ damages = 0
    /\ raced = FALSE

------------------------------------------------------------------------------
(* Locks and reads *)

Exclusive == \A q \in Procs : job[q].step = "idle"

Shared == \A q \in Procs : job[q].step = "idle" \/ job[q].op = "backup"

Readable(c) == c # Unreadable

Read(c) == IF c = Absent THEN EmptyStore ELSE c

------------------------------------------------------------------------------
(* Steps of the operations *)

Begin(p, op, step, doc) ==
    job' = [job EXCEPT ![p] = [op |-> op, step |-> step, doc |-> doc,
                               current |-> shown["store"]]]

Advance(p, step) == job' = [job EXCEPT ![p].step = step]

\* A writer: it reads the store, checks its request (not modelled here) and
\* makes the next document.
BeginCommit(p) ==
    /\ Exclusive
    /\ clock < MaxClock
    /\ Readable(shown["store"])
    /\ clock' = clock + 1
    /\ Begin(p, "commit", "begun",
             [version |-> Read(shown["store"]).version + 1, data |-> clock'])
    /\ UNCHANGED <<shown, stable, acked, before, damages, raced>>

\* Mutant: whatever bytes the store has by now are kept.
AnyBytes(c) == TRUE

\* The bytes are validated once more before they may replace a good backup.
Validated(c) == Readable(c)

\* The validation reads the file and forgets the bytes.
ValidatePrevious(p) ==
    /\ job[p].op = "commit" /\ job[p].step = "begun"
    /\ IF shown["store"] = Absent
       THEN Advance(p, "ready")
       ELSE Validated(shown["store"]) /\ Advance(p, "validated")
    /\ UNCHANGED <<shown, stable, clock, acked, before, damages, raced>>

\* The copy reads it again, and takes what it finds.
ReadPrevious(p) ==
    /\ job[p].op = "commit" /\ job[p].step = "validated"
    /\ job' = [job EXCEPT ![p].step = "copied",
                          ![p].current = shown["store"]]
    /\ UNCHANGED <<shown, stable, clock, acked, before, damages, raced>>

\* Mutant: a commit keeps no predecessor.
NoPrevious(p) == UNCHANGED shown

Previous(p) == shown' = [shown EXCEPT !["bak"] = job[p].current]

PreservePrevious(p) ==
    /\ job[p].op = "commit" /\ job[p].step = "copied"
    /\ Previous(p)
    /\ Advance(p, "aside")
    /\ UNCHANGED <<stable, clock, acked, before, damages, raced>>

\* The source is the backup or what an earlier restore set aside; a source
\* that does not exist reads as an empty store.  An unreadable store is no
\* obstacle.
BeginRestore(p) ==
    /\ Exclusive
    /\ clock < MaxClock
    /\ \E source \in {"bak", "pre"} :
          /\ Readable(shown[source])
          /\ Begin(p, "restore", "read", Read(shown[source]))
    /\ UNCHANGED <<shown, stable, clock, acked, before, damages, raced>>

\* Mutant: versions only count on from what can still be read.
CountedVersion(copy, current) ==
    IF current \in Doc /\ current.version > copy.version
    THEN current.version + 1 ELSE copy.version + 1

\* The greater of the next counter and the clock in milliseconds; writes are
\* slower than the clock, so that it is ahead of every version.
RestoredVersion(copy, current) ==
    IF CountedVersion(copy, current) > clock + 1
    THEN CountedVersion(copy, current) ELSE clock + 1

\* The store is read again for its version, the bytes to set aside stay those
\* of the first read.
NumberRestored(p) ==
    /\ job[p].op = "restore" /\ job[p].step = "read"
    /\ clock' = clock + 1
    /\ job' = [job EXCEPT
                 ![p].step = "copied",
                 ![p].doc.version = RestoredVersion(job[p].doc, shown["store"])]
    /\ UNCHANGED <<shown, stable, acked, before, damages, raced>>

\* The bytes read under the lock, readable or not.
KeepCurrent(p) ==
    /\ job[p].op = "restore" /\ job[p].step = "copied"
    /\ IF job[p].current = Absent
       THEN Advance(p, "ready") /\ UNCHANGED shown
       ELSE /\ shown' = [shown EXCEPT !["pre"] = job[p].current]
            /\ Advance(p, "aside")
    /\ UNCHANGED <<stable, clock, acked, before, damages, raced>>

\* The default destination.
BeginBackup(p) ==
    /\ Shared
    /\ job[p].step = "idle"
    /\ Readable(shown["store"])
    /\ Begin(p, "backup", "ready", Read(shown["store"]))
    /\ UNCHANGED <<shown, stable, clock, acked, before, damages, raced>>

\* Mutant: names are left to the operating system.
NoSync == UNCHANGED stable

SyncDirectory == stable' = shown

SyncAside(p) ==
    /\ job[p].step = "aside"
    /\ SyncDirectory
    /\ Advance(p, "ready")
    /\ UNCHANGED <<shown, clock, acked, before, damages, raced>>

Replace(p) ==
    /\ job[p].step = "ready"
    /\ IF job[p].op = "backup"
       THEN /\ shown' = [shown EXCEPT !["bak"] = job[p].doc]
            /\ UNCHANGED before
       ELSE /\ shown' = [shown EXCEPT !["store"] = job[p].doc]
            /\ before' = shown["store"]
    /\ Advance(p, "replaced")
    /\ UNCHANGED <<stable, clock, acked, damages, raced>>

\* The operation returns: its effect has been reported.
Finish(p) ==
    /\ job[p].step = "replaced"
    /\ SyncDirectory
    /\ acked' = IF job[p].op = "backup" THEN acked
                ELSE acked \cup {job[p].doc}
    /\ job' = [job EXCEPT ![p] = Idle]
    /\ UNCHANGED <<shown, clock, before, damages, raced>>

\* An error that is raised to the caller, or a kill: the lock is free again,
\* temporary files are removed or never looked at, names stay as they are.
Stop(p) ==
    /\ job[p].step # "idle"
    /\ job' = [job EXCEPT ![p] = Idle]
    /\ UNCHANGED <<shown, stable, clock, acked, before, damages, raced>>

Step(p) ==
    \/ BeginCommit(p)
    \/ ValidatePrevious(p)
    \/ ReadPrevious(p)
    \/ PreservePrevious(p)
    \/ BeginRestore(p)
    \/ NumberRestored(p)
    \/ KeepCurrent(p)
    \/ BeginBackup(p)
    \/ SyncAside(p)
    \/ Replace(p)
    \/ Finish(p)
    \/ Stop(p)

------------------------------------------------------------------------------
(* The environment *)

\* Some of the replacements that were not synced are undone.
PowerLoss ==
    /\ \E undone \in SUBSET FILES :
          shown' = [f \in FILES |->
                      IF f \in undone THEN stable[f] ELSE shown[f]]
    /\ stable' = shown'
    /\ job' = [p \in Procs |-> Idle]
    /\ UNCHANGED <<clock, acked, before, damages, raced>>

\* A commit has validated the bytes that it is about to read again.
Racing == \E p \in Procs : job[p].op = "commit" /\ job[p].step = "validated"

\* Something else than this program spoils the store's bytes, at any time.
Damage ==
    /\ damages < MaxDamages
    /\ shown["store"] \in Doc
    /\ shown' = [shown EXCEPT !["store"] = Unreadable]
    /\ stable' = IF stable["store"] = shown["store"]
                 THEN [stable EXCEPT !["store"] = Unreadable] ELSE stable
    /\ damages' = damages + 1
    /\ raced' = (raced \/ Racing)
    /\ UNCHANGED <<job, clock, acked, before>>

Next ==
    \/ \E p \in Procs : Step(p)
    \/ PowerLoss
    \/ Damage

Spec == Init /\ [][Next]_vars

------------------------------------------------------------------------------
(* Properties *)

\* What was reported written is not taken back by kills, failures of later
\* operations or power losses: the store never falls behind it, and is never
\* missing again.
AcknowledgedSurvives ==
    \A a \in acked : \A directory \in {shown, stable} :
        /\ directory["store"] # Absent
        /\ directory["store"] \in Doc => a.version <= directory["store"].version

\* A version names one document among all that were reported written and the
\* present one: a page that shows a version can tell whether it is current,
\* also after a restore over a store that could not be read any more.
VersionsNameDocs ==
    \A d, e \in acked \cup ({shown["store"], stable["store"]} \cap Doc) :
        d.version = e.version => d = e

\* If the store is damaged, at most its last write is lost: some other file
\* has a document at least as new as what that write replaced, whichever
\* operations were cut short and whatever a power loss undid.  That ends when
\* damaged bytes are set aside, by a restore or by a commit that validated
\* others: they may take the place of the very document.
LossCostsOneWrite ==
    before \in Doc /\ Readable(shown["pre"]) /\ Readable(shown["bak"]) =>
        \E f \in {"bak", "pre"} :
            shown[f] \in Doc /\ before.version <= shown[f].version

\* "Never replace a known-good backup with corrupt bytes from the primary
\* file": true of all damage, but for what falls between the validation and
\* the copy that reads the file again.
KnownGoodBackup ==
    Unreadable \in {shown["bak"], stable["bak"]} => raced

==============================================================================
