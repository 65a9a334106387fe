-------------------------- MODULE DurableFileProofs --------------------------
(***************************************************************************)
(* Theorems about DurableFile, for every number of processes, however      *)
(* often they are stopped, the power fails and the store is damaged.       *)
(*                                                                         *)
(* After the types, GoodInv says which bytes a commit copies into .bak.    *)
(* Then come three inductive invariants, each resting on the one before:   *)
(* AloneInv (the lock, and a clock ahead of all versions), ReportedInv     *)
(* (how the document of a write relates to what is reported, shown and     *)
(* stable), and RememberedInv (where the predecessor is, at every step of  *)
(* a write).                                                               *)
(***************************************************************************)
EXTENDS DurableFile, TLAPS

------------------------------------------------------------------------------
(* Type correctness *)

LEMMA Kinds ==
    /\ EmptyStore \in Doc
    /\ Idle \in Job
    /\ Absent \in Content /\ Unreadable \in Content /\ Doc \subseteq Content
    /\ Absent \notin Doc /\ Unreadable \notin Doc /\ Absent # Unreadable
    /\ \A c \in Content : Readable(c) => Read(c) \in Doc
    /\ "store" \in FILES /\ "bak" \in FILES /\ "pre" \in FILES
  BY ContentsAssumption
     DEF EmptyStore, Doc, Idle, Job, Content, Readable, Read, FILES

LEMMA BeginType ==
    ASSUME TypeOK, NEW p \in Procs, NEW op \in {"commit", "restore", "backup"},
           NEW step \in {"begun", "read", "ready"}, NEW doc \in Doc,
           Begin(p, op, step, doc)
    PROVE  job' \in [Procs -> Job]
  <1> DEFINE j == [op |-> op, step |-> step, doc |-> doc,
                   current |-> shown["store"]]
  <1>1. shown["store"] \in Content
    BY Kinds DEF TypeOK, Directory
  <1>2. j \in Job
    BY <1>1 DEF Job
  <1>3. job' = [job EXCEPT ![p] = j]
    BY DEF Begin
  <1> QED
    BY <1>2, <1>3 DEF TypeOK

LEMMA AdvanceType ==
    ASSUME TypeOK, NEW p \in Procs,
           NEW step \in {"validated", "aside", "ready", "replaced"},
           Advance(p, step)
    PROVE  job' \in [Procs -> Job]
  BY DEF Advance, TypeOK, Job

LEMMA TypeStep ==
    ASSUME TypeOK, [Next]_vars
    PROVE  TypeOK'
  <1> USE Kinds
  <1>1. ASSUME NEW p \in Procs, BeginCommit(p) PROVE TypeOK'
    <2>1. Read(shown["store"]) \in Doc
      BY <1>1 DEF BeginCommit, TypeOK, Directory
    <2> DEFINE doc == [version |-> Read(shown["store"]).version + 1,
                       data |-> clock']
    <2>2. clock' \in Nat
      BY <1>1 DEF BeginCommit, TypeOK
    <2>3. doc \in Doc
      BY <2>1, <2>2 DEF Doc
    <2>4. Begin(p, "commit", "begun", doc)
      BY <1>1 DEF BeginCommit
    <2>5. job' \in [Procs -> Job]
      BY <2>3, <2>4, BeginType
    <2> QED
      BY <1>1, <2>2, <2>5 DEF BeginCommit, TypeOK
  <1>2. ASSUME NEW p \in Procs, BeginRestore(p) PROVE TypeOK'
    <2>1. PICK source \in {"bak", "pre"} :
             /\ Readable(shown[source])
             /\ Begin(p, "restore", "read", Read(shown[source]))
      BY <1>2 DEF BeginRestore
    <2>2. Read(shown[source]) \in Doc
      BY <2>1 DEF TypeOK, Directory
    <2>3. job' \in [Procs -> Job]
      BY <2>1, <2>2, BeginType
    <2> QED
      BY <1>2, <2>3 DEF BeginRestore, TypeOK
  <1>3. ASSUME NEW p \in Procs, BeginBackup(p) PROVE TypeOK'
    <2>1. Read(shown["store"]) \in Doc
      BY <1>3 DEF BeginBackup, TypeOK, Directory
    <2>2. job' \in [Procs -> Job]
      BY <1>3, <2>1, BeginType DEF BeginBackup
    <2> QED
      BY <1>3, <2>2 DEF BeginBackup, TypeOK
  <1>4. ASSUME NEW p \in Procs, PreservePrevious(p) PROVE TypeOK'
    <2>1. job' \in [Procs -> Job]
      BY <1>4, AdvanceType DEF PreservePrevious
    <2>2. job[p].current \in Content
      BY DEF TypeOK, Job
    <2>3. shown' \in Directory
      BY <1>4, <2>2 DEF PreservePrevious, Previous, TypeOK, Directory
    <2> QED
      BY <1>4, <2>1, <2>3 DEF PreservePrevious, TypeOK
  <1>5. ASSUME NEW p \in Procs, KeepCurrent(p) PROVE TypeOK'
    <2>1. job' \in [Procs -> Job]
      BY <1>5, AdvanceType DEF KeepCurrent
    <2>2. job[p].current \in Content
      BY DEF TypeOK, Job
    <2>3. shown' \in Directory
      BY <1>5, <2>2 DEF KeepCurrent, TypeOK, Directory
    <2> QED
      BY <1>5, <2>1, <2>3 DEF KeepCurrent, TypeOK
  <1>6. ASSUME NEW p \in Procs, SyncAside(p) PROVE TypeOK'
    <2>1. job' \in [Procs -> Job]
      BY <1>6, AdvanceType DEF SyncAside
    <2> QED
      BY <1>6, <2>1 DEF SyncAside, SyncDirectory, TypeOK
  <1>7. ASSUME NEW p \in Procs, Replace(p) PROVE TypeOK'
    <2>1. job' \in [Procs -> Job]
      BY <1>7, AdvanceType DEF Replace
    <2>2. job[p].doc \in Content
      BY DEF TypeOK, Job
    <2>3. shown' \in Directory /\ before' \in Content
      BY <1>7, <2>2 DEF Replace, TypeOK, Directory
    <2> QED
      BY <1>7, <2>1, <2>3 DEF Replace, TypeOK
  <1>8. ASSUME NEW p \in Procs, Finish(p) PROVE TypeOK'
    <2>1. job[p].doc \in Doc
      BY DEF TypeOK, Job
    <2>2. acked' \subseteq Doc
      BY <1>8, <2>1 DEF Finish, TypeOK
    <2>3. job' \in [Procs -> Job]
      BY <1>8 DEF Finish, TypeOK
    <2> QED
      BY <1>8, <2>2, <2>3 DEF Finish, SyncDirectory, TypeOK
  <1>9. ASSUME NEW p \in Procs, Stop(p) PROVE TypeOK'
    BY <1>9 DEF Stop, TypeOK
  <1>10. CASE PowerLoss
    <2>1. shown' \in Directory
      BY <1>10 DEF PowerLoss, TypeOK, Directory
    <2> QED
      BY <1>10, <2>1 DEF PowerLoss, TypeOK
  <1>11. CASE Damage
    <2>1. shown' \in Directory /\ stable' \in Directory
      BY <1>11 DEF Damage, TypeOK, Directory
    <2> QED
      BY <1>11, <2>1 DEF Damage, TypeOK
  <1>12. CASE UNCHANGED vars
    BY <1>12 DEF vars, TypeOK
  <1>13. ASSUME NEW p \in Procs, ValidatePrevious(p) PROVE TypeOK'
    <2>1. job' \in [Procs -> Job]
      BY <1>13, AdvanceType DEF ValidatePrevious
    <2> QED
      BY <1>13, <2>1 DEF ValidatePrevious, TypeOK
  <1>14. ASSUME NEW p \in Procs, ReadPrevious(p) PROVE TypeOK'
    <2>1. shown["store"] \in Content
      BY DEF TypeOK, Directory
    <2>2. job' \in [Procs -> Job]
      BY <1>14, <2>1 DEF ReadPrevious, TypeOK, Job
    <2> QED
      BY <1>14, <2>2 DEF ReadPrevious, TypeOK
  <1>15. ASSUME NEW p \in Procs, NumberRestored(p) PROVE TypeOK'
    <2>1. job[p] \in Job /\ job[p].doc \in Doc
      BY DEF TypeOK, Job
    <2>2. CountedVersion(job[p].doc, shown["store"]) \in Nat
      BY <2>1 DEF CountedVersion, Doc
    <2>3. RestoredVersion(job[p].doc, shown["store"]) \in Nat
      BY <2>2 DEF RestoredVersion, TypeOK
    <2>4. job' \in [Procs -> Job]
      BY <1>15, <2>1, <2>3 DEF NumberRestored, TypeOK, Job, Doc
    <2> QED
      BY <1>15, <2>4 DEF NumberRestored, TypeOK
  <1> QED
    BY <1>1, <1>2, <1>3, <1>4, <1>5, <1>6, <1>7, <1>8, <1>9, <1>10, <1>11,
       <1>12, <1>13, <1>14, <1>15 DEF Next, Step

\* Files hold documents, unreadable bytes or nothing; a job is at a step it
\* has, with a document to publish.
THEOREM TypeCorrect == Spec => []TypeOK
  <1>1. Init => TypeOK
    <2> SUFFICES ASSUME Init PROVE TypeOK
      OBVIOUS
    <2>1. shown \in Directory /\ stable \in Directory /\ before \in Content
      BY Kinds DEF Init, Directory
    <2>2. job \in [Procs -> Job]
      BY Kinds DEF Init
    <2>3. raced \in BOOLEAN
      BY Zenon DEF Init
    <2> QED
      BY <2>1, <2>2, <2>3 DEF Init, TypeOK
  <1>2. TypeOK /\ [Next]_vars => TypeOK'
    BY TypeStep
  <1> QED
    BY <1>1, <1>2, PTL DEF Spec

------------------------------------------------------------------------------
(* Invariants *)

\* A commit or a restore under way.
Writing(p) == job[p].step # "idle" /\ job[p].op # "backup"

UpTo(c, version) == c \in Doc => c.version <= version

Below(c, version) == c \in Doc => c.version < version

\* A writer holds the lock alone.
Alone ==
    \A p, q \in Procs : p # q /\ Writing(p) => job[q].step = "idle"

\* No document has a version above the clock.
Timely ==
    /\ \A f \in FILES : UpTo(shown[f], clock) /\ UpTo(stable[f], clock)
    /\ \A a \in acked : a.version <= clock
    /\ \A p \in Procs : /\ job[p].doc.version <= clock
                        /\ UpTo(job[p].current, clock)

AloneInv == Alone /\ Timely

\* A power loss cannot put back a store newer than the one shown.
Ordered ==
    stable["store"] \in Doc =>
       \/ shown["store"] = Unreadable
       \/ /\ shown["store"] \in Doc
          /\ stable["store"].version <= shown["store"].version

\* The document of a write, once made, has a version of its own until it is the
\* store.
Fresh ==
    \A p \in Procs : Writing(p) /\ job[p].step # "read" =>
       /\ \A a \in acked : a.version < job[p].doc.version
       /\ job[p].step # "replaced" =>
             /\ Below(shown["store"], job[p].doc.version)
             /\ Below(stable["store"], job[p].doc.version)
       /\ job[p].step = "replaced" =>
             shown["store"] \in {job[p].doc, Unreadable}

ReportedInv ==
    Ordered /\ Fresh /\ AcknowledgedSurvives /\ VersionsNameDocs

\* At least as new as what the last write replaced.
Good(c) == c \in Doc /\ before.version <= c.version

Spoilt(c) == c = Unreadable

\* The steps at which nothing is set aside yet.
EARLY == {"begun", "validated", "read", "copied"}

\* The predecessor is in .bak or .pre-restore, unless spoilt bytes took its
\* place there, whatever a power loss undoes.
Kept ==
    before \in Doc =>
       \/ /\ Spoilt(shown["bak"]) \/ Good(shown["bak"])
          /\ Spoilt(stable["bak"]) \/ Good(stable["bak"])
       \/ /\ Spoilt(shown["pre"]) \/ Good(shown["pre"])
          /\ Spoilt(stable["pre"]) \/ Good(stable["pre"])

\* Nothing that may be copied over the predecessor is older than it.
Since ==
    before \in Doc =>
       /\ Spoilt(shown["store"]) \/ Good(shown["store"])
       /\ Spoilt(stable["store"]) \/ Good(stable["store"])
       /\ \A p \in Procs :
             /\ job[p].step # "idle" /\ job[p].op = "backup" =>
                   Good(job[p].doc)
             /\ job[p].step \in EARLY =>
                   Spoilt(job[p].current) \/ Good(job[p].current)

\* What a write is about to replace is set aside, on the medium when ready.
SetAside ==
    \A p \in Procs : Writing(p) /\ shown["store"] \in Doc =>
       /\ job[p].step \in EARLY => job[p].current = shown["store"]
       /\ job[p].step = "aside" => shown["store"] \in {shown["bak"], shown["pre"]}
       /\ job[p].step = "ready" =>
             /\ stable["store"] = shown["store"]
             /\ \E f \in {"bak", "pre"} : /\ shown[f] = shown["store"]
                                          /\ stable[f] = shown["store"]

RememberedInv == Kept /\ Since /\ SetAside

------------------------------------------------------------------------------
(* What the steps do to jobs *)

LEMMA Types ==
    ASSUME TypeOK
    PROVE  /\ \A f \in FILES : shown[f] \in Content /\ stable[f] \in Content
           /\ \A p \in Procs : /\ job[p].doc \in Doc
                               /\ job[p].doc.version \in Nat
                               /\ job[p].current \in Content
           /\ \A a \in acked : a \in Doc /\ a.version \in Nat
           /\ \A d \in Doc : d.version \in Nat
           /\ clock \in Nat
  BY DEF TypeOK, Directory, Job, Doc

LEMMA Begun ==
    ASSUME TypeOK, NEW p \in Procs, NEW op, NEW step, NEW doc,
           Begin(p, op, step, doc)
    PROVE  /\ job'[p].op = op /\ job'[p].step = step /\ job'[p].doc = doc
           /\ job'[p].current = shown["store"]
           /\ \A q \in Procs : q # p => job'[q] = job[q]
  BY DEF Begin, TypeOK

LEMMA Advanced ==
    ASSUME TypeOK, NEW p \in Procs, NEW step, Advance(p, step)
    PROVE  /\ job'[p].op = job[p].op /\ job'[p].step = step
           /\ job'[p].doc = job[p].doc
           /\ job'[p].current = job[p].current
           /\ \A q \in Procs : q # p => job'[q] = job[q]
  BY DEF Advance, TypeOK, Job

LEMMA Ended ==
    ASSUME TypeOK, NEW p \in Procs, job' = [job EXCEPT ![p] = Idle]
    PROVE  /\ job'[p] = Idle /\ Idle.step = "idle" /\ Idle.op = "none"
           /\ Idle.doc = EmptyStore /\ Idle.current = Absent
           /\ EmptyStore.version = 0
           /\ \A q \in Procs : q # p => job'[q] = job[q]
  BY DEF TypeOK, Idle, EmptyStore

LEMMA Replaced ==
    ASSUME TypeOK, NEW p \in Procs, Replace(p)
    PROVE  /\ shown'["pre"] = shown["pre"]
           /\ job[p].op = "backup" => /\ shown'["bak"] = job[p].doc
                                      /\ shown'["store"] = shown["store"]
                                      /\ before' = before
           /\ job[p].op # "backup" => /\ shown'["bak"] = shown["bak"]
                                      /\ shown'["store"] = job[p].doc
                                      /\ before' = shown["store"]
  BY DEF Replace, TypeOK, Directory, FILES

LEMMA PreviousKept ==
    ASSUME TypeOK, NEW p \in Procs, PreservePrevious(p)
    PROVE  /\ shown'["store"] = shown["store"]
           /\ shown'["pre"] = shown["pre"]
           /\ shown'["bak"] = job[p].current
  BY DEF PreservePrevious, Previous, TypeOK, Directory, FILES

LEMMA ReadAgain ==
    ASSUME TypeOK, NEW p \in Procs, ReadPrevious(p)
    PROVE  /\ job'[p].op = job[p].op /\ job'[p].step = "copied"
           /\ job'[p].doc = job[p].doc
           /\ job'[p].current = shown["store"]
           /\ \A q \in Procs : q # p => job'[q] = job[q]
  BY DEF ReadPrevious, TypeOK, Job

LEMMA Numbered ==
    ASSUME TypeOK, NEW p \in Procs, NumberRestored(p)
    PROVE  /\ job'[p].op = job[p].op /\ job'[p].step = "copied"
           /\ job'[p].doc.version = RestoredVersion(job[p].doc, shown["store"])
           /\ job'[p].current = job[p].current
           /\ \A q \in Procs : q # p => job'[q] = job[q]
  BY DEF NumberRestored, TypeOK, Job, Doc

LEMMA CurrentKept ==
    ASSUME TypeOK, NEW p \in Procs, KeepCurrent(p)
    PROVE  /\ shown'["store"] = shown["store"]
           /\ shown'["bak"] = shown["bak"]
           /\ \/ /\ shown'["pre"] = shown["pre"]
                 /\ job[p].current = Absent /\ Advance(p, "ready")
              \/ /\ shown'["pre"] = job[p].current
                 /\ job[p].current # Absent /\ Advance(p, "aside")
  BY DEF KeepCurrent, TypeOK, Directory, FILES

LEMMA Damaged ==
    ASSUME TypeOK, Damage
    PROVE  /\ shown'["store"] = Unreadable
           /\ shown'["bak"] = shown["bak"] /\ shown'["pre"] = shown["pre"]
           /\ stable'["store"] \in {stable["store"], Unreadable}
           /\ stable["store"] = shown["store"] => stable'["store"] = Unreadable
           /\ stable'["bak"] = stable["bak"] /\ stable'["pre"] = stable["pre"]
  BY DEF Damage, TypeOK, Directory, FILES

\* Every step but a beginning only moves a job that is under way.
LEMMA MovesOn ==
    ASSUME TypeOK, NEW p \in Procs, Step(p)
    PROVE  \/ BeginCommit(p) \/ BeginRestore(p) \/ BeginBackup(p)
           \/ /\ job[p].step # "idle"
              /\ \A q \in Procs : q # p => job'[q] = job[q]
              /\ \/ job'[p] = Idle
                 \/ job'[p].op = job[p].op /\ job'[p].step # "idle"
  <1>1. CASE \E step : step # "idle" /\ Advance(p, step)
                        /\ job[p].step # "idle"
    BY <1>1, Advanced
  <1>2. CASE Finish(p) \/ Stop(p)
    BY <1>2, Ended DEF Finish, Stop
  <1>3. CASE ReadPrevious(p)
    BY <1>3, ReadAgain DEF ReadPrevious
  <1>4. CASE NumberRestored(p)
    BY <1>4, Numbered DEF NumberRestored
  <1> QED
    BY <1>1, <1>2, <1>3, <1>4
       DEF Step, ValidatePrevious, PreservePrevious, KeepCurrent, SyncAside,
           Replace

------------------------------------------------------------------------------
(* What spoils the remembered predecessor *)

\* Only bytes that were damaged after their validation are ever copied.
CopiedGood ==
    \A p \in Procs : job[p].op = "commit" =>
       /\ job[p].step = "validated" => Readable(shown["store"]) \/ raced
       /\ job[p].step = "copied" => Readable(job[p].current) \/ raced

GoodInv == CopiedGood /\ KnownGoodBackup

LEMMA GoodStep ==
    ASSUME TypeOK, GoodInv, [Next]_vars
    PROVE  GoodInv'
  <1> USE Kinds DEF GoodInv
  <1>1. ASSUME NEW p \in Procs, ValidatePrevious(p) PROVE GoodInv'
    <2>1. KnownGoodBackup'
      BY <1>1 DEF ValidatePrevious, KnownGoodBackup
    <2>2. PICK step \in {"ready", "validated"} :
             /\ Advance(p, step)
             /\ step = "validated" => Readable(shown["store"])
      BY <1>1 DEF ValidatePrevious, Validated
    <2>3. CopiedGood'
      BY <1>1, <2>2, Advanced DEF ValidatePrevious, CopiedGood
    <2> QED
      BY <2>1, <2>3
  <1>2. ASSUME NEW p \in Procs, ReadPrevious(p) PROVE GoodInv'
    <2>1. KnownGoodBackup'
      BY <1>2 DEF ReadPrevious, KnownGoodBackup
    <2>2. CopiedGood'
      BY <1>2 DEF ReadPrevious, CopiedGood, Readable, TypeOK, Job
    <2> QED
      BY <2>1, <2>2
  <1>3. ASSUME NEW p \in Procs, PreservePrevious(p) PROVE GoodInv'
    <2>1. Readable(job[p].current) \/ raced
      BY <1>3 DEF PreservePrevious, CopiedGood
    <2>2. KnownGoodBackup'
      BY <1>3, <2>1 DEF PreservePrevious, Previous, Readable, KnownGoodBackup,
                        TypeOK, Directory
    <2>3. shown'["store"] = shown["store"]
      BY <1>3 DEF PreservePrevious, Previous, TypeOK, Directory
    <2>4. CopiedGood'
      BY <1>3, <2>3 DEF PreservePrevious, Advance, CopiedGood, Readable,
                        TypeOK
    <2> QED
      BY <2>2, <2>4
  <1>4. ASSUME NEW p \in Procs, KeepCurrent(p) PROVE GoodInv'
    <2>1. KnownGoodBackup'
      BY <1>4 DEF KeepCurrent, KnownGoodBackup, TypeOK, Directory
    <2>2. shown'["store"] = shown["store"]
      BY <1>4 DEF KeepCurrent, TypeOK, Directory
    <2>3. CopiedGood'
      <3>1. PICK step \in {"ready", "aside"} : Advance(p, step)
        BY <1>4 DEF KeepCurrent
      <3> QED
        BY <1>4, <2>2, <3>1, Advanced DEF KeepCurrent, CopiedGood
    <2> QED
      BY <2>1, <2>3
  <1>5. ASSUME NEW p \in Procs, Replace(p) PROVE GoodInv'
    <2>1. job[p].doc \in Doc
      BY DEF TypeOK, Job
    <2>2. KnownGoodBackup'
      BY <1>5, <2>1 DEF Replace, KnownGoodBackup, TypeOK, Directory
    <2>3. shown'["store"] \in {shown["store"], job[p].doc}
      BY <1>5 DEF Replace, TypeOK, Directory
    <2>4. CopiedGood'
      BY <1>5, <2>1, <2>3 DEF Replace, Advance, CopiedGood, Readable, TypeOK
    <2> QED
      BY <2>2, <2>4
  <1>6. ASSUME NEW p \in Procs, SyncAside(p) PROVE GoodInv'
    BY <1>6 DEF SyncAside, SyncDirectory, Advance, KnownGoodBackup, CopiedGood,
                TypeOK
  <1>7. ASSUME NEW p \in Procs, Finish(p) \/ Stop(p) PROVE GoodInv'
    <2>1. KnownGoodBackup'
      BY <1>7 DEF Finish, Stop, SyncDirectory, KnownGoodBackup
    <2>2. CopiedGood'
      BY <1>7 DEF Finish, Stop, CopiedGood, Idle, TypeOK
    <2> QED
      BY <2>1, <2>2
  <1>8. ASSUME NEW p \in Procs,
               BeginCommit(p) \/ BeginRestore(p) \/ BeginBackup(p)
                  \/ NumberRestored(p)
        PROVE  GoodInv'
    <2>1. UNCHANGED <<shown, stable, raced>>
      BY <1>8 DEF BeginCommit, BeginRestore, BeginBackup, NumberRestored
    <2>2. /\ job'[p].op = "commit" => job'[p].step = "begun"
          /\ \A q \in Procs : q # p => job'[q] = job[q]
      BY <1>8 DEF BeginCommit, BeginRestore, BeginBackup, NumberRestored, Begin,
                  TypeOK, Job
    <2>3. CopiedGood'
      BY <2>1, <2>2 DEF CopiedGood
    <2> QED
      BY <2>1, <2>3 DEF KnownGoodBackup
  <1>9. CASE PowerLoss
    BY <1>9 DEF PowerLoss, KnownGoodBackup, CopiedGood, Idle
  <1>10. CASE Damage
    <2>1. KnownGoodBackup'
      BY <1>10 DEF Damage, KnownGoodBackup, TypeOK, Directory
    <2>2. CopiedGood'
      BY <1>10 DEF Damage, Racing, CopiedGood
    <2> QED
      BY <2>1, <2>2
  <1>11. CASE UNCHANGED vars
    BY <1>11 DEF vars, KnownGoodBackup, CopiedGood
  <1> QED
    BY <1>1, <1>2, <1>3, <1>4, <1>5, <1>6, <1>7, <1>8, <1>9, <1>10, <1>11
       DEF Next, Step

\* Damage to the store reaches the backup only when it falls between the
\* validation of a commit and the copy that reads the store again: before, the
\* validation stops it; after, the copy has what was validated.
THEOREM BackupsGood == Spec => []KnownGoodBackup
  <1>1. Init => GoodInv
    BY Kinds DEF Init, GoodInv, KnownGoodBackup, CopiedGood, Idle
  <1>2. TypeOK /\ GoodInv /\ [Next]_vars => GoodInv'
    BY GoodStep
  <1>3. GoodInv => KnownGoodBackup
    BY DEF GoodInv
  <1> QED
    BY <1>1, <1>2, <1>3, TypeCorrect, PTL DEF Spec

------------------------------------------------------------------------------
(* The lock and the clock *)

LEMMA ReadVersion ==
    ASSUME TypeOK, Timely, NEW f \in FILES, Readable(shown[f])
    PROVE  /\ Read(shown[f]).version \in Nat
           /\ Read(shown[f]).version <= clock
  BY Kinds, Types DEF Timely, UpTo, Read, Readable, EmptyStore, Content

\* A restored document gets the version of the clock.
LEMMA RestoreVersion ==
    ASSUME TypeOK, Timely, NEW p \in Procs
    PROVE  RestoredVersion(job[p].doc, shown["store"]) = clock + 1
  <1>1. job[p].doc.version \in Nat /\ job[p].doc.version <= clock
    BY Types DEF Timely
  <1>2. shown["store"] \in Doc => /\ shown["store"].version \in Nat
                                  /\ shown["store"].version <= clock
    BY Kinds, Types DEF Timely, UpTo
  <1>3. clock \in Nat
    BY DEF TypeOK
  <1> QED
    BY <1>1, <1>2, <1>3 DEF RestoredVersion, CountedVersion

LEMMA AloneStep ==
    ASSUME TypeOK, Alone, [Next]_vars
    PROVE  Alone'
  <1>1. ASSUME NEW p \in Procs, Step(p) PROVE Alone'
    <2>1. CASE BeginCommit(p)
      BY <2>1, Begun DEF BeginCommit, Exclusive, Alone, Writing
    <2>2. CASE BeginRestore(p)
      <3>1. PICK doc : Begin(p, "restore", "read", doc)
        BY <2>2 DEF BeginRestore
      <3> QED
        BY <2>2, <3>1, Begun DEF BeginRestore, Exclusive, Alone, Writing
    <2>3. CASE BeginBackup(p)
      BY <2>3, Begun DEF BeginBackup, Shared, Alone, Writing
    <2>4. CASE /\ job[p].step # "idle"
               /\ \A q \in Procs : q # p => job'[q] = job[q]
               /\ \/ job'[p] = Idle
                  \/ job'[p].op = job[p].op /\ job'[p].step # "idle"
      BY <2>4 DEF Alone, Writing, Idle
    <2> QED
      BY <1>1, <2>1, <2>2, <2>3, <2>4, MovesOn
  <1>2. CASE PowerLoss
    BY <1>2 DEF PowerLoss, Alone, Writing, Idle
  <1>3. CASE Damage \/ UNCHANGED vars
    BY <1>3 DEF Damage, vars, Alone, Writing
  <1> QED
    BY <1>1, <1>2, <1>3 DEF Next

LEMMA TimelyStep ==
    ASSUME TypeOK, Timely, [Next]_vars
    PROVE  Timely'
  <1> USE Kinds
  <1>0. clock \in Nat /\ \A d \in Doc : d.version \in Nat
    BY Types
  <1>1. ASSUME NEW p \in Procs, BeginCommit(p) PROVE Timely'
    <2>1. clock' = clock + 1 /\ UNCHANGED <<shown, stable, acked>>
      BY <1>1 DEF BeginCommit
    <2>2. PICK doc : /\ Begin(p, "commit", "begun", doc)
                     /\ doc.version <= clock + 1
      BY <1>1, <1>0, ReadVersion DEF BeginCommit
    <2>3. \A f \in FILES : UpTo(shown[f], clock') /\ UpTo(stable[f], clock')
      BY <1>0, <2>1 DEF Timely, UpTo
    <2>4. \A a \in acked : a.version <= clock'
      BY <1>0, <2>1, Types DEF Timely
    <2>5. job'[p].doc.version <= clock' /\ UpTo(job'[p].current, clock')
      BY <2>1, <2>2, <2>3, Begun
    <2>6. \A q \in Procs : q # p => /\ job'[q].doc.version <= clock'
                                    /\ UpTo(job'[q].current, clock')
      BY <1>0, <2>1, <2>2, Begun, Types DEF Timely, UpTo
    <2> QED
      BY <2>1, <2>3, <2>4, <2>5, <2>6 DEF Timely
  <1>2. ASSUME NEW p \in Procs, BeginBackup(p) \/ BeginRestore(p)
        PROVE  Timely'
    <2>1. UNCHANGED <<shown, stable, clock, acked>>
      BY <1>2 DEF BeginBackup, BeginRestore
    <2>2. PICK f \in FILES : \E op, step :
             Readable(shown[f]) /\ Begin(p, op, step, Read(shown[f]))
      BY <1>2 DEF BeginBackup, BeginRestore, FILES
    <2>3. Read(shown[f]).version <= clock
      BY <2>2, ReadVersion
    <2>4. /\ job'[p].doc.version <= clock
          /\ UpTo(job'[p].current, clock)
          /\ \A q \in Procs : q # p => job'[q] = job[q]
      BY <2>2, <2>3, Begun DEF Timely
    <2> QED
      BY <2>1, <2>4 DEF Timely
  <1>3. ASSUME NEW p \in Procs, PreservePrevious(p) \/ KeepCurrent(p)
        PROVE  Timely'
    <2>1. UpTo(shown["store"], clock) /\ UpTo(job[p].current, clock)
      BY DEF Timely
    <2>2. \A f \in FILES : UpTo(shown'[f], clock)
      <3>1. CASE PreservePrevious(p)
        BY <2>1, <3>1 DEF PreservePrevious, Previous, Timely, UpTo, TypeOK,
                          Directory
      <3>2. CASE KeepCurrent(p)
        BY <2>1, <3>2 DEF KeepCurrent, Timely, UpTo, TypeOK, Directory
      <3> QED
        BY <1>3, <3>1, <3>2
    <2>3. \E step : Advance(p, step)
      BY <1>3 DEF PreservePrevious, KeepCurrent
    <2>4. \A q \in Procs : /\ job'[q].doc.version <= clock
                           /\ UpTo(job'[q].current, clock)
      BY <2>3, Advanced DEF Timely
    <2>5. UNCHANGED <<stable, clock, acked>>
      BY <1>3 DEF PreservePrevious, KeepCurrent
    <2> QED
      BY <2>2, <2>4, <2>5 DEF Timely
  <1>4. ASSUME NEW p \in Procs, SyncAside(p) PROVE Timely'
    BY <1>4, Advanced DEF SyncAside, SyncDirectory, Timely
  <1>5. ASSUME NEW p \in Procs, Replace(p) PROVE Timely'
    <2>1. UpTo(job[p].doc, clock)
      BY DEF Timely, UpTo
    <2>2. \A f \in FILES : shown'[f] \in {shown[f], job[p].doc}
      BY <1>5, Replaced DEF FILES
    <2>3. \A f \in FILES : UpTo(shown'[f], clock)
      BY <2>1, <2>2 DEF Timely
    <2>4. \A q \in Procs : /\ job'[q].doc.version <= clock
                           /\ UpTo(job'[q].current, clock)
      BY <1>5, Advanced DEF Replace, Timely
    <2>5. UNCHANGED <<stable, clock, acked>>
      BY <1>5 DEF Replace
    <2> QED
      BY <2>3, <2>4, <2>5 DEF Timely
  <1>6. ASSUME NEW p \in Procs, Finish(p) \/ Stop(p) PROVE Timely'
    <2>1. job' = [job EXCEPT ![p] = Idle] /\ clock' = clock
      BY <1>6 DEF Finish, Stop
    <2>2. UpTo(Idle.current, clock) /\ Idle.doc.version <= clock
      BY <1>0 DEF Idle, EmptyStore, UpTo
    <2>3. \A q \in Procs : /\ job'[q].doc.version <= clock
                           /\ UpTo(job'[q].current, clock)
      BY <2>1, <2>2, Ended DEF Timely
    <2>4. \A f \in FILES : UpTo(shown'[f], clock) /\ UpTo(stable'[f], clock)
      BY <1>6 DEF Finish, Stop, SyncDirectory, Timely
    <2>5. \A a \in acked' : a.version <= clock
      BY <1>6 DEF Finish, Stop, Timely
    <2> QED
      BY <2>1, <2>3, <2>4, <2>5 DEF Timely
  <1>7. CASE PowerLoss
    <2>1. \A f \in FILES : shown'[f] \in {shown[f], stable[f]}
      BY <1>7 DEF PowerLoss
    <2>2. \A f \in FILES : UpTo(shown'[f], clock) /\ UpTo(stable'[f], clock)
      BY <1>7, <2>1 DEF PowerLoss, Timely
    <2>3. \A q \in Procs : job'[q] = Idle
      BY <1>7 DEF PowerLoss
    <2>4. UpTo(Idle.current, clock) /\ Idle.doc.version <= clock
      BY <1>0 DEF Idle, EmptyStore, UpTo
    <2>5. UNCHANGED <<clock, acked>>
      BY <1>7 DEF PowerLoss
    <2> QED
      BY <2>2, <2>3, <2>4, <2>5 DEF Timely
  <1>8. CASE Damage
    BY <1>8 DEF Damage, Timely, UpTo, TypeOK, Directory
  <1>9. CASE UNCHANGED vars
    BY <1>9 DEF vars, Timely
  <1>10. ASSUME NEW p \in Procs, ValidatePrevious(p) \/ ReadPrevious(p)
         PROVE  Timely'
    <2>1. UNCHANGED <<shown, stable, clock, acked>>
      BY <1>10 DEF ValidatePrevious, ReadPrevious
    <2>2. /\ job'[p].doc = job[p].doc
          /\ job'[p].current \in {job[p].current, shown["store"]}
          /\ \A q \in Procs : q # p => job'[q] = job[q]
      BY <1>10, Advanced, ReadAgain DEF ValidatePrevious
    <2> QED
      BY <2>1, <2>2 DEF Timely
  <1>11. ASSUME NEW p \in Procs, NumberRestored(p) PROVE Timely'
    <2>1. clock' = clock + 1 /\ UNCHANGED <<shown, stable, acked>>
      BY <1>11 DEF NumberRestored
    <2>2. /\ job'[p].doc.version = clock + 1
          /\ job'[p].current = job[p].current
          /\ \A q \in Procs : q # p => job'[q] = job[q]
      BY <1>11, Numbered, RestoreVersion
    <2>3. \A f \in FILES : UpTo(shown[f], clock') /\ UpTo(stable[f], clock')
      BY <1>0, <2>1 DEF Timely, UpTo
    <2>4. \A a \in acked : a.version <= clock'
      BY <1>0, <2>1, Types DEF Timely
    <2>5. \A q \in Procs : /\ job'[q].doc.version <= clock'
                           /\ UpTo(job'[q].current, clock')
      BY <1>0, <2>1, <2>2, Types DEF Timely, UpTo
    <2> QED
      BY <2>1, <2>3, <2>4, <2>5 DEF Timely
  <1> QED
    BY <1>1, <1>2, <1>3, <1>4, <1>5, <1>6, <1>7, <1>8, <1>9, <1>10, <1>11
       DEF Next, Step

------------------------------------------------------------------------------
(* What is reported *)

\* While a job is under way, no other job writes.
LEMMA OnlyWriter ==
    ASSUME Alone, NEW p \in Procs, job[p].step # "idle",
           NEW q \in Procs, q # p
    PROVE  ~ Writing(q)
  BY DEF Alone

\* Steps that leave the name of the store alone, and may sync it.
LEMMA StoreStays ==
    ASSUME TypeOK, ReportedInv, Fresh', acked' = acked,
           shown'["store"] = shown["store"],
           stable'["store"] \in {shown["store"], stable["store"]}
    PROVE  ReportedInv'
  <1> USE Kinds
  <1>1. Ordered'
    BY Types DEF ReportedInv, Ordered, FILES, Content, AcknowledgedSurvives
  <1>2. AcknowledgedSurvives'
    BY DEF ReportedInv, AcknowledgedSurvives
  <1>3. VersionsNameDocs'
    BY DEF ReportedInv, VersionsNameDocs
  <1> QED
    BY <1>1, <1>2, <1>3 DEF ReportedInv

LEMMA ReportedBegin ==
    ASSUME TypeOK, AloneInv, ReportedInv, NEW p \in Procs,
           BeginCommit(p) \/ BeginRestore(p) \/ BeginBackup(p)
    PROVE  ReportedInv'
  <1> USE Kinds
  <1>0. /\ clock \in Nat
        /\ \A a \in acked : a.version \in Nat /\ a.version <= clock
        /\ \A d \in Doc : d.version \in Nat
        /\ UpTo(shown["store"], clock) /\ UpTo(stable["store"], clock)
        /\ shown["store"] \in Content /\ stable["store"] \in Content
    BY Types DEF AloneInv, Timely
  <1>1. UNCHANGED <<shown, stable, acked>>
    BY DEF BeginCommit, BeginRestore, BeginBackup
  <1>2. CASE BeginCommit(p)
    <2>1. PICK doc : /\ Begin(p, "commit", "begun", doc)
                     /\ doc.version = Read(shown["store"]).version + 1
      BY <1>2 DEF BeginCommit
    <2>2. shown["store"] \in Doc \cup {Absent}
      BY <1>0, <1>2 DEF BeginCommit, Readable, Content
    <2>3. \A a \in acked : a.version < doc.version
      BY <1>0, <2>1, <2>2
         DEF ReportedInv, AcknowledgedSurvives, Read
    <2>4. Below(shown["store"], doc.version)
      BY <1>0, <2>1 DEF Below, Read
    <2>5. Below(stable["store"], doc.version)
      BY <1>0, <2>1, <2>2 DEF Below, Read, ReportedInv, Ordered
    <2>6. \A q \in Procs : q # p => ~ Writing(q)'
      BY <1>2, <2>1, Begun DEF BeginCommit, Exclusive, Writing
    <2>7. Fresh'
      BY <1>1, <2>1, <2>3, <2>4, <2>5, <2>6, Begun DEF Fresh
    <2> QED
      BY <1>1, <2>7, StoreStays
  <1>3. CASE BeginRestore(p)
    <2>1. PICK doc : Begin(p, "restore", "read", doc)
      BY <1>3 DEF BeginRestore
    <2>2. \A q \in Procs : q # p => ~ Writing(q)'
      BY <1>3, <2>1, Begun DEF BeginRestore, Exclusive, Writing
    <2>3. Fresh'
      BY <2>1, <2>2, Begun DEF Fresh
    <2> QED
      BY <1>1, <2>3, StoreStays
  <1>4. CASE BeginBackup(p)
    <2>1. ~ Writing(p)' /\ \A q \in Procs : q # p => job'[q] = job[q]
      BY <1>4, Begun DEF BeginBackup, Writing
    <2>2. Fresh'
      BY <1>1, <2>1 DEF Fresh, Writing, ReportedInv
    <2> QED
      BY <1>1, <2>2, StoreStays
  <1> QED
    BY <1>2, <1>3, <1>4

LEMMA ReportedNumber ==
    ASSUME TypeOK, AloneInv, ReportedInv, NEW p \in Procs, NumberRestored(p)
    PROVE  ReportedInv'
  <1>1. /\ job[p].step = "read" /\ UNCHANGED <<shown, stable, acked>>
    BY DEF NumberRestored
  <1>2. /\ clock \in Nat
        /\ \A a \in acked : a.version \in Nat /\ a.version <= clock
        /\ \A d \in Doc : d.version \in Nat
        /\ UpTo(shown["store"], clock) /\ UpTo(stable["store"], clock)
    BY Kinds, Types DEF AloneInv, Timely
  <1>3. /\ job'[p].step = "copied" /\ job'[p].doc.version = clock + 1
        /\ \A q \in Procs : q # p => ~ Writing(q) /\ job'[q] = job[q]
    BY <1>1, Numbered, RestoreVersion, OnlyWriter DEF AloneInv
  <1>4. \A a \in acked : a.version < job'[p].doc.version
    BY <1>2, <1>3
  <1>5. /\ Below(shown["store"], job'[p].doc.version)
        /\ Below(stable["store"], job'[p].doc.version)
    BY <1>2, <1>3 DEF Below, UpTo
  <1>6. Fresh'
    BY <1>1, <1>3, <1>4, <1>5 DEF Fresh, Writing
  <1> QED
    BY <1>1, <1>6, StoreStays

LEMMA ReportedSetAside ==
    ASSUME TypeOK, AloneInv, ReportedInv, NEW p \in Procs,
           \/ ValidatePrevious(p) \/ ReadPrevious(p) \/ PreservePrevious(p)
           \/ KeepCurrent(p) \/ SyncAside(p)
    PROVE  ReportedInv'
  <1>1. /\ job[p].step \in {"begun", "validated", "copied", "aside"}
        /\ acked' = acked
    BY DEF ValidatePrevious, ReadPrevious, PreservePrevious, KeepCurrent,
           SyncAside
  <1>2. shown'["store"] = shown["store"]
    BY PreviousKept, CurrentKept
       DEF ValidatePrevious, ReadPrevious, SyncAside
  <1>3. stable'["store"] \in {shown["store"], stable["store"]}
    BY DEF ValidatePrevious, ReadPrevious, PreservePrevious, KeepCurrent,
           SyncAside, SyncDirectory
  <1>4. /\ job'[p].step \in {"validated", "copied", "aside", "ready"}
        /\ job'[p].op = job[p].op /\ job'[p].doc = job[p].doc
        /\ \A q \in Procs : q # p => job'[q] = job[q]
    <2>1. CASE ReadPrevious(p)
      BY <2>1, ReadAgain
    <2>2. CASE \E step \in {"validated", "aside", "ready"} : Advance(p, step)
      BY <2>2, Advanced
    <2> QED
      BY <2>1, <2>2
         DEF ValidatePrevious, PreservePrevious, KeepCurrent, SyncAside
  <1>5. \A q \in Procs : q # p => ~ Writing(q)
    BY <1>1, OnlyWriter DEF AloneInv
  <1>6. Fresh'
    BY <1>1, <1>2, <1>3, <1>4, <1>5 DEF ReportedInv, Fresh, Writing
  <1> QED
    BY <1>1, <1>2, <1>3, <1>6, StoreStays

LEMMA ReportedReplace ==
    ASSUME TypeOK, AloneInv, ReportedInv, NEW p \in Procs, Replace(p)
    PROVE  ReportedInv'
  <1> USE Kinds
  <1>1. job[p].step = "ready" /\ UNCHANGED <<acked, stable>>
    BY DEF Replace
  <1>2. /\ job'[p].step = "replaced" /\ job'[p].op = job[p].op
        /\ job'[p].doc = job[p].doc
    BY Advanced DEF Replace
  <1>3. \A q \in Procs : q # p => ~ Writing(q) /\ job'[q] = job[q]
    BY <1>1, OnlyWriter, Advanced DEF AloneInv, Replace
  <1>4. CASE job[p].op = "backup"
    <2>1. Fresh'
      BY <1>2, <1>3, <1>4 DEF Fresh, Writing
    <2> QED
      BY <1>1, <1>4, <2>1, Replaced, StoreStays
  <1>5. CASE job[p].op # "backup"
    <2>1. /\ shown'["store"] = job[p].doc /\ job[p].doc \in Doc
          /\ job[p].doc.version \in Nat
      BY <1>5, Replaced, Types
    <2>2. /\ \A a \in acked : a.version < job[p].doc.version
          /\ Below(stable["store"], job[p].doc.version)
      BY <1>1, <1>5 DEF ReportedInv, Fresh, Writing
    <2>3. Fresh'
      BY <1>1, <1>2, <1>3, <2>1, <2>2 DEF Fresh, Writing
    <2>4. Ordered'
      BY <1>1, <2>1, <2>2, Types DEF Ordered, Below
    <2>5. AcknowledgedSurvives'
      BY <1>1, <2>1, <2>2, Types DEF AcknowledgedSurvives, ReportedInv
    <2>6. \A d \in acked \cup ({stable["store"]} \cap Doc) :
             d.version \in Nat /\ d.version < job[p].doc.version
      BY <2>2, Types DEF Below
    <2>7. VersionsNameDocs'
      BY <1>1, <2>1, <2>6 DEF VersionsNameDocs, ReportedInv
    <2> QED
      BY <2>3, <2>4, <2>5, <2>7 DEF ReportedInv
  <1> QED
    BY <1>4, <1>5

LEMMA ReportedFinish ==
    ASSUME TypeOK, AloneInv, ReportedInv, NEW p \in Procs, Finish(p)
    PROVE  ReportedInv'
  <1> USE Kinds
  <1>1. job[p].step = "replaced" /\ shown' = shown /\ stable' = shown
    BY DEF Finish, SyncDirectory
  <1>2. \A q \in Procs : ~ Writing(q)'
    <2>1. job' = [job EXCEPT ![p] = Idle]
      BY DEF Finish
    <2>2. \A q \in Procs : q # p => ~ Writing(q) /\ job'[q] = job[q]
      BY <1>1, <2>1, OnlyWriter, Ended DEF AloneInv
    <2>3. job'[p].step = "idle"
      BY <2>1, Ended
    <2> QED
      BY <2>2, <2>3 DEF Writing
  <1>3. Fresh'
    BY <1>2 DEF Fresh
  <1>4. CASE job[p].op = "backup"
    BY <1>1, <1>3, <1>4, StoreStays DEF Finish
  <1>5. CASE job[p].op # "backup"
    <2>1. acked' = acked \cup {job[p].doc}
      BY <1>5 DEF Finish
    <2>2. /\ shown["store"] \in {job[p].doc, Unreadable}
          /\ \A a \in acked : a.version < job[p].doc.version
      BY <1>1, <1>5 DEF ReportedInv, Fresh, Writing
    <2>3. /\ job[p].doc \in Doc /\ job[p].doc.version \in Nat
          /\ \A a \in acked : a.version \in Nat
      BY Types
    <2>4. Ordered'
      BY <1>1, <2>2, <2>3 DEF Ordered
    <2>5. AcknowledgedSurvives'
      BY <1>1, <2>1, <2>2, <2>3 DEF AcknowledgedSurvives
    <2>6. VersionsNameDocs'
      BY <1>1, <2>1, <2>2, <2>3 DEF VersionsNameDocs, ReportedInv
    <2> QED
      BY <1>3, <2>4, <2>5, <2>6 DEF ReportedInv
  <1> QED
    BY <1>4, <1>5

LEMMA ReportedPowerLoss ==
    ASSUME TypeOK, ReportedInv, PowerLoss
    PROVE  ReportedInv'
  <1> USE Kinds
  <1>1. /\ shown'["store"] \in {shown["store"], stable["store"]}
        /\ stable' = shown' /\ acked' = acked
    BY DEF PowerLoss
  <1>2. Fresh'
    BY DEF PowerLoss, Fresh, Writing, Idle
  <1>3. \A d \in Doc : d.version \in Nat
    BY Types
  <1>4. shown'["store"] \in Content
    BY <1>1, Types
  <1>5. Ordered'
    BY <1>1, <1>3, <1>4 DEF Ordered
  <1>6. AcknowledgedSurvives'
    BY <1>1 DEF ReportedInv, AcknowledgedSurvives
  <1>7. VersionsNameDocs'
    BY <1>1 DEF ReportedInv, VersionsNameDocs
  <1> QED
    BY <1>2, <1>5, <1>6, <1>7 DEF ReportedInv

LEMMA ReportedDamage ==
    ASSUME TypeOK, ReportedInv, Damage
    PROVE  ReportedInv'
  <1> USE Kinds
  <1>1. UNCHANGED <<job, acked>>
    BY DEF Damage
  <1>2. /\ shown'["store"] = Unreadable
        /\ stable'["store"] \in {stable["store"], Unreadable}
    BY Damaged
  <1>3. Fresh'
    BY <1>1, <1>2 DEF ReportedInv, Fresh, Below, Writing
  <1>4. Ordered'
    BY <1>2 DEF Ordered
  <1>5. AcknowledgedSurvives'
    BY <1>1, <1>2 DEF ReportedInv, AcknowledgedSurvives
  <1>6. VersionsNameDocs'
    BY <1>1, <1>2 DEF ReportedInv, VersionsNameDocs
  <1> QED
    BY <1>3, <1>4, <1>5, <1>6 DEF ReportedInv

LEMMA ReportedStep ==
    ASSUME TypeOK, AloneInv, ReportedInv, [Next]_vars
    PROVE  ReportedInv'
  <1>1. ASSUME NEW p \in Procs, Stop(p) PROVE ReportedInv'
    <2>1. Fresh'
      BY <1>1, Ended DEF Stop, ReportedInv, Fresh, Writing
    <2> QED
      BY <1>1, <2>1, StoreStays DEF Stop
  <1>2. CASE UNCHANGED vars
    <2>1. Fresh'
      BY <1>2 DEF vars, ReportedInv, Fresh, Writing
    <2> QED
      BY <1>2, <2>1, StoreStays DEF vars
  <1> QED
    BY <1>1, <1>2, ReportedBegin, ReportedNumber, ReportedSetAside,
       ReportedReplace, ReportedFinish, ReportedPowerLoss, ReportedDamage
       DEF Next, Step

------------------------------------------------------------------------------
(* What is remembered *)

LEMMA RememberedBegin ==
    ASSUME TypeOK, AloneInv, RememberedInv, NEW p \in Procs,
           BeginCommit(p) \/ BeginRestore(p) \/ BeginBackup(p)
    PROVE  RememberedInv'
  <1> USE Kinds
  <1>1. UNCHANGED <<shown, stable, before>>
    BY DEF BeginCommit, BeginRestore, BeginBackup
  <1>2. Kept'
    BY <1>1 DEF RememberedInv, Kept, Good
  <1>3. PICK op, step, doc :
           /\ Begin(p, op, step, doc)
           /\ op = "backup" => /\ Readable(shown["store"])
                               /\ doc = Read(shown["store"])
           /\ op = "backup" => step = "ready"
           /\ op # "backup" => step \in EARLY
           /\ \A q \in Procs : job[q].step = "idle" \/ job[q].op = "backup"
           /\ op # "backup" => \A q \in Procs : job[q].step = "idle"
    BY DEF BeginCommit, BeginRestore, BeginBackup, Exclusive, Shared, EARLY
  <1>4. /\ job'[p].op = op /\ job'[p].step = step /\ job'[p].doc = doc
        /\ job'[p].current = shown["store"]
        /\ \A q \in Procs : q # p => job'[q] = job[q]
    BY <1>3, Begun
  <1>5. Since'
    <2> SUFFICES ASSUME before \in Doc PROVE Since'
      BY <1>1 DEF Since
    <2>1. Spoilt(shown["store"]) \/ Good(shown["store"])
      BY DEF RememberedInv, Since
    <2>2. op = "backup" => Good(doc)
      BY <1>3, <2>1 DEF Spoilt, Good, Readable, Read
    <2> QED
      BY <1>1, <1>3, <1>4, <2>1, <2>2
         DEF RememberedInv, Since, Good, Spoilt, EARLY
  <1>6. SetAside'
    BY <1>1, <1>3, <1>4 DEF SetAside, Writing, EARLY
  <1> QED
    BY <1>2, <1>5, <1>6 DEF RememberedInv

\* Steps that only read.
LEMMA RememberedRead ==
    ASSUME TypeOK, AloneInv, RememberedInv, NEW p \in Procs,
           ValidatePrevious(p) \/ ReadPrevious(p) \/ NumberRestored(p)
    PROVE  RememberedInv'
  <1> USE Kinds
  <1>1. /\ job[p].op \in {"commit", "restore"} /\ job[p].step \in EARLY
        /\ UNCHANGED <<shown, stable, before>>
    BY DEF ValidatePrevious, ReadPrevious, NumberRestored, EARLY
  <1>2. /\ job'[p].op = job[p].op
        /\ job'[p].step \in EARLY \/ job'[p].step = "ready"
        /\ job'[p].step = "ready" => shown["store"] = Absent
        /\ job'[p].current \in {job[p].current, shown["store"]}
        /\ \A q \in Procs : q # p => job'[q] = job[q]
    <2>1. CASE ReadPrevious(p)
      BY <2>1, ReadAgain DEF EARLY
    <2>2. CASE NumberRestored(p)
      BY <2>2, Numbered DEF EARLY
    <2>3. CASE ValidatePrevious(p)
      <3>1. PICK step \in {"validated", "ready"} :
               Advance(p, step) /\ (step = "ready" => shown["store"] = Absent)
        BY <2>3 DEF ValidatePrevious
      <3> QED
        BY <3>1, Advanced DEF EARLY
    <2> QED
      BY <2>1, <2>2, <2>3
  <1>3. \A q \in Procs : q # p => ~ Writing(q)
    BY <1>1, OnlyWriter DEF AloneInv, EARLY
  <1>4. Kept'
    BY <1>1 DEF RememberedInv, Kept, Good, Spoilt
  <1>5. Since'
    BY <1>1, <1>2 DEF RememberedInv, Since, Good, Spoilt, EARLY
  <1>6. SetAside'
    BY <1>1, <1>2, <1>3 DEF RememberedInv, SetAside, Writing, EARLY
  <1> QED
    BY <1>4, <1>5, <1>6 DEF RememberedInv

LEMMA RememberedPrevious ==
    ASSUME TypeOK, AloneInv, RememberedInv, NEW p \in Procs,
           PreservePrevious(p)
    PROVE  RememberedInv'
  <1> USE Kinds
  <1>1. /\ job[p].op = "commit" /\ job[p].step \in EARLY
        /\ job[p].step # "idle"
        /\ UNCHANGED <<stable, before>> /\ Advance(p, "aside")
    BY DEF PreservePrevious, EARLY
  <1>2. /\ shown'["store"] = shown["store"]
        /\ shown'["pre"] = shown["pre"]
        /\ shown'["bak"] = job[p].current
    BY PreviousKept
  <1>3. /\ job'[p].op = "commit" /\ job'[p].step = "aside"
        /\ \A q \in Procs : q # p => ~ Writing(q) /\ job'[q] = job[q]
    BY <1>1, Advanced, OnlyWriter DEF AloneInv
  <1>4. Kept'
    BY <1>1, <1>2 DEF RememberedInv, Kept, Since, Good, Spoilt
  <1>5. Since'
    BY <1>1, <1>2, <1>3 DEF RememberedInv, Since, Good, Spoilt, EARLY
  <1>6. SetAside'
    <2>1. shown["store"] \in Doc => job[p].current = shown["store"]
      BY <1>1 DEF RememberedInv, SetAside, Writing
    <2> QED
      BY <1>2, <1>3, <2>1 DEF SetAside, Writing, EARLY
  <1> QED
    BY <1>4, <1>5, <1>6 DEF RememberedInv

LEMMA RememberedCurrent ==
    ASSUME TypeOK, AloneInv, RememberedInv, NEW p \in Procs, KeepCurrent(p)
    PROVE  RememberedInv'
  <1> USE Kinds
  <1>1. /\ job[p].op = "restore" /\ job[p].step \in EARLY
        /\ job[p].step # "idle"
        /\ UNCHANGED <<stable, before>>
    BY DEF KeepCurrent, EARLY
  <1>2. PICK step \in {"aside", "ready"} :
           /\ Advance(p, step)
           /\ step = "ready" => /\ shown'["pre"] = shown["pre"]
                                /\ job[p].current = Absent
           /\ step = "aside" => shown'["pre"] = job[p].current
    BY CurrentKept
  <1>3. /\ shown'["store"] = shown["store"]
        /\ shown'["bak"] = shown["bak"]
    BY CurrentKept
  <1>4. /\ job'[p].op = "restore" /\ job'[p].step = step
        /\ \A q \in Procs : q # p => ~ Writing(q) /\ job'[q] = job[q]
    BY <1>1, <1>2, Advanced, OnlyWriter DEF AloneInv
  <1>5. Kept'
    BY <1>1, <1>2, <1>3 DEF RememberedInv, Kept, Since, Good, Spoilt
  <1>6. Since'
    BY <1>1, <1>3, <1>4 DEF RememberedInv, Since, Good, Spoilt, EARLY
  <1>7. SetAside'
    <2>1. shown["store"] \in Doc => job[p].current = shown["store"]
      BY <1>1 DEF RememberedInv, SetAside, Writing
    <2> QED
      BY <1>2, <1>3, <1>4, <2>1 DEF SetAside, Writing, EARLY
  <1> QED
    BY <1>5, <1>6, <1>7 DEF RememberedInv

LEMMA RememberedSync ==
    ASSUME TypeOK, AloneInv, RememberedInv, NEW p \in Procs, SyncAside(p)
    PROVE  RememberedInv'
  <1>1. /\ job[p].step = "aside" /\ Advance(p, "ready")
        /\ shown' = shown /\ stable' = shown /\ before' = before
    BY DEF SyncAside, SyncDirectory
  <1>2. /\ job'[p].op = job[p].op /\ job'[p].step = "ready"
        /\ job'[p].doc = job[p].doc
        /\ \A q \in Procs : q # p => ~ Writing(q) /\ job'[q] = job[q]
    BY <1>1, Advanced, OnlyWriter DEF AloneInv
  <1>3. Kept'
    BY <1>1 DEF RememberedInv, Kept, Good, Spoilt
  <1>4. Since'
    BY <1>1, <1>2 DEF RememberedInv, Since, Good, Spoilt, EARLY
  <1>5. SetAside'
    BY <1>1, <1>2 DEF RememberedInv, SetAside, Writing, EARLY
  <1> QED
    BY <1>3, <1>4, <1>5 DEF RememberedInv

LEMMA RememberedReplace ==
    ASSUME TypeOK, AloneInv, ReportedInv, RememberedInv, NEW p \in Procs,
           Replace(p)
    PROVE  RememberedInv'
  <1> USE Kinds
  <1>1. job[p].step = "ready" /\ stable' = stable
    BY DEF Replace
  <1>2. /\ job'[p].op = job[p].op /\ job'[p].step = "replaced"
        /\ job'[p].doc = job[p].doc
        /\ \A q \in Procs : q # p => ~ Writing(q) /\ job'[q] = job[q]
    BY <1>1, Advanced, OnlyWriter DEF Replace, AloneInv
  <1>3. SetAside'
    BY <1>2 DEF SetAside, Writing, EARLY
  <1>4. CASE job[p].op = "backup"
    <2>1. /\ shown'["store"] = shown["store"] /\ shown'["pre"] = shown["pre"]
          /\ shown'["bak"] = job[p].doc /\ before' = before
      BY <1>4, Replaced
    <2>2. Kept'
      BY <1>1, <1>4, <2>1 DEF RememberedInv, Kept, Since, Good, Spoilt
    <2>3. Since'
      BY <1>1, <1>2, <2>1 DEF RememberedInv, Since, Good, Spoilt, EARLY
    <2> QED
      BY <1>3, <2>2, <2>3 DEF RememberedInv
  <1>5. CASE job[p].op # "backup"
    <2> SUFFICES ASSUME shown["store"] \in Doc PROVE RememberedInv'
      BY <1>3, <1>5, Replaced DEF RememberedInv, Kept, Since
    <2>1. /\ shown'["store"] = job[p].doc /\ shown'["pre"] = shown["pre"]
          /\ shown'["bak"] = shown["bak"] /\ before' = shown["store"]
      BY <1>5, Replaced
    <2>2. /\ stable["store"] = shown["store"]
          /\ \E f \in {"bak", "pre"} : /\ shown[f] = shown["store"]
                                       /\ stable[f] = shown["store"]
      BY <1>1, <1>5 DEF RememberedInv, SetAside, Writing, EARLY
    <2>3. /\ shown["store"].version \in Nat /\ job[p].doc.version \in Nat
          /\ job[p].doc \in Doc
          /\ shown["store"].version < job[p].doc.version
      BY <1>1, <1>5, Types DEF ReportedInv, Fresh, Writing, Below
    <2>4. Kept'
      BY <1>1, <2>1, <2>2, <2>3 DEF Kept, Good
    <2>5. \A q \in Procs : q # p => job'[q].step = "idle"
      BY <1>1, <1>2, <1>5 DEF AloneInv, Alone, Writing
    <2>6. Since'
      BY <1>1, <1>2, <1>5, <2>1, <2>2, <2>3, <2>5 DEF Since, Good, EARLY
    <2> QED
      BY <1>3, <2>4, <2>6 DEF RememberedInv
  <1> QED
    BY <1>4, <1>5

LEMMA RememberedFinish ==
    ASSUME TypeOK, AloneInv, RememberedInv, NEW p \in Procs,
           Finish(p) \/ Stop(p)
    PROVE  RememberedInv'
  <1>1. /\ job[p].step # "idle" /\ job' = [job EXCEPT ![p] = Idle]
        /\ shown' = shown /\ stable' \in {stable, shown} /\ before' = before
    BY DEF Finish, Stop, SyncDirectory
  <1>2. /\ job'[p].step = "idle"
        /\ \A q \in Procs : q # p => ~ Writing(q) /\ job'[q] = job[q]
    BY <1>1, Ended, OnlyWriter DEF AloneInv
  <1>3. Kept'
    BY <1>1 DEF RememberedInv, Kept, Good, Spoilt
  <1>4. Since'
    BY <1>1, <1>2 DEF RememberedInv, Since, Good, Spoilt, EARLY
  <1>5. SetAside'
    BY <1>2 DEF SetAside, Writing, EARLY
  <1> QED
    BY <1>3, <1>4, <1>5 DEF RememberedInv

LEMMA RememberedPowerLoss ==
    ASSUME TypeOK, RememberedInv, PowerLoss
    PROVE  RememberedInv'
  <1> USE Kinds
  <1>1. /\ \A f \in FILES : shown'[f] \in {shown[f], stable[f]}
        /\ stable' = shown' /\ before' = before
        /\ \A p \in Procs : job'[p].step = "idle"
    BY DEF PowerLoss, Idle
  <1>2. Kept'
    BY <1>1 DEF RememberedInv, Kept, Good, Spoilt
  <1>3. Since'
    BY <1>1 DEF RememberedInv, Since, Good, Spoilt, EARLY
  <1>4. SetAside'
    BY <1>1 DEF SetAside, Writing, EARLY
  <1> QED
    BY <1>2, <1>3, <1>4 DEF RememberedInv

LEMMA RememberedDamage ==
    ASSUME TypeOK, RememberedInv, Damage
    PROVE  RememberedInv'
  <1> USE Kinds
  <1>1. UNCHANGED <<job, before>>
    BY DEF Damage
  <1>2. Kept'
    BY <1>1, Damaged DEF RememberedInv, Kept, Good, Spoilt
  <1>3. Since'
    BY <1>1, Damaged DEF RememberedInv, Since, Good, Spoilt, EARLY
  <1>4. SetAside'
    BY Damaged DEF SetAside
  <1> QED
    BY <1>2, <1>3, <1>4 DEF RememberedInv

LEMMA RememberedStep ==
    ASSUME TypeOK, AloneInv, ReportedInv, RememberedInv, [Next]_vars
    PROVE  RememberedInv'
  <1>1. CASE UNCHANGED vars
    BY <1>1 DEF vars, RememberedInv, Kept, Since, SetAside, Writing, Good,
                Spoilt
  <1> QED
    BY <1>1, RememberedBegin, RememberedRead, RememberedPrevious,
       RememberedCurrent, RememberedSync, RememberedReplace, RememberedFinish,
       RememberedPowerLoss, RememberedDamage DEF Next, Step

------------------------------------------------------------------------------
(* Theorems *)

LEMMA Inductive == Spec => [](AloneInv /\ ReportedInv /\ RememberedInv)
  <1>1. Init => AloneInv /\ ReportedInv /\ RememberedInv
    <2> USE Kinds
    <2> SUFFICES ASSUME Init PROVE AloneInv /\ ReportedInv /\ RememberedInv
      OBVIOUS
    <2>1. /\ \A f \in FILES : shown[f] = Absent /\ stable[f] = Absent
          /\ \A p \in Procs : job[p] = Idle
          /\ acked = {} /\ before = Absent /\ clock = 0
      BY DEF Init
    <2>2. Idle.step = "idle" /\ Idle.doc.version = 0 /\ Idle.current = Absent
      BY DEF Idle, EmptyStore
    <2>3. AloneInv
      BY <2>1, <2>2 DEF AloneInv, Alone, Timely, Writing, UpTo
    <2>4. ReportedInv
      BY <2>1, <2>2 DEF ReportedInv, Ordered, Fresh, Writing,
                        AcknowledgedSurvives, VersionsNameDocs
    <2>5. RememberedInv
      BY <2>1, <2>2 DEF RememberedInv, Kept, Since, SetAside, Writing, EARLY
    <2> QED
      BY <2>3, <2>4, <2>5
  <1>2. TypeOK /\ (AloneInv /\ ReportedInv /\ RememberedInv) /\ [Next]_vars
           => (AloneInv /\ ReportedInv /\ RememberedInv)'
    BY AloneStep, TimelyStep, ReportedStep, RememberedStep DEF AloneInv
  <1> QED
    BY <1>1, <1>2, TypeCorrect, PTL DEF Spec

\* No kill, failure or power loss takes back a write that was reported done.
THEOREM ReportedStays == Spec => []AcknowledgedSurvives
  <1>1. ReportedInv => AcknowledgedSurvives
    BY DEF ReportedInv
  <1> QED
    BY <1>1, Inductive, PTL

\* A version is never given to two documents, also when a restore cannot read
\* the version it replaces.
THEOREM VersionsDiffer == Spec => []VersionsNameDocs
  <1>1. ReportedInv => VersionsNameDocs
    BY DEF ReportedInv
  <1> QED
    BY <1>1, Inductive, PTL

\* What the last write replaced, or something newer, can still be read when the
\* store cannot, wherever operations were cut short, as long as neither .bak nor
\* .pre-restore was given damaged bytes.
THEOREM PredecessorReadable == Spec => []LossCostsOneWrite
  <1>1. RememberedInv => LossCostsOneWrite
    BY DEF RememberedInv, Kept, Good, Spoilt, LossCostsOneWrite, Readable
  <1> QED
    BY <1>1, Inductive, PTL

==============================================================================
