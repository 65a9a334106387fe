---------------------------- MODULE ServingProofs ----------------------------
(***************************************************************************)
(* Theorems about Serving, for every set of workspaces, pages, agents and  *)
(* callers, and every value of the bounds.                                 *)
(***************************************************************************)
EXTENDS Serving, FiniteSetTheorems, WellFoundedInduction, TLAPS

------------------------------------------------------------------------------
(* Who leaves what alone *)

LEMMA ReadersWriteNothing ==
    ASSUME NEW r, ReaderStep(r)
    PROVE  UNCHANGED served
  BY DEF ReaderStep, BeginRead, FollowUp, RenewToken, Deny, RefuseRead,
         LoadContext, Reread, RefuseMoved, AnswerRead

LEMMA CallersWriteNothing ==
    ASSUME NEW c, AskTurn(c) \/ CallerTurn(c) \/ ProviderTurn(c)
    PROVE  UNCHANGED served
  <1>1. CASE Ask(c)
    BY <1>1 DEF Ask, Admit, RefuseEnrich
  <1>2. CASE CallerStep(c)
    BY <1>2 DEF CallerStep, Lead, Follow, AnswerLocally, Prepare, NoticeChange,
                UseCached, Send, SendFails, ProviderBusy, LeaveRequest,
                HearProvider, SetEvent, Leave, HearLeader, LeaveLeader
  <1>3. CASE \E body \in BOOLEAN : EndRequest(c, body)
    BY <1>3 DEF EndRequest
  <1> QED
    BY <1>1, <1>2, <1>3 DEF AskTurn, CallerTurn, ProviderTurn

LEMMA UsedWorkspaces == Used \subseteq Workspaces
  <1>1. \A p \in Pages : OpensOf[p] \subseteq Workspaces
    BY FetchAssumption
  <1>2. \A r \in Readers : ReadsOf[r] \in Workspaces
    BY ReadsAssumption
  <1>3. \A t \in Targets : RepoOf[t] \in Workspaces
    BY EnrichmentAssumption
  <1>4. UNION {OpensOf[p] : p \in Pages \cap present} \subseteq Workspaces
    BY <1>1
  <1>5. {ReadsOf[r] : r \in Readers \cap present} \subseteq Workspaces
    BY <1>2
  <1>6. {RepoOf[t] : t \in {x \in Targets : Callers \cap present # {}}}
           \subseteq Workspaces
    BY <1>3
  <1> QED
    BY <1>4, <1>5, <1>6 DEF Used

\* What a step may do to the stores, the caches and the fetch.
LEMMA StepKinds ==
    ASSUME [Next]_vars
    PROVE  \/ UNCHANGED <<served, fetchVars>>
           \/ JobStep
           \/ \E p \in Pages : PageStep(p)
           \/ \E p \in Pages : Click(p)
           \/ \E p \in Pages : \E w \in Workspaces : SwitchWorkspace(p, w)
           \/ /\ \E w \in Workspaces : WriteElsewhere(w) \/ SyncElsewhere(w)
              /\ UNCHANGED fetchVars
           \/ ForgetJobs /\ UNCHANGED <<store, cache>> /\ epoch' = epoch + 1
  <1>1. CASE \E r \in Readers : ReaderTurn(r)
    BY <1>1, ReadersWriteNothing DEF ReaderTurn, OutsideReads
  <1>2. CASE \E c \in Callers : AskTurn(c) \/ CallerTurn(c) \/ ProviderTurn(c)
    <2>1. PICK c \in Callers : AskTurn(c) \/ CallerTurn(c) \/ ProviderTurn(c)
      BY <1>2
    <2>2. UNCHANGED served
      BY <2>1, CallersWriteNothing
    <2>3. UNCHANGED fetchVars
      BY <2>1 DEF AskTurn, CallerTurn, ProviderTurn, OutsideEnrichment
    <2> QED
      BY <2>2, <2>3
  <1>3. CASE JobTurn
    BY <1>3 DEF JobTurn
  <1>4. CASE \E p \in Pages : PageTurn(p) \/ UserTurn(p)
    BY <1>4 DEF PageTurn, UserTurn
  <1>5. CASE OtherStep
    BY <1>5, UsedWorkspaces DEF OtherStep
  <1>6. CASE Restart
    BY <1>6 DEF Restart
  <1>7. CASE UNCHANGED vars
    BY <1>7 DEF vars
  <1> QED
    BY <1>1, <1>2, <1>3, <1>4, <1>5, <1>6, <1>7 DEF Next

------------------------------------------------------------------------------
(* The provider *)

ProviderInv ==
    /\ slots \in Nat
    /\ IsFiniteSet(requests)
    /\ requests \subseteq Callers
    /\ ProviderBounded

LEMMA ProviderStep ==
    ASSUME ProviderInv, [Next]_vars
    PROVE  ProviderInv'
  <1>1. CASE UNCHANGED <<slots, requests>>
    BY <1>1 DEF ProviderInv, ProviderBounded
  <1>2. ASSUME NEW c \in Callers, Send(c)
        PROVE  ProviderInv'
    <2>1. c \notin requests /\ requests' = requests \cup {c}
      BY <1>2 DEF Send, Unsent
    <2>2. /\ IsFiniteSet(requests')
          /\ Cardinality(requests') = Cardinality(requests) + 1
      BY <2>1, FS_AddElement DEF ProviderInv
    <2>3. slots' = slots - 1 /\ slots > 0
      BY <1>2 DEF Send
    <2>4. Cardinality(requests) \in Nat /\ Slots \in Nat
      BY FS_CardinalityType, EnrichmentAssumption DEF ProviderInv
    <2> QED
      BY <2>1, <2>2, <2>3, <2>4 DEF ProviderInv, ProviderBounded
  <1>3. ASSUME NEW c \in Callers, NEW body \in BOOLEAN, EndRequest(c, body)
        PROVE  ProviderInv'
    <2>1. c \in requests /\ requests' = requests \ {c} /\ slots' = slots + 1
      BY <1>3 DEF EndRequest
    <2>2. /\ IsFiniteSet(requests')
          /\ Cardinality(requests') = Cardinality(requests) - 1
      BY <2>1, FS_RemoveElement DEF ProviderInv
    <2>4. Cardinality(requests) \in Nat /\ Slots \in Nat
      BY FS_CardinalityType, EnrichmentAssumption DEF ProviderInv
    <2> QED
      BY <2>1, <2>2, <2>4 DEF ProviderInv, ProviderBounded
  <1>4. CASE ForgetCallers
    <2>1. requests' = {} /\ slots' = Slots
      BY <1>4 DEF ForgetCallers
    <2> QED
      BY <2>1, FS_EmptySet, EnrichmentAssumption
         DEF ProviderInv, ProviderBounded
  <1>5. ASSUME NEW c \in Callers, CallerStep(c), ~Send(c)
        PROVE  UNCHANGED <<slots, requests>>
    BY <1>5 DEF CallerStep, Lead, Follow, AnswerLocally, Prepare, NoticeChange,
                UseCached, SendFails, ProviderBusy, LeaveRequest, LeftBehind,
                HearProvider, SetEvent, Leave, HearLeader, LeaveLeader
  <1>6. ASSUME NEW c \in Callers, Ask(c)
        PROVE  UNCHANGED <<slots, requests>>
    BY <1>6 DEF Ask, Admit, RefuseEnrich
  <1>7. CASE UNCHANGED enrichVars
    BY <1>1, <1>7 DEF enrichVars
  <1>8. CASE \E c \in Callers : AskTurn(c) \/ CallerTurn(c) \/ ProviderTurn(c)
    <2>1. PICK c \in Callers : \/ Ask(c)
                               \/ CallerStep(c)
                               \/ \E body \in BOOLEAN : EndRequest(c, body)
      BY <1>8 DEF AskTurn, CallerTurn, ProviderTurn
    <2> QED
      BY <1>1, <1>2, <1>3, <1>5, <1>6, <2>1
  <1>9. CASE Restart
    BY <1>4, <1>9 DEF Restart
  <1>10. Next => \/ UNCHANGED enrichVars
                 \/ \E c \in Callers :
                       AskTurn(c) \/ CallerTurn(c) \/ ProviderTurn(c)
                 \/ Restart
    BY DEF Next, JobTurn, PageTurn, UserTurn, ReaderTurn, OutsideFetch,
           OutsideReads, OtherStep
  <1> QED
    BY <1>7, <1>8, <1>9, <1>10 DEF vars

LEMMA ProviderInvariant == Spec => []ProviderInv
  <1>1. Init => ProviderInv
    BY FS_EmptySet, EnrichmentAssumption
       DEF Init, EnrichmentInit, ProviderInv, ProviderBounded
  <1> QED
    BY <1>1, ProviderStep, PTL DEF Spec

\* The provider never has more requests than there are slots, and no slot is
\* lost or made, whoever gives up, fails or comes back.
THEOREM ProviderIsBounded == Spec => []ProviderBounded
  <1>1. ProviderInv => ProviderBounded
    BY DEF ProviderInv
  <1> QED
    BY <1>1, ProviderInvariant, PTL

------------------------------------------------------------------------------
(* Session tokens *)

ReaderFields == {"phase", "op", "repo", "cursor", "pinned", "pin", "loaded",
                 "data", "todo", "asked", "got", "token", "renewed", "since"}

\* Of a reader: its token is not of a later server, and one that was renewed
\* in this call is of a server that ran when the call began, or of a later one.
TokenOK(x) ==
    /\ DOMAIN x = ReaderFields
    /\ x.token \in 0..epoch
    /\ x.since \in 0..epoch
    /\ x.renewed => x.token >= x.since
    /\ x.phase = "denied" => epoch > x.since

TokenInv ==
    /\ epoch \in Nat
    /\ DOMAIN readers = Readers
    /\ \A r \in Readers : TokenOK(readers[r])

\* A step of reader r, which touches no other; a quiet one leaves its token,
\* the renewal and the start of its call as they are.
OnlyReader(r) ==
    /\ DOMAIN readers' = Readers
    /\ \A s \in Readers \ {r} : readers'[s] = readers[s]
    /\ DOMAIN readers'[r] = ReaderFields

Quiet(r) ==
    /\ OnlyReader(r)
    /\ readers'[r].token = readers[r].token
    /\ readers'[r].renewed = readers[r].renewed
    /\ readers'[r].since = readers[r].since
    /\ readers'[r].phase # "denied"

LEMMA OneReader ==
    ASSUME TokenInv, NEW r \in Readers, UNCHANGED epoch, OnlyReader(r),
           TokenOK(readers[r])'
    PROVE  TokenInv'
  BY DEF TokenInv, TokenOK, OnlyReader

LEMMA QuietReader ==
    ASSUME TokenInv, NEW r \in Readers, UNCHANGED epoch, Quiet(r)
    PROVE  TokenInv'
  <1>1. TokenOK(readers[r])
    BY DEF TokenInv
  <1>2. TokenOK(readers[r])'
    BY <1>1 DEF TokenOK, Quiet, OnlyReader
  <1> QED
    BY <1>2, OneReader DEF Quiet

LEMMA TokenStep ==
    ASSUME TokenInv, NEW r \in Readers, ReaderStep(r)
    PROVE  TokenInv'
  <1>1. UNCHANGED epoch
    BY ReadersWriteNothing DEF served
  <1>2. /\ DOMAIN readers = Readers
        /\ epoch \in Nat
        /\ DOMAIN readers[r] = ReaderFields
        /\ readers[r].token \in 0..epoch
        /\ readers[r].since \in 0..epoch
        /\ readers[r].renewed => readers[r].token >= readers[r].since
    BY DEF TokenInv, TokenOK
  <1>3. ASSUME /\ OnlyReader(r)
               /\ readers'[r].token = readers[r].token
               /\ readers'[r].since = epoch
               /\ readers'[r].renewed = FALSE
               /\ readers'[r].phase = "asked"
        PROVE  TokenInv'
    <2>1. TokenOK(readers[r])'
      BY <1>1, <1>2, <1>3 DEF TokenOK, OnlyReader
    <2> QED
      BY <1>1, <1>3, <2>1, OneReader
  <1>4. ASSUME NEW op \in Operations, BeginRead(r, op)
        PROVE  TokenInv'
    BY <1>2, <1>3, <1>4 DEF BeginRead, Unread, OnlyReader, ReaderFields
  <1>5. ASSUME NEW cursor \in readers[r].todo, NEW pinned \in BOOLEAN,
               FollowUp(r, cursor, pinned)
        PROVE  TokenInv'
    BY <1>2, <1>3, <1>5 DEF FollowUp, OnlyReader, ReaderFields
  <1>6. CASE RenewToken(r)
    <2>1. /\ OnlyReader(r)
          /\ readers'[r].token = epoch
          /\ readers'[r].since = readers[r].since
          /\ readers'[r].phase = "asked"
      BY <1>2, <1>6 DEF RenewToken, TokenRefused, OnlyReader, ReaderFields
    <2>2. TokenOK(readers[r])'
      BY <1>1, <1>2, <2>1 DEF TokenOK, OnlyReader
    <2> QED
      BY <1>1, <2>1, <2>2, OneReader
  <1>7. CASE Deny(r)
    <2>1. /\ OnlyReader(r)
          /\ readers'[r].token = readers[r].token
          /\ readers'[r].since = readers[r].since
          /\ readers'[r].renewed = readers[r].renewed
      BY <1>2, <1>7 DEF Deny, OnlyReader, ReaderFields
    <2>2. readers[r].renewed /\ readers[r].token # epoch
      BY <1>7 DEF Deny, TokenRefused, Renewed
    <2>3. epoch > readers[r].since
      BY <1>2, <2>2
    <2>4. TokenOK(readers[r])'
      BY <1>1, <1>2, <2>1, <2>3 DEF TokenOK, OnlyReader
    <2> QED
      BY <1>1, <2>1, <2>4, OneReader
  <1>8. CASE RefuseRead(r) \/ RefuseMoved(r)
    <2>1. readers' = [readers EXCEPT ![r].phase = "refused"]
      BY <1>8 DEF RefuseRead, RefuseMoved
    <2>2. Quiet(r)
      BY <1>2, <2>1 DEF Quiet, OnlyReader, ReaderFields
    <2> QED
      BY <1>1, <2>2, QuietReader
  <1>9. CASE LoadContext(r)
    <2>1. Quiet(r)
      BY <1>2, <1>9 DEF LoadContext, Quiet, OnlyReader, ReaderFields
    <2> QED
      BY <1>1, <2>1, QuietReader
  <1>10. CASE Reread(r)
    <2>1. Quiet(r)
      BY <1>2, <1>10 DEF Reread, Quiet, OnlyReader, ReaderFields
    <2> QED
      BY <1>1, <2>1, QuietReader
  <1>11. CASE AnswerRead(r)
    <2>1. Quiet(r)
      BY <1>2, <1>11 DEF AnswerRead, Quiet, OnlyReader, ReaderFields
    <2> QED
      BY <1>1, <2>1, QuietReader
  <1> QED
    BY <1>4, <1>5, <1>6, <1>7, <1>8, <1>9, <1>10, <1>11 DEF ReaderStep

LEMMA TokensAtRestart ==
    ASSUME TokenInv, Restart
    PROVE  TokenInv'
  <1>1. epoch' = epoch + 1
    BY DEF Restart
  <1>2. ASSUME NEW r \in Readers
        PROVE  /\ DOMAIN readers'[r] = ReaderFields
               /\ readers'[r].token = readers[r].token
               /\ readers'[r].renewed = readers[r].renewed
               /\ readers'[r].since = readers[r].since
               /\ readers'[r].phase = "denied" => readers[r].phase = "denied"
    BY <1>2 DEF Restart, CutOffReads, TokenInv, TokenOK, ReaderFields
  <1>3. DOMAIN readers' = Readers
    BY DEF Restart, CutOffReads
  <1> QED
    BY <1>1, <1>2, <1>3 DEF TokenInv, TokenOK

LEMMA EpochStays ==
    ASSUME [Next]_vars, ~Restart
    PROVE  UNCHANGED epoch
  <1>1. CASE JobTurn
    BY <1>1 DEF JobTurn, JobStep, Ingest, IngestFails, RunPipeline,
                PipelineFails, FinishFetch, Advance, served
  <1>2. ASSUME NEW p \in Pages, PageTurn(p)
        PROVE  UNCHANGED epoch
    BY <1>2 DEF PageTurn, PageStep, Poll, BeginPolling, GiveUp, HearReady,
                HearError, HearNothing, LoadState, served
  <1>3. ASSUME NEW p \in Pages, UserTurn(p)
        PROVE  UNCHANGED epoch
    BY <1>3 DEF UserTurn, Click, StartFetch, StartFails, RefuseFetch,
                SwitchWorkspace, served
  <1>4. CASE OtherStep
    BY <1>4 DEF OtherStep, WriteElsewhere, SyncElsewhere
  <1>5. ASSUME NEW r \in Readers, ReaderTurn(r)
        PROVE  UNCHANGED epoch
    BY <1>5, ReadersWriteNothing DEF ReaderTurn, served
  <1>6. ASSUME NEW c \in Callers, AskTurn(c) \/ CallerTurn(c) \/ ProviderTurn(c)
        PROVE  UNCHANGED epoch
    BY <1>6, CallersWriteNothing DEF served
  <1>7. CASE UNCHANGED vars
    BY <1>7 DEF vars, served
  <1> QED
    BY <1>1, <1>2, <1>3, <1>4, <1>5, <1>6, <1>7 DEF Next

LEMMA TokensPreserved ==
    ASSUME TokenInv, [Next]_vars
    PROVE  TokenInv'
  <1>1. CASE Restart
    BY <1>1, TokensAtRestart
  <1>2. ASSUME NEW r \in Readers, ReaderTurn(r)
        PROVE  TokenInv'
    BY <1>2, TokenStep DEF ReaderTurn
  <1>3. ASSUME ~Restart, \A r \in Readers : ~ReaderTurn(r)
        PROVE  TokenInv'
    <2>1. UNCHANGED readers
      BY <1>3 DEF Next, JobTurn, PageTurn, UserTurn, AskTurn, CallerTurn,
                  ProviderTurn, OutsideFetch, OutsideEnrichment, OtherStep,
                  vars
    <2>2. UNCHANGED epoch
      BY <1>3, EpochStays
    <2> QED
      BY <2>1, <2>2 DEF TokenInv, TokenOK
  <1> QED
    BY <1>1, <1>2, <1>3

\* A call is denied for its token only if the server restarted since the call
\* began: the one renewal is enough for every server that was there before.
THEOREM DeniedByRestart == Spec => []DeniedOnlyByRestart
  <1>1. Init => TokenInv
    <2> SUFFICES ASSUME Init PROVE TokenInv
      OBVIOUS
    <2>1. epoch = 1
      BY DEF Init, StoreInit
    <2>2. PICK token \in [Readers -> 0..epoch] :
             readers = [r \in Readers |-> Unread(ReadsOf[r], token[r])]
      BY DEF Init, ReadsInit
    <2>3. \A r \in Readers : TokenOK(readers[r])
      BY <2>1, <2>2 DEF Unread, TokenOK, ReaderFields
    <2> QED
      BY <2>1, <2>2, <2>3 DEF TokenInv
  <1>2. TokenInv => DeniedOnlyByRestart
    BY DEF TokenInv, TokenOK, DeniedOnlyByRestart
  <1> QED
    BY <1>1, <1>2, TokensPreserved, PTL DEF Spec

------------------------------------------------------------------------------
(* Sequences *)

\* A bounded set of numbers has a greatest one: of the sets x..n, ordered by
\* inclusion, that of the greatest x is minimal.
LEMMA GreatestIn ==
    ASSUME NEW n \in Nat, NEW T \in SUBSET (1..n), T # {}
    PROVE  \E x \in T : \A y \in T : y <= x
  <1> DEFINE after(x) == x..n
             family == {after(x) : x \in T}
  <1>0. \A x \in T : after(x) \in SUBSET (1..n)
    OBVIOUS
  <1>1. family \subseteq SUBSET (1..n) /\ family # {}
    <2> HIDE DEF after
    <2> QED
      BY <1>0
  <1>2. IsWellFoundedOn(StrictSubsetOrdering(1..n), SUBSET (1..n))
    <2>1. IsFiniteSet(1..n)
      BY FS_Interval
    <2>2. FiniteSubsetsOf(1..n) = SUBSET (1..n)
      BY <2>1, FS_FiniteSubsetsOfFinite, Zenon
    <2>3. IsWellFoundedOn(StrictSubsetOrdering(1..n), FiniteSubsetsOf(1..n))
      BY FS_StrictSubsetOrderingWellFounded, Zenon
    <2> QED
      BY <2>2, <2>3
  <1>3. PICK u \in family :
           \A v \in family : <<v, u>> \notin StrictSubsetOrdering(1..n)
    BY <1>1, <1>2, WFMin
  <1>5. PICK x \in T : u = after(x)
    BY <1>3
  <1>6. ASSUME NEW y \in T, y > x PROVE FALSE
    <2>1. after(y) \subseteq after(x) /\ after(y) # after(x)
      BY <1>6
    <2>2. <<after(y), after(x)>> \in StrictSubsetOrdering(1..n)
      BY <1>1, <2>1 DEF StrictSubsetOrdering
    <2> QED
      BY <1>3, <1>5, <2>2
  <1> QED
    BY <1>6

LEMMA FunctionsAreSequences ==
    ASSUME NEW S, NEW n \in Nat, NEW f \in [1..n -> S]
    PROVE  f \in Seq(S) /\ Len(f) = n /\ DOMAIN f = 1..n
  OBVIOUS

LEMMA SequencesAreFunctions ==
    ASSUME NEW S, NEW s \in Seq(S)
    PROVE  s \in [1..Len(s) -> S] /\ Len(s) \in Nat /\ DOMAIN s = 1..Len(s)
  OBVIOUS

LEMMA LastOfRecords ==
    ASSUME NEW s \in Seq(Progress), NEW q \in Progress, Len(s) <= KEPT
    PROVE  LET t == LastOf(Append(s, q)) IN
           /\ t \in Seq(Progress)
           /\ Len(t) <= KEPT
           /\ \E d \in {0, 1} :
                 /\ Len(t) = Len(s) + 1 - d
                 /\ \A i \in 1..Len(t) : t[i] = Append(s, q)[i + d]
  <1> DEFINE u == Append(s, q)
  <1>1. /\ u \in Seq(Progress) /\ u # << >>
        /\ Len(u) = Len(s) + 1 /\ Len(s) \in Nat
    OBVIOUS
  <1>2. KEPT \in Nat
    BY FetchAssumption
  <1>3. CASE Len(u) <= KEPT
    <2>1. LastOf(u) = u
      BY <1>3 DEF LastOf
    <2>2. \A i \in 1..Len(u) : u[i] = u[i + 0]
      BY <1>1
    <2> QED
      BY <1>1, <1>3, <2>1, <2>2
  <1>4. CASE ~(Len(u) <= KEPT)
    <2>1. LastOf(u) = Tail(u)
      BY <1>4 DEF LastOf
    <2>2. /\ Tail(u) \in Seq(Progress)
          /\ Len(Tail(u)) = Len(u) - 1
          /\ \A i \in 1..Len(Tail(u)) : Tail(u)[i] = u[i + 1]
      BY <1>1
    <2>3. Len(Tail(u)) <= KEPT
      BY <1>1, <2>2
    <2>4. Len(Tail(u)) = Len(s) + 1 - 1
      BY <1>1, <2>2
    <2> HIDE DEF u
    <2> QED
      BY <2>1, <2>2, <2>3, <2>4 DEF u
  <1> QED
    BY <1>3, <1>4

------------------------------------------------------------------------------
(* The fetch: what a step does to the jobs and to a page *)

StepsOf(j) ==
    /\ jobs' \in Seq(Job)
    /\ Len(jobs') = Len(jobs)
    /\ \A k \in DOMAIN jobs \ {j} : jobs'[k] = jobs[k]
    /\ jobs'[j].repo = jobs[j].repo

LEMMA JobUpdate ==
    ASSUME jobs \in Seq(Job), NEW j \in DOMAIN jobs,
           jobs' = [k \in DOMAIN jobs |-> jobs'[k]],
           \A k \in DOMAIN jobs \ {j} : jobs'[k] = jobs[k],
           jobs'[j] \in Job, jobs'[j].repo = jobs[j].repo
    PROVE  StepsOf(j)
  <1>1. PICK n \in Nat : n = Len(jobs) /\ DOMAIN jobs = 1..n
    OBVIOUS
  <1>2. \A k \in 1..n : jobs'[k] \in Job
    BY <1>1, SequencesAreFunctions
  <1>3. PICK f \in [1..n -> Job] : f = jobs'
    BY <1>1, <1>2
  <1>4. f \in Seq(Job) /\ Len(f) = n
    BY FunctionsAreSequences
  <1> QED
    BY <1>1, <1>3, <1>4 DEF StepsOf

LEMMA TypedJob ==
    ASSUME jobs \in Seq(Job), NEW j \in DOMAIN jobs
    PROVE  /\ jobs[j] \in Job /\ jobs[j].repo \in Workspaces
           /\ jobs[j].snapshot \in Nat /\ jobs[j].version \in Nat
  <1>1. jobs[j] \in Job
    BY SequencesAreFunctions
  <1> QED
    BY <1>1 DEF Job

\* Each step of a job.
LEMMA IngestEffect ==
    ASSUME StoreTypeOK, jobs \in Seq(Job), NEW j \in DOMAIN jobs,
           NEW refresh \in BOOLEAN, Ingest(j, refresh)
    PROVE  /\ StepsOf(j)
           /\ jobs[j].phase = "starting" /\ jobs'[j].phase = "ingested"
           /\ jobs'[j].version = jobs[j].version
           /\ StoreTypeOK'
           /\ UNCHANGED <<store, progress, terminals, pages>>
  <1>1. /\ jobs[j] \in Job /\ jobs[j].repo \in Workspaces
        /\ jobs[j].snapshot \in Nat /\ jobs[j].version \in Nat
    BY TypedJob
  <1>2. PICK snapshot \in Nat :
           /\ cache' = [cache EXCEPT ![jobs[j].repo] = snapshot]
           /\ jobs' = [jobs EXCEPT ![j].phase = "ingested",
                                   ![j].snapshot = snapshot]
    <2> DEFINE w == jobs[j].repo
               snapshot == IF refresh THEN cache[w] + 1 ELSE cache[w]
    <2>1. snapshot \in Nat
      BY <1>1 DEF StoreTypeOK
    <2> QED
      BY <2>1 DEF Ingest
  <1>3. /\ jobs' = [k \in DOMAIN jobs |-> jobs'[k]]
        /\ \A k \in DOMAIN jobs \ {j} : jobs'[k] = jobs[k]
    BY <1>2
  <1>4. /\ jobs'[j] \in Job /\ jobs'[j].repo = jobs[j].repo
        /\ jobs'[j].phase = "ingested" /\ jobs'[j].version = jobs[j].version
    BY <1>1, <1>2 DEF Job
  <1>5. StoreTypeOK'
    BY <1>1, <1>2 DEF Ingest, StoreTypeOK
  <1> QED
    BY <1>3, <1>4, <1>5, JobUpdate DEF Ingest

LEMMA FailureEffect ==
    ASSUME jobs \in Seq(Job), NEW j \in DOMAIN jobs,
           IngestFails(j) \/ PipelineFails(j)
    PROVE  /\ StepsOf(j)
           /\ jobs[j].phase \in {"starting", "ingested"}
           /\ jobs'[j].phase = "failed"
           /\ jobs'[j].version = jobs[j].version
           /\ UNCHANGED <<served, terminals, pages>>
  <1>1. /\ jobs[j] \in Job /\ jobs[j].repo \in Workspaces
        /\ jobs[j].snapshot \in Nat /\ jobs[j].version \in Nat
    BY TypedJob
  <1>2. jobs' = [jobs EXCEPT ![j].phase = "failed"]
    BY DEF IngestFails, PipelineFails, Advance
  <1>3. /\ jobs' = [k \in DOMAIN jobs |-> jobs'[k]]
        /\ \A k \in DOMAIN jobs \ {j} : jobs'[k] = jobs[k]
    BY <1>2
  <1>4. /\ jobs'[j] \in Job /\ jobs'[j].repo = jobs[j].repo
        /\ jobs'[j].phase = "failed" /\ jobs'[j].version = jobs[j].version
    BY <1>1, <1>2 DEF Job
  <1> QED
    BY <1>3, <1>4, JobUpdate DEF IngestFails, PipelineFails

LEMMA PipelineEffect ==
    ASSUME StoreTypeOK, jobs \in Seq(Job), NEW j \in DOMAIN jobs, RunPipeline(j)
    PROVE  /\ StepsOf(j)
           /\ jobs[j].phase = "ingested" /\ jobs'[j].phase = "published"
           /\ jobs'[j].version = Len(store'[jobs[j].repo])
           /\ jobs'[j].version > 0
           /\ \A w \in Workspaces : Len(store[w]) <= Len(store'[w])
           /\ StoreTypeOK'
           /\ UNCHANGED <<progress, terminals, pages>>
  <1>1. /\ jobs[j] \in Job /\ jobs[j].repo \in Workspaces
        /\ jobs[j].snapshot \in Nat /\ jobs[j].version \in Nat
    BY TypedJob
  <1> DEFINE w == jobs[j].repo
  <1>2. /\ store[w] \in Seq(Nat)
        /\ store' = [store EXCEPT ![w] = Append(store[w], jobs[j].snapshot)]
        /\ Len(store[w]) \in Nat
    BY <1>1 DEF RunPipeline, Write, StoreTypeOK
  <1>3. /\ Len(store'[w]) = Len(store[w]) + 1
        /\ \A v \in Workspaces \ {w} : store'[v] = store[v]
        /\ store' \in [Workspaces -> Seq(Nat)]
    <2> DEFINE longer == Append(store[w], jobs[j].snapshot)
    <2>1. longer \in Seq(Nat) /\ Len(longer) = Len(store[w]) + 1
      BY <1>1, <1>2
    <2> HIDE DEF longer
    <2>2. store' = [store EXCEPT ![w] = longer]
      BY <1>2 DEF longer
    <2>3. store'[w] = longer
      BY <1>1, <2>2 DEF StoreTypeOK
    <2> QED
      BY <1>1, <2>1, <2>2, <2>3 DEF StoreTypeOK
  <1>4. jobs' = [jobs EXCEPT ![j].phase = "published",
                             ![j].version = Len(store[w]) + 1]
    BY DEF RunPipeline, Version
  <1>5. /\ jobs' = [k \in DOMAIN jobs |-> jobs'[k]]
        /\ \A k \in DOMAIN jobs \ {j} : jobs'[k] = jobs[k]
    BY <1>4
  <1>6. /\ jobs'[j] \in Job /\ jobs'[j].repo = jobs[j].repo
        /\ jobs'[j].phase = "published" /\ jobs'[j].version = Len(store[w]) + 1
    <2>1. Len(store[w]) + 1 \in Nat
      BY <1>2
    <2> QED
      BY <1>1, <1>4, <2>1 DEF Job
  <1>7. \A v \in Workspaces : Len(store[v]) <= Len(store'[v])
    BY <1>2, <1>3 DEF StoreTypeOK
  <1>8. StepsOf(j)
    BY <1>5, <1>6, JobUpdate
  <1>9. StoreTypeOK'
    BY <1>3 DEF RunPipeline, StoreTypeOK
  <1> QED
    BY <1>3, <1>2, <1>6, <1>7, <1>8, <1>9 DEF RunPipeline

LEMMA FinishEffect ==
    ASSUME jobs \in Seq(Job), NEW j \in DOMAIN jobs, FinishFetch(j)
    PROVE  /\ StepsOf(j)
           /\ jobs[j].phase \in {"published", "failed"}
           /\ jobs'[j].phase = "ended"
           /\ jobs'[j].version = jobs[j].version
           /\ UNCHANGED <<served, pages>>
  <1>1. /\ jobs[j] \in Job /\ jobs[j].repo \in Workspaces
        /\ jobs[j].snapshot \in Nat /\ jobs[j].version \in Nat
    BY TypedJob
  <1>2. jobs' = [jobs EXCEPT ![j].phase = "ended", ![j].snapshot = 0]
    BY DEF FinishFetch
  <1>3. /\ jobs' = [k \in DOMAIN jobs |-> jobs'[k]]
        /\ \A k \in DOMAIN jobs \ {j} : jobs'[k] = jobs[k]
    BY <1>2
  <1>4. /\ jobs'[j] \in Job /\ jobs'[j].repo = jobs[j].repo
        /\ jobs'[j].phase = "ended" /\ jobs'[j].version = jobs[j].version
    BY <1>1, <1>2 DEF Job
  <1> QED
    BY <1>3, <1>4, JobUpdate DEF FinishFetch, Concluded

LEMMA NewJobEffect ==
    ASSUME jobs \in Seq(Job), NEW w \in Workspaces,
           NEW phase \in {"starting", "lost"}, NewJob(w, phase)
    PROVE  /\ jobs' \in Seq(Job)
           /\ Len(jobs) \in Nat
           /\ DOMAIN jobs = 1..Len(jobs)
           /\ DOMAIN jobs' = 1..Len(jobs) + 1
           /\ Len(jobs') = Len(jobs) + 1
           /\ \A k \in DOMAIN jobs : jobs'[k] = jobs[k]
           /\ jobs'[Len(jobs) + 1].repo = w
           /\ jobs'[Len(jobs) + 1].phase = phase
  <1> DEFINE x == [phase |-> phase, repo |-> w, snapshot |-> 0, version |-> 0]
  <1>1. x \in Job /\ x.repo = w /\ x.phase = phase
    BY DEF Job
  <1>2. jobs' = Append(jobs, x)
    BY DEF NewJob
  <1> HIDE DEF x
  <1> QED
    BY <1>1, <1>2

------------------------------------------------------------------------------
(* The fetch: the invariant *)

\* A record about a job is about its workspace, and if it says ready, what the
\* job published is in the store.
Sound(q) ==
    /\ q.job # 0 => q.job \in DOMAIN jobs /\ jobs[q.job].repo = q.repo
    /\ q.ready => q.job # 0 /\ jobs[q.job].version \in 1..Len(store[q.repo])

\* The record in memory is of the newest job, or of none since the restart;
\* no other job runs, and none that the record does not call running.
JobsInv ==
    /\ progress.job \in {0, Len(jobs)}
    /\ progress.running => progress.job # 0
    /\ \A j \in DOMAIN jobs :
          Running(j) => progress.job = j /\ progress.running
    /\ \A j \in DOMAIN jobs :
          jobs[j].phase = "published"
          => jobs[j].version \in 1..Len(store[jobs[j].repo])

RecordsInv ==
    /\ Sound(progress)
    /\ \A i \in DOMAIN terminals : Sound(terminals[i]) /\ terminals[i].job # 0

\* The kept records are those of the newest ended jobs, oldest first.
OrderInv ==
    /\ \A i, k \in DOMAIN terminals :
          i < k => terminals[i].job < terminals[k].job
    /\ progress.running =>
          \A i \in DOMAIN terminals : terminals[i].job < progress.job
    /\ \A j \in DOMAIN jobs :
          \/ progress.running /\ j = progress.job
          \/ \E i \in DOMAIN terminals : terminals[i].job = j
          \/ \A i \in DOMAIN terminals : j < terminals[i].job

\* The record q is an answer to what page x waits for.
Fits(q, x) ==
    /\ Sound(q)
    /\ q.repo = x.repo
    /\ q.ready => q.job >= x.want

PageOK(x) ==
    /\ x.phase = "posted" =>
          /\ x.reply \in Reply
          /\ Sound(x.reply.about)
          /\ x.reply.kind \in {"started", "busy"} => x.reply.about.job # 0
    /\ x.phase = "polling" =>
          /\ x.want \in DOMAIN jobs
          /\ jobs[x.want].repo = x.repo
          /\ x.reply # None => Fits(x.reply.about, x)
    /\ x.phase = "loading" =>
          x.heard \in Progress /\ x.heard.ready /\ Fits(x.heard, x)

PagesInv == \A p \in Pages : PageOK(pages[p])

FetchInv ==
    /\ StoreTypeOK
    /\ FetchTypeOK
    /\ JobsInv
    /\ RecordsInv
    /\ OrderInv
    /\ PagesInv

\* What every step leaves true of jobs and stores.
Grows ==
    /\ \A w \in Workspaces : Len(store[w]) <= Len(store'[w])
    /\ \A j \in DOMAIN jobs :
          /\ j \in DOMAIN jobs'
          /\ jobs'[j].repo = jobs[j].repo
          /\ jobs[j].version \in 1..Len(store[jobs[j].repo])
             => jobs'[j].version \in 1..Len(store'[jobs[j].repo])

LEMMA StoreLengths ==
    ASSUME StoreTypeOK, NEW w \in Workspaces
    PROVE  Len(store[w]) \in Nat
  BY DEF StoreTypeOK

LEMMA SoundStays ==
    ASSUME Grows, NEW q, Sound(q)
    PROVE  Sound(q)'
  BY DEF Grows, Sound

LEMMA RecordsStay ==
    ASSUME Grows, UNCHANGED terminals, RecordsInv, NEW i \in DOMAIN terminals
    PROVE  Sound(terminals[i])' /\ terminals'[i].job # 0
  <1>1. PICK q : q = terminals[i] /\ Sound(q) /\ q.job # 0
    BY DEF RecordsInv
  <1>2. Sound(q)'
    BY <1>1, SoundStays
  <1> QED
    BY <1>1, <1>2

LEMMA PageStays ==
    ASSUME Grows, NEW p \in Pages, pages'[p] = pages[p], PageOK(pages[p])
    PROVE  PageOK(pages[p])'
  <1>1. ASSUME NEW x, PageOK(x)
        PROVE  PageOK(x)'
    <2>1. \A q : Sound(q) => Sound(q)'
      BY SoundStays
    <2>2. \A j \in DOMAIN jobs :
             j \in DOMAIN jobs' /\ jobs'[j].repo = jobs[j].repo
      BY DEF Grows
    <2> QED
      BY <1>1, <2>1, <2>2 DEF PageOK, Fits
  <1>2. PICK x : x = pages[p]
    OBVIOUS
  <1>3. PageOK(x)'
    BY <1>1, <1>2
  <1> QED
    BY <1>2, <1>3

LEMMA StepsGrow ==
    ASSUME StoreTypeOK, jobs \in Seq(Job), NEW j \in DOMAIN jobs, StepsOf(j),
           UNCHANGED store, jobs'[j].version = jobs[j].version
    PROVE  Grows
  <1>1. \A w \in Workspaces : Len(store[w]) <= Len(store'[w])
    BY StoreLengths
  <1>2. DOMAIN jobs' = DOMAIN jobs
    BY SequencesAreFunctions DEF StepsOf
  <1> QED
    BY <1>1, <1>2 DEF StepsOf, Grows

------------------------------------------------------------------------------
(* The fetch: the steps of a job *)

LEMMA WhileItRuns ==
    ASSUME FetchInv, NEW j \in DOMAIN jobs, StepsOf(j), Running(j), Running(j)',
           Grows, StoreTypeOK',
           progress' \in Progress,
           progress'.job = progress.job, progress'.repo = progress.repo,
           progress'.running = progress.running,
           progress'.ready = progress.ready,
           jobs'[j].phase = "published"
           => jobs'[j].version \in 1..Len(store'[jobs[j].repo]),
           UNCHANGED <<terminals, pages>>
    PROVE  FetchInv'
  <1>1. DOMAIN jobs' = DOMAIN jobs /\ Len(jobs') = Len(jobs)
    BY SequencesAreFunctions DEF StepsOf, FetchInv, FetchTypeOK
  <1>2. FetchTypeOK'
    BY DEF StepsOf, FetchInv, FetchTypeOK
  <1>3. JobsInv'
    <2>1. ASSUME NEW k \in DOMAIN jobs', Running(k)'
          PROVE  progress'.job = k /\ progress'.running
      BY <1>1, <2>1 DEF StepsOf, FetchInv, JobsInv, Running
    <2>2. ASSUME NEW k \in DOMAIN jobs', jobs'[k].phase = "published"
          PROVE  jobs'[k].version \in 1..Len(store'[jobs'[k].repo])
      <3>1. CASE k = j
        BY <2>2, <3>1 DEF StepsOf
      <3>2. CASE k # j
        BY <1>1, <2>2, <3>2 DEF StepsOf, FetchInv, JobsInv, Grows
      <3> QED
        BY <3>1, <3>2
    <2> QED
      BY <1>1, <2>1, <2>2 DEF FetchInv, JobsInv
  <1>4. RecordsInv'
    <2>1. Sound(progress)'
      <3>1. PICK q : q = progress /\ Sound(q)
        BY DEF FetchInv, RecordsInv
      <3>2. Sound(q)'
        BY <3>1, SoundStays
      <3> QED
        BY <3>1, <3>2 DEF Sound
    <2> QED
      BY <2>1, RecordsStay DEF FetchInv, RecordsInv
  <1>5. OrderInv'
    BY <1>1 DEF FetchInv, OrderInv
  <1>6. PagesInv'
    BY PageStays DEF FetchInv, PagesInv
  <1> QED
    BY <1>2, <1>3, <1>4, <1>5, <1>6 DEF FetchInv

LEMMA FinishKeepsInv ==
    ASSUME FetchInv, NEW j \in DOMAIN jobs, FinishFetch(j)
    PROVE  FetchInv'
  <1>1. /\ StepsOf(j)
        /\ jobs[j].phase \in {"published", "failed"}
        /\ jobs'[j].phase = "ended"
        /\ jobs'[j].version = jobs[j].version
        /\ UNCHANGED <<served, pages>>
    BY FinishEffect DEF FetchInv, FetchTypeOK
  <1>2. Grows
    BY <1>1, StepsGrow DEF FetchInv, FetchTypeOK, served
  <1>3. /\ DOMAIN jobs' = DOMAIN jobs /\ Len(jobs') = Len(jobs)
        /\ DOMAIN jobs = 1..Len(jobs) /\ Len(jobs) \in Nat
    BY <1>1, SequencesAreFunctions DEF StepsOf, FetchInv, FetchTypeOK
  <1>4. progress.job = j /\ progress.running /\ j = Len(jobs)
    BY <1>1 DEF Running, FetchInv, JobsInv
  <1>5. /\ progress' \in Progress
        /\ progress'.job = j
        /\ progress'.repo = jobs[j].repo
        /\ ~progress'.running
        /\ progress'.ready => jobs[j].phase = "published"
    <2>1. progress \in Progress
      BY DEF FetchInv, FetchTypeOK
    <2>2. progress' = [progress EXCEPT !.running = FALSE,
                          !.ready = jobs[j].phase = "published",
                          !.error = jobs[j].phase = "failed"]
      BY DEF FinishFetch
    <2>3. progress.repo = jobs[j].repo
      BY <1>3, <1>4 DEF FetchInv, RecordsInv, Sound
    <2> QED
      BY <1>4, <2>1, <2>2, <2>3 DEF Progress
  <1>6. Sound(progress)'
    <2>1. jobs[j].phase = "published"
          => jobs[j].version \in 1..Len(store[jobs[j].repo])
      BY DEF FetchInv, JobsInv
    <2> QED
      BY <1>1, <1>3, <1>5, <2>1 DEF Sound, StepsOf, served
  <1> DEFINE u == Append(terminals, progress')
  <1>7. /\ terminals \in Seq(Progress) /\ Len(terminals) <= KEPT
        /\ Len(terminals) \in Nat
        /\ DOMAIN terminals = 1..Len(terminals)
    BY SequencesAreFunctions DEF FetchInv, FetchTypeOK
  <1>8. /\ \A i \in 1..Len(terminals) : u[i] = terminals[i]
        /\ u[Len(terminals) + 1] = progress'
    BY <1>5, <1>7
  <1>9. /\ terminals' \in Seq(Progress)
        /\ Len(terminals') <= KEPT
        /\ \E d \in {0, 1} :
              /\ Len(terminals') = Len(terminals) + 1 - d
              /\ \A i \in 1..Len(terminals') : terminals'[i] = u[i + d]
    <2>1. PICK q \in Progress : q = progress'
      BY <1>5
    <2>2. terminals' = LastOf(Append(terminals, q))
      BY <2>1 DEF FinishFetch
    <2>3. LET t == LastOf(Append(terminals, q)) IN
          /\ t \in Seq(Progress)
          /\ Len(t) <= KEPT
          /\ \E d \in {0, 1} :
                /\ Len(t) = Len(terminals) + 1 - d
                /\ \A i \in 1..Len(t) : t[i] = Append(terminals, q)[i + d]
      BY <1>7, LastOfRecords
    <2> QED
      BY <2>1, <2>2, <2>3
  <1>10. PICK d \in {0, 1} :
            /\ Len(terminals') = Len(terminals) + 1 - d
            /\ \A i \in 1..Len(terminals') : terminals'[i] = u[i + d]
    BY <1>9
  <1>11. DOMAIN terminals' = 1..Len(terminals')
    BY <1>9
  <1> HIDE DEF u
  <1>12. \A i \in 1..Len(terminals) :
            /\ u[i].job < j
            /\ u[i].job \in Nat
    <2> SUFFICES ASSUME NEW i \in 1..Len(terminals)
                 PROVE  u[i].job < j /\ u[i].job \in Nat
      OBVIOUS
    <2>1. u[i] = terminals[i]
      BY <1>8
    <2>2. terminals[i] \in Progress
      BY <1>7, SequencesAreFunctions
    <2>3. terminals[i].job < progress.job
      BY <1>4, <1>7 DEF FetchInv, OrderInv
    <2> QED
      BY <1>4, <2>1, <2>2, <2>3 DEF Progress
  <1>13. FetchTypeOK'
    BY <1>1, <1>5, <1>9 DEF StepsOf, FetchInv, FetchTypeOK
  <1>14. JobsInv'
    <2>1. ASSUME NEW k \in DOMAIN jobs', Running(k)'
          PROVE  FALSE
      BY <1>1, <1>3, <1>4, <2>1 DEF StepsOf, FetchInv, JobsInv, Running
    <2>2. ASSUME NEW k \in DOMAIN jobs', jobs'[k].phase = "published"
          PROVE  jobs'[k].version \in 1..Len(store'[jobs'[k].repo])
      BY <1>1, <1>3, <2>2 DEF StepsOf, FetchInv, JobsInv, served
    <2> QED
      BY <1>3, <1>4, <1>5, <2>1, <2>2 DEF JobsInv
  <1>15. RecordsInv'
    <2>1. ASSUME NEW i \in 1..Len(terminals')
          PROVE  Sound(terminals[i])' /\ terminals'[i].job # 0
      <3>1. CASE i + d = Len(terminals) + 1
        <4>1. terminals'[i] = progress'
          BY <1>8, <1>10, <3>1
        <4> QED
          BY <1>3, <1>5, <1>6, <4>1 DEF Sound
      <3>2. CASE i + d \in 1..Len(terminals)
        <4>1. terminals'[i] = terminals[i + d]
          BY <1>8, <1>10, <3>2
        <4>2. PICK q : q = terminals[i + d] /\ Sound(q) /\ q.job # 0
          BY <1>7, <3>2 DEF FetchInv, RecordsInv
        <4>3. Sound(q)'
          BY <1>2, <4>2, SoundStays
        <4> QED
          BY <4>1, <4>2, <4>3
      <3> QED
        BY <1>7, <1>10, <3>1, <3>2
    <2> QED
      BY <1>6, <1>11, <2>1 DEF RecordsInv
  <1>16. OrderInv'
    <2>1. \A i, k \in 1..Len(terminals) + 1 : i < k => u[i].job < u[k].job
      <3>1. \A i, k \in 1..Len(terminals) : i < k => u[i].job < u[k].job
        BY <1>7, <1>8 DEF FetchInv, OrderInv
      <3>2. \A i \in 1..Len(terminals) : u[i].job < u[Len(terminals) + 1].job
        BY <1>5, <1>8, <1>12
      <3> QED
        BY <1>7, <3>1, <3>2
    <2>2. \A i, k \in 1..Len(terminals') :
             i < k => terminals'[i].job < terminals'[k].job
      BY <1>7, <1>10, <2>1
    <2>3. ASSUME NEW k \in DOMAIN jobs
          PROVE  \/ \E i \in 1..Len(terminals) + 1 : u[i].job = k
                 \/ \A i \in 1..Len(terminals) + 1 : k < u[i].job
      <3>1. CASE k = j
        BY <1>5, <1>7, <1>8, <3>1
      <3>2. CASE \E i \in DOMAIN terminals : terminals[i].job = k
        BY <1>7, <1>8, <3>2
      <3>3. CASE k # j /\ \A i \in DOMAIN terminals : k < terminals[i].job
        <4>1. k < j
          BY <1>3, <1>4, <3>3
        <4> QED
          BY <1>5, <1>7, <1>8, <3>3, <4>1
      <3> QED
        BY <1>4, <3>1, <3>2, <3>3 DEF FetchInv, OrderInv
    <2>4. ASSUME NEW k \in DOMAIN jobs
          PROVE  \/ \E i \in 1..Len(terminals') : terminals'[i].job = k
                 \/ \A i \in 1..Len(terminals') : k < terminals'[i].job
      <3>1. CASE \E i \in 1..Len(terminals) + 1 : u[i].job = k
        <4>1. PICK i \in 1..Len(terminals) + 1 : u[i].job = k
          BY <3>1
        <4>2. CASE i - d \in 1..Len(terminals')
          <5>1. terminals'[i - d] = u[(i - d) + d]
            BY <1>10, <4>2
          <5>2. (i - d) + d = i
            BY <1>7, <1>10
          <5>3. terminals'[i - d].job = k
            BY <4>1, <5>1, <5>2
          <5> QED
            BY <4>2, <5>3
        <4>3. CASE i = 1 /\ d = 1
          BY <1>7, <1>10, <2>1, <4>1, <4>3
        <4> QED
          BY <1>7, <1>10, <4>2, <4>3
      <3>2. CASE \A i \in 1..Len(terminals) + 1 : k < u[i].job
        BY <1>7, <1>10, <3>2
      <3> QED
        BY <2>3, <3>1, <3>2
    <2> QED
      BY <1>3, <1>5, <1>11, <2>2, <2>4 DEF OrderInv
  <1>17. PagesInv'
    BY <1>1, <1>2, PageStays DEF FetchInv, PagesInv
  <1> QED
    BY <1>1, <1>13, <1>14, <1>15, <1>16, <1>17
       DEF FetchInv, StoreTypeOK, served

LEMMA JobKeepsInv ==
    ASSUME FetchInv, JobStep
    PROVE  FetchInv'
  <1>0. StoreTypeOK /\ jobs \in Seq(Job) /\ progress \in Progress
    BY DEF FetchInv, FetchTypeOK
  <1>1. ASSUME NEW j \in DOMAIN jobs, NEW refresh \in BOOLEAN,
               Ingest(j, refresh)
        PROVE  FetchInv'
    <2>1. /\ StepsOf(j)
          /\ jobs[j].phase = "starting" /\ jobs'[j].phase = "ingested"
          /\ jobs'[j].version = jobs[j].version
          /\ StoreTypeOK'
          /\ UNCHANGED <<store, progress, terminals, pages>>
      BY <1>0, <1>1, IngestEffect
    <2>2. Grows
      BY <1>0, <2>1, StepsGrow
    <2>3. Running(j) /\ Running(j)'
      BY <2>1 DEF Running
    <2> QED
      BY <1>0, <2>1, <2>2, <2>3, WhileItRuns
  <1>2. ASSUME NEW j \in DOMAIN jobs, IngestFails(j) \/ PipelineFails(j)
        PROVE  FetchInv'
    <2>1. /\ StepsOf(j)
          /\ jobs[j].phase \in {"starting", "ingested"}
          /\ jobs'[j].phase = "failed"
          /\ jobs'[j].version = jobs[j].version
          /\ UNCHANGED <<served, terminals, pages>>
      BY <1>0, <1>2, FailureEffect
    <2>2. Grows
      BY <1>0, <2>1, StepsGrow DEF served
    <2>3. Running(j) /\ Running(j)'
      BY <2>1 DEF Running
    <2>4. /\ progress' \in Progress
          /\ progress'.job = progress.job /\ progress'.repo = progress.repo
          /\ progress'.running = progress.running
          /\ progress'.ready = progress.ready
      BY <1>0, <1>2 DEF IngestFails, PipelineFails, Progress
    <2>5. StoreTypeOK'
      BY <1>0, <2>1 DEF StoreTypeOK, served
    <2> QED
      BY <2>1, <2>2, <2>3, <2>4, <2>5, WhileItRuns
  <1>3. ASSUME NEW j \in DOMAIN jobs, RunPipeline(j)
        PROVE  FetchInv'
    <2>1. /\ StepsOf(j)
          /\ jobs[j].phase = "ingested" /\ jobs'[j].phase = "published"
          /\ jobs'[j].version = Len(store'[jobs[j].repo])
          /\ jobs'[j].version > 0
          /\ \A w \in Workspaces : Len(store[w]) <= Len(store'[w])
          /\ StoreTypeOK'
          /\ UNCHANGED <<progress, terminals, pages>>
      BY <1>0, <1>3, PipelineEffect
    <2>2. jobs[j].repo \in Workspaces
      BY <1>0, TypedJob
    <2>3. \A w \in Workspaces : Len(store[w]) \in Nat /\ Len(store'[w]) \in Nat
      BY <1>0, <2>1 DEF StoreTypeOK
    <2>4. jobs'[j].version \in 1..Len(store'[jobs[j].repo])
      BY <2>1, <2>2, <2>3
    <2>5. Grows
      <3>1. ASSUME NEW k \in DOMAIN jobs
            PROVE  /\ k \in DOMAIN jobs'
                   /\ jobs'[k].repo = jobs[k].repo
                   /\ jobs[k].version \in 1..Len(store[jobs[k].repo])
                      => jobs'[k].version \in 1..Len(store'[jobs[k].repo])
        <4>1. DOMAIN jobs' = DOMAIN jobs
          BY <1>0, <2>1, SequencesAreFunctions DEF StepsOf
        <4>2. jobs[k].repo \in Workspaces
          BY <1>0, TypedJob
        <4>3. Len(store[jobs[k].repo]) <= Len(store'[jobs[k].repo])
          BY <2>1, <4>2
        <4>4. CASE k = j
          BY <2>1, <2>4, <4>1, <4>4 DEF StepsOf
        <4>5. CASE k # j
          BY <2>1, <2>3, <4>1, <4>2, <4>3, <4>5 DEF StepsOf
        <4> QED
          BY <4>4, <4>5
      <3> QED
        BY <2>1, <3>1 DEF Grows
    <2>6. Running(j) /\ Running(j)'
      BY <2>1 DEF Running
    <2> QED
      BY <1>0, <2>1, <2>4, <2>5, <2>6, WhileItRuns
  <1> QED
    BY <1>1, <1>2, <1>3, FinishKeepsInv DEF JobStep

------------------------------------------------------------------------------
(* The fetch: the steps of a page *)

OnlyPage(p) ==
    /\ pages' \in [Pages -> Page]
    /\ \A q \in Pages \ {p} : pages'[q] = pages[q]

LEMMA AnswerEffect ==
    ASSUME pages \in [Pages -> Page], NEW p \in Pages,
           NEW kind \in {"started", "busy", "failed"}, NEW about \in Progress,
           Answer(p, kind, about)
    PROVE  /\ OnlyPage(p)
           /\ pages'[p].phase = "posted"
           /\ pages'[p].reply \in Reply
           /\ pages'[p].reply.kind = kind
           /\ pages'[p].reply.about = about
  <1>1. pages[p] \in Page
    OBVIOUS
  <1> DEFINE reply == [kind |-> kind, about |-> about]
  <1>2. reply \in Reply /\ reply.kind = kind /\ reply.about = about
    BY DEF Reply
  <1>3. pages' = [pages EXCEPT ![p].phase = "posted", ![p].reply = reply]
    BY DEF Answer
  <1> HIDE DEF reply
  <1>4. /\ pages'[p] \in Page
        /\ pages'[p].phase = "posted"
        /\ pages'[p].reply = reply
    BY <1>1, <1>2, <1>3 DEF Page
  <1>5. /\ \A q \in Pages \ {p} : pages'[q] = pages[q]
        /\ pages' = [q \in Pages |-> pages'[q]]
    BY <1>3
  <1>6. pages' \in [Pages -> Page]
    BY <1>4, <1>5
  <1> QED
    BY <1>2, <1>4, <1>5, <1>6 DEF OnlyPage

\* What a page does on its own.
LEMMA PageKeepsInv ==
    ASSUME FetchInv, NEW p \in Pages, UNCHANGED <<served, jobVars>>,
           OnlyPage(p), PageOK(pages[p])'
    PROVE  FetchInv'
  <1>1. StoreTypeOK' /\ FetchTypeOK'
    BY DEF FetchInv, StoreTypeOK, FetchTypeOK, OnlyPage, served, jobVars
  <1>2. JobsInv'
    BY DEF FetchInv, JobsInv, Running, served, jobVars
  <1>3. Grows
    <2>1. \A w \in Workspaces : Len(store[w]) <= Len(store'[w])
      BY StoreLengths DEF FetchInv, served
    <2> QED
      BY <2>1 DEF Grows, served, jobVars
  <1>4. RecordsInv'
    BY DEF FetchInv, RecordsInv, Sound, served, jobVars
  <1>5. OrderInv'
    BY DEF FetchInv, OrderInv, jobVars
  <1>6. PagesInv'
    BY <1>3, PageStays DEF FetchInv, PagesInv, OnlyPage
  <1> QED
    BY <1>1, <1>2, <1>4, <1>5, <1>6 DEF FetchInv

LEMMA NewJobKeepsInv ==
    ASSUME FetchInv, NEW p \in Pages, StartFetch(p) \/ StartFails(p)
    PROVE  FetchInv'
  <1> DEFINE w == pages[p].repo
  <1>1. /\ pages \in [Pages -> Page] /\ w \in Workspaces
        /\ jobs \in Seq(Job) /\ progress \in Progress
        /\ StoreTypeOK
    BY DEF FetchInv, FetchTypeOK, Page
  <1>2. PICK phase \in {"starting", "lost"}, kind \in {"started", "failed"} :
           NewJob(w, phase) /\ Announce(w) /\ Answer(p, kind, progress')
    BY DEF StartFetch, StartFails
  <1>3. ~progress.running /\ UNCHANGED <<served, terminals>>
    BY DEF StartFetch, StartFails, Busy
  <1>4. /\ jobs' \in Seq(Job)
        /\ Len(jobs) \in Nat
        /\ DOMAIN jobs = 1..Len(jobs)
        /\ DOMAIN jobs' = 1..Len(jobs) + 1
        /\ Len(jobs') = Len(jobs) + 1
        /\ \A k \in DOMAIN jobs : jobs'[k] = jobs[k]
        /\ jobs'[Len(jobs) + 1].repo = w
        /\ jobs'[Len(jobs) + 1].phase = phase
    BY <1>1, <1>2, NewJobEffect
  <1>5. /\ progress' \in Progress
        /\ progress'.job = Len(jobs) + 1
        /\ progress'.repo = w
        /\ progress'.running = TRUE
        /\ progress'.ready = FALSE
    <2>1. PICK x : x = NoProgress(w)
      OBVIOUS
    <2>2. x \in Progress /\ x.repo = w /\ x.ready = FALSE
      BY <1>1, <2>1 DEF NoProgress, Progress
    <2>3. progress' = [x EXCEPT !.running = TRUE, !.job = Len(jobs) + 1]
      BY <1>2, <2>1 DEF Announce
    <2>4. Len(jobs) + 1 \in Nat
      BY <1>4
    <2> QED
      BY <2>2, <2>3, <2>4 DEF Progress
  <1>6. /\ OnlyPage(p)
        /\ pages'[p].phase = "posted"
        /\ pages'[p].reply \in Reply
        /\ pages'[p].reply.kind = kind
        /\ pages'[p].reply.about = progress'
    BY <1>1, <1>2, <1>5, AnswerEffect
  <1>7. Grows
    <2>1. \A v \in Workspaces : Len(store[v]) <= Len(store'[v])
      BY <1>1, <1>3, StoreLengths DEF served
    <2> QED
      BY <1>3, <1>4, <2>1 DEF Grows, served
  <1>8. StoreTypeOK' /\ FetchTypeOK'
    BY <1>1, <1>3, <1>4, <1>5, <1>6
       DEF FetchInv, FetchTypeOK, StoreTypeOK, OnlyPage, served
  <1>9. JobsInv'
    <2>1. ASSUME NEW k \in DOMAIN jobs', Running(k)'
          PROVE  k = Len(jobs) + 1
      BY <1>3, <1>4, <2>1 DEF FetchInv, JobsInv, Running
    <2>2. ASSUME NEW k \in DOMAIN jobs', jobs'[k].phase = "published"
          PROVE  jobs'[k].version \in 1..Len(store'[jobs'[k].repo])
      BY <1>3, <1>4, <2>2 DEF FetchInv, JobsInv, served
    <2> QED
      BY <1>4, <1>5, <2>1, <2>2 DEF JobsInv
  <1>10. Sound(progress)'
    BY <1>4, <1>5 DEF Sound
  <1>11. RecordsInv'
    BY <1>3, <1>7, <1>10, RecordsStay DEF FetchInv, RecordsInv
  <1>12. OrderInv'
    <2>1. \A i \in DOMAIN terminals : terminals[i].job \in 1..Len(jobs)
      BY <1>4 DEF FetchInv, RecordsInv, Sound
    <2>2. \A i \in DOMAIN terminals' : terminals'[i].job < progress'.job
      BY <1>3, <1>4, <1>5, <2>1
    <2> QED
      BY <1>3, <1>4, <1>5, <2>2 DEF FetchInv, OrderInv
  <1>13. PagesInv'
    <2>1. PageOK(pages[p])'
      BY <1>4, <1>5, <1>6, <1>10 DEF PageOK, Sound
    <2> QED
      BY <1>6, <1>7, <2>1, PageStays DEF FetchInv, PagesInv, OnlyPage
  <1> QED
    BY <1>8, <1>9, <1>11, <1>12, <1>13 DEF FetchInv

LEMMA RefusalKeepsInv ==
    ASSUME FetchInv, NEW p \in Pages, RefuseFetch(p)
    PROVE  FetchInv'
  <1>1. pages \in [Pages -> Page] /\ progress \in Progress
    BY DEF FetchInv, FetchTypeOK
  <1>2. /\ OnlyPage(p)
        /\ pages'[p].phase = "posted"
        /\ pages'[p].reply \in Reply
        /\ pages'[p].reply.about = progress
    BY <1>1, AnswerEffect DEF RefuseFetch
  <1>3. Sound(progress) /\ progress.job # 0
    BY DEF RefuseFetch, Busy, FetchInv, JobsInv, RecordsInv
  <1>4. UNCHANGED <<served, jobVars>>
    BY DEF RefuseFetch
  <1>5. PageOK(pages[p])'
    BY <1>2, <1>3, <1>4 DEF PageOK, Sound, served, jobVars
  <1> QED
    BY <1>2, <1>4, <1>5, PageKeepsInv

\* The page rests: it gave up, heard an error, loaded, or its user went away.
LEMMA RestKeepsInv ==
    ASSUME FetchInv, NEW p \in Pages, NEW w \in Workspaces,
           pages' = [pages EXCEPT ![p] = Resting(w)],
           UNCHANGED <<served, jobVars>>
    PROVE  FetchInv'
  <1>1. pages \in [Pages -> Page]
    BY DEF FetchInv, FetchTypeOK
  <1>2. Resting(w) \in Page /\ Resting(w).phase = "idle"
    BY DEF Resting, Page
  <1>3. OnlyPage(p) /\ pages'[p] = Resting(w)
    BY <1>1, <1>2 DEF OnlyPage
  <1>4. PageOK(pages[p])'
    BY <1>2, <1>3 DEF PageOK
  <1> QED
    BY <1>3, <1>4, PageKeepsInv

\* What a poll answers: a sound record of the page's workspace, and if that
\* says ready, of a job that is not older than one that the page waits for.
LEMMA ProgressOfFits ==
    ASSUME FetchInv, NEW w \in Workspaces,
           NEW want \in DOMAIN jobs, jobs[want].repo = w
    PROVE  /\ ProgressOf(w) \in Progress
           /\ Sound(ProgressOf(w))
           /\ ProgressOf(w).repo = w
           /\ ProgressOf(w).ready => ProgressOf(w).job >= want
  <1>1. /\ progress \in Progress
        /\ terminals \in Seq(Progress)
        /\ Len(terminals) \in Nat
        /\ DOMAIN terminals = 1..Len(terminals)
        /\ Len(jobs) \in Nat
        /\ DOMAIN jobs = 1..Len(jobs)
    BY SequencesAreFunctions DEF FetchInv, FetchTypeOK
  <1> DEFINE own == {i \in DOMAIN terminals : terminals[i].repo = w}
  <1>2. CASE progress.repo = w
    <2>1. ProgressOf(w) = progress
      BY <1>2 DEF ProgressOf
    <2>2. progress.ready => progress.job = Len(jobs)
      BY DEF FetchInv, JobsInv, RecordsInv, Sound
    <2> QED
      BY <1>1, <1>2, <2>1, <2>2 DEF FetchInv, RecordsInv
  <1>3. CASE progress.repo # w /\ own = {}
    <2>1. ProgressOf(w) = NoProgress(w)
      BY <1>3 DEF ProgressOf
    <2> QED
      BY <2>1 DEF NoProgress, Progress, Sound
  <1>4. CASE progress.repo # w /\ own # {}
    <2> DEFINE newest == CHOOSE i \in own : \A k \in own : k <= i
    <2>1. own \in SUBSET (1..Len(terminals))
      BY <1>1
    <2>2. \E i \in own : \A k \in own : k <= i
      BY <1>1, <1>4, <2>1, GreatestIn
    <2>3. newest \in own /\ \A k \in own : k <= newest
      BY <2>2
    <2>4. ProgressOf(w) = terminals[newest]
      BY <1>4 DEF ProgressOf
    <2> HIDE DEF newest
    <2>5. /\ terminals[newest] \in Progress
          /\ Sound(terminals[newest])
          /\ terminals[newest].repo = w
      BY <1>1, <2>3, SequencesAreFunctions DEF FetchInv, RecordsInv
    <2>6. terminals[newest].job >= want
      <3>1. ~(progress.running /\ want = progress.job)
        <4>1. Sound(progress)
          BY DEF FetchInv, RecordsInv
        <4>2. progress.running => progress.job # 0
          BY DEF FetchInv, JobsInv
        <4> QED
          BY <1>4, <4>1, <4>2 DEF Sound
      <3>2. ASSUME NEW k \in DOMAIN terminals, terminals[k].job = want
            PROVE  terminals[newest].job >= want
        <4>1. terminals[k].repo = w
          BY <3>2 DEF FetchInv, RecordsInv, Sound
        <4>2. k <= newest
          BY <2>3, <4>1
        <4>3. k = newest \/ k < newest
          BY <1>1, <2>1, <2>3, <4>2
        <4>4. k < newest => terminals[k].job < terminals[newest].job
          BY <2>3 DEF FetchInv, OrderInv
        <4>5. terminals[newest].job \in Nat
          BY <2>5 DEF Progress
        <4> QED
          BY <1>1, <3>2, <4>3, <4>4, <4>5
      <3>3. ASSUME \A k \in DOMAIN terminals : want < terminals[k].job
            PROVE  terminals[newest].job >= want
        <4>1. want < terminals[newest].job
          BY <2>3, <3>3
        <4>2. terminals[newest].job \in Nat
          BY <2>5 DEF Progress
        <4> QED
          BY <1>1, <4>1, <4>2
      <3> QED
        BY <3>1, <3>2, <3>3 DEF FetchInv, OrderInv
    <2> QED
      BY <2>4, <2>5, <2>6
  <1> QED
    BY <1>2, <1>3, <1>4

LEMMA PollKeepsInv ==
    ASSUME FetchInv, NEW p \in Pages, Poll(p)
    PROVE  FetchInv'
  <1>1. /\ pages \in [Pages -> Page] /\ pages[p] \in Page
        /\ pages[p].repo \in Workspaces
    BY DEF FetchInv, FetchTypeOK, Page
  <1> DEFINE w == pages[p].repo
             reply == [kind |-> "progress", about |-> ProgressOf(w)]
  <1>2. pages[p].want \in DOMAIN jobs /\ jobs[pages[p].want].repo = w
    BY DEF Poll, FetchInv, PagesInv, PageOK
  <1>3. /\ ProgressOf(w) \in Progress
        /\ Sound(ProgressOf(w))
        /\ ProgressOf(w).repo = w
        /\ ProgressOf(w).ready => ProgressOf(w).job >= pages[p].want
    BY <1>1, <1>2, ProgressOfFits
  <1>4. PICK x : /\ x = reply
                 /\ x \in Reply /\ x.about = ProgressOf(w)
                 /\ pages' = [pages EXCEPT ![p].reply = x]
    BY <1>3 DEF Poll, Reply
  <1>5. /\ pages'[p] \in Page
        /\ pages'[p].phase = "polling"
        /\ pages'[p].repo = w
        /\ pages'[p].want = pages[p].want
        /\ pages'[p].reply = x
    BY <1>1, <1>4 DEF Poll, Page
  <1>6. OnlyPage(p)
    <2>1. /\ \A q \in Pages \ {p} : pages'[q] = pages[q]
          /\ pages' = [q \in Pages |-> pages'[q]]
      BY <1>1, <1>4
    <2> QED
      BY <1>1, <1>5, <2>1 DEF OnlyPage
  <1>7. UNCHANGED <<served, jobVars>>
    BY DEF Poll
  <1>8. PICK q : q = ProgressOf(w)
    OBVIOUS
  <1>9. PageOK(pages[p])'
    <2>1. Sound(q)'
      BY <1>3, <1>7, <1>8 DEF Sound, served, jobVars
    <2>2. /\ x.about = q
          /\ q.repo = pages'[p].repo
          /\ q.ready => q.job >= pages'[p].want
      BY <1>3, <1>4, <1>5, <1>8
    <2> QED
      BY <1>2, <1>5, <1>7, <2>1, <2>2 DEF PageOK, Fits, jobVars
  <1> QED
    BY <1>6, <1>7, <1>9, PageKeepsInv

LEMMA BeginKeepsInv ==
    ASSUME FetchInv, NEW p \in Pages, BeginPolling(p)
    PROVE  FetchInv'
  <1>1. /\ pages \in [Pages -> Page] /\ pages[p] \in Page
    BY DEF FetchInv, FetchTypeOK
  <1> DEFINE about == pages[p].reply.about
  <1>2. /\ pages[p].reply \in Reply /\ Sound(about) /\ about.job # 0
        /\ about.repo = pages[p].repo
    BY DEF BeginPolling, Joined, FetchInv, PagesInv, PageOK
  <1>3. about.job \in Nat
    BY <1>2 DEF Reply, Progress
  <1>4. /\ pages'[p] \in Page
        /\ pages'[p].phase = "polling"
        /\ pages'[p].repo = pages[p].repo
        /\ pages'[p].want = about.job
        /\ pages'[p].reply = None
    BY <1>1, <1>3 DEF BeginPolling, Page
  <1>5. OnlyPage(p)
    <2>1. /\ \A q \in Pages \ {p} : pages'[q] = pages[q]
          /\ pages' = [q \in Pages |-> pages'[q]]
      BY <1>1 DEF BeginPolling
    <2> QED
      BY <1>1, <1>4, <2>1 DEF OnlyPage
  <1>6. UNCHANGED <<served, jobVars>>
    BY DEF BeginPolling
  <1>7. PageOK(pages[p])'
    BY <1>2, <1>4, <1>6 DEF PageOK, Sound, jobVars
  <1> QED
    BY <1>5, <1>6, <1>7, PageKeepsInv

LEMMA HearingKeepsInv ==
    ASSUME FetchInv, NEW p \in Pages, HearReady(p) \/ HearNothing(p)
    PROVE  FetchInv'
  <1>1. /\ pages \in [Pages -> Page] /\ pages[p] \in Page
    BY DEF FetchInv, FetchTypeOK
  <1>2. /\ pages[p].phase = "polling"
        /\ pages[p].reply \in Reply
        /\ pages[p].reply.about \in Progress
        /\ Fits(pages[p].reply.about, pages[p])
        /\ pages[p].want \in DOMAIN jobs
        /\ jobs[pages[p].want].repo = pages[p].repo
    BY <1>1 DEF HearReady, HearNothing, Hears, FetchInv, PagesInv, PageOK, Page,
                Reply
  <1>3. UNCHANGED <<served, jobVars>>
    BY DEF HearReady, HearNothing
  <1>4. CASE HearReady(p)
    <2>1. /\ pages'[p] \in Page
          /\ pages'[p].phase = "loading"
          /\ pages'[p].repo = pages[p].repo
          /\ pages'[p].want = pages[p].want
          /\ pages'[p].heard = pages[p].reply.about
          /\ pages[p].reply.about.ready
      BY <1>1, <1>2, <1>4 DEF HearReady, Page
    <2>2. OnlyPage(p)
      <3>1. /\ \A q \in Pages \ {p} : pages'[q] = pages[q]
            /\ pages' = [q \in Pages |-> pages'[q]]
        BY <1>1, <1>4 DEF HearReady
      <3> QED
        BY <1>1, <2>1, <3>1 DEF OnlyPage
    <2>3. PageOK(pages[p])'
      BY <1>2, <1>3, <2>1 DEF PageOK, Fits, Sound, served, jobVars
    <2> QED
      BY <1>3, <2>2, <2>3, PageKeepsInv
  <1>5. CASE HearNothing(p)
    <2>1. /\ pages'[p] \in Page
          /\ pages'[p].phase = "polling"
          /\ pages'[p].repo = pages[p].repo
          /\ pages'[p].want = pages[p].want
          /\ pages'[p].reply = None
      BY <1>1, <1>2, <1>5 DEF HearNothing, Page
    <2>2. OnlyPage(p)
      <3>1. /\ \A q \in Pages \ {p} : pages'[q] = pages[q]
            /\ pages' = [q \in Pages |-> pages'[q]]
        BY <1>1, <1>5 DEF HearNothing
      <3> QED
        BY <1>1, <2>1, <3>1 DEF OnlyPage
    <2>3. PageOK(pages[p])'
      BY <1>2, <1>3, <2>1 DEF PageOK, jobVars
    <2> QED
      BY <1>3, <2>2, <2>3, PageKeepsInv
  <1> QED
    BY <1>4, <1>5

LEMMA PageStepKeepsInv ==
    ASSUME FetchInv, NEW p \in Pages, PageStep(p)
    PROVE  FetchInv'
  <1>1. pages[p].repo \in Workspaces
    BY DEF FetchInv, FetchTypeOK, Page
  <1>2. CASE GiveUp(p) \/ HearError(p) \/ LoadState(p)
    <2>1. PICK w \in Workspaces : w = pages[p].repo
      BY <1>1
    <2>2. pages' = [pages EXCEPT ![p] = Resting(w)]
      BY <1>2, <2>1 DEF GiveUp, HearError, LoadState
    <2>3. UNCHANGED <<served, jobVars>>
      BY <1>2 DEF GiveUp, HearError, LoadState
    <2> QED
      BY <2>2, <2>3, RestKeepsInv
  <1> QED
    BY <1>2, PollKeepsInv, BeginKeepsInv, HearingKeepsInv DEF PageStep

LEMMA UserKeepsInv ==
    ASSUME FetchInv, NEW p \in Pages,
           Click(p) \/ \E w \in Workspaces : SwitchWorkspace(p, w)
    PROVE  FetchInv'
  <1>1. ASSUME NEW w \in Workspaces, SwitchWorkspace(p, w)
        PROVE  FetchInv'
    BY <1>1, RestKeepsInv DEF SwitchWorkspace
  <1> QED
    BY <1>1, NewJobKeepsInv, RefusalKeepsInv DEF Click

------------------------------------------------------------------------------
(* The fetch: others, and restarts *)

\* Stores that only grow disturb nothing.
LEMMA OthersKeepInv ==
    ASSUME FetchInv, StoreTypeOK', UNCHANGED fetchVars,
           \A w \in Workspaces : Len(store[w]) <= Len(store'[w])
    PROVE  FetchInv'
  <1>1. Grows
    <2>1. ASSUME NEW j \in DOMAIN jobs,
                 jobs[j].version \in 1..Len(store[jobs[j].repo])
          PROVE  jobs'[j].version \in 1..Len(store'[jobs[j].repo])
      <3>1. jobs[j].repo \in Workspaces
        BY TypedJob DEF FetchInv, FetchTypeOK
      <3>2. PICK w \in Workspaces : w = jobs[j].repo
        BY <3>1
      <3>3. Len(store[w]) \in Nat /\ Len(store'[w]) \in Nat
        BY DEF FetchInv, StoreTypeOK
      <3>4. Len(store[w]) <= Len(store'[w])
        OBVIOUS
      <3>5. jobs[j].version \in 1..Len(store[w])
        BY <2>1, <3>2
      <3>6. jobs[j].version \in 1..Len(store'[w])
        BY <3>3, <3>4, <3>5
      <3> QED
        BY <3>2, <3>6 DEF fetchVars, jobVars
    <2> QED
      BY <2>1 DEF Grows, fetchVars, jobVars
  <1>2. FetchTypeOK' /\ OrderInv'
    BY DEF FetchInv, FetchTypeOK, OrderInv, fetchVars, jobVars
  <1>3. JobsInv'
    <2>1. ASSUME NEW j \in DOMAIN jobs, jobs[j].phase = "published"
          PROVE  jobs'[j].version \in 1..Len(store'[jobs[j].repo])
      BY <1>1, <2>1 DEF FetchInv, JobsInv, Grows
    <2> QED
      BY <2>1 DEF FetchInv, JobsInv, Running, fetchVars, jobVars
  <1>4. RecordsInv'
    <2>1. PICK q : q = progress /\ Sound(q)
      BY DEF FetchInv, RecordsInv
    <2>2. Sound(q)'
      BY <1>1, <2>1, SoundStays
    <2>3. Sound(progress)'
      BY <2>1, <2>2 DEF Sound, fetchVars, jobVars
    <2>4. UNCHANGED terminals
      BY DEF fetchVars, jobVars
    <2> QED
      BY <1>1, <2>3, <2>4, RecordsStay DEF FetchInv, RecordsInv
  <1>5. PagesInv'
    <2>1. ASSUME NEW p \in Pages
          PROVE  PageOK(pages[p])'
      <3>1. pages'[p] = pages[p]
        BY DEF fetchVars
      <3>2. PageOK(pages[p])
        BY DEF FetchInv, PagesInv
      <3> QED
        BY <1>1, <3>1, <3>2, PageStays
    <2> QED
      BY <2>1 DEF PagesInv
  <1> QED
    BY <1>2, <1>3, <1>4, <1>5 DEF FetchInv

LEMMA ElsewhereKeepsInv ==
    ASSUME FetchInv, UNCHANGED fetchVars, NEW w \in Workspaces,
           WriteElsewhere(w) \/ SyncElsewhere(w)
    PROVE  FetchInv'
  <1>1. StoreTypeOK
    BY DEF FetchInv
  <1>2. CASE WriteElsewhere(w)
    <2>1. PICK snapshot \in 1..cache[w] : Write(w, snapshot)
      BY <1>2 DEF WriteElsewhere
    <2>2. snapshot \in Nat
      BY <1>1 DEF StoreTypeOK
    <2>3. PICK longer : longer = Append(store[w], snapshot)
      OBVIOUS
    <2>4. /\ longer \in Seq(Nat)
          /\ Len(longer) = Len(store[w]) + 1
          /\ Len(store[w]) \in Nat
      BY <1>1, <2>2, <2>3 DEF StoreTypeOK
    <2>5. store' = [store EXCEPT ![w] = longer]
      BY <2>1, <2>3 DEF Write
    <2>6. StoreTypeOK'
      BY <1>1, <1>2, <2>4, <2>5 DEF StoreTypeOK, WriteElsewhere
    <2>7. \A v \in Workspaces : Len(store[v]) <= Len(store'[v])
      <3>1. ASSUME NEW v \in Workspaces
            PROVE  Len(store[v]) <= Len(store'[v])
        <4>1. Len(store[v]) \in Nat
          BY <1>1, StoreLengths
        <4>2. store'[v] = IF v = w THEN longer ELSE store[v]
          BY <1>1, <2>5 DEF StoreTypeOK
        <4> QED
          BY <2>4, <4>1, <4>2
      <3> QED
        BY <3>1
    <2> QED
      BY <2>6, <2>7, OthersKeepInv
  <1>3. CASE SyncElsewhere(w)
    <2>1. StoreTypeOK'
      BY <1>1, <1>3 DEF SyncElsewhere, StoreTypeOK
    <2>2. \A v \in Workspaces : Len(store[v]) <= Len(store'[v])
      BY <1>1, <1>3, StoreLengths DEF SyncElsewhere
    <2> QED
      BY <2>1, <2>2, OthersKeepInv
  <1> QED
    BY <1>2, <1>3

\* A restart forgets the records; the pages that it does not cut off go on.
LEMMA RestartKeepsInv ==
    ASSUME FetchInv, ForgetJobs, UNCHANGED <<store, cache>>, epoch' = epoch + 1
    PROVE  FetchInv'
  <1>1. /\ jobs \in Seq(Job) /\ StoreTypeOK
        /\ pages \in [Pages -> Page]
    BY DEF FetchInv, FetchTypeOK
  <1>2. PICK n \in Nat : n = Len(jobs) /\ DOMAIN jobs = 1..n
    BY <1>1
  <1> DEFINE left == {p \in Pages : pages[p].phase # "idle"}
             lost(x) == [x EXCEPT !.phase = "lost", !.snapshot = 0]
  <1>3. jobs' = [j \in DOMAIN jobs |->
                   IF Running(j) THEN lost(jobs[j]) ELSE jobs[j]]
    BY Zenon DEF ForgetJobs
  <1>4. PICK cut \in SUBSET left :
           pages' = [p \in Pages |-> IF p \in cut THEN Resting(pages[p].repo)
                                    ELSE pages[p]]
    BY Zenon DEF ForgetJobs
  <1>5. progress' = NoProgress(None) /\ terminals' = << >>
    BY Zenon DEF ForgetJobs
  <1> HIDE DEF left, lost
  <1>6. ASSUME NEW j \in 1..n
        PROVE  /\ jobs'[j] \in Job
               /\ jobs'[j].repo = jobs[j].repo
               /\ jobs'[j].version = jobs[j].version
               /\ ~Running(j)'
    <2>1. /\ jobs[j] \in Job /\ jobs[j].repo \in Workspaces
          /\ jobs[j].snapshot \in Nat /\ jobs[j].version \in Nat
      BY <1>1, <1>2, TypedJob
    <2>2. jobs'[j] = IF Running(j) THEN lost(jobs[j]) ELSE jobs[j]
      BY <1>2, <1>3
    <2>3. CASE Running(j)
      <3>1. PICK x \in Job : x = jobs[j]
        BY <2>1
      <3>2. jobs'[j] = lost(x)
        BY <2>2, <2>3, <3>1
      <3>3. /\ lost(x) \in Job /\ lost(x).phase = "lost"
           /\ lost(x).repo = x.repo /\ lost(x).version = x.version
        BY DEF lost, Job
      <3>4. /\ jobs'[j] \in Job /\ jobs'[j].phase = "lost"
            /\ jobs'[j].repo = jobs[j].repo
            /\ jobs'[j].version = jobs[j].version
        BY <3>1, <3>2, <3>3
      <3> QED
        BY <3>4 DEF Running
    <2>4. CASE ~Running(j)
      BY <2>1, <2>2, <2>4 DEF Running
    <2> QED
      BY <2>3, <2>4
  <1>7. jobs' \in Seq(Job) /\ Len(jobs') = n /\ DOMAIN jobs' = 1..n
    <2>1. jobs' = [j \in 1..n |-> jobs'[j]]
      BY <1>2, <1>3
    <2>2. PICK f \in [1..n -> Job] : f = jobs'
      BY <1>6, <2>1
    <2>3. f \in Seq(Job) /\ Len(f) = n /\ DOMAIN f = 1..n
      BY FunctionsAreSequences
    <2> QED
      BY <2>2, <2>3
  <1>8. Grows
    <2>1. \A w \in Workspaces : Len(store[w]) <= Len(store'[w])
      BY <1>1, StoreLengths
    <2> QED
      BY <1>2, <1>6, <1>7, <2>1 DEF Grows
  <1>9. /\ progress' = NoProgress(None)
        /\ progress' \in Progress
        /\ progress'.job = 0 /\ ~progress'.running /\ ~progress'.ready
    BY <1>5 DEF NoProgress, Progress
  <1>10. terminals' = << >> /\ terminals' \in Seq(Progress)
        /\ Len(terminals') = 0 /\ DOMAIN terminals' = {}
    BY <1>5
  <1>11. ASSUME NEW p \in Pages
        PROVE  pages'[p] \in Page /\ PageOK(pages[p])'
    <2>1. pages'[p] = Resting(pages[p].repo) \/ pages'[p] = pages[p]
      BY <1>4
    <2>2. CASE pages'[p] = pages[p]
      BY <1>1, <1>8, <2>2, PageStays DEF FetchInv, PagesInv
    <2>3. CASE pages'[p] = Resting(pages[p].repo)
      <3>1. pages[p].repo \in Workspaces
        BY <1>1 DEF Page
      <3> QED
        BY <2>3, <3>1 DEF Resting, Page, PageOK
    <2> QED
      BY <2>1, <2>2, <2>3
  <1>12. FetchTypeOK' /\ StoreTypeOK'
    <2>1. pages' \in [Pages -> Page]
      <3>1. pages' = [p \in Pages |-> pages'[p]]
        BY <1>4
      <3> QED
        BY <1>11, <3>1
    <2>2. KEPT \in Nat
      BY FetchAssumption
    <2> QED
      BY <1>1, <1>7, <1>9, <1>10, <2>1, <2>2 DEF FetchTypeOK, StoreTypeOK
  <1>13. JobsInv'
    <2>1. ASSUME NEW j \in DOMAIN jobs', jobs'[j].phase = "published"
          PROVE  FALSE
      BY <1>6, <1>7, <2>1 DEF Running
    <2> QED
      BY <1>6, <1>7, <1>9, <2>1 DEF JobsInv
  <1>14. RecordsInv' /\ OrderInv'
    BY <1>9, <1>10 DEF RecordsInv, OrderInv, Sound
  <1> QED
    BY <1>11, <1>12, <1>13, <1>14 DEF FetchInv, PagesInv

------------------------------------------------------------------------------
(* The fetch: theorems *)

LEMMA FetchStep ==
    ASSUME FetchInv, [Next]_vars
    PROVE  FetchInv'
  <1>1. CASE UNCHANGED <<served, fetchVars>>
    <2>1. StoreTypeOK'
      BY <1>1 DEF FetchInv, StoreTypeOK, served
    <2>2. \A w \in Workspaces : Len(store[w]) <= Len(store'[w])
      BY <1>1, StoreLengths DEF FetchInv, served
    <2> QED
      BY <1>1, <2>1, <2>2, OthersKeepInv
  <1> QED
    BY <1>1, StepKinds, JobKeepsInv, PageStepKeepsInv, UserKeepsInv,
       ElsewhereKeepsInv, RestartKeepsInv

LEMMA FetchInitially ==
    ASSUME Init
    PROVE  FetchInv
  <1>1. StoreTypeOK
    <2>1. ASSUME NEW w \in Workspaces
          PROVE  store[w] \in Seq(Nat) /\ Len(store[w]) \in Nat
      <3>1. store[w] = << >> \/ store[w] = <<1>>
        BY DEF Init, StoreInit
      <3>2. << >> \in Seq(Nat) /\ <<1>> \in Seq(Nat)
        OBVIOUS
      <3>3. Len(<< >>) = 0 /\ Len(<<1>>) = 1
        OBVIOUS
      <3> QED
        BY <3>1, <3>2, <3>3
    <2> QED
      BY <2>1 DEF Init, StoreInit, StoreTypeOK
  <1>2. /\ progress = NoProgress(None)
        /\ progress \in Progress
        /\ progress.job = 0 /\ ~progress.running /\ ~progress.ready
    BY DEF Init, FetchInit, NoProgress, Progress
  <1>3. /\ jobs = << >>
        /\ jobs \in Seq(Job)
        /\ Len(jobs) = 0
        /\ DOMAIN jobs = {}
        /\ terminals = << >> /\ terminals \in Seq(Progress)
        /\ Len(terminals) = 0 /\ DOMAIN terminals = {}
    BY DEF Init, FetchInit
  <1>4. PICK home \in [Pages -> Workspaces] :
           pages = [p \in Pages |-> Resting(home[p])]
    BY DEF Init, FetchInit
  <1>5. \A p \in Pages : pages[p] \in Page /\ PageOK(pages[p])
    BY <1>4 DEF Resting, Page, PageOK
  <1>6. FetchTypeOK
    BY <1>2, <1>3, <1>4, <1>5, FetchAssumption DEF FetchTypeOK
  <1>7. JobsInv /\ RecordsInv /\ OrderInv
    BY <1>2, <1>3 DEF JobsInv, RecordsInv, OrderInv, Sound
  <1> QED
    BY <1>1, <1>5, <1>6, <1>7 DEF FetchInv, PagesInv

LEMMA FetchInvariant == Spec => []FetchInv
  BY FetchInitially, FetchStep, PTL DEF Spec

\* A page loads the state of its workspace only after a job of that workspace,
\* not older than the one it asked for, published it: whatever other pages,
\* workspaces and processes do, and however late it hears.
THEOREM ReadyIsSynced == Spec => []ReadyMeansSynced
  <1>1. FetchInv => ReadyMeansSynced
    <2> SUFFICES ASSUME FetchInv, NEW p \in Pages, pages[p].phase = "loading"
                 PROVE  LET j == pages[p].heard.job IN
                        /\ j \in DOMAIN jobs
                        /\ j >= pages[p].want
                        /\ jobs[j].repo = pages[p].repo
                        /\ jobs[j].version \in 1..Version(pages[p].repo)
      BY DEF ReadyMeansSynced
    <2>1. pages[p].heard.ready /\ Fits(pages[p].heard, pages[p])
      BY DEF FetchInv, PagesInv, PageOK
    <2> QED
      BY <2>1 DEF Fits, Sound, Version
  <1> QED
    BY <1>1, FetchInvariant, PTL

\* Two fetches never run at once.
THEOREM OneJob == Spec => []OneJobAtATime
  <1>1. FetchInv => OneJobAtATime
    <2> SUFFICES ASSUME FetchInv PROVE OneJobAtATime
      OBVIOUS
    <2> DEFINE running == {j \in DOMAIN jobs : Running(j)}
    <2>1. running \subseteq {progress.job}
      BY DEF FetchInv, JobsInv
    <2>2. IsFiniteSet({progress.job}) /\ Cardinality({progress.job}) = 1
      BY FS_Singleton
    <2>3. Cardinality(running) <= Cardinality({progress.job})
      BY <2>1, <2>2, FS_Subset
    <2> QED
      BY <2>2, <2>3 DEF OneJobAtATime
  <1> QED
    BY <1>1, FetchInvariant, PTL

------------------------------------------------------------------------------
(* What callers are answered *)

Unasked == {"idle", "refused"}

\* An outcome other than an error is for the target and the version of x.
For(x, outcome) ==
    /\ outcome \in Outcome
    /\ outcome.kind # "error"
       => outcome.target = x.target /\ outcome.version = x.version

\* A caller that asked has a target; one that loaded the store has the version
\* that it expects; one that is done has an outcome of its own.
CallerOK(x) ==
    /\ x.phase \notin Unasked => x.target \in Targets
    /\ x.phase \in {"query", "documents"} => x.data = x.version
    /\ x.phase \in {"ended", "announced", "answered"} => For(x, x.outcome)

\* A follower asked the same thing as its leader.
FollowsOK(x) ==
    x.phase = "following" =>
        /\ x.leader \in Callers
        /\ callers[x.leader].target = x.target
        /\ callers[x.leader].version = x.version
        /\ callers[x.leader].phase \notin Unasked

CallersInv ==
    /\ callers \in [Callers -> Caller]
    /\ inflight \subseteq Callers
    /\ \A c \in inflight : callers[c].phase \notin Unasked
    /\ \A c \in Callers : CallerOK(callers[c]) /\ FollowsOK(callers[c])

\* A step of caller c; who asked goes on asking for the same.
OnlyCaller(c) ==
    /\ callers' = [d \in Callers |-> callers'[d]]
    /\ \A d \in Callers \ {c} : callers'[d] = callers[d]

GoesOn(c) ==
    callers[c].phase \notin Unasked =>
        /\ callers'[c].target = callers[c].target
        /\ callers'[c].version = callers[c].version
        /\ callers'[c].phase \notin Unasked

LEMMA OneCaller ==
    ASSUME CallersInv, NEW c \in Callers, OnlyCaller(c), GoesOn(c),
           callers'[c] \in Caller, CallerOK(callers[c])',
           FollowsOK(callers[c])',
           inflight' \subseteq inflight \cup {c},
           c \in inflight' => callers'[c].phase \notin Unasked
    PROVE  CallersInv'
  <1>1. ASSUME NEW d \in Callers
        PROVE  CallerOK(callers[d])' /\ FollowsOK(callers[d])'
    <2>1. CASE d # c
      <3>1. callers'[d] = callers[d]
        BY <2>1 DEF OnlyCaller
      <3>2. CallerOK(callers[d]) /\ FollowsOK(callers[d])
        BY DEF CallersInv
      <3>3. CallerOK(callers[d])'
        BY <3>1, <3>2 DEF CallerOK
      <3>4. FollowsOK(callers[d])'
        BY <3>1, <3>2 DEF FollowsOK, OnlyCaller, GoesOn
      <3> QED
        BY <3>3, <3>4
    <2> QED
      BY <2>1
  <1>2. \A d \in inflight' : callers'[d].phase \notin Unasked
    BY DEF CallersInv, OnlyCaller, GoesOn
  <1>3. callers' \in [Callers -> Caller]
    <2>1. \A d \in Callers : callers'[d] \in Caller
      BY DEF OnlyCaller, CallersInv
    <2> QED
      BY <2>1 DEF OnlyCaller
  <1> QED
    BY <1>1, <1>2, <1>3 DEF CallersInv

LEMMA VersionsAreNat ==
    ASSUME StoreTypeOK, NEW t \in Targets
    PROVE  Current(t) \in Nat
  BY EnrichmentAssumption, StoreLengths DEF Current, Version

LEMMA TypedCaller ==
    ASSUME CallersInv, NEW c \in Callers
    PROVE  /\ callers \in [Callers -> Caller]
           /\ callers[c] \in Caller
           /\ callers[c].version \in Nat
           /\ CallerOK(callers[c]) /\ FollowsOK(callers[c])
  <1>1. callers[c] \in Caller
    BY DEF CallersInv
  <1> QED
    BY <1>1 DEF CallersInv, Caller

\* The steps of a caller, by what they set: nothing but the phase ...
LEMMA PhaseStep ==
    ASSUME CallersInv, NEW c \in Callers,
           NEW phase \in {"leading", "announced", "answered"},
           callers' = [callers EXCEPT ![c].phase = phase],
           callers[c].phase \notin Unasked,
           phase = "leading" \/ callers[c].phase \in {"ended", "announced"},
           inflight' \subseteq inflight \cup {c}
    PROVE  CallersInv'
  <1>1. /\ callers \in [Callers -> Caller] /\ callers[c] \in Caller
        /\ CallerOK(callers[c])
    BY TypedCaller
  <1>2. /\ OnlyCaller(c)
        /\ callers'[c] \in Caller
        /\ callers'[c].phase = phase
        /\ callers'[c].target = callers[c].target
        /\ callers'[c].version = callers[c].version
        /\ callers'[c].outcome = callers[c].outcome
    <2>1. OnlyCaller(c)
      BY <1>1 DEF OnlyCaller
    <2> QED
      BY <1>1, <2>1 DEF Caller
  <1>3. CallerOK(callers[c])'
    BY <1>1, <1>2 DEF CallerOK, For, Unasked
  <1>4. FollowsOK(callers[c])' /\ GoesOn(c)
    BY <1>2 DEF FollowsOK, GoesOn, Unasked
  <1> QED
    BY <1>2, <1>3, <1>4, OneCaller DEF Unasked

\* ... or the end of the run or of the wait, with an outcome ...
LEMMA OutcomeStep ==
    ASSUME CallersInv, NEW c \in Callers, NEW outcome,
           OnlyCaller(c), GoesOn(c), callers'[c] \in Caller,
           callers[c].phase \notin Unasked,
           callers'[c].phase \in {"ended", "answered"},
           callers'[c].outcome = outcome,
           For(callers[c], outcome),
           UNCHANGED inflight
    PROVE  CallersInv'
  <1>1. CallerOK(callers[c])
    BY TypedCaller
  <1>2. CallerOK(callers[c])'
    BY <1>1 DEF CallerOK, For, GoesOn
  <1>3. FollowsOK(callers[c])'
    BY DEF FollowsOK
  <1> QED
    BY <1>2, <1>3, OneCaller DEF GoesOn

LEMMA EndStep ==
    ASSUME CallersInv, NEW c \in Callers,
           callers[c].phase \notin Unasked,
           NEW kind \in {"rerank", "local", "error"}, NEW version \in Nat,
           kind # "error" => version = callers[c].version,
           End(c, kind, version),
           UNCHANGED inflight
    PROVE  CallersInv'
  <1>1. /\ callers \in [Callers -> Caller] /\ callers[c] \in Caller
        /\ CallerOK(callers[c])
    BY TypedCaller
  <1>2. PICK outcome : outcome = Made(c, kind, version)
    OBVIOUS
  <1>3. outcome \in Outcome /\ For(callers[c], outcome)
    <2>1. callers[c].target \in Targets
      BY <1>1 DEF CallerOK
    <2> QED
      BY <1>2, <2>1 DEF Made, Outcome, For
  <1>4. callers' = [callers EXCEPT ![c].phase = "ended", ![c].body = None,
                                   ![c].outcome = outcome]
    BY <1>2 DEF End
  <1>5. OnlyCaller(c)
    BY <1>1, <1>4 DEF OnlyCaller
  <1>6. /\ callers'[c] \in Caller
        /\ callers'[c].phase = "ended"
        /\ callers'[c].target = callers[c].target
        /\ callers'[c].version = callers[c].version
        /\ callers'[c].outcome = outcome
    BY <1>1, <1>3, <1>4 DEF Caller
  <1>7. GoesOn(c)
    BY <1>6 DEF GoesOn, Unasked
  <1> QED
    BY <1>3, <1>5, <1>6, <1>7, OutcomeStep

LEMMA FailStep ==
    ASSUME CallersInv, NEW c \in Callers, callers[c].phase \notin Unasked,
           Fail(c), UNCHANGED inflight
    PROVE  CallersInv'
  BY EndStep DEF Fail

\* ... or the vectors of a batch, after which the run goes on or ends.
LEMMA ProceedStep ==
    ASSUME StoreTypeOK, CallersInv, NEW c \in Callers, Embeds(c), Proceed(c),
           UNCHANGED inflight
    PROVE  CallersInv'
  <1>1. /\ callers \in [Callers -> Caller] /\ callers[c] \in Caller
        /\ CallerOK(callers[c])
        /\ callers[c].target \in Targets
        /\ callers[c].data = callers[c].version
        /\ callers[c].data \in Nat
    BY TypedCaller DEF CallerOK, Embeds, Unasked
  <1>2. CASE callers[c].phase = "query"
    <2>1. callers' = [callers EXCEPT ![c].phase = "documents",
                                     ![c].body = None,
                                     ![c].outcome = callers[c].outcome]
      BY <1>2 DEF Proceed
    <2>2. OnlyCaller(c)
      BY <1>1, <2>1 DEF OnlyCaller
    <2>3. /\ callers'[c] \in Caller
          /\ callers'[c].phase = "documents"
          /\ callers'[c].target = callers[c].target
          /\ callers'[c].version = callers[c].version
          /\ callers'[c].data = callers[c].data
      BY <1>1, <2>1 DEF Caller
    <2>4. GoesOn(c) /\ CallerOK(callers[c])' /\ FollowsOK(callers[c])'
      BY <1>1, <2>3 DEF GoesOn, CallerOK, FollowsOK, Unasked
    <2> QED
      BY <2>2, <2>3, <2>4, OneCaller DEF Unasked
  <1>3. CASE callers[c].phase = "documents"
    <2>1. PICK outcome : outcome = IF Unmoved(c)
                                   THEN Made(c, "rerank", callers[c].data)
                                   ELSE Made(c, "error", 0)
      OBVIOUS
    <2>2. outcome \in Outcome /\ For(callers[c], outcome)
      BY <1>1, <2>1 DEF Made, Outcome, For
    <2>3. callers' = [callers EXCEPT ![c].phase = "ended",
                                     ![c].body = None,
                                     ![c].outcome = outcome]
      BY <1>3, <2>1 DEF Proceed
    <2>4. OnlyCaller(c)
      BY <1>1, <2>3 DEF OnlyCaller
    <2>5. /\ callers'[c] \in Caller
          /\ callers'[c].phase = "ended"
          /\ callers'[c].target = callers[c].target
          /\ callers'[c].version = callers[c].version
          /\ callers'[c].outcome = outcome
      BY <1>1, <2>2, <2>3 DEF Caller
    <2>6. GoesOn(c) /\ callers[c].phase \notin Unasked
      BY <1>3, <2>5 DEF GoesOn, Unasked
    <2> QED
      BY <2>2, <2>4, <2>5, <2>6, OutcomeStep
  <1> QED
    BY <1>2, <1>3 DEF Embeds

LEMMA AskKeepsInv ==
    ASSUME StoreTypeOK, CallersInv, NEW c \in Callers, Ask(c)
    PROVE  CallersInv'
  <1>1. /\ callers \in [Callers -> Caller] /\ callers[c] \in Caller
    BY TypedCaller
  <1>2. PICK t \in Targets : \E v \in 1..Current(t) :
                                Admit(c, t, v) \/ RefuseEnrich(c, t, v)
    BY DEF Ask
  <1>3. Current(t) \in Nat
    BY VersionsAreNat
  <1>4. PICK v \in 1..Current(t) : Admit(c, t, v) \/ RefuseEnrich(c, t, v)
    BY <1>2
  <1>5. v \in Nat
    BY <1>3
  <1>6. callers[c].phase = "idle" /\ UNCHANGED inflight
    BY <1>4 DEF Admit, RefuseEnrich
  <1>7. c \notin inflight /\ GoesOn(c)
    BY <1>6 DEF CallersInv, Unasked, GoesOn
  <1>8. CASE Admit(c, t, v)
    <2>1. callers' = [callers EXCEPT ![c].phase = "admitted", ![c].target = t,
                                     ![c].version = v]
      BY <1>8 DEF Admit
    <2>2. OnlyCaller(c)
      BY <1>1, <2>1 DEF OnlyCaller
    <2>3. /\ callers'[c] \in Caller
          /\ callers'[c].phase = "admitted"
          /\ callers'[c].target = t
      BY <1>1, <1>5, <2>1 DEF Caller
    <2>4. CallerOK(callers[c])' /\ FollowsOK(callers[c])'
      BY <2>3 DEF CallerOK, FollowsOK
    <2> QED
      BY <1>6, <1>7, <2>2, <2>3, <2>4, OneCaller
  <1>9. CASE RefuseEnrich(c, t, v)
    <2>1. callers' = [callers EXCEPT ![c].phase = "refused"]
      BY <1>9 DEF RefuseEnrich
    <2>2. OnlyCaller(c)
      BY <1>1, <2>1 DEF OnlyCaller
    <2>3. callers'[c] \in Caller /\ callers'[c].phase = "refused"
      BY <1>1, <2>1 DEF Caller
    <2>4. CallerOK(callers[c])' /\ FollowsOK(callers[c])'
      BY <2>3 DEF CallerOK, FollowsOK, Unasked
    <2> QED
      BY <1>6, <1>7, <2>2, <2>3, <2>4, OneCaller
  <1> QED
    BY <1>4, <1>8, <1>9

LEMMA FollowKeepsInv ==
    ASSUME CallersInv, NEW c \in Callers, Follow(c)
    PROVE  CallersInv'
  <1>1. /\ callers \in [Callers -> Caller] /\ callers[c] \in Caller
        /\ CallerOK(callers[c])
    BY TypedCaller
  <1>2. PICK d \in inflight :
           /\ SameRun(c, d)
           /\ callers' = [callers EXCEPT ![c].phase = "following",
                                         ![c].leader = d]
    BY DEF Follow
  <1>3. d \in Callers /\ callers[d].phase \notin Unasked
    BY DEF CallersInv
  <1>4. OnlyCaller(c)
    BY <1>1, <1>2 DEF OnlyCaller
  <1>5. /\ callers'[c] \in Caller
        /\ callers'[c].phase = "following"
        /\ callers'[c].leader = d
        /\ callers'[c].target = callers[c].target
        /\ callers'[c].version = callers[c].version
    BY <1>1, <1>2, <1>3 DEF Caller
  <1>6. GoesOn(c) /\ callers[c].phase = "admitted"
    BY <1>5 DEF GoesOn, Unasked, Follow
  <1>7. CallerOK(callers[c])'
    BY <1>1, <1>5, <1>6 DEF CallerOK, Unasked
  <1>8. FollowsOK(callers[c])'
    <2>1. /\ callers'[d].target = callers[d].target
          /\ callers'[d].version = callers[d].version
          /\ callers'[d].phase \notin Unasked
      BY <1>3, <1>4, <1>5 DEF OnlyCaller, Unasked
    <2> QED
      BY <1>2, <1>3, <1>5, <2>1 DEF FollowsOK, SameRun
  <1>9. UNCHANGED inflight
    BY DEF Follow
  <1> QED
    BY <1>4, <1>5, <1>6, <1>7, <1>8, <1>9, OneCaller DEF Unasked

LEMMA PrepareKeepsInv ==
    ASSUME StoreTypeOK, CallersInv, NEW c \in Callers, Prepare(c)
    PROVE  CallersInv'
  <1>1. /\ callers \in [Callers -> Caller] /\ callers[c] \in Caller
        /\ CallerOK(callers[c]) /\ callers[c].version \in Nat
    BY TypedCaller
  <1>2. /\ callers[c].phase = "leading" /\ UNCHANGED inflight
        /\ callers' = [callers EXCEPT ![c].phase = "query",
                                      ![c].data = callers[c].version]
    BY DEF Prepare, Unmoved
  <1>3. OnlyCaller(c)
    BY <1>1, <1>2 DEF OnlyCaller
  <1>4. /\ callers'[c] \in Caller
        /\ callers'[c].phase = "query"
        /\ callers'[c].data = callers[c].version
        /\ callers'[c].target = callers[c].target
        /\ callers'[c].version = callers[c].version
    BY <1>1, <1>2 DEF Caller
  <1>5. GoesOn(c) /\ CallerOK(callers[c])' /\ FollowsOK(callers[c])'
    BY <1>1, <1>2, <1>4 DEF GoesOn, CallerOK, FollowsOK, Unasked
  <1> QED
    BY <1>2, <1>3, <1>4, <1>5, OneCaller DEF Unasked

\* A follower hears its leader's outcome, or gives up.
LEMMA FollowerKeepsInv ==
    ASSUME CallersInv, NEW c \in Callers, HearLeader(c) \/ LeaveLeader(c)
    PROVE  CallersInv'
  <1>1. /\ callers \in [Callers -> Caller] /\ callers[c] \in Caller
        /\ CallerOK(callers[c]) /\ FollowsOK(callers[c])
    BY TypedCaller
  <1>2. callers[c].phase = "following" /\ UNCHANGED inflight
    BY DEF HearLeader, LeaveLeader
  <1>3. PICK d \in Callers : d = callers[c].leader
    BY <1>1, <1>2 DEF FollowsOK
  <1>4. PICK outcome : /\ For(callers[c], outcome)
                       /\ callers' = [callers EXCEPT ![c].phase = "answered",
                                                     ![c].outcome = outcome]
    <2>1. CASE HearLeader(c)
      <3>1. callers' = [callers EXCEPT ![c].phase = "answered",
                                       ![c].outcome = callers[d].outcome]
        BY <1>3, <2>1 DEF HearLeader
      <3>2. CallerOK(callers[d])
        BY TypedCaller
      <3>3. For(callers[d], callers[d].outcome)
        BY <1>3, <2>1, <3>2 DEF HearLeader, Heard, CallerOK
      <3>4. For(callers[c], callers[d].outcome)
        BY <1>1, <1>2, <1>3, <3>3 DEF For, FollowsOK
      <3> QED
        BY <3>1, <3>4
    <2>2. CASE LeaveLeader(c)
      <3>1. PICK x : x = Made(c, "error", 0)
        OBVIOUS
      <3>2. callers[c].target \in Targets
        BY <1>1, <1>2 DEF CallerOK, Unasked
      <3>3. For(callers[c], x)
        BY <3>1, <3>2 DEF For, Made, Outcome
      <3>4. callers' = [callers EXCEPT ![c].phase = "answered",
                                       ![c].outcome = x]
        BY <2>2, <3>1 DEF LeaveLeader
      <3> QED
        BY <3>3, <3>4
    <2> QED
      BY <2>1, <2>2
  <1>5. OnlyCaller(c)
    BY <1>1, <1>4 DEF OnlyCaller
  <1>6. /\ callers'[c] \in Caller
        /\ callers'[c].phase = "answered"
        /\ callers'[c].target = callers[c].target
        /\ callers'[c].version = callers[c].version
        /\ callers'[c].outcome = outcome
    <2>1. outcome \in Outcome
      BY <1>4 DEF For
    <2> QED
      BY <1>1, <1>4, <2>1 DEF Caller
  <1>7. GoesOn(c) /\ callers[c].phase \notin Unasked
    BY <1>2, <1>6 DEF GoesOn, Unasked
  <1> QED
    BY <1>2, <1>4, <1>5, <1>6, <1>7, OutcomeStep

LEMMA EndRequestKeepsInv ==
    ASSUME CallersInv, NEW c \in Callers, NEW body \in BOOLEAN,
           EndRequest(c, body)
    PROVE  CallersInv'
  <1>1. /\ callers \in [Callers -> Caller] /\ callers[c] \in Caller
        /\ CallerOK(callers[c]) /\ FollowsOK(callers[c])
    BY TypedCaller
  <1>2. PICK x \in {None, TRUE, FALSE} :
           callers' = [callers EXCEPT ![c].body = x]
    <2>1. callers[c].body \in {None, TRUE, FALSE}
      BY <1>1 DEF Caller
    <2>2. CASE Embeds(c)
      BY <2>2 DEF EndRequest
    <2>3. CASE ~Embeds(c)
      BY <2>1, <2>3 DEF EndRequest
    <2> QED
      BY <2>2, <2>3
  <1>3. OnlyCaller(c)
    BY <1>1, <1>2 DEF OnlyCaller
  <1>4. /\ callers'[c] \in Caller
        /\ callers'[c].phase = callers[c].phase
        /\ callers'[c].target = callers[c].target
        /\ callers'[c].version = callers[c].version
        /\ callers'[c].leader = callers[c].leader
        /\ callers'[c].data = callers[c].data
        /\ callers'[c].outcome = callers[c].outcome
    BY <1>1, <1>2 DEF Caller
  <1>5. GoesOn(c) /\ CallerOK(callers[c])' /\ UNCHANGED inflight
    BY <1>1, <1>4 DEF GoesOn, CallerOK, For, EndRequest
  <1>6. FollowsOK(callers[c])'
    <2>1. ASSUME callers[c].phase = "following"
          PROVE  LET d == callers[c].leader IN
                 /\ callers'[d].target = callers[d].target
                 /\ callers'[d].version = callers[d].version
                 /\ callers'[d].phase = callers[d].phase
      BY <1>1, <1>3, <1>4, <2>1 DEF FollowsOK, OnlyCaller
    <2> QED
      BY <1>1, <1>4, <2>1 DEF FollowsOK
  <1>7. c \in inflight' => callers'[c].phase \notin Unasked
    BY <1>4, <1>5 DEF CallersInv
  <1> QED
    BY <1>3, <1>4, <1>5, <1>6, <1>7, OneCaller

LEMMA CallerStepKeepsInv ==
    ASSUME StoreTypeOK, CallersInv, NEW c \in Callers, CallerStep(c)
    PROVE  CallersInv'
  <1>1. CASE Lead(c) \/ SetEvent(c) \/ Leave(c)
    BY <1>1, PhaseStep DEF Lead, SetEvent, Leave, Unasked
  <1>2. CASE AnswerLocally(c)
    <2>1. callers[c].target \in Targets /\ callers[c].version \in Nat
      BY <1>2, TypedCaller DEF AnswerLocally, CallerOK, Unasked
    <2>2. /\ End(c, "local", callers[c].version)
          /\ callers[c].phase \notin Unasked /\ UNCHANGED inflight
      BY <1>2 DEF AnswerLocally, Unmoved, Unasked
    <2> QED
      BY <2>1, <2>2, EndStep
  <1>3. CASE NoticeChange(c)
    BY <1>3, FailStep DEF NoticeChange, Unasked
  <1>4. CASE SendFails(c) \/ ProviderBusy(c) \/ LeaveRequest(c)
    BY <1>4, FailStep DEF SendFails, ProviderBusy, LeaveRequest, Unsent,
                          TimesOut, Unheard, Embeds, Unasked
  <1>5. CASE UseCached(c)
    BY <1>5, ProceedStep DEF UseCached, Unsent, Unheard
  <1>6. CASE HearProvider(c)
    BY <1>6, ProceedStep, FailStep DEF HearProvider, Embeds, Unasked
  <1>7. CASE Send(c)
    BY <1>7 DEF Send, CallersInv, FollowsOK
  <1> QED
    BY <1>1, <1>2, <1>3, <1>4, <1>5, <1>6, <1>7, FollowKeepsInv,
       PrepareKeepsInv, FollowerKeepsInv DEF CallerStep

LEMMA ForgettingKeepsInv ==
    ASSUME CallersInv, ForgetCallers
    PROVE  CallersInv'
  <1> DEFINE cut(x) == [x EXCEPT !.phase = "cut", !.body = None]
             stays(c) == callers[c].phase \in {"idle", "answered", "refused"}
  <1>1. /\ callers' = [c \in Callers |-> IF stays(c) THEN callers[c]
                                         ELSE cut(callers[c])]
        /\ inflight' = {}
    BY Zenon DEF ForgetCallers
  <1>2. \A x \in Caller : /\ cut(x) \in Caller
                          /\ cut(x).phase = "cut" /\ cut(x).target = x.target
    BY DEF Caller
  <1> HIDE DEF cut
  <1>3. ASSUME NEW c \in Callers
        PROVE  /\ callers'[c] \in Caller
               /\ CallerOK(callers[c])' /\ FollowsOK(callers[c])'
    <2>1. callers[c] \in Caller /\ CallerOK(callers[c])
      BY TypedCaller
    <2>2. CASE stays(c)
      <3>1. callers'[c] = callers[c]
        BY <1>1, <2>2
      <3> QED
        BY <2>1, <2>2, <3>1 DEF CallerOK, FollowsOK
    <2>3. CASE ~stays(c)
      <3>1. callers'[c] = cut(callers[c])
        BY <1>1, <2>3
      <3>2. callers[c].target \in Targets
        BY <2>1, <2>3 DEF CallerOK, Unasked
      <3>3. /\ callers'[c] \in Caller
            /\ callers'[c].phase = "cut"
            /\ callers'[c].target \in Targets
        BY <1>2, <2>1, <3>1, <3>2
      <3> QED
        BY <3>3 DEF CallerOK, FollowsOK
    <2> QED
      BY <2>2, <2>3
  <1>4. callers' \in [Callers -> Caller]
    <2>1. callers' = [c \in Callers |-> callers'[c]]
      BY <1>1
    <2> QED
      BY <1>3, <2>1
  <1> QED
    BY <1>1, <1>3, <1>4 DEF CallersInv

LEMMA CallersStep ==
    ASSUME StoreTypeOK, CallersInv, [Next]_vars
    PROVE  CallersInv'
  <1>1. CASE UNCHANGED enrichVars
    BY <1>1 DEF CallersInv, FollowsOK, enrichVars
  <1>2. CASE \E c \in Callers : AskTurn(c) \/ CallerTurn(c) \/ ProviderTurn(c)
    BY <1>2, AskKeepsInv, CallerStepKeepsInv, EndRequestKeepsInv
       DEF AskTurn, CallerTurn, ProviderTurn
  <1>3. CASE Restart
    BY <1>3, ForgettingKeepsInv DEF Restart
  <1>4. Next => \/ UNCHANGED enrichVars
                \/ \E c \in Callers :
                      AskTurn(c) \/ CallerTurn(c) \/ ProviderTurn(c)
                \/ Restart
    BY DEF Next, JobTurn, PageTurn, UserTurn, ReaderTurn, OutsideFetch,
           OutsideReads, OtherStep
  <1> QED
    BY <1>1, <1>2, <1>3, <1>4 DEF vars

LEMMA CallersInvariant == Spec => []CallersInv
  <1>1. Init => CallersInv
    <2> SUFFICES ASSUME Init PROVE CallersInv
      OBVIOUS
    <2>1. /\ inflight = {}
          /\ callers = [c \in Callers |-> [phase |-> "idle", target |-> None,
                                           version |-> 0, leader |-> None,
                                           data |-> 0, body |-> None,
                                           outcome |-> None]]
      BY DEF Init, EnrichmentInit
    <2>2. \A c \in Callers : callers[c] \in Caller /\ callers[c].phase = "idle"
      BY <2>1 DEF Caller
    <2> QED
      BY <2>1, <2>2 DEF CallersInv, CallerOK, FollowsOK, Unasked
  <1>2. FetchInv => StoreTypeOK
    BY DEF FetchInv
  <1> QED
    BY <1>1, <1>2, CallersStep, FetchInvariant, PTL DEF Spec

\* A caller that is answered is answered for the target and the version of the
\* store that it asked for, by its own run or by one that it joined.
THEOREM AnswersFit == Spec => []AnswersAsExpected
  <1>1. CallersInv => AnswersAsExpected
    BY DEF CallersInv, CallerOK, For, AnswersAsExpected
  <1> QED
    BY <1>1, CallersInvariant, PTL

------------------------------------------------------------------------------
(* Reads: lists, patches and their parts *)

LEMMA GreatestUpTo ==
    ASSUME NEW n \in Nat, NEW T \in SUBSET (0..n), T # {}
    PROVE  \E x \in T : \A y \in T : y <= x
  <1>1. PICK U : U = {x + 1 : x \in T}
    OBVIOUS
  <1>2. PICK top \in Nat : top = n + 1
    OBVIOUS
  <1>3. PICK u \in U : \A v \in U : v <= u
    <2>1. \A x \in T : x + 1 \in 1..top
      BY <1>2
    <2>2. U \in SUBSET (1..top) /\ U # {}
      BY <1>1, <2>1
    <2> QED
      BY <2>2, GreatestIn
  <1>4. PICK x \in T : u = x + 1
    BY <1>1, <1>3
  <1>5. ASSUME NEW y \in T
        PROVE  y <= x
    <2>1. y + 1 \in U
      BY <1>1
    <2>2. y + 1 <= x + 1
      BY <1>3, <1>4, <2>1
    <2> QED
      BY <2>2
  <1> QED
    BY <1>5

LEMMA QuotientIs ==
    ASSUME NEW a \in Nat, NEW b \in Nat \ {0}, NEW k \in Nat, a >= k * b + b
    PROVE  k < a \div b
  <1>1. PICK d : d = a \div b
    OBVIOUS
  <1>2. d \in Int /\ b * d <= a /\ a < b * d + b
    BY <1>1
  <1>3. ASSUME d <= k
        PROVE  FALSE
    <2>1. b * d <= b * k
      BY <1>2, <1>3
    <2> QED
      BY <1>2, <2>1
  <1> QED
    BY <1>1, <1>2, <1>3

LEMMA LengthsAreNat ==
    ASSUME NEW list \in DOMAIN Lengths, NEW v \in Nat
    PROVE  LengthOf(list, v) \in Nat
  <1>1. PICK s \in Seq(Nat) : s = Lengths[list] /\ s # << >>
    BY ReadsAssumption
  <1>2. Len(s) \in Nat \ {0}
    BY <1>1
  <1>3. v % Len(s) \in 0..(Len(s) - 1)
    BY <1>2
  <1>4. 1 + (v % Len(s)) \in 1..Len(s)
    BY <1>2, <1>3
  <1>5. s[1 + (v % Len(s))] \in Nat
    BY <1>4
  <1> QED
    BY <1>1, <1>5 DEF LengthOf

\* Where a part of a list may begin, and how much comes before it.
Places(list) == IF list = "patch" THEN Boundaries ELSE Nat \ {0}

Before(list, place) == IF list = "patch" THEN place ELSE (place - 1) * PageSize

\* A part from there: what it is made of, and where the next one begins.
PartOK(list, v, place) ==
    LET part == PartOf(list, v, place) IN
    /\ part.entries \subseteq Whole(list, v)
    /\ part.next \in Places(list) \cup {0}
    /\ \A i \in Whole(list, v) :
          \/ i <= Before(list, place)
          \/ i \in part.entries
          \/ part.next > place /\ Before(list, part.next) < i

LEMMA PagesAreParts ==
    ASSUME NEW list \in DOMAIN Lengths, list # "patch", NEW v \in Nat,
           NEW place \in Nat \ {0}
    PROVE  PartOK(list, v, place)
  <1>1. PICK n \in Nat, z \in Nat \ {0} : n = LengthOf(list, v) /\ z = PageSize
    BY LengthsAreNat, ReadsAssumption
  <1>2. PICK part : part = PartOf(list, v, place)
    OBVIOUS
  <1>3. PICK first : first = (place - 1) * z
    OBVIOUS
  <1>4. first \in Nat /\ place * z = first + z
    BY <1>1, <1>3
  <1>5. /\ part.entries = (first + 1 .. first + z) \cap 1..n
        /\ part.next = IF HasNext(n, place) THEN place + 1 ELSE 0
    BY <1>1, <1>2, <1>3, <1>4 DEF PartOf, PageAt
  <1>6. Whole(list, v) = 1..n
    BY <1>1 DEF Whole
  <1>7. ASSUME NEW i \in 1..n, i > first, i \notin part.entries
        PROVE  part.next = place + 1 /\ (part.next - 1) * z < i
    <2>1. i > first + z
      BY <1>1, <1>4, <1>5, <1>7
    <2>2. n + z - 1 \in Nat /\ n + z - 1 >= place * z + z
      BY <1>1, <1>4, <2>1
    <2>3. place < (n + z - 1) \div z
      BY <1>1, <2>2, QuotientIs
    <2>4. part.next = place + 1
      BY <1>1, <1>5, <2>3 DEF HasNext, PagesOf
    <2>5. (part.next - 1) * z = place * z
      BY <1>1, <2>4
    <2> QED
      BY <1>4, <2>1, <2>4, <2>5
  <1>8. part.next \in Nat
    BY <1>5
  <1>9. ASSUME NEW i \in 1..n
        PROVE  \/ i <= Before(list, place)
               \/ i \in part.entries
               \/ part.next > place /\ Before(list, part.next) < i
    <2>1. /\ Before(list, place) = first
          /\ Before(list, part.next) = (part.next - 1) * z
      BY <1>1, <1>3 DEF Before
    <2> QED
      BY <1>4, <1>7, <1>8, <2>1
  <1>10. part.next \in Places(list) \cup {0}
    BY <1>5 DEF Places
  <1>11. part.entries \subseteq Whole(list, v)
    BY <1>5, <1>6
  <1> QED
    BY <1>2, <1>6, <1>9, <1>10, <1>11 DEF PartOK

LEMMA ChunksAreParts ==
    ASSUME NEW v, NEW place \in Boundaries
    PROVE  PartOK("patch", v, place)
  <1>1. PICK n \in Nat : n = Patch.bytes
    BY PatchAssumption
  <1>2. Boundaries \subseteq 0..n /\ place \in Nat /\ n \in Boundaries
    BY <1>1, PatchAssumption DEF Boundaries
  <1>3. ChunkStart(place) = place
    BY <1>2 DEF ChunkStart
  <1>4. Ends(place) \subseteq Boundaries /\ place \in Ends(place)
        /\ \A e \in Ends(place) : place <= e
    BY <1>2, ReadsAssumption DEF Ends
  <1>5. \E e \in Ends(place) : \A f \in Ends(place) : f <= e
    <2>1. Ends(place) \subseteq 0..n /\ Ends(place) # {}
      BY <1>2, <1>4
    <2> QED
      BY <2>1, GreatestUpTo
  <1>6. PICK end : end = ChunkEnd(place)
    OBVIOUS
  <1>7. end \in Ends(place) /\ \A f \in Ends(place) : f <= end
    BY <1>5, <1>6 DEF ChunkEnd
  <1>8. end \in Boundaries /\ end \in 0..n /\ place <= end
    BY <1>2, <1>4, <1>7
  <1>9. place # n => place < end
    <2> SUFFICES ASSUME place # n PROVE place < end
      OBVIOUS
    <2>1. PICK e \in Ends(place) : e # place
      BY <1>1, <1>4, PatchAssumption
    <2> QED
      BY <1>2, <1>4, <1>7, <1>8, <2>1
  <1>10. PICK part : part = PartOf("patch", v, place)
    OBVIOUS
  <1>11. part = ChunkAt(place)
    BY <1>10 DEF PartOf
  <1>12. /\ part.entries = place + 1 .. end
         /\ part.next = IF end < n THEN end ELSE 0
    BY <1>1, <1>3, <1>6, <1>11 DEF ChunkAt
  <1>13. Whole("patch", v) = 1..n
    BY <1>1 DEF Whole
  <1>14. part.entries \subseteq 1..n
    BY <1>2, <1>8, <1>12
  <1>15. part.next \in Boundaries \cup {0}
    BY <1>8, <1>12
  <1>16. ASSUME NEW i \in 1..n
         PROVE  \/ i <= place
                \/ i \in part.entries
                \/ part.next > place /\ part.next < i
    BY <1>2, <1>8, <1>9, <1>12
  <1> QED
    BY <1>10, <1>13, <1>14, <1>15, <1>16 DEF PartOK, Places, Before

LEMMA PartIs ==
    ASSUME NEW list \in DOMAIN Lengths, NEW v \in Nat,
           NEW place \in Places(list)
    PROVE  PartOK(list, v, place)
  BY PagesAreParts, ChunksAreParts DEF Places

\* Parts that go on until none advertises another are the whole list.
LEMMA PartsCover ==
    ASSUME NEW list \in DOMAIN Lengths, NEW v \in Nat,
           NEW K \in SUBSET Places(list), Start(list) \in K,
           \A k \in K : PartOf(list, v, k).next # 0
                        => PartOf(list, v, k).next \in K,
           NEW i \in Whole(list, v)
    PROVE  \E k \in K : i \in PartOf(list, v, k).entries
  <1>1. i \in Nat \ {0}
    BY LengthsAreNat, PatchAssumption DEF Whole
  <1>2. Places(list) \subseteq Nat
    BY PatchAssumption DEF Places
  <1>3. PageSize \in Nat \ {0}
    BY ReadsAssumption
  <1>4. PICK T : T = {k \in K : Before(list, k) < i}
    OBVIOUS
  <1>5. T \subseteq 0..i
    <2>1. ASSUME NEW k \in T
          PROVE  k \in 0..i
      <3>1. k \in Nat /\ Before(list, k) < i
        BY <1>2, <1>4
      <3>2. CASE list = "patch"
        BY <1>1, <3>1, <3>2 DEF Before
      <3>3. CASE list # "patch"
        <4>1. k \in Nat \ {0}
          BY <1>4, <3>3 DEF Places
        <4>2. k - 1 <= (k - 1) * PageSize
          BY <1>3, <4>1
        <4>3. (k - 1) * PageSize < i
          BY <3>1, <3>3 DEF Before
        <4>4. PICK b \in Nat : b = (k - 1) * PageSize
          BY <1>3, <4>1
        <4> QED
          BY <1>1, <4>1, <4>2, <4>3, <4>4
      <3> QED
        BY <3>2, <3>3
    <2> QED
      BY <2>1
  <1>6. Start(list) \in T
    BY <1>1, <1>3, <1>4 DEF Start, Before
  <1>7. PICK k \in T : \A m \in T : m <= k
    BY <1>1, <1>5, <1>6, GreatestUpTo
  <1>8. k \in K /\ Before(list, k) < i /\ k \in Nat
    BY <1>2, <1>4, <1>7
  <1>9. PICK next, entries : /\ next = PartOf(list, v, k).next
                             /\ entries = PartOf(list, v, k).entries
    OBVIOUS
  <1>10. /\ next \in Nat
         /\ \/ i <= Before(list, k)
            \/ i \in entries
            \/ next > k /\ Before(list, next) < i
    BY <1>2, <1>8, <1>9, PartIs DEF PartOK
  <1>11. Before(list, k) \in Int
    BY <1>3, <1>8 DEF Before
  <1>12. ASSUME next > k, Before(list, next) < i
         PROVE  FALSE
    <2>1. next # 0 /\ next \in K
      BY <1>8, <1>9, <1>10, <1>12
    <2>2. next \in T
      BY <1>4, <1>12, <2>1
    <2> QED
      BY <1>7, <1>8, <1>10, <1>12, <2>2
  <1> QED
    BY <1>1, <1>8, <1>9, <1>10, <1>11, <1>12

------------------------------------------------------------------------------
(* Reads: the invariant *)

EntryAt(w, v, i) == [version |-> v, snapshot |-> store[w][v], at |-> i]

\* The cursors that a read may come to.
Cursors(op) ==
    {c \in CursorOf(op) : \A l \in ListsOf[op] : c[l] \in Places(l)}

ReaderTyped(x) ==
    /\ DOMAIN x = ReaderFields
    /\ x.repo \in Workspaces
    /\ {x.pin, x.loaded, x.data, x.token, x.since} \subseteq Nat
    /\ {x.pinned, x.renewed} \subseteq BOOLEAN
    /\ IF x.phase = "idle" THEN x.op = None
       ELSE /\ x.phase \in {"asked", "loaded", "reread", "answered",
                            "complete", "refused", "denied"}
            /\ x.op \in Operations
            /\ x.cursor \in Cursors(x.op)
            /\ x.todo \subseteq Cursors(x.op) /\ x.asked \subseteq Cursors(x.op)
            /\ x.got \in [ListsOf[x.op] -> SUBSET Entry]

UnderWay(x) == x.phase \in {"asked", "loaded", "reread"}

GoesWell(x) == UnderWay(x) \/ x.phase \in {"answered", "complete"}

FirstCall(x) == UnderWay(x) /\ x.cursor = FirstCursor(x.op)

\* The cursors of the calls that were answered.
Heeded(x) == IF UnderWay(x) THEN x.asked \ {x.cursor} ELSE x.asked

CursorsOK(x) ==
    /\ FirstCursor(x.op) \in x.asked
    /\ x.asked \cap x.todo = {}
    /\ UnderWay(x) => x.cursor \in x.asked
    /\ x.phase = "complete" => x.todo = {}

\* The first answer names the versions that the others are made from.
PinOK(x) ==
    IF FirstCall(x)
    THEN /\ x.asked = {x.cursor}
         /\ \A l \in ListsOf[x.op] : x.got[l] = {}
    ELSE x.pin \in 1..Version(x.repo)

LoadOK(x) ==
    x.phase \in {"loaded", "reread"} =>
        /\ x.loaded \in 1..Version(x.repo)
        /\ x.data \in x.loaded..Version(x.repo)
        /\ x.phase = "loaded" => x.data = x.loaded
        /\ ~FirstCall(x) => x.loaded = x.pin

\* An answer was kept, and where it goes on is asked for, or will be.
KeptOK(x) ==
    \A c \in Heeded(x) : \A l \in ListsOf[x.op] :
        LET part == PartOf(l, x.pin, c[l]) IN
        /\ \A i \in part.entries : EntryAt(x.repo, x.pin, i) \in x.got[l]
        /\ part.next # 0 =>
              [c EXCEPT ![l] = part.next] \in x.asked \cup x.todo

\* And nothing else was.
GotOK(x) ==
    \A l \in ListsOf[x.op] : \A e \in x.got[l] :
        \E i \in Whole(l, x.pin) : e = EntryAt(x.repo, x.pin, i)

ReaderOK(x) ==
    GoesWell(x) =>
        CursorsOK(x) /\ PinOK(x) /\ LoadOK(x) /\ KeptOK(x) /\ GotOK(x)

ReadsInv ==
    /\ DOMAIN readers = Readers
    /\ \A r \in Readers : ReaderTyped(readers[r]) /\ ReaderOK(readers[r])

\* All of every list, and nothing else.
LEMMA ReadersHaveTheWhole ==
    ASSUME NEW x, ReaderTyped(x), ReaderOK(x), x.phase = "complete",
           NEW l \in DOMAIN x.got
    PROVE  x.got[l] = {EntryAt(x.repo, x.pin, i) : i \in Whole(l, x.pin)}
  <1>1. /\ x.op \in Operations /\ l \in ListsOf[x.op] /\ x.pin \in Nat
        /\ x.asked \subseteq Cursors(x.op)
    BY DEF ReaderTyped
  <1>2. l \in DOMAIN Lengths
    BY <1>1, ReadsAssumption
  <1>3. CursorsOK(x) /\ KeptOK(x) /\ GotOK(x) /\ Heeded(x) = x.asked
    BY DEF ReaderOK, GoesWell, UnderWay, Heeded
  <1>4. PICK K : K = {c[l] : c \in x.asked}
    OBVIOUS
  <1>5. K \subseteq Places(l)
    BY <1>1, <1>4 DEF Cursors
  <1>6. Start(l) \in K
    <2>1. FirstCursor(x.op)[l] = Start(l)
      BY <1>1 DEF FirstCursor
    <2> QED
      BY <1>3, <1>4, <2>1 DEF CursorsOK
  <1>7. ASSUME NEW k \in K, PartOf(l, x.pin, k).next # 0
        PROVE  PartOf(l, x.pin, k).next \in K
    <2>1. PICK c \in x.asked : k = c[l]
      BY <1>4
    <2>2. PICK next : next = PartOf(l, x.pin, k).next
      OBVIOUS
    <2>3. [c EXCEPT ![l] = next] \in x.asked \cup x.todo
      BY <1>1, <1>3, <1>7, <2>1, <2>2 DEF KeptOK
    <2>4. [c EXCEPT ![l] = next] \in x.asked
      BY <1>3, <2>3 DEF CursorsOK
    <2>5. l \in DOMAIN c
      BY <1>1 DEF Cursors, CursorOf
    <2>6. [c EXCEPT ![l] = next][l] = next
      BY <2>5
    <2> QED
      BY <1>4, <2>2, <2>4, <2>6
  <1>8. ASSUME NEW i \in Whole(l, x.pin)
        PROVE  EntryAt(x.repo, x.pin, i) \in x.got[l]
    <2>1. PICK k \in K : i \in PartOf(l, x.pin, k).entries
      BY <1>1, <1>2, <1>5, <1>6, <1>7, PartsCover
    <2>2. PICK c \in x.asked : k = c[l]
      BY <1>4
    <2> QED
      BY <1>1, <1>3, <2>1, <2>2 DEF KeptOK
  <1> QED
    BY <1>1, <1>3, <1>8 DEF GotOK

LEMMA WholeReads ==
    ASSUME ReadsInv
    PROVE  ReadsAreWhole
  <1> SUFFICES ASSUME NEW r \in Readers, readers[r].phase = "complete",
                      NEW l \in DOMAIN readers[r].got
               PROVE  readers[r].got[l] =
                         {[version |-> readers[r].pin,
                           snapshot |-> store[readers[r].repo][readers[r].pin],
                           at |-> i] : i \in Whole(l, readers[r].pin)}
    BY DEF ReadsAreWhole
  <1>1. PICK x : x = readers[r]
    OBVIOUS
  <1>2. ReaderTyped(x) /\ ReaderOK(x)
    BY <1>1 DEF ReadsInv
  <1>3. x.got[l] = {EntryAt(x.repo, x.pin, i) : i \in Whole(l, x.pin)}
    BY <1>1, <1>2, ReadersHaveTheWhole
  <1> QED
    BY <1>1, <1>3 DEF EntryAt

\* The store of a workspace only gets longer.
StoreGrows ==
    \A w \in Workspaces :
        /\ Version(w) \in Nat /\ Version(w)' \in Nat
        /\ Version(w) <= Version(w)'
        /\ \A v \in 1..Version(w) : store'[w][v] = store[w][v]

LEMMA ReaderStays ==
    ASSUME StoreGrows, NEW x, ReaderTyped(x), ReaderOK(x)
    PROVE  ReaderOK(x)'
  <1> SUFFICES ASSUME GoesWell(x)
               PROVE  /\ CursorsOK(x)' /\ PinOK(x)' /\ LoadOK(x)'
                      /\ KeptOK(x)' /\ GotOK(x)'
    BY DEF ReaderOK, GoesWell, UnderWay
  <1>1. /\ x.repo \in Workspaces /\ x.pin \in Nat
        /\ CursorsOK(x) /\ PinOK(x) /\ LoadOK(x) /\ KeptOK(x) /\ GotOK(x)
    BY DEF ReaderTyped, ReaderOK
  <1>2. CursorsOK(x)'
    BY <1>1 DEF CursorsOK
  <1>3. PICK old \in Nat, new \in Nat :
           /\ old = Version(x.repo) /\ new = Version(x.repo)' /\ old <= new
    BY <1>1 DEF StoreGrows
  <1>4. PinOK(x)' /\ LoadOK(x)'
    BY <1>1, <1>3 DEF PinOK, LoadOK, FirstCall
  <1>5. CASE FirstCall(x)
    <2>1. Heeded(x) = {} /\ \A l \in ListsOf[x.op] : x.got[l] = {}
      BY <1>1, <1>5 DEF PinOK, FirstCall, Heeded
    <2> QED
      BY <1>2, <1>4, <2>1 DEF KeptOK, GotOK
  <1>6. CASE ~FirstCall(x)
    <2>1. store'[x.repo][x.pin] = store[x.repo][x.pin]
      BY <1>1, <1>6 DEF PinOK, StoreGrows
    <2>2. KeptOK(x)'
      BY <1>1, <2>1 DEF KeptOK, EntryAt
    <2>3. GotOK(x)'
      BY <1>1, <2>1 DEF GotOK, EntryAt
    <2> QED
      BY <1>2, <1>4, <2>2, <2>3
  <1> QED
    BY <1>5, <1>6

------------------------------------------------------------------------------
(* Reads: the steps *)

\* A step of reader r, to y.
LEMMA OneReads ==
    ASSUME ReadsInv, NEW r \in Readers, UNCHANGED store, OnlyReader(r),
           NEW y, y = readers'[r], ReaderTyped(y), ReaderOK(y)
    PROVE  ReadsInv'
  <1>1. ASSUME NEW z, ReaderOK(z)
        PROVE  ReaderOK(z)'
    BY <1>1 DEF ReaderOK, CursorsOK, PinOK, LoadOK, KeptOK, GotOK, EntryAt,
                Version
  <1>2. ASSUME NEW q \in Readers
        PROVE  ReaderTyped(readers'[q]) /\ ReaderOK(readers[q])'
    <2>1. PICK z : z = readers'[q] /\ ReaderTyped(z) /\ ReaderOK(z)
      BY DEF OnlyReader, ReadsInv
    <2>2. ReaderOK(z)'
      BY <1>1, <2>1
    <2> QED
      BY <2>1, <2>2 DEF ReaderOK, CursorsOK, PinOK, LoadOK, KeptOK, GotOK
  <1> QED
    BY <1>2 DEF ReadsInv, OnlyReader, ReaderTyped

LEMMA FirstCursorIs ==
    ASSUME NEW op \in Operations
    PROVE  FirstCursor(op) \in Cursors(op)
  <1>1. \A l \in ListsOf[op] : Start(l) \in Places(l) /\ Start(l) \in Nat
    BY PatchAssumption DEF Start, Places
  <1> QED
    BY <1>1 DEF FirstCursor, Cursors, CursorOf

LEMMA BeginReadKeepsInv ==
    ASSUME ReadsInv, NEW r \in Readers, NEW op \in Operations,
           BeginRead(r, op), epoch \in Nat
    PROVE  ReadsInv'
  <1>1. PICK x : x = readers[r] /\ ReaderTyped(x)
    BY DEF ReadsInv
  <1>2. PICK y : y = [Unread(x.repo, x.token) EXCEPT
                        !.phase = "asked", !.op = op,
                        !.cursor = FirstCursor(op),
                        !.asked = {FirstCursor(op)},
                        !.got = [l \in ListsOf[op] |-> {}],
                        !.since = epoch]
    OBVIOUS
  <1>3. readers' = [readers EXCEPT ![r] = y] /\ UNCHANGED store
    BY <1>1, <1>2 DEF BeginRead, served
  <1>4. /\ DOMAIN y = ReaderFields
        /\ y.phase = "asked" /\ y.op = op /\ y.repo = x.repo
        /\ y.cursor = FirstCursor(op) /\ y.pinned = FALSE /\ y.pin = 0
        /\ y.loaded = 0 /\ y.data = 0 /\ y.todo = {}
        /\ y.asked = {FirstCursor(op)} /\ y.got = [l \in ListsOf[op] |-> {}]
        /\ y.token = x.token /\ y.renewed = FALSE /\ y.since = epoch
    BY <1>2 DEF Unread, ReaderFields
  <1>5. OnlyReader(r) /\ y = readers'[r]
    BY <1>3, <1>4 DEF ReadsInv, OnlyReader
  <1>6. ReaderTyped(y)
    <2>1. FirstCursor(op) \in Cursors(op)
      BY FirstCursorIs
    <2>2. y.got \in [ListsOf[op] -> SUBSET Entry]
      BY <1>4
    <2>3. x.repo \in Workspaces /\ x.token \in Nat
      BY <1>1 DEF ReaderTyped
    <2>4. {y.pin, y.loaded, y.data, y.token, y.since} \subseteq Nat
      BY <1>4, <2>3
    <2>5. {y.pinned, y.renewed} \subseteq BOOLEAN
      BY <1>4
    <2>6. /\ y.cursor \in Cursors(y.op)
          /\ y.todo \subseteq Cursors(y.op) /\ y.asked \subseteq Cursors(y.op)
          /\ y.got \in [ListsOf[y.op] -> SUBSET Entry]
      BY <1>4, <2>1, <2>2
    <2> QED
      BY <1>4, <2>3, <2>4, <2>5, <2>6 DEF ReaderTyped
  <1>7. ReaderOK(y)
    BY <1>4 DEF ReaderOK, UnderWay, CursorsOK, PinOK, FirstCall, LoadOK, KeptOK,
                Heeded, GotOK
  <1> QED
    BY <1>3, <1>5, <1>6, <1>7, OneReads

LEMMA FollowUpKeepsInv ==
    ASSUME ReadsInv, NEW r \in Readers, NEW cursor \in readers[r].todo,
           NEW pinned \in BOOLEAN, FollowUp(r, cursor, pinned), epoch \in Nat
    PROVE  ReadsInv'
  <1>1. PICK x : x = readers[r] /\ ReaderTyped(x) /\ ReaderOK(x)
    BY DEF ReadsInv
  <1>2. /\ x.phase = "answered" /\ cursor \in x.todo
        /\ DOMAIN x = ReaderFields
        /\ UNCHANGED store
    BY <1>1 DEF FollowUp, ReaderTyped, served
  <1>3. PICK y : y = readers'[r]
    OBVIOUS
  <1>4. /\ OnlyReader(r)
        /\ DOMAIN y = ReaderFields
        /\ y.phase = "asked" /\ y.op = x.op /\ y.repo = x.repo
        /\ y.cursor = cursor /\ y.pinned = pinned /\ y.pin = x.pin
        /\ y.loaded = x.loaded /\ y.data = x.data /\ y.todo = x.todo \ {cursor}
        /\ y.asked = x.asked \cup {cursor} /\ y.got = x.got
        /\ y.token = x.token /\ y.renewed = FALSE /\ y.since = epoch
    BY <1>1, <1>2, <1>3 DEF FollowUp, ReadsInv, OnlyReader, ReaderFields
  <1>5. ReaderTyped(y)
    <2>1. /\ x.repo \in Workspaces /\ x.op \in Operations
          /\ x.todo \subseteq Cursors(x.op) /\ x.asked \subseteq Cursors(x.op)
          /\ x.got \in [ListsOf[x.op] -> SUBSET Entry]
          /\ {x.pin, x.loaded, x.data, x.token} \subseteq Nat
      BY <1>1, <1>2 DEF ReaderTyped
    <2>2. /\ y.cursor \in Cursors(y.op)
          /\ y.todo \subseteq Cursors(y.op) /\ y.asked \subseteq Cursors(y.op)
      BY <1>2, <1>4, <2>1
    <2> QED
      BY <1>4, <2>1, <2>2 DEF ReaderTyped
  <1>6. CursorsOK(x) /\ PinOK(x) /\ KeptOK(x) /\ GotOK(x)
    BY <1>1, <1>2 DEF ReaderOK, GoesWell
  <1>7. cursor \notin x.asked /\ cursor # FirstCursor(x.op)
    BY <1>2, <1>6 DEF CursorsOK
  <1>8. /\ Heeded(y) = x.asked /\ Heeded(x) = x.asked
        /\ ~FirstCall(x) /\ ~FirstCall(y)
        /\ y.asked \cup y.todo = x.asked \cup x.todo
    BY <1>2, <1>4, <1>7 DEF Heeded, FirstCall, UnderWay
  <1>9. CursorsOK(y)
    BY <1>2, <1>4, <1>6 DEF CursorsOK, UnderWay
  <1>10. PinOK(y) /\ LoadOK(y)
    BY <1>4, <1>6, <1>8 DEF PinOK, LoadOK
  <1>11. KeptOK(y) /\ GotOK(y)
    BY <1>4, <1>6, <1>8 DEF KeptOK, GotOK
  <1> QED
    BY <1>2, <1>3, <1>4, <1>5, <1>9, <1>10, <1>11, OneReads DEF ReaderOK

\* A refused or denied read promises nothing more.
LEMMA EndedReadKeepsInv ==
    ASSUME ReadsInv, NEW r \in Readers, readers[r].phase # "idle",
           NEW phase \in {"refused", "denied"},
           readers' = [readers EXCEPT ![r].phase = phase], UNCHANGED store
    PROVE  ReadsInv'
  <1>1. PICK x : x = readers[r] /\ ReaderTyped(x)
    BY DEF ReadsInv
  <1>2. PICK y : y = readers'[r]
    OBVIOUS
  <1>3. /\ OnlyReader(r)
        /\ DOMAIN y = ReaderFields
        /\ y.phase = phase /\ y.op = x.op /\ y.repo = x.repo
        /\ y.cursor = x.cursor /\ y.pinned = x.pinned /\ y.pin = x.pin
        /\ y.loaded = x.loaded /\ y.data = x.data /\ y.todo = x.todo
        /\ y.asked = x.asked /\ y.got = x.got
        /\ y.token = x.token /\ y.renewed = x.renewed /\ y.since = x.since
    BY <1>1, <1>2 DEF ReadsInv, ReaderTyped, OnlyReader, ReaderFields
  <1>4. ReaderTyped(y)
    BY <1>1, <1>3 DEF ReaderTyped
  <1>5. ReaderOK(y)
    BY <1>3 DEF ReaderOK, GoesWell, UnderWay
  <1> QED
    BY <1>2, <1>3, <1>4, <1>5, OneReads

\* What a call under way changes before its answer.
LEMMA CallGoesOn ==
    ASSUME ReadsInv, NEW r \in Readers, OnlyReader(r), UNCHANGED store,
           NEW x, NEW y, x = readers[r], y = readers'[r],
           UnderWay(x), UnderWay(y),
           y.op = x.op, y.repo = x.repo, y.cursor = x.cursor,
           y.pinned = x.pinned, y.pin = x.pin, y.todo = x.todo,
           y.asked = x.asked, y.got = x.got, y.since = x.since,
           y.loaded \in Nat, y.data \in Nat, y.token \in Nat,
           y.renewed \in BOOLEAN, LoadOK(y)
    PROVE  ReadsInv'
  <1>1. ReaderTyped(x) /\ ReaderOK(x) /\ DOMAIN y = ReaderFields
    BY DEF ReadsInv, OnlyReader
  <1>2. CursorsOK(x) /\ PinOK(x) /\ KeptOK(x) /\ GotOK(x)
    BY <1>1 DEF ReaderOK, GoesWell
  <1>3. Heeded(y) = Heeded(x) /\ (FirstCall(y) <=> FirstCall(x))
    BY DEF Heeded, FirstCall
  <1>4. CursorsOK(y) /\ PinOK(y)
    BY <1>2, <1>3 DEF CursorsOK, PinOK, UnderWay
  <1>5. KeptOK(y) /\ GotOK(y)
    BY <1>2, <1>3 DEF KeptOK, GotOK
  <1>6. ReaderTyped(y)
    BY <1>1 DEF ReaderTyped, UnderWay
  <1> QED
    BY <1>4, <1>5, <1>6, OneReads DEF ReaderOK

LEMMA LoadingKeepsInv ==
    ASSUME ReadsInv, StoreTypeOK, NEW r \in Readers,
           RenewToken(r) \/ LoadContext(r) \/ Reread(r)
    PROVE  ReadsInv'
  <1>1. PICK x : x = readers[r] /\ ReaderTyped(x) /\ ReaderOK(x)
    BY DEF ReadsInv
  <1>2. PICK y : y = readers'[r]
    OBVIOUS
  <1>3. /\ DOMAIN x = ReaderFields /\ DOMAIN readers = Readers
        /\ Version(x.repo) \in Nat /\ epoch \in Nat
        /\ x.pin \in Nat /\ x.loaded \in Nat /\ x.data \in Nat
        /\ x.token \in Nat /\ x.renewed \in BOOLEAN
    BY <1>1, StoreLengths DEF ReaderTyped, ReadsInv, StoreTypeOK, Version
  <1>4. UNCHANGED store
    BY DEF RenewToken, LoadContext, Reread, served
  <1>5. CASE RenewToken(r)
    <2>1. /\ OnlyReader(r)
          /\ x.phase = "asked" /\ y.phase = "asked"
          /\ y.op = x.op /\ y.repo = x.repo
          /\ y.cursor = x.cursor /\ y.pinned = x.pinned /\ y.pin = x.pin
          /\ y.loaded = x.loaded /\ y.data = x.data /\ y.todo = x.todo
          /\ y.asked = x.asked /\ y.got = x.got /\ y.since = x.since
          /\ y.token = epoch /\ y.renewed = TRUE
      BY <1>1, <1>2, <1>3, <1>5
         DEF RenewToken, TokenRefused, OnlyReader, ReaderFields
    <2>2. LoadOK(y)
      BY <2>1 DEF LoadOK
    <2> QED
      BY <1>1, <1>2, <1>3, <1>4, <2>1, <2>2, CallGoesOn DEF UnderWay
  <1>6. CASE LoadContext(r)
    <2>1. /\ OnlyReader(r)
          /\ x.phase = "asked" /\ y.phase = "loaded"
          /\ y.op = x.op /\ y.repo = x.repo
          /\ y.cursor = x.cursor /\ y.pinned = x.pinned /\ y.pin = x.pin
          /\ y.loaded = Version(x.repo) /\ y.data = Version(x.repo)
          /\ y.todo = x.todo
          /\ y.asked = x.asked /\ y.got = x.got /\ y.since = x.since
          /\ y.token = x.token /\ y.renewed = x.renewed
      BY <1>1, <1>2, <1>3, <1>6
         DEF LoadContext, Admitted, OnlyReader, ReaderFields
    <2>2. /\ Version(x.repo) # 0
          /\ x.cursor # FirstCursor(x.op) => Version(x.repo) = x.pin
      BY <1>1, <1>6 DEF LoadContext, NoStore, Stale, Unpinned
    <2>3. LoadOK(y)
      BY <1>3, <2>1, <2>2 DEF LoadOK, FirstCall, UnderWay
    <2> QED
      BY <1>1, <1>2, <1>3, <1>4, <2>1, <2>3, CallGoesOn DEF UnderWay
  <1>7. CASE Reread(r)
    <2>1. /\ OnlyReader(r)
          /\ x.phase = "loaded" /\ y.phase = "reread"
          /\ y.op = x.op /\ y.repo = x.repo
          /\ y.cursor = x.cursor /\ y.pinned = x.pinned /\ y.pin = x.pin
          /\ y.loaded = x.loaded /\ y.data = Version(x.repo)
          /\ y.todo = x.todo
          /\ y.asked = x.asked /\ y.got = x.got /\ y.since = x.since
          /\ y.token = x.token /\ y.renewed = x.renewed
      BY <1>1, <1>2, <1>3, <1>7 DEF Reread, OnlyReader, ReaderFields
    <2>2. LoadOK(x)
      BY <1>1, <2>1 DEF ReaderOK, GoesWell, UnderWay
    <2>3. LoadOK(y)
      BY <1>3, <2>1, <2>2 DEF LoadOK, FirstCall, UnderWay
    <2> QED
      BY <1>1, <1>2, <1>3, <1>4, <2>1, <2>3, CallGoesOn DEF UnderWay
  <1> QED
    BY <1>5, <1>6, <1>7

\* What the last load that an answer is made from has to be: the first one.
LEMMA AnswerIsOfTheLoad ==
    ASSUME ReadsInv, StoreTypeOK, NEW r \in Readers,
           ReadyToAnswer(r), ~Moved(r)
    PROVE  LET x == readers[r] IN
           /\ x.data = x.loaded
           /\ x.loaded \in 1..Version(x.repo)
           /\ ~FirstCall(x) => x.loaded = x.pin
  <1>1. PICK x : x = readers[r] /\ ReaderTyped(x) /\ ReaderOK(x)
    BY DEF ReadsInv
  <1>2. x.phase = IF Rereads(x.op) THEN "reread" ELSE "loaded"
    BY <1>1 DEF ReadyToAnswer
  <1>3. LoadOK(x)
    BY <1>1, <1>2 DEF ReaderOK, GoesWell, UnderWay
  <1>4. /\ Version(x.repo) \in Nat
        /\ x.loaded \in 1..Version(x.repo)
        /\ x.data \in x.loaded..Version(x.repo)
    BY <1>1, <1>2, <1>3, StoreLengths DEF LoadOK, ReaderTyped, Version
  <1>5. x.data = x.loaded
    BY <1>1, <1>2, <1>3, <1>4 DEF Moved, Rereads, LoadOK
  <1> QED
    BY <1>1, <1>2, <1>3, <1>4, <1>5 DEF LoadOK

\* Where an answer says that its lists go on.
LEMMA ContinuationsAre ==
    ASSUME NEW x, ReaderTyped(x), x.phase # "idle"
    PROVE  /\ Continuations(x) \subseteq Cursors(x.op)
           /\ \A l \in ListsOf[x.op] :
                 LET next == PartOf(l, x.data, x.cursor[l]).next IN
                 next # 0 => [x.cursor EXCEPT ![l] = next] \in Continuations(x)
  <1>1. /\ x.op \in Operations /\ x.data \in Nat
        /\ x.cursor \in [ListsOf[x.op] -> Nat]
        /\ \A l \in ListsOf[x.op] : x.cursor[l] \in Places(l)
    BY DEF ReaderTyped, Cursors, CursorOf
  <1>2. ASSUME NEW l \in ListsOf[x.op], NEW next,
               next = PartOf(l, x.data, x.cursor[l]).next, next # 0
        PROVE  /\ [x.cursor EXCEPT ![l] = next] \in Cursors(x.op)
               /\ [x.cursor EXCEPT ![l] = next] \in Continuations(x)
    <2>1. l \in DOMAIN Lengths
      BY <1>1, ReadsAssumption
    <2>2. next \in Places(l)
      BY <1>1, <1>2, <2>1, PartIs DEF PartOK
    <2>3. next \in Nat
      BY <2>2, PatchAssumption DEF Places
    <2>4. [x.cursor EXCEPT ![l] = next] \in Cursors(x.op)
      BY <1>1, <2>2, <2>3 DEF Cursors, CursorOf
    <2>5. [x.cursor EXCEPT ![l] = next] \in Continuations(x)
      BY <1>1, <1>2 DEF Continuations
    <2> QED
      BY <2>4, <2>5
  <1>3. ASSUME NEW c \in Continuations(x)
        PROVE  c \in Cursors(x.op)
    <2>1. PICK l \in ListsOf[x.op] :
             /\ PartOf(l, x.data, x.cursor[l]).next # 0
             /\ c = [x.cursor EXCEPT ![l] = PartOf(l, x.data, x.cursor[l]).next]
      BY <1>1 DEF Continuations
    <2> QED
      BY <1>2, <2>1
  <1> QED
    BY <1>2, <1>3

LEMMA AnswerReadKeepsInv ==
    ASSUME ReadsInv, StoreTypeOK, NEW r \in Readers, AnswerRead(r)
    PROVE  ReadsInv'
  <1>1. PICK x : x = readers[r] /\ ReaderTyped(x) /\ ReaderOK(x)
    BY DEF ReadsInv
  <1>2. PICK d : d = x.loaded
    OBVIOUS
  <1>3. /\ d = x.data /\ d \in 1..Version(x.repo)
        /\ ~FirstCall(x) => d = x.pin
    <2>1. ReadyToAnswer(r) /\ ~Moved(r)
      BY Zenon DEF AnswerRead
    <2> QED
      BY <1>1, <1>2, <2>1, AnswerIsOfTheLoad
  <1>4. /\ UnderWay(x) /\ x.phase # "idle" /\ UNCHANGED store
    <2>1. ReadyToAnswer(r) /\ UNCHANGED served
      BY Zenon DEF AnswerRead
    <2> QED
      BY <1>1, <2>1 DEF ReadyToAnswer, UnderWay, served
  <1>5. /\ x.repo \in Workspaces /\ x.op \in Operations
        /\ x.cursor \in Cursors(x.op)
        /\ x.todo \subseteq Cursors(x.op) /\ x.asked \subseteq Cursors(x.op)
        /\ x.got \in [ListsOf[x.op] -> SUBSET Entry]
        /\ DOMAIN x = ReaderFields
        /\ {x.token, x.since} \subseteq Nat
        /\ {x.pinned, x.renewed} \subseteq BOOLEAN
    BY <1>1, <1>4 DEF ReaderTyped
  <1>6. CursorsOK(x) /\ PinOK(x) /\ KeptOK(x) /\ GotOK(x)
    BY <1>1, <1>4 DEF ReaderOK, GoesWell
  <1>7. PICK todo, phase, got :
           /\ todo = (x.todo \cup Continuations(x)) \ x.asked
           /\ phase = IF todo = {} THEN "complete" ELSE "answered"
           /\ got = [l \in DOMAIN x.got |-> x.got[l] \cup EntriesOf(x, l)]
    OBVIOUS
  <1>8. PICK y : y = readers'[r]
    OBVIOUS
  <1>9. /\ OnlyReader(r)
        /\ DOMAIN y = ReaderFields
        /\ y.phase = phase /\ y.op = x.op /\ y.repo = x.repo
        /\ y.cursor = x.cursor /\ y.pinned = x.pinned /\ y.pin = d
        /\ y.loaded = 0 /\ y.data = 0 /\ y.todo = todo
        /\ y.asked = x.asked /\ y.got = got
        /\ y.token = x.token /\ y.renewed = x.renewed /\ y.since = x.since
    <2>1. readers' = [readers EXCEPT
             ![r].phase = phase, ![r].pin = d, ![r].loaded = 0, ![r].data = 0,
             ![r].todo = todo, ![r].got = got]
      BY Zenon, <1>1, <1>2, <1>7 DEF AnswerRead
    <2> QED
      BY <1>1, <1>5, <1>8, <2>1 DEF ReadsInv, OnlyReader, ReaderFields
  <1>10. \A l \in ListsOf[x.op] :
            /\ got[l] = x.got[l] \cup EntriesOf(x, l)
            /\ EntriesOf(x, l) =
                  {EntryAt(x.repo, d, i) : i \in PartOf(l, d, x.cursor[l]).entries}
            /\ PartOf(l, d, x.cursor[l]).entries \subseteq Whole(l, d)
    <2> SUFFICES ASSUME NEW l \in ListsOf[x.op]
                 PROVE  /\ got[l] = x.got[l] \cup EntriesOf(x, l)
                        /\ EntriesOf(x, l) = {EntryAt(x.repo, d, i) :
                              i \in PartOf(l, d, x.cursor[l]).entries}
                        /\ PartOf(l, d, x.cursor[l]).entries \subseteq Whole(l, d)
      OBVIOUS
    <2>1. got[l] = x.got[l] \cup EntriesOf(x, l)
      BY <1>5, <1>7
    <2>2. EntriesOf(x, l) =
             {EntryAt(x.repo, d, i) : i \in PartOf(l, d, x.cursor[l]).entries}
      BY <1>3 DEF EntriesOf, EntryAt, PinnedSnapshot
    <2>3. l \in DOMAIN Lengths /\ x.cursor[l] \in Places(l) /\ d \in Nat
      BY <1>3, <1>5, ReadsAssumption DEF Cursors
    <2>4. PartOf(l, d, x.cursor[l]).entries \subseteq Whole(l, d)
      BY <2>3, PartIs DEF PartOK
    <2> QED
      BY <2>1, <2>2, <2>4
  <1>11. \A l \in ListsOf[x.op] : \A i \in Whole(l, d) :
            EntryAt(x.repo, d, i) \in Entry
    <2>1. store[x.repo][d] \in Nat /\ d \in Nat
      BY <1>3, <1>5 DEF StoreTypeOK, Version
    <2>2. \A l \in ListsOf[x.op] : Whole(l, d) \subseteq Nat
      <3>1. \A l \in ListsOf[x.op] : l \in DOMAIN Lengths
        BY <1>5, ReadsAssumption
      <3> QED
        BY <2>1, <3>1, LengthsAreNat, PatchAssumption DEF Whole
    <2> QED
      BY <2>1, <2>2 DEF EntryAt, Entry
  <1>12. ReaderTyped(y)
    <2>1. got \in [ListsOf[x.op] -> SUBSET Entry]
      <3>1. \A l \in ListsOf[x.op] : EntriesOf(x, l) \subseteq Entry
        BY <1>10, <1>11
      <3> QED
        BY <1>5, <1>7, <3>1
    <2>2. todo \subseteq Cursors(x.op)
      BY <1>1, <1>4, <1>5, <1>7, ContinuationsAre
    <2>3. phase \in {"complete", "answered"} /\ d \in Nat
      BY <1>3, <1>7
    <2>4. {y.pin, y.loaded, y.data, y.token, y.since} \subseteq Nat
      BY <1>5, <1>9, <2>3
    <2> QED
      BY <1>5, <1>9, <2>1, <2>2, <2>3, <2>4 DEF ReaderTyped
  <1>13. Heeded(y) = x.asked /\ ~FirstCall(y)
    BY <1>7, <1>9 DEF Heeded, FirstCall, UnderWay
  <1>14. CursorsOK(y)
    BY <1>6, <1>7, <1>9 DEF CursorsOK, UnderWay
  <1>15. PinOK(y) /\ LoadOK(y)
    BY <1>3, <1>7, <1>9, <1>13 DEF PinOK, LoadOK
  <1>16. ASSUME NEW c \in x.asked, NEW l \in ListsOf[x.op]
         PROVE  /\ \A i \in PartOf(l, d, c[l]).entries :
                      EntryAt(x.repo, d, i) \in got[l]
                /\ PartOf(l, d, c[l]).next # 0 =>
                      [c EXCEPT ![l] = PartOf(l, d, c[l]).next]
                         \in x.asked \cup todo
    <2>1. CASE c = x.cursor
      <3>1. PartOf(l, d, c[l]).next # 0 =>
               [c EXCEPT ![l] = PartOf(l, d, c[l]).next] \in Continuations(x)
        BY <1>1, <1>3, <1>4, <2>1, ContinuationsAre
      <3> QED
        BY <1>7, <1>10, <2>1, <3>1
    <2>2. CASE c # x.cursor
      <3>1. c \in Heeded(x) /\ ~FirstCall(x)
        BY <1>4, <1>6, <2>2 DEF Heeded, PinOK, FirstCall
      <3>2. /\ \A i \in PartOf(l, d, c[l]).entries :
                  EntryAt(x.repo, d, i) \in x.got[l]
            /\ PartOf(l, d, c[l]).next # 0 =>
                  [c EXCEPT ![l] = PartOf(l, d, c[l]).next]
                     \in x.asked \cup x.todo
        BY <1>3, <1>6, <3>1 DEF KeptOK
      <3> QED
        BY <1>7, <1>10, <3>2
    <2> QED
      BY <2>1, <2>2
  <1>17. KeptOK(y)
    BY <1>9, <1>13, <1>16 DEF KeptOK
  <1>18. ASSUME NEW l \in ListsOf[x.op], NEW e \in got[l]
         PROVE  \E i \in Whole(l, d) : e = EntryAt(x.repo, d, i)
    <2>1. CASE e \in x.got[l]
      <3>1. ~FirstCall(x)
        BY <1>6, <2>1 DEF PinOK
      <3> QED
        BY <1>3, <1>6, <2>1, <3>1 DEF GotOK
    <2>2. CASE e \in EntriesOf(x, l)
      BY <1>10, <2>2
    <2> QED
      BY <1>10, <2>1, <2>2
  <1>19. GotOK(y)
    BY <1>9, <1>18 DEF GotOK
  <1> QED
    BY <1>4, <1>8, <1>9, <1>12, <1>14, <1>15, <1>17, <1>19, OneReads
       DEF ReaderOK

LEMMA StoresGrow ==
    ASSUME StoreTypeOK, [Next]_vars
    PROVE  StoreGrows
  <1>1. \A w \in Workspaces : store[w] \in Seq(Nat) /\ Version(w) \in Nat
    BY StoreLengths DEF StoreTypeOK, Version
  <1>2. CASE UNCHANGED store
    BY <1>1, <1>2 DEF StoreGrows, Version
  <1>3. ASSUME NEW w, NEW snapshot, Write(w, snapshot)
        PROVE  StoreGrows
    <2>1. ASSUME NEW u \in Workspaces
          PROVE  /\ Version(u)' \in Nat
                 /\ Version(u) <= Version(u)'
                 /\ \A v \in 1..Version(u) : store'[u][v] = store[u][v]
      <3>1. PICK s \in Seq(Nat) : s = store[u]
        BY <1>1
      <3>2. store'[u] = s \/ store'[u] = Append(s, snapshot)
        BY <1>3, <3>1 DEF Write, StoreTypeOK
      <3>3. /\ Len(Append(s, snapshot)) = Len(s) + 1 /\ Len(s) \in Nat
            /\ \A v \in 1..Len(s) : Append(s, snapshot)[v] = s[v]
        BY <3>1
      <3> QED
        BY <3>1, <3>2, <3>3 DEF Version
    <2> QED
      BY <1>1, <2>1 DEF StoreGrows
  <1>4. JobStep => UNCHANGED store \/ \E w, snapshot : Write(w, snapshot)
    <2>1. ASSUME NEW j \in DOMAIN jobs
          PROVE  /\ \A refresh : Ingest(j, refresh) => UNCHANGED store
                 /\ IngestFails(j) => UNCHANGED store
                 /\ PipelineFails(j) => UNCHANGED store
                 /\ FinishFetch(j) => UNCHANGED store
      BY Zenon DEF Ingest, IngestFails, PipelineFails, FinishFetch, served
    <2>2. ASSUME NEW j \in DOMAIN jobs, RunPipeline(j)
          PROVE  Write(jobs[j].repo, jobs[j].snapshot)
      BY <2>2, Zenon DEF RunPipeline
    <2> QED
      BY <2>1, <2>2, Zenon DEF JobStep
  <1>5. \A p \in Pages : PageStep(p) => UNCHANGED store
    BY DEF PageStep, Poll, BeginPolling, GiveUp, HearReady, HearError,
           HearNothing, LoadState, served
  <1>6. \A p \in Pages : /\ Click(p) => UNCHANGED store
                         /\ \A w : SwitchWorkspace(p, w) => UNCHANGED store
    BY DEF Click, StartFetch, StartFails, RefuseFetch, SwitchWorkspace, served
  <1>7. \A w \in Workspaces :
           WriteElsewhere(w) \/ SyncElsewhere(w)
           => UNCHANGED store \/ \E snapshot : Write(w, snapshot)
    BY DEF WriteElsewhere, SyncElsewhere
  <1> QED
    BY <1>2, <1>3, <1>4, <1>5, <1>6, <1>7, StepKinds DEF served

LEMMA ReaderStepKeepsInv ==
    ASSUME ReadsInv, StoreTypeOK, NEW r \in Readers, ReaderStep(r)
    PROVE  ReadsInv'
  <1>1. epoch \in Nat
    BY DEF StoreTypeOK
  <1>2. CASE \E op \in Operations : BeginRead(r, op)
    BY <1>1, <1>2, BeginReadKeepsInv
  <1>3. CASE \E cursor \in readers[r].todo : \E pinned \in BOOLEAN :
                FollowUp(r, cursor, pinned)
    BY <1>1, <1>3, FollowUpKeepsInv
  <1>4. CASE RenewToken(r) \/ LoadContext(r) \/ Reread(r)
    BY <1>4, LoadingKeepsInv
  <1>5. CASE Deny(r)
    <2>1. /\ readers' = [readers EXCEPT ![r].phase = "denied"]
          /\ readers[r].phase # "idle" /\ UNCHANGED store
      BY <1>5 DEF Deny, TokenRefused, served
    <2> QED
      BY <2>1, EndedReadKeepsInv
  <1>6. CASE RefuseRead(r) \/ RefuseMoved(r)
    <2>1. /\ readers' = [readers EXCEPT ![r].phase = "refused"]
          /\ readers[r].phase # "idle" /\ UNCHANGED store
      BY <1>6 DEF RefuseRead, RefuseMoved, Admitted, ReadyToAnswer, served
    <2> QED
      BY <2>1, EndedReadKeepsInv
  <1>7. CASE AnswerRead(r)
    BY <1>7, AnswerReadKeepsInv
  <1> QED
    BY <1>2, <1>3, <1>4, <1>5, <1>6, <1>7 DEF ReaderStep

LEMMA ReadsElsewhere ==
    ASSUME ReadsInv, StoreTypeOK, [Next]_vars, UNCHANGED readers
    PROVE  ReadsInv'
  <1>1. StoreGrows
    BY StoresGrow
  <1>2. ASSUME NEW r \in Readers
        PROVE  ReaderTyped(readers'[r]) /\ ReaderOK(readers[r])'
    <2>1. PICK x : x = readers[r] /\ ReaderTyped(x) /\ ReaderOK(x)
      BY DEF ReadsInv
    <2>2. ReaderOK(x)'
      BY <1>1, <2>1, ReaderStays
    <2>3. x = readers'[r]
      BY <2>1
    <2> QED
      BY <2>1, <2>2, <2>3 DEF ReaderOK, CursorsOK, PinOK, LoadOK, KeptOK, GotOK
  <1> QED
    BY <1>2 DEF ReadsInv, ReaderTyped

LEMMA ReadsAtRestart ==
    ASSUME ReadsInv, Restart
    PROVE  ReadsInv'
  <1>1. UNCHANGED store /\ CutOffReads
    BY DEF Restart
  <1>2. ASSUME NEW r \in Readers
        PROVE  ReaderTyped(readers'[r]) /\ ReaderOK(readers[r])'
    <2>1. PICK x : x = readers[r] /\ ReaderTyped(x) /\ ReaderOK(x)
      BY DEF ReadsInv
    <2>2. PICK y : y = readers'[r]
      OBVIOUS
    <2>3. CASE x.phase \in {"loaded", "reread"}
      <3>1. y = [x EXCEPT !.phase = "refused"]
        BY <1>1, <2>1, <2>2, <2>3 DEF CutOffReads
      <3>2. /\ DOMAIN y = ReaderFields
            /\ y.phase = "refused" /\ y.op = x.op /\ y.repo = x.repo
            /\ y.cursor = x.cursor /\ y.pinned = x.pinned /\ y.pin = x.pin
            /\ y.loaded = x.loaded /\ y.data = x.data /\ y.todo = x.todo
            /\ y.asked = x.asked /\ y.got = x.got
            /\ y.token = x.token /\ y.renewed = x.renewed /\ y.since = x.since
        BY <2>1, <3>1 DEF ReaderTyped, ReaderFields
      <3>3. ReaderTyped(y)
        BY <2>1, <2>3, <3>2 DEF ReaderTyped
      <3>4. ~GoesWell(y)
        BY <3>2 DEF GoesWell, UnderWay
      <3> QED
        BY <2>2, <3>3, <3>4 DEF ReaderOK, GoesWell, UnderWay
    <2>4. CASE x.phase \notin {"loaded", "reread"}
      <3>1. y = x
        BY <1>1, <2>1, <2>2, <2>4 DEF CutOffReads
      <3> QED
        BY <1>1, <2>1, <2>2, <3>1
           DEF ReaderOK, CursorsOK, PinOK, LoadOK, KeptOK, GotOK, EntryAt,
               Version
    <2> QED
      BY <2>3, <2>4
  <1>3. DOMAIN readers' = Readers
    BY <1>1 DEF CutOffReads
  <1> QED
    BY <1>2, <1>3 DEF ReadsInv, ReaderTyped

LEMMA ReadsPreserved ==
    ASSUME ReadsInv, StoreTypeOK, [Next]_vars
    PROVE  ReadsInv'
  <1>1. CASE Restart
    BY <1>1, ReadsAtRestart
  <1>2. ASSUME NEW r \in Readers, ReaderTurn(r)
        PROVE  ReadsInv'
    BY <1>2, ReaderStepKeepsInv DEF ReaderTurn
  <1>3. ASSUME ~Restart, \A r \in Readers : ~ReaderTurn(r)
        PROVE  ReadsInv'
    <2>1. UNCHANGED readers
      BY <1>3 DEF Next, JobTurn, PageTurn, UserTurn, AskTurn, CallerTurn,
                  ProviderTurn, OutsideFetch, OutsideEnrichment, OtherStep,
                  vars
    <2> QED
      BY <2>1, ReadsElsewhere
  <1> QED
    BY <1>1, <1>2, <1>3

LEMMA ReadsInvariant == Spec => []ReadsInv
  <1>1. Init => ReadsInv
    <2> SUFFICES ASSUME Init PROVE ReadsInv
      OBVIOUS
    <2>1. epoch = 1
      BY DEF Init, StoreInit
    <2>2. PICK token \in [Readers -> 0..epoch] :
             readers = [r \in Readers |-> Unread(ReadsOf[r], token[r])]
      BY DEF Init, ReadsInit
    <2>3. ASSUME NEW r \in Readers
          PROVE  ReaderTyped(readers[r]) /\ ReaderOK(readers[r])
      <3>1. ReadsOf[r] \in Workspaces /\ token[r] \in Nat
        BY <2>1, <2>2, ReadsAssumption
      <3>2. readers[r] = Unread(ReadsOf[r], token[r])
        BY <2>2
      <3> QED
        BY <3>1, <3>2 DEF Unread, ReaderTyped, ReaderFields, ReaderOK,
                          GoesWell, UnderWay
    <2> QED
      BY <2>2, <2>3 DEF ReadsInv
  <1>2. FetchInv => StoreTypeOK
    BY DEF FetchInv
  <1> QED
    BY <1>1, <1>2, ReadsPreserved, FetchInvariant, PTL DEF Spec

\* Who has followed every continuation has, of every list, all of one version
\* of the store and nothing else: whoever writes or syncs between the calls
\* and within them, and whatever restarts.
THEOREM WholeAnswers == Spec => []ReadsAreWhole
  BY ReadsInvariant, WholeReads, PTL

------------------------------------------------------------------------------
(* Types *)

\* Whatever the jobs, the pages, the agents and the callers do, and whenever
\* the server restarts: a record has the fields of its phase, progress, pages
\* and answers name jobs, snapshots and versions, no more states are kept than
\* the server keeps, and no slot is below zero or above the limit.
THEOREM ServingTyped == Spec => []TypeOK
  <1> DEFINE Chosen == present \in Populations
  <1>1. Init => Chosen
    BY DEF Init
  <1>2. Chosen /\ [Next]_vars => Chosen'
    <2> SUFFICES ASSUME [Next]_vars PROVE UNCHANGED present
      OBVIOUS
    <2> QED
      BY DEF Next, vars, JobTurn, PageTurn, UserTurn, ReaderTurn, AskTurn,
             CallerTurn, ProviderTurn, OutsideFetch, OutsideReads,
             OutsideEnrichment, OtherStep, Restart
  <1>3. FetchInv => StoreTypeOK /\ FetchTypeOK
    BY DEF FetchInv
  <1>4. ReadsInv => ReadsTypeOK
    <2>1. \A op : Cursors(op) \subseteq CursorOf(op)
      BY DEF Cursors
    <2> QED
      BY <2>1 DEF ReadsInv, ReaderTyped, ReadsTypeOK
  <1>5. CallersInv /\ ProviderInv => EnrichmentTypeOK
    <2> SUFFICES ASSUME CallersInv, ProviderInv
                 PROVE  EnrichmentTypeOK
      OBVIOUS
    <2>1. Cardinality(requests) \in Nat /\ Slots \in Nat
      BY FS_CardinalityType, EnrichmentAssumption DEF ProviderInv
    <2>2. slots \in 0..Slots
      BY <2>1 DEF ProviderInv, ProviderBounded
    <2> QED
      BY <2>2 DEF CallersInv, ProviderInv, EnrichmentTypeOK
  <1>6. /\ Chosen /\ StoreTypeOK /\ FetchTypeOK
        /\ ReadsTypeOK /\ EnrichmentTypeOK
        => TypeOK
    BY DEF TypeOK
  <1> HIDE DEF Chosen
  <1> QED
    BY <1>1, <1>2, <1>3, <1>4, <1>5, <1>6, FetchInvariant, ReadsInvariant,
       CallersInvariant, ProviderInvariant, PTL DEF Spec

==============================================================================
