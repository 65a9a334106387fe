------------------------------ MODULE Enrichment ------------------------------
(***************************************************************************)
(* Reranking related pull requests with an embedding provider              *)
(* (triage/rank.py), as POST /api/enrich has it done: callers that ask for *)
(* the same thing share one run, and the provider gets no more than a few  *)
(* requests at a time.  The provider may take as long as it likes: a       *)
(* caller that waited long enough leaves, its request goes on.             *)
(*                                                                         *)
(* A caller is the thread of one POST and enriches once.                   *)
(***************************************************************************)
EXTENDS ServedStore, FiniteSets

CONSTANTS
    Callers,
    Targets,        \* what is enriched: pull request, path, provider, limit
    RepoOf,         \* the workspace of each target
    Slots           \* MAX_PROVIDER_CONCURRENCY

ASSUME EnrichmentAssumption ==
    /\ RepoOf \in [Targets -> Workspaces]
    /\ Slots \in Nat \ {0}

VARIABLES
    callers,
    inflight,       \* _inflight: the callers that lead a run
    slots,          \* _provider_slots: how many are free
    requests        \* the callers whose request the provider has

enrichVars == <<callers, inflight, slots, requests>>

\* kind: "rerank" and "local" are answers of the version they were made from.
Outcome == [kind : {"rerank", "local", "error"}, target : Targets, version : Nat]

Caller == [phase : {"idle", "admitted", "leading", "query", "documents",
                    "ended", "announced", "following", "answered", "refused",
                    "cut"},
           target : Targets \cup {None},
           version : Nat,                    \* expected_version
           leader : Callers \cup {None},     \* of the run that it follows
           data : Nat,                       \* the version that it loaded
           body : {None, TRUE, FALSE},       \* did its request succeed?
           outcome : Outcome \cup {None}]

EnrichmentTypeOK ==
    /\ callers \in [Callers -> Caller]
    /\ inflight \subseteq Callers
    /\ slots \in 0..Slots
    /\ requests \subseteq Callers

EnrichmentInit ==
    /\ callers = [c \in Callers |-> [phase |-> "idle", target |-> None,
                                     version |-> 0, leader |-> None,
                                     data |-> 0, body |-> None, outcome |-> None]]
    /\ inflight = {}
    /\ slots = Slots
    /\ requests = {}

------------------------------------------------------------------------------

Current(t) == Version(RepoOf[t])

\* POST /api/enrich, from a page that shows the version v ...
Admit(c, t, v) ==
    /\ callers[c].phase = "idle"
    /\ v = Current(t)
    /\ callers' = [callers EXCEPT ![c].phase = "admitted", ![c].target = t,
                                  ![c].version = v]
    /\ UNCHANGED <<served, inflight, slots, requests>>

\* ... and finds another one in the store.
RefuseEnrich(c, t, v) ==
    /\ callers[c].phase = "idle"
    /\ v # Current(t)
    /\ callers' = [callers EXCEPT ![c].phase = "refused"]
    /\ UNCHANGED <<served, inflight, slots, requests>>

\* Mutant: callers of other versions of the store share a run.
SameTarget(c, d) == callers[c].target = callers[d].target

SameRun(c, d) ==
    /\ callers[c].target = callers[d].target
    /\ callers[c].version = callers[d].version

Lead(c) ==
    /\ callers[c].phase = "admitted"
    /\ \A d \in inflight : ~SameRun(c, d)
    /\ callers' = [callers EXCEPT ![c].phase = "leading"]
    /\ inflight' = inflight \cup {c}
    /\ UNCHANGED <<served, slots, requests>>

Follow(c) ==
    /\ callers[c].phase = "admitted"
    /\ \E d \in inflight :
          /\ SameRun(c, d)
          /\ callers' = [callers EXCEPT ![c].phase = "following",
                                        ![c].leader = d]
    /\ UNCHANGED <<served, inflight, slots, requests>>

------------------------------------------------------------------------------
(* The leader: _enrich_once *)

Made(c, kind, version) ==
    [kind |-> kind, target |-> callers[c].target, version |-> version]

\* callers' of a leader whose run has a result, or an error.
End(c, kind, version) ==
    callers' = [callers EXCEPT ![c].phase = "ended", ![c].body = None,
                               ![c].outcome = Made(c, kind, version)]

Fail(c) == End(c, "error", 0)

Unmoved(c) == Current(callers[c].target) = callers[c].version

\* The first load: there is nothing to send, or no key to send it with.
AnswerLocally(c) ==
    /\ callers[c].phase = "leading"
    /\ Unmoved(c)
    /\ End(c, "local", Current(callers[c].target))
    /\ UNCHANGED <<served, inflight, slots, requests>>

\* The load "immediately before egress"; what was computed since the first
\* one is not told apart.
Prepare(c) ==
    /\ callers[c].phase = "leading"
    /\ Unmoved(c)
    /\ callers' = [callers EXCEPT ![c].phase = "query",
                                  ![c].data = Current(callers[c].target)]
    /\ UNCHANGED <<served, inflight, slots, requests>>

\* Of both loads.
NoticeChange(c) ==
    /\ callers[c].phase = "leading"
    /\ ~Unmoved(c)
    /\ Fail(c)
    /\ UNCHANGED <<served, inflight, slots, requests>>

Embeds(c) == callers[c].phase \in {"query", "documents"}

\* The leader has not heard of the vectors of its batch.
Unheard(c) == Embeds(c) /\ callers[c].body = None

Unsent(c) == Unheard(c) /\ c \notin requests

\* Mutant: a request is waited for as long as it takes.
TimesOutUnsent(c) == Unsent(c)

TimesOut(c) == Unheard(c)

\* With the vectors it goes on.  After the documents comes the last load: the
\* reranking is saved and answered if the store is still the same.
Proceed(c) ==
    callers' = [callers EXCEPT
                  ![c].phase = IF @ = "query" THEN "documents" ELSE "ended",
                  ![c].body = None,
                  ![c].outcome =
                      IF callers[c].phase = "query" THEN @
                      ELSE IF Unmoved(c) THEN Made(c, "rerank", callers[c].data)
                      ELSE Made(c, "error", 0)]

\* ensure_vectors: all of them are cached.
UseCached(c) ==
    /\ Unsent(c)
    /\ Proceed(c)
    /\ UNCHANGED <<served, inflight, slots, requests>>

\* _post_embed.
Send(c) ==
    /\ Unsent(c)
    /\ slots > 0
    /\ slots' = slots - 1
    /\ requests' = requests \cup {c}
    /\ UNCHANGED <<served, callers, inflight>>

\* The slot comes too late, or the thread does not start: it is given back.
SendFails(c) ==
    /\ Unsent(c)
    /\ slots > 0
    /\ Fail(c)
    /\ UNCHANGED <<served, inflight, slots, requests>>

\* No slot comes free in time.
ProviderBusy(c) ==
    /\ TimesOut(c) /\ c \notin requests
    /\ slots = 0
    /\ Fail(c)
    /\ UNCHANGED <<served, inflight, slots, requests>>

\* Mutant: a caller that leaves takes its slot back.
TakenBack == slots + 1

LeftBehind == slots

\* The answer does not come in time; the request keeps its slot.
LeaveRequest(c) ==
    /\ TimesOut(c) /\ c \in requests
    /\ Fail(c)
    /\ slots' = LeftBehind
    /\ UNCHANGED <<served, inflight, requests>>

HearProvider(c) ==
    /\ Embeds(c) /\ callers[c].body # None
    /\ IF callers[c].body THEN Proceed(c) ELSE Fail(c)
    /\ UNCHANGED <<served, inflight, slots, requests>>

\* The request ends: its slot is free, and the caller hears if it still waits.
EndRequest(c, body) ==
    /\ c \in requests
    /\ requests' = requests \ {c}
    /\ slots' = slots + 1
    /\ callers' = [callers EXCEPT ![c].body = IF Embeds(c) THEN body ELSE @]
    /\ UNCHANGED <<served, inflight>>

\* finally: the event is set ...
SetEvent(c) ==
    /\ callers[c].phase = "ended"
    /\ callers' = [callers EXCEPT ![c].phase = "announced"]
    /\ UNCHANGED <<served, inflight, slots, requests>>

\* ... then the run leaves the table.
Leave(c) ==
    /\ callers[c].phase = "announced"
    /\ callers' = [callers EXCEPT ![c].phase = "answered"]
    /\ inflight' = inflight \ {c}
    /\ UNCHANGED <<served, slots, requests>>

------------------------------------------------------------------------------
(* A follower *)

Heard(d) == callers[d].phase \in {"announced", "answered"}

HearLeader(c) ==
    /\ callers[c].phase = "following"
    /\ Heard(callers[c].leader)
    /\ callers' = [callers EXCEPT ![c].phase = "answered",
                       ![c].outcome = callers[callers[c].leader].outcome]
    /\ UNCHANGED <<served, inflight, slots, requests>>

\* Three provider time-outs later.
LeaveLeader(c) ==
    /\ callers[c].phase = "following"
    /\ ~Heard(callers[c].leader)
    /\ callers' = [callers EXCEPT ![c].phase = "answered",
                                  ![c].outcome = Made(c, "error", 0)]
    /\ UNCHANGED <<served, inflight, slots, requests>>

ForgetCallers ==
    /\ callers' = [c \in Callers |->
          IF callers[c].phase \in {"idle", "answered", "refused"} THEN callers[c]
          ELSE [callers[c] EXCEPT !.phase = "cut", !.body = None]]
    /\ inflight' = {}
    /\ slots' = Slots
    /\ requests' = {}

------------------------------------------------------------------------------

CallerStep(c) ==
    \/ Lead(c)
    \/ Follow(c)
    \/ AnswerLocally(c)
    \/ Prepare(c)
    \/ NoticeChange(c)
    \/ UseCached(c)
    \/ Send(c)
    \/ SendFails(c)
    \/ ProviderBusy(c)
    \/ LeaveRequest(c)
    \/ HearProvider(c)
    \/ SetEvent(c)
    \/ Leave(c)
    \/ HearLeader(c)
    \/ LeaveLeader(c)

Ask(c) == \E t \in Targets : \E v \in 1..Current(t) :
             Admit(c, t, v) \/ RefuseEnrich(c, t, v)

------------------------------------------------------------------------------
(* Properties *)

\* However many callers gave up and came back, the provider has no more
\* requests than there are slots, and every other slot is free.
ProviderBounded == Cardinality(requests) + slots = Slots

\* What a caller is answered was made for what it asked, from the version of
\* the store that its page showed, whoever did the work.
AnswersAsExpected ==
    \A c \in Callers :
        LET x == callers[c] IN
        x.phase = "answered" /\ x.outcome.kind # "error"
        => x.outcome.target = x.target /\ x.outcome.version = x.version

\* Every caller is answered, even if the provider never is.
CallersAnswered ==
    \A c \in Callers : callers[c].phase = "admitted"
                       ~> callers[c].phase \in {"answered", "cut"}

==============================================================================
