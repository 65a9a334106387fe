------------------------------- MODULE FetchJob -------------------------------
(***************************************************************************)
(* The background fetch of the server (triage/server.py), one job at a     *)
(* time for all workspaces, with its progress record and the records of    *)
(* the last jobs; and the browser pages that press Sync, poll the progress *)
(* of their workspace and load its state when it is ready (web/app.js).    *)
(*                                                                         *)
(* A job syncs the GitHub cache, then runs the pipeline.  A page hears an  *)
(* answer some time after the server gave it; the user may have turned to  *)
(* another workspace by then.                                              *)
(***************************************************************************)
EXTENDS ServedStore, FiniteSets

CONSTANTS
    Pages,          \* browser pages
    OpensOf,        \* per page, the workspaces that its user opens
    KEPT,           \* records of ended jobs that are kept (8)
    MaxJobs         \* bound: jobs

ASSUME FetchAssumption ==
    /\ OpensOf \in [Pages -> (SUBSET Workspaces) \ {{}}]
    /\ KEPT \in Nat
    /\ MaxJobs \in Nat

VARIABLES
    jobs,           \* the jobs so far, the last one the newest
    progress,       \* _fetch_progress
    terminals,      \* _fetch_terminal
    pages

jobVars == <<jobs, progress, terminals>>
fetchVars == <<jobVars, pages>>

\* snapshot: the one its thread ingested; version: the one that it published
\* (auxiliary); 0 for none.
Job == [phase : {"starting", "ingested", "published", "failed", "ended",
                 "lost"},
        repo : Workspaces, snapshot : Nat, version : Nat]

\* job: its place in jobs, 0 for none (auxiliary).
Progress == [repo : Workspaces \cup {None}, running : BOOLEAN,
             ready : BOOLEAN, error : BOOLEAN, job : Nat]

\* What the server may answer a page.
Reply == [kind : {"started", "busy", "progress", "failed"}, about : Progress]

\* want: the job that the page started or joined (auxiliary); heard: the
\* progress on which it stopped polling.
Page == [repo : Workspaces, phase : {"idle", "posted", "polling", "loading"},
         reply : Reply \cup {None}, want : Nat, heard : Progress \cup {None}]

FetchTypeOK ==
    /\ jobs \in Seq(Job)
    /\ progress \in Progress
    /\ terminals \in Seq(Progress)
    /\ Len(terminals) <= KEPT
    /\ pages \in [Pages -> Page]

------------------------------------------------------------------------------

NoProgress(w) == [repo |-> w, running |-> FALSE, ready |-> FALSE,
                  error |-> FALSE, job |-> 0]

Resting(w) == [repo |-> w, phase |-> "idle", reply |-> None, want |-> 0,
               heard |-> None]

FetchInit ==
    /\ jobs = << >>
    /\ progress = NoProgress(None)
    /\ terminals = << >>
    /\ \E home \in [Pages -> Workspaces] :
          /\ \A p \in Pages : home[p] \in OpensOf[p]
          /\ pages = [p \in Pages |-> Resting(home[p])]

------------------------------------------------------------------------------
(* The job *)

Busy == progress.running

\* What both outcomes of Thread.start leave behind: the record says running.
Announce(w) ==
    progress' = [NoProgress(w) EXCEPT !.running = TRUE, !.job = Len(jobs) + 1]

NewJob(w, phase) ==
    jobs' = Append(jobs, [phase |-> phase, repo |-> w, snapshot |-> 0,
                          version |-> 0])

Answer(p, kind, about) ==
    pages' = [pages EXCEPT ![p].phase = "posted",
                           ![p].reply = [kind |-> kind, about |-> about]]

\* POST /api/fetch of a page: a job starts ...
StartFetch(p) ==
    LET w == pages[p].repo IN
    /\ pages[p].phase = "idle"
    /\ ~Busy
    /\ Len(jobs) < MaxJobs
    /\ NewJob(w, "starting")
    /\ Announce(w)
    /\ Answer(p, "started", progress')
    /\ UNCHANGED <<served, terminals>>

\* ... or its thread cannot be started, and the record stays as it is ...
StartFails(p) ==
    LET w == pages[p].repo IN
    /\ pages[p].phase = "idle"
    /\ ~Busy
    /\ Len(jobs) < MaxJobs
    /\ NewJob(w, "lost")
    /\ Announce(w)
    /\ Answer(p, "failed", progress')
    /\ UNCHANGED <<served, terminals>>

\* ... or one is running, of any workspace.
RefuseFetch(p) ==
    /\ pages[p].phase = "idle"
    /\ Busy
    /\ Answer(p, "busy", progress)
    /\ UNCHANGED <<served, jobVars>>

Running(j) == jobs[j].phase \in {"starting", "ingested", "published", "failed"}

Advance(j, phase) == jobs' = [jobs EXCEPT ![j].phase = phase]

\* ingest publishes the next snapshot, or takes the last one, as the user
\* asked.
Ingest(j, refresh) ==
    LET w == jobs[j].repo
        snapshot == IF refresh THEN cache[w] + 1 ELSE cache[w] IN
    /\ jobs[j].phase = "starting"
    /\ snapshot > 0
    /\ cache' = [cache EXCEPT ![w] = snapshot]
    /\ jobs' = [jobs EXCEPT ![j].phase = "ingested",
                            ![j].snapshot = snapshot]
    /\ UNCHANGED <<store, epoch, progress, terminals, pages>>

\* The adapter reports an error while the job is still running.
IngestFails(j) ==
    /\ jobs[j].phase = "starting"
    /\ Advance(j, "failed")
    /\ progress' = [progress EXCEPT !.error = TRUE]
    /\ UNCHANGED <<served, terminals, pages>>

RunPipeline(j) ==
    LET w == jobs[j].repo IN
    /\ jobs[j].phase = "ingested"
    /\ Write(w, jobs[j].snapshot)
    /\ jobs' = [jobs EXCEPT ![j].phase = "published",
                            ![j].version = Version(w) + 1]
    /\ UNCHANGED <<cache, epoch, progress, terminals, pages>>

PipelineFails(j) ==
    /\ jobs[j].phase = "ingested"
    /\ Advance(j, "failed")
    /\ UNCHANGED <<served, progress, terminals, pages>>

\* Mutant: the records of all jobs are kept.
AllOf(records) == records

LastOf(records) ==
    IF Len(records) <= KEPT THEN records ELSE Tail(records)

\* Mutant: an exception ends the thread without a word.
IfPublished(j) == jobs[j].phase = "published"

Concluded(j) == jobs[j].phase \in {"published", "failed"}

\* _finish_fetch: the record and its copy, under one lock.
FinishFetch(j) ==
    /\ Concluded(j)
    /\ jobs' = [jobs EXCEPT ![j].phase = "ended", ![j].snapshot = 0]
    /\ progress' = [progress EXCEPT
                      !.running = FALSE,
                      !.ready = jobs[j].phase = "published",
                      !.error = jobs[j].phase = "failed"]
    /\ terminals' = LastOf(Append(terminals, progress'))
    /\ UNCHANGED <<served, pages>>

------------------------------------------------------------------------------
(* Progress, as a page hears it *)

\* Mutant: whatever job is in the record.
AnyJob(w) == progress

\* get_fetch_progress: the record, if it is of this workspace, else its newest
\* ended job that is kept, else nothing.
ProgressOf(w) ==
    LET own == {i \in DOMAIN terminals : terminals[i].repo = w} IN
    IF progress.repo = w THEN progress
    ELSE IF own = {} THEN NoProgress(w)
    ELSE terminals[CHOOSE i \in own : \A k \in own : k <= i]

\* GET /api/progress.
Poll(p) ==
    /\ pages[p].phase = "polling"
    /\ pages[p].reply = None
    /\ pages' = [pages EXCEPT ![p].reply =
                    [kind |-> "progress", about |-> ProgressOf(pages[p].repo)]]
    /\ UNCHANGED <<served, jobVars>>

Joined(p, kind) ==
    /\ pages[p].phase = "posted"
    /\ pages[p].reply.kind = kind
    /\ pages[p].reply.about.repo = pages[p].repo

\* The job was started, or one of this workspace was running already.
BeginPolling(p) ==
    /\ Joined(p, "started") \/ Joined(p, "busy")
    /\ pages' = [pages EXCEPT ![p].phase = "polling", ![p].reply = None,
                              ![p].want = pages[p].reply.about.job]
    /\ UNCHANGED <<served, jobVars>>

\* Busy for another workspace, or a failure: this one was not fetched.
GiveUp(p) ==
    /\ pages[p].phase = "posted"
    /\ ~Joined(p, "started") /\ ~Joined(p, "busy")
    /\ pages' = [pages EXCEPT ![p] = Resting(@.repo)]
    /\ UNCHANGED <<served, jobVars>>

Hears(p) == pages[p].phase = "polling" /\ pages[p].reply # None

HearReady(p) ==
    /\ Hears(p)
    /\ pages[p].reply.about.ready /\ ~pages[p].reply.about.running
    /\ pages' = [pages EXCEPT ![p].phase = "loading",
                              ![p].heard = pages[p].reply.about,
                              ![p].reply = None]
    /\ UNCHANGED <<served, jobVars>>

HearError(p) ==
    /\ Hears(p)
    /\ pages[p].reply.about.error /\ ~pages[p].reply.about.running
    /\ pages' = [pages EXCEPT ![p] = Resting(@.repo)]
    /\ UNCHANGED <<served, jobVars>>

\* Anything else, an idle record included, is asked for again.
HearNothing(p) ==
    /\ Hears(p)
    /\ LET about == pages[p].reply.about
       IN  about.running \/ ~(about.ready \/ about.error)
    /\ pages' = [pages EXCEPT ![p].reply = None]
    /\ UNCHANGED <<served, jobVars>>

\* The state is fetched and shown.
LoadState(p) ==
    /\ pages[p].phase = "loading"
    /\ pages' = [pages EXCEPT ![p] = Resting(@.repo)]
    /\ UNCHANGED <<served, jobVars>>

\* The user opens another workspace; late replies are dropped.
SwitchWorkspace(p, w) ==
    /\ w \in OpensOf[p] \ {pages[p].repo}
    /\ pages' = [pages EXCEPT ![p] = Resting(w)]
    /\ UNCHANGED <<served, jobVars>>

\* What a restart leaves of all this: the threads and the records are gone,
\* and the calls that it cuts off fail.  A page between two polls goes on.
ForgetJobs ==
    /\ jobs' = [j \in DOMAIN jobs |->
                  IF Running(j)
                  THEN [jobs[j] EXCEPT !.phase = "lost", !.snapshot = 0]
                  ELSE jobs[j]]
    /\ progress' = NoProgress(None)
    /\ terminals' = << >>
    /\ \E cut \in SUBSET {p \in Pages : pages[p].phase # "idle"} :
          pages' = [p \in Pages |-> IF p \in cut THEN Resting(pages[p].repo)
                                   ELSE pages[p]]

------------------------------------------------------------------------------

JobStep == \E j \in DOMAIN jobs :
              \/ \E refresh \in BOOLEAN : Ingest(j, refresh)
              \/ IngestFails(j)
              \/ RunPipeline(j)
              \/ PipelineFails(j)
              \/ FinishFetch(j)

PageStep(p) ==
    \/ Poll(p)
    \/ BeginPolling(p)
    \/ GiveUp(p)
    \/ HearReady(p)
    \/ HearError(p)
    \/ HearNothing(p)
    \/ LoadState(p)

Click(p) == StartFetch(p) \/ StartFails(p) \/ RefuseFetch(p)

------------------------------------------------------------------------------
(* Properties *)

\* Two fetches never run at once, whatever pages and workspaces they are for.
OneJobAtATime == Cardinality({j \in DOMAIN jobs : Running(j)}) <= 1

\* When a page stops polling to load the synced state, the job that it heard
\* of was of its workspace, not an earlier one than it asked for, and what
\* that job published is in the store.
ReadyMeansSynced ==
    \A p \in Pages : pages[p].phase = "loading" =>
        LET j == pages[p].heard.job IN
        /\ j \in DOMAIN jobs
        /\ j >= pages[p].want
        /\ jobs[j].repo = pages[p].repo
        /\ jobs[j].version \in 1..Version(pages[p].repo)

Forgotten(j) ==
    /\ progress.job # j
    /\ \A i \in DOMAIN terminals : terminals[i].job # j

\* A page that polls hears an end, unless the record it waits for is lost (a
\* restart), never ends (its thread did not start), or was pushed out by more
\* than KEPT later jobs.
PollEnds ==
    \A p \in Pages :
        pages[p].phase = "polling"
        ~> \/ pages[p].phase # "polling"
           \/ Forgotten(pages[p].want)
           \/ \E j \in DOMAIN jobs : jobs[j].phase = "lost"

==============================================================================
