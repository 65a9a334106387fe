------------------------------- MODULE Serving -------------------------------
(***************************************************************************)
(* The local server with its clients: the background fetch and the pages   *)
(* that wait for it (FetchJob), the paged reads of agents (Reads) and the  *)
(* enrichment of related pull requests (Enrichment).  Its threads meet in  *)
(* the stores and the caches, which other processes write too, and end     *)
(* together when it restarts.                                              *)
(*                                                                         *)
(* What the clients of one kind do to those of another is something that   *)
(* Others do as well: they add a version or a snapshot.  So a behaviour    *)
(* need not have clients of every kind; which are present is chosen in     *)
(* Init.                                                                   *)
(***************************************************************************)
EXTENDS FetchJob, Reads, Enrichment

CONSTANT Populations    \* sets of clients: of Pages, Readers and Callers

VARIABLE present

vars == <<served, fetchVars, readers, enrichVars, present>>

TypeOK ==
    /\ StoreTypeOK
    /\ FetchTypeOK
    /\ ReadsTypeOK
    /\ EnrichmentTypeOK
    /\ present \in Populations

\* The workspaces that the clients which are present use.
Used ==
    (UNION {OpensOf[p] : p \in Pages \cap present})
    \cup {ReadsOf[r] : r \in Readers \cap present}
    \cup {RepoOf[t] : t \in {x \in Targets : Callers \cap present # {}}}

Init ==
    /\ StoreInit
    /\ FetchInit
    /\ ReadsInit
    /\ EnrichmentInit
    /\ present \in Populations
    /\ \A w \in Workspaces \ Used : store[w] = << >>
    /\ \A p \in Pages \ present :
          pages[p].repo = CHOOSE w \in OpensOf[p] : TRUE
    /\ \A r \in Readers \ present : readers[r].token = epoch

------------------------------------------------------------------------------

OutsideFetch == <<readers, enrichVars, present>>
OutsideReads == <<fetchVars, enrichVars, present>>
OutsideEnrichment == <<fetchVars, readers, present>>

JobTurn == JobStep /\ UNCHANGED OutsideFetch

PageTurn(p) == p \in present /\ PageStep(p) /\ UNCHANGED OutsideFetch

UserTurn(p) ==
    /\ p \in present
    /\ Click(p) \/ \E w \in Workspaces : SwitchWorkspace(p, w)
    /\ UNCHANGED OutsideFetch

ReaderTurn(r) == r \in present /\ ReaderStep(r) /\ UNCHANGED OutsideReads

AskTurn(c) == c \in present /\ Ask(c) /\ UNCHANGED OutsideEnrichment

CallerTurn(c) ==
    c \in present /\ CallerStep(c) /\ UNCHANGED OutsideEnrichment

ProviderTurn(c) ==
    /\ \E body \in BOOLEAN : EndRequest(c, body)
    /\ UNCHANGED OutsideEnrichment

OtherStep ==
    /\ \E w \in Used : WriteElsewhere(w) \/ SyncElsewhere(w)
    /\ UNCHANGED <<fetchVars, readers, enrichVars, present>>

\* The server stops and starts again, with another session token.
Restart ==
    /\ epoch <= MaxRestarts
    /\ epoch' = epoch + 1
    /\ ForgetJobs
    /\ CutOffReads
    /\ ForgetCallers
    /\ UNCHANGED <<store, cache, present>>

Next ==
    \/ JobTurn
    \/ \E p \in Pages : PageTurn(p) \/ UserTurn(p)
    \/ \E r \in Readers : ReaderTurn(r)
    \/ \E c \in Callers : AskTurn(c) \/ CallerTurn(c) \/ ProviderTurn(c)
    \/ OtherStep
    \/ Restart

Spec == Init /\ [][Next]_vars

\* A job ends one way or the other (SnapshotSync), the timer of a polling page
\* goes on, and what a thread of the server waits for has a time-out.  The
\* provider need not answer, nor the user act.
Fairness ==
    /\ WF_vars(JobTurn)
    /\ \A p \in Pages : WF_vars(PageTurn(p))
    /\ \A c \in Callers : WF_vars(CallerTurn(c))

FairSpec == Spec /\ Fairness

==============================================================================
