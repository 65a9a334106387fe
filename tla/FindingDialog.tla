---------------------------- MODULE FindingDialog ----------------------------
(***************************************************************************)
(* The "Add finding" dialog of the dashboard (triage/web/app.js) over the  *)
(* file-review writers.  The page holds a state it read some time ago; the *)
(* dialog holds what that page displayed when it opened; a submission is   *)
(* posted, may reach the store at any later moment or never, and its       *)
(* answer may be lost.  A background sync may reload the page meanwhile.   *)
(***************************************************************************)
EXTENDS FileReview

CONSTANTS
    MaxOpened,      \* bound: dialogs ever opened
    MaxPosted       \* bound: requests ever submitted by dialogs

ASSUME OpenedAssumption == MaxOpened \in Nat /\ MaxPosted \in Nat

VARIABLES
    page,           \* the state the page displays
    dialog,         \* findingTarget, numbered; number 0 when closed
    opened,         \* dialogs opened so far
    retries,        \* fileReviewRetries: requests whose key is reused
    posted,         \* every submission, with its dialog (auxiliary)
    inflight,       \* submissions the page still awaits
    told            \* dialogs that said "nothing was saved" (auxiliary)

browser == <<page, dialog, opened, retries, posted, inflight, told>>
allvars == <<vars, browser>>

StorePage == [version |-> version, snapshot |-> snapshot, rev |-> current,
              loaded |-> TRUE]

NotLoaded == [version |-> 0, snapshot |-> 0, rev |-> None, loaded |-> FALSE]

NoDialog == [n |-> 0, path |-> None, seen |-> page, busy |-> FALSE]

DialogInit ==
    /\ Init
    /\ page = NotLoaded
    /\ dialog = NoDialog
    /\ opened = 0
    /\ retries = {}
    /\ posted = {}
    /\ inflight = {}
    /\ told = {}

------------------------------------------------------------------------------

\* Bound: a behaviour has requests of other clients or dialogs, not both;
\* what others write while a dialog is open is WriteElsewhere.
Alone == page = NotLoaded => sent = {}

\* A full reload, by the user or when a sync ends.
LoadState ==
    /\ Alone
    /\ page' = StorePage
    /\ UNCHANGED <<vars, dialog, opened, retries, posted, inflight, told>>

OpenDialog ==
    /\ dialog.n = 0
    /\ opened < MaxOpened
    /\ page.rev # None
    /\ \E e \in Manifest[page.rev] :
          dialog' = [n |-> opened + 1, path |-> e.path, seen |-> page,
                     busy |-> FALSE]
    /\ opened' = opened + 1
    /\ UNCHANGED <<vars, page, retries, posted, inflight, told>>

\* Cancel and Escape work while a submission is awaited, too.
Cancel ==
    /\ dialog.n # 0
    /\ dialog' = NoDialog
    /\ UNCHANGED <<vars, page, opened, retries, posted, inflight, told>>

\* Mutant: the dialog submits whatever the page shows by now.
AnyView == TRUE

SameView == page = dialog.seen

\* The same text on the same view is the same request under the same key.
RequestFor(text) ==
    LET about == [op |-> "finding", rev |-> dialog.seen.rev,
                  path |-> dialog.path, text |-> text]
        same == {r \in retries : /\ r.about = about
                                 /\ r.version = page.version
                                 /\ r.snapshot = page.snapshot}
    IN  IF same # {} THEN same
        ELSE {[about |-> about, key |-> k, version |-> page.version,
               snapshot |-> page.snapshot]
              : k \in {x \in Keys : \A r \in sent : r.key # x}}

Submit ==
    /\ dialog.n # 0 /\ ~dialog.busy
    /\ SameView
    /\ \E text \in Texts : \E req \in RequestFor(text) :
          /\ sent' = sent \cup {req}
          /\ Cardinality(sent') <= MaxPosted
          /\ retries' = retries \cup {req}
          /\ posted' = posted \cup {[n |-> dialog.n, req |-> req]}
          /\ inflight' = inflight \cup {[n |-> dialog.n, req |-> req]}
    /\ dialog' = [dialog EXCEPT !.busy = TRUE]
    /\ UNCHANGED <<row, version, records, events, keys, page, opened, told>>

\* "The revision changed while this finding was open.  Nothing was saved."
RefuseToSubmit ==
    /\ dialog.n # 0 /\ ~dialog.busy
    /\ ~SameView
    /\ told' = told \cup {dialog.n}
    /\ UNCHANGED <<vars, page, dialog, opened, retries, posted, inflight>>

Saved(req) == \E k \in keys : k.key = req.key /\ k.about = req.about

\* The dialog that is open by then is closed, whichever it is.
Confirmed ==
    \E i \in inflight :
        /\ Saved(i.req)
        /\ inflight' = inflight \ {i}
        /\ retries' = retries \ {i.req}
        /\ page' = StorePage
        /\ dialog' = NoDialog
        /\ UNCHANGED <<vars, opened, posted, told>>

Released(i) == [dialog EXCEPT !.busy = @ /\ dialog.n # i.n]

\* 409: the page reloads, the dialog keeps its text.
Conflicting ==
    \E i \in inflight :
        /\ ~Saved(i.req)
        /\ ~VersionsMatch(i.req) \/ ~IsCurrent(i.req.about.rev)
        /\ inflight' = inflight \ {i}
        /\ page' = StorePage
        /\ dialog' = Released(i)
        /\ UNCHANGED <<vars, opened, retries, posted, told>>

\* "The save could not be confirmed."
Unconfirmed ==
    \E i \in inflight :
        /\ inflight' = inflight \ {i}
        /\ dialog' = Released(i)
        /\ UNCHANGED <<vars, page, opened, retries, posted, told>>

\* Every other step of the store and its clients.
Store ==
    /\ \/ page = NotLoaded /\ Compose
       \/ \E req \in sent : Deliver(req)
       \/ Republish
       \/ WriteElsewhere
    /\ UNCHANGED browser

DialogNext ==
    \/ Store
    \/ LoadState
    \/ OpenDialog
    \/ Cancel
    \/ Submit
    \/ RefuseToSubmit
    \/ Confirmed
    \/ Conflicting
    \/ Unconfirmed

DialogSpec == DialogInit /\ [][DialogNext]_allvars

------------------------------------------------------------------------------
(* Properties *)

Kept(n) == {k \in keys : \E i \in posted : i.n = n /\ i.req.key = k.key}

\* However often one dialog is submitted, with the text changed or not, with
\* answers lost and late deliveries, it leaves one finding at most.
OneFindingPerDialog == \A n \in 1..opened : Cardinality(Kept(n)) <= 1

\* A dialog that says that nothing was saved left no finding.  (It says so of
\* every view that changed, also when its own lost write changed it.)
NothingSavedMeansNothing == \A n \in told : Kept(n) = {}

==============================================================================
