------------------------------ MODULE LibraryScan ------------------------------
(***************************************************************************)
(* The requests about one library of LibrariesController and               *)
(* BridgeController that meet: background scans with their job and token   *)
(* under _scanLock, cancellations, deletions, and the scan of the bridge   *)
(* endpoint, which runs inside its request and takes no lock.              *)
(***************************************************************************)
EXTENDS Naturals, FiniteSets

CONSTANTS
    Requests,    \* HTTP requests
    Files,       \* media files under the path of the library
    Ops,         \* the endpoints that are called: a subset of AllOps
    None,        \* no request
    MaxFaults,   \* bound: failing queries and saves
    MaxRestarts  \* bound: restarts of the server

AllOps == {"scan", "cancel", "delete", "bridge"}

ASSUME ScanAssumption ==
    /\ None \notin Requests
    /\ IsFiniteSet(Files)
    /\ Ops \subseteq AllOps
    /\ MaxFaults \in Nat /\ MaxRestarts \in Nat

VARIABLES
    library,    \* the row of the library exists
    rows,       \* MediaItems of the library: <<file, the request that added it>>
    itemCount,  \* Libraries.ItemCount
    job,        \* _scanJobs[id]: the request that made the job, or None
    token,      \* _scanTokens[id]: the request that made the source, or None
    status,     \* the status of that job; jobs that were replaced nobody sees
    source,     \* the token source of each scan
    call,       \* what each request does: its operation and how far it is
    faults,     \* failures so far
    restarts    \* restarts so far

vars == <<library, rows, itemCount, job, token, status, source, call, faults, restarts>>
scanState == <<job, token, status, source>>
store == <<library, rows, itemCount>>

Statuses == {"none", "scanning", "cancelling", "completed", "cancelled", "failed"}
Ended == {"completed", "cancelled", "failed"}
Steps == {"new", "register", "enumerate", "look", "save", "count", "close",
          "report", "untoken", "dispose", "signal", "remove", "done"}

Call(op, at) == [op |-> op, at |-> at, todo |-> {}, added |-> {}, counted |-> 0, verdict |-> "none"]
New == Call("none", "new")

CallState == [op : AllOps \cup {"none"}, at : Steps, todo : SUBSET Files, added : SUBSET Files,
              counted : Nat, verdict : Ended \cup {"none"}]

TypeOK ==
    /\ library \in BOOLEAN
    /\ rows \subseteq Files \X Requests
    /\ itemCount \in Nat
    /\ job \in Requests \cup {None}
    /\ token \in Requests \cup {None}
    /\ status \in Statuses
    /\ source \in [Requests -> {"live", "cancelled", "disposed"}]
    /\ call \in [Requests -> CallState]
    /\ faults \in Nat
    /\ restarts \in Nat

Init ==
    /\ library = TRUE
    /\ rows = {}
    /\ itemCount = 0
    /\ job = None
    /\ token = None
    /\ status = "none"
    /\ source = [r \in Requests |-> "live"]
    /\ call = [r \in Requests |-> New]
    /\ faults = 0
    /\ restarts = 0

Goto(r, step) == call' = [call EXCEPT ![r] = Call(call[r].op, step)]

\* The try block of a background scan ends, with an exception unless it has
\* completed, and the bridge answers.
End(r, verdict) ==
    IF call[r].op = "scan"
    THEN call' = [call EXCEPT ![r] = [Call("scan", "report") EXCEPT !.verdict = verdict]]
    ELSE Goto(r, "done")

Fault == faults < MaxFaults /\ faults' = faults + 1

-----------------------------------------------------------------------------
\* A request comes in and looks its library up, which is all a request for a
\* library that is gone does.
First == [scan |-> "register", cancel |-> "signal", delete |-> "remove", bridge |-> "enumerate"]

Arrive(r, op) ==
    /\ call[r].at = "new"
    /\ call' = [call EXCEPT ![r] = Call(op, IF library THEN First[op] ELSE "done")]
    /\ UNCHANGED <<store, scanState, faults, restarts>>

\* Under _scanLock: a job that scans or is being cancelled is answered as it
\* is, else the request registers its own and starts the background task.
Busy_ScanningOnly == status = "scanning"
Busy == status \in {"scanning", "cancelling"}

Register(r) ==
    /\ call[r].at = "register"
    /\ IF Busy
       THEN Goto(r, "done") /\ UNCHANGED scanState
       ELSE /\ Goto(r, "enumerate")
            /\ job' = r
            /\ token' = r
            /\ status' = "scanning"
            /\ UNCHANGED source
    /\ UNCHANGED <<store, faults, restarts>>

\* Under _scanLock: signals whichever scan is registered. Cancel of a source
\* that is disposed throws.
Signal(r) ==
    /\ call[r].at = "signal"
    /\ Goto(r, "done")
    /\ IF token # None /\ source[token] = "disposed"
       THEN UNCHANGED <<source, status>>
       ELSE /\ source' = [r2 \in Requests |-> IF r2 = token THEN "cancelled" ELSE source[r2]]
            /\ status' = IF status = "scanning" THEN "cancelling" ELSE status
    /\ UNCHANGED <<store, job, token, faults, restarts>>

\* The library goes and its items with it, those added meanwhile by the
\* cascade of the foreign key. Its row may be gone already: the save throws.
Remove(r) ==
    /\ call[r].at = "remove"
    /\ library' = FALSE
    /\ rows' = IF library THEN {} ELSE rows
    /\ Goto(r, "done")
    /\ UNCHANGED <<itemCount, scanState, faults, restarts>>

-----------------------------------------------------------------------------
\* The walk over the directories finds some of the files: it skips what it
\* may not read. A cancelled scan throws, unless the walk is in its last
\* directory, whose files it then no longer collects.
Enumerate(r, found) ==
    /\ call[r].at = "enumerate"
    /\ call' = [call EXCEPT ![r].at = "look", ![r].todo = found]
    /\ UNCHANGED <<store, scanState, faults, restarts>>

\* The path does not exist, or the settings cannot be read.
EnumerateFails_Unreported(r) ==
    /\ call[r].at = "enumerate"
    /\ Fault
    /\ Goto(r, "untoken")
    /\ UNCHANGED <<store, scanState, restarts>>

EnumerateFails(r) ==
    /\ call[r].at = "enumerate"
    /\ Fault
    /\ End(r, "failed")
    /\ UNCHANGED <<store, scanState, restarts>>

Interrupted(r) ==
    /\ \/ call[r].at = "enumerate"
       \/ call[r].at = "look" /\ call[r].todo # {}
    /\ call[r].op = "scan" /\ source[r] = "cancelled"
    /\ End(r, "cancelled")
    /\ UNCHANGED <<store, scanState, faults, restarts>>

\* A file the library has is left alone, any other is added to the context.
Known(f) == \E r \in Requests : <<f, r>> \in rows

Look(r, f) ==
    /\ call[r].at = "look" /\ f \in call[r].todo
    /\ call[r].op = "scan" => source[r] # "cancelled"
    /\ call' = [call EXCEPT ![r].todo = @ \ {f},
                            ![r].added = IF Known(f) THEN @ ELSE @ \cup {f}]
    /\ UNCHANGED <<store, scanState, faults, restarts>>

\* The file is gone or the query fails: the background scan notes it and goes
\* on, the bridge gives up.
LookFails(r, f) ==
    /\ call[r].at = "look" /\ f \in call[r].todo
    /\ call[r].op = "scan" => source[r] # "cancelled"
    /\ Fault
    /\ IF call[r].op = "scan" THEN call' = [call EXCEPT ![r].todo = @ \ {f}] ELSE Goto(r, "done")
    /\ UNCHANGED <<store, scanState, restarts>>

LookedAll(r) ==
    /\ call[r].at = "look" /\ call[r].todo = {}
    /\ call' = [call EXCEPT ![r].at = IF call[r].op = "scan" THEN "save" ELSE "count"]
    /\ UNCHANGED <<store, scanState, faults, restarts>>

-----------------------------------------------------------------------------
Entries(r) == call[r].added \X {r}

\* The items are saved in one transaction; the foreign key refuses those of a
\* library that is gone.
SaveItems_CountsFirst(r) ==
    /\ call[r].at = "save"
    /\ IF library \/ call[r].added = {}
       THEN /\ rows' = rows \cup Entries(r)
            /\ call' = [call EXCEPT ![r].at = "close", ![r].counted = Cardinality(rows)]
       ELSE End(r, "failed") /\ UNCHANGED rows
    /\ UNCHANGED <<library, itemCount, scanState, faults, restarts>>

SaveItems(r) ==
    /\ call[r].at = "save"
    /\ IF library \/ call[r].added = {}
       THEN rows' = rows \cup Entries(r) /\ Goto(r, "count")
       ELSE End(r, "failed") /\ UNCHANGED rows
    /\ UNCHANGED <<library, itemCount, scanState, faults, restarts>>

\* The background scan counts what it has saved, unless the library is gone,
\* and the bridge what it is about to.
Count(r) ==
    /\ call[r].at = "count"
    /\ IF call[r].op = "scan" /\ ~library
       THEN End(r, "completed")
       ELSE call' = [call EXCEPT ![r].at = "close",
                                 ![r].counted = Cardinality(rows)
                                     + IF call[r].op = "bridge" THEN Cardinality(call[r].added) ELSE 0]
    /\ UNCHANGED <<store, scanState, faults, restarts>>

\* The row of the library is updated, with the items of a bridge scan in one
\* transaction; an update of no row throws.
Close(r) ==
    /\ call[r].at = "close"
    /\ IF library
       THEN /\ itemCount' = call[r].counted
            /\ rows' = IF call[r].op = "bridge" THEN rows \cup Entries(r) ELSE rows
            /\ End(r, "completed")
       ELSE End(r, "failed") /\ UNCHANGED <<rows, itemCount>>
    /\ UNCHANGED <<library, scanState, faults, restarts>>

\* A save or a query throws.
SaveFails(r) ==
    /\ call[r].at \in {"save", "count", "close"}
    /\ Fault
    /\ End(r, "failed")
    /\ UNCHANGED <<store, scanState, restarts>>

-----------------------------------------------------------------------------
\* UpdateJob, under _scanLock.
Report(r) ==
    /\ call[r].at = "report"
    /\ status' = IF job = r THEN call[r].verdict ELSE status
    /\ Goto(r, "untoken")
    /\ UNCHANGED <<store, job, token, source, faults, restarts>>

\* The finally block takes its own source out of the dictionary, and only
\* then disposes it.
Untoken_Any(r) ==
    /\ call[r].at = "untoken"
    /\ token' = None
    /\ Goto(r, "dispose")
    /\ UNCHANGED <<store, job, status, source, faults, restarts>>

Untoken(r) ==
    /\ call[r].at = "untoken"
    /\ token' = IF token = r THEN None ELSE token
    /\ Goto(r, "dispose")
    /\ UNCHANGED <<store, job, status, source, faults, restarts>>

Dispose(r) ==
    /\ call[r].at = "dispose"
    /\ source' = [source EXCEPT ![r] = "disposed"]
    /\ Goto(r, "done")
    /\ UNCHANGED <<store, job, token, status, faults, restarts>>

\* The process ends: the static dictionaries are empty when it is back.
Restart ==
    /\ restarts < MaxRestarts
    /\ restarts' = restarts + 1
    /\ job' = None
    /\ token' = None
    /\ status' = "none"
    /\ source' = [r \in Requests |-> "live"]
    /\ call' = [r \in Requests |-> IF call[r].at = "new" THEN New ELSE Call(call[r].op, "done")]
    /\ UNCHANGED <<store, faults>>

-----------------------------------------------------------------------------
\* What the background task of a scan does next.
Task(r) ==
    \/ \E found \in SUBSET Files : Enumerate(r, found)
    \/ EnumerateFails(r) \/ Interrupted(r)
    \/ \E f \in Files : Look(r, f) \/ LookFails(r, f)
    \/ LookedAll(r) \/ SaveItems(r) \/ Count(r) \/ Close(r) \/ SaveFails(r)
    \/ Report(r) \/ Untoken(r) \/ Dispose(r)

Next ==
    \/ \E r \in Requests :
          \/ \E op \in Ops : Arrive(r, op)
          \/ Register(r) \/ Signal(r) \/ Remove(r)
          \/ Task(r)
    \/ Restart

\* A task that has been started runs on: every await is of the disk, of the
\* database or of a request with the timeout of HttpClient.
Spec == Init /\ [][Next]_vars /\ \A r \in Requests : WF_vars(Task(r))
-----------------------------------------------------------------------------
\* The background task of a scan has not said yet how it ended.
Running(r) ==
    /\ call[r].op = "scan"
    /\ call[r].at \in {"enumerate", "look", "save", "count", "close", "report"}

\* "Check-and-register atomically so concurrent requests can't both start a
\* scan", nor a rescan overlap the one it has cancelled: what each background
\* scan decided to add before any of it is saved, no other has added too.
OneBackgroundCopy ==
    \A x, y \in rows :
        x[1] = y[1] /\ call[x[2]].op = "scan" /\ call[y[2]].op = "scan" => x = y

\* A cancellation finds the scan that runs, although the finally block of the
\* one before may still have to come, and never a source that is disposed.
CancelReaches ==
    /\ \A r \in Requests : Running(r) => token = r /\ job = r
    /\ token # None => source[token] # "disposed"

\* A library that is there has as many items as its last completed scan says,
\* whatever scans failed or were cancelled before, as long as the bridge,
\* which counts without the lock, does not scan it too.
CountRight ==
    /\ library
    /\ status = "completed"
    /\ \A r \in Requests : call[r].op # "bridge"
    => itemCount = Cardinality(rows)

\* Every scan comes to an end the next request can see, cancelled, failing,
\* or of a library that is deleted under it.
ScanEnds == Busy ~> ~Busy

\* What a background scan and the bridge do together: the bridge takes no lock
\* and its rows are added beside those of the background scan.
FilesOnce == \A x, y \in rows : x[1] = y[1] => x = y

\* A scan that was answered "cancelled" adds nothing more: it may, if the
\* cancellation comes after its last look at the token.
CancelStops ==
    [][\A r \in {q \in Requests : source[q] = "cancelled"} :
         \A f \in Files : <<f, r>> \in rows' => <<f, r>> \in rows]_vars
================================================================================
