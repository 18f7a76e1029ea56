----------------------------- MODULE MCLibraryScan -----------------------------
(* A small library and a few requests about it. Requests that have not come   *)
(* are all alike, so they come in the order of their numbers.                 *)
EXTENDS LibraryScan

\* Bound: calls that are made once.
Once == {"delete", "bridge"}

InOrder ==
    \A r \in Requests :
        call[r].at = "new" /\ call'[r].at # "new" =>
            /\ \A q \in 1 .. r - 1 : call[q].at # "new"
            /\ \A q \in 1 .. r - 1 : call'[r].op \in Once => call[q].op # call'[r].op

ScanSpec == Init /\ [][Next /\ InOrder]_vars /\ \A r \in Requests : WF_vars(Task(r))
================================================================================
