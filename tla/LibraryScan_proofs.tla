-------------------------- MODULE LibraryScan_proofs --------------------------
(***************************************************************************)
(* What _scanLock is for, for any number of requests and files: scans in   *)
(* the background come one after the other, a cancellation finds the one   *)
(* that runs, and what a completed scan counted is what is there.          *)
(***************************************************************************)
EXTENDS LibraryScan, FiniteSetTheorems, TLAPS

\* The steps of the try block.
Trying == {"enumerate", "look", "save", "count", "close"}

\* Which operations reach which steps.
Placed(r) ==
    /\ call[r].at \in {"register", "save", "report", "untoken", "dispose"} => call[r].op = "scan"
    /\ call[r].at \in Trying => call[r].op \in {"scan", "bridge"}
    /\ call[r].at = "enumerate" => call[r].added = {}
    /\ call[r].at = "new" => call[r].op = "none"

\* A background scan owns the job, whose status shows it, and the token.
Owner(r) ==
    /\ Running(r) => token = r /\ job = r /\ Busy
    /\ token = r => Running(r) \/ (call[r].op = "scan" /\ call[r].at = "untoken")
    /\ source[r] = "disposed" => call[r].at = "done"

\* What a background scan is about to save no other has saved.
Fresh(r) ==
    call[r].op = "scan" /\ call[r].at \in {"look", "save"} =>
        \A x \in rows : x[1] \in call[r].added => call[x[2]].op # "scan"

\* What a background scan counted is what is there, and so it says.
Alone == \A r \in Requests : call[r].op # "bridge"
Counted(r) ==
    library /\ Alone /\ call[r].op = "scan" =>
        /\ call[r].at = "close" => call[r].counted = Cardinality(rows)
        /\ call[r].at = "report" /\ call[r].verdict = "completed" => itemCount = Cardinality(rows)

IInv ==
    /\ TypeOK
    /\ IsFiniteSet(rows)
    /\ \A x \in rows : call[x[2]].at # "new"
    /\ \A r \in Requests : Placed(r) /\ Owner(r) /\ Fresh(r) /\ Counted(r)
    /\ OneBackgroundCopy
    /\ CountRight

LEMMA CallType ==
    ASSUME NEW op \in AllOps \cup {"none"}, NEW at \in Steps
    PROVE  Call(op, at) \in CallState
BY DEF Call, CallState

LEMMA InitInv == Init => IInv
<1> SUFFICES ASSUME Init PROVE IInv
  OBVIOUS
<1>1. New \in CallState /\ New.at = "new" /\ New.op = "none" /\ New.added = {}
  BY CallType DEF New, Call, Steps
<1>2. TypeOK
  BY <1>1 DEF Init, TypeOK, Statuses
<1>3. IsFiniteSet(rows)
  BY FS_EmptySet DEF Init
<1>4. ASSUME NEW r \in Requests
      PROVE  Placed(r) /\ Owner(r) /\ Fresh(r) /\ Counted(r)
  <2>1. call[r] = New /\ token = None /\ source[r] = "live" /\ r # None
    BY ScanAssumption DEF Init
  <2> QED
    BY <1>1, <2>1 DEF Placed, Owner, Fresh, Counted, Running, Trying
<1>5. rows = {} /\ status = "none"
  BY DEF Init
<1> QED
  BY <1>2, <1>3, <1>4, <1>5 DEF IInv, OneBackgroundCopy, CountRight

-----------------------------------------------------------------------------
\* At most one background scan runs.
LEMMA OneRunning ==
    ASSUME IInv, NEW r \in Requests, NEW q \in Requests, Running(r), Running(q)
    PROVE  r = q
BY DEF IInv, Owner

\* A step of the try block of r, which goes to c.
Tries(r, c) ==
    /\ call' = [call EXCEPT ![r] = c]
    /\ c \in CallState /\ c.op = call[r].op
    /\ call[r].at \in Trying
    /\ IF call[r].op = "scan" THEN c.at \in (Trying \ {"enumerate"}) \cup {"report"}
       ELSE c.at \in {"look", "count", "close", "done"}
    /\ scanState' = scanState

LEMMA TryKeeps ==
    ASSUME IInv, NEW r \in Requests, NEW c, Tries(r, c)
    PROVE  /\ call' \in [Requests -> CallState]
           /\ \A q \in Requests : /\ Placed(q)' /\ Owner(q)'
                                  /\ call'[q].op = call[q].op
                                  /\ q # r => call'[q] = call[q]
           /\ call'[r] = c
           /\ Alone' = Alone
           /\ \A x \in rows : call'[x[2]].op = call[x[2]].op /\ call'[x[2]].at # "new"
<1>1. call \in [Requests -> CallState] /\ rows \subseteq Files \X Requests
  BY DEF IInv, TypeOK
<1>2. call' = [call EXCEPT ![r] = c] /\ c \in CallState /\ c.op = call[r].op
  BY DEF Tries
<1>3. call' \in [Requests -> CallState] /\ call'[r] = c
  BY <1>1, <1>2
<1>4. ASSUME NEW q \in Requests
      PROVE  call'[q].op = call[q].op /\ (q # r => call'[q] = call[q])
  BY <1>1, <1>2
<1>5. token' = token /\ job' = job /\ status' = status /\ source' = source
  BY DEF Tries, scanState
<1>6. ASSUME NEW q \in Requests
      PROVE  Placed(q)' /\ Owner(q)'
  <2>1. Placed(q) /\ Owner(q) /\ Placed(r) /\ Owner(r)
    BY DEF IInv
  <2>2. CASE q # r
    BY <1>4, <1>5, <2>1, <2>2 DEF Placed, Owner, Running, Busy
  <2>3. CASE q = r
    <3>1. Running(r) <=> Running(r)'
      BY <1>2, <1>3 DEF Tries, Running, Trying
    <3>2. Placed(r)'
      BY <1>2, <1>3, <2>1 DEF Tries, Placed, Trying
    <3>3. call[r].at # "done" /\ call[r].at # "untoken"
      BY DEF Tries, Trying
    <3> QED
      BY <1>5, <2>1, <2>3, <3>1, <3>2, <3>3 DEF Owner, Busy
  <2> QED
    BY <2>2, <2>3
<1>7. Alone' = Alone
  BY <1>4 DEF Alone
<1>8. ASSUME NEW x \in rows
      PROVE  call'[x[2]].op = call[x[2]].op /\ call'[x[2]].at # "new"
  <2>1. x[2] \in Requests /\ call[x[2]].at # "new"
    BY <1>1 DEF IInv
  <2>2. c.at # "new"
    BY DEF Tries, Trying
  <2> QED
    BY <1>3, <1>4, <2>1, <2>2
<1> QED
  BY <1>3, <1>4, <1>6, <1>7, <1>8

\* A try step that leaves the database alone.
LEMMA TryQuietly ==
    ASSUME IInv, NEW r \in Requests, NEW c, Tries(r, c), store' = store,
           faults' \in Nat, restarts' = restarts,
           c.op = "scan" /\ c.at \in {"look", "save"} =>
               \A x \in rows : x[1] \in c.added => call[x[2]].op # "scan",
           library /\ Alone /\ c.op = "scan" =>
               /\ c.at = "close" => c.counted = Cardinality(rows)
               /\ c.at = "report" => c.verdict # "completed"
    PROVE  IInv'
<1>1. library' = library /\ rows' = rows /\ itemCount' = itemCount
  BY DEF store
<1>2. token' = token /\ job' = job /\ status' = status /\ source' = source
  BY DEF Tries, scanState
<1> USE TryKeeps
<1>3. TypeOK'
  BY <1>1, <1>2 DEF IInv, TypeOK
<1>4. rows \subseteq Files \X Requests
  BY DEF IInv, TypeOK
<1>5. ASSUME NEW q \in Requests
      PROVE  Fresh(q)' /\ Counted(q)'
  <2>1. Fresh(q) /\ Counted(q)
    BY DEF IInv
  <2>2. CASE q # r
    BY <1>1, <1>4, <2>1, <2>2 DEF Fresh, Counted
  <2>3. CASE q = r
    BY <1>1, <1>4, <2>1, <2>3 DEF Fresh, Counted
  <2> QED
    BY <2>2, <2>3
<1>6. OneBackgroundCopy'
  BY <1>1 DEF IInv, OneBackgroundCopy
<1>7. CountRight'
  BY <1>1, <1>2 DEF IInv, CountRight, Alone
<1> QED
  BY <1>1, <1>3, <1>5, <1>6, <1>7 DEF IInv

\* The end of the try block.
Ends(r, v, c) ==
    /\ Tries(r, c)
    /\ IF c.op = "scan" THEN c.at = "report" /\ c.verdict = v ELSE c.at = "done"

LEMMA EndTries ==
    ASSUME IInv, NEW r \in Requests, NEW v \in Ended, call[r].at \in Trying,
           End(r, v), scanState' = scanState
    PROVE  \E c : Ends(r, v, c)
<1> DEFINE c == IF call[r].op = "scan" THEN [Call("scan", "report") EXCEPT !.verdict = v]
                ELSE Call(call[r].op, "done")
<1>1. call[r] \in CallState
  BY DEF IInv, TypeOK
<1>2. call[r].op \in AllOps \cup {"none"}
  BY <1>1 DEF CallState
<1>3. c \in CallState /\ c.op = call[r].op
  BY <1>2 DEF Call, CallState, Ended, Steps, AllOps
<1>4. c.at = IF call[r].op = "scan" THEN "report" ELSE "done"
  BY DEF Call
<1>5. call[r].op = "scan" => c.verdict = v
  BY DEF Call
<1>6. call' = [call EXCEPT ![r] = c]
  BY DEF End, Goto
<1> HIDE DEF c
<1> QED
  BY <1>3, <1>4, <1>5, <1>6 DEF Ends, Tries

LEMMA EndQuietly ==
    ASSUME IInv, NEW r \in Requests, NEW v \in Ended \ {"completed"}, call[r].at \in Trying,
           End(r, v), scanState' = scanState, store' = store, faults' \in Nat, restarts' = restarts
    PROVE  IInv'
<1>1. PICK c : Ends(r, v, c)
  BY EndTries
<1> QED
  BY <1>1, TryQuietly DEF Ends

LEMMA FaultType ==
    ASSUME IInv, Fault \/ faults' = faults
    PROVE  faults' \in Nat
BY DEF IInv, TypeOK, Fault

-----------------------------------------------------------------------------
\* The steps of the try block up to the save.
LEMMA EnumerateStep ==
    ASSUME IInv, NEW r \in Requests, NEW found \in SUBSET Files, Enumerate(r, found)
    PROVE  IInv'
<1> DEFINE c == [call[r] EXCEPT !.at = "look", !.todo = found]
<1>1. call[r] \in CallState /\ Placed(r)
  BY DEF IInv, TypeOK
<1>2. c \in CallState /\ c.op = call[r].op /\ c.at = "look" /\ c.added = call[r].added
  BY <1>1 DEF CallState, Steps
<1>3. call[r].at = "enumerate" /\ call' = [call EXCEPT ![r] = c]
  BY <1>1 DEF Enumerate, CallState
<1>4. c.added = {}
  BY <1>1, <1>2, <1>3 DEF Placed
<1> HIDE DEF c
<1>5. Tries(r, c)
  BY <1>2, <1>3 DEF Tries, Trying, Enumerate
<1> QED
  BY <1>2, <1>4, <1>5, FaultType, TryQuietly DEF Enumerate

LEMMA EnumerateEnds ==
    ASSUME IInv, NEW r \in Requests, EnumerateFails(r) \/ Interrupted(r) \/ SaveFails(r)
    PROVE  IInv'
<1>1. PICK v \in Ended \ {"completed"} : End(r, v)
  BY DEF EnumerateFails, Interrupted, SaveFails, Ended
<1>2. /\ call[r].at \in Trying
      /\ scanState' = scanState /\ store' = store /\ restarts' = restarts
      /\ Fault \/ faults' = faults
  BY DEF EnumerateFails, Interrupted, SaveFails, Trying
<1> QED
  BY <1>1, <1>2, FaultType, EndQuietly

LEMMA LookStep ==
    ASSUME IInv, NEW r \in Requests, NEW f \in Files, Look(r, f)
    PROVE  IInv'
<1> DEFINE c == [call[r] EXCEPT !.todo = @ \ {f}, !.added = IF Known(f) THEN @ ELSE @ \cup {f}]
<1>1. call[r] \in CallState /\ Fresh(r)
  BY DEF IInv, TypeOK
<1>2. c \in CallState /\ c.op = call[r].op /\ c.at = call[r].at
  BY <1>1 DEF CallState
<1>3. c.added = IF Known(f) THEN call[r].added ELSE call[r].added \cup {f}
  BY <1>1 DEF CallState
<1>4. call[r].at = "look" /\ call' = [call EXCEPT ![r] = c]
  BY <1>1 DEF Look, CallState
<1> HIDE DEF c
<1>5. c.op = "scan" => \A x \in rows : x[1] \in c.added => call[x[2]].op # "scan"
  <2> SUFFICES ASSUME c.op = "scan", NEW x \in rows, x[1] \in c.added
               PROVE  call[x[2]].op # "scan"
    OBVIOUS
  <2>1. CASE x[1] \in call[r].added
    BY <1>1, <1>2, <1>4, <2>1 DEF Fresh
  <2>2. CASE x[1] \notin call[r].added
    <3>1. x[1] = f /\ ~Known(f)
      BY <1>3, <2>2
    <3>2. x[2] \in Requests /\ x = <<x[1], x[2]>>
      BY DEF IInv, TypeOK
    <3> QED
      BY <3>1, <3>2 DEF Known
  <2> QED
    BY <2>1, <2>2
<1>6. Tries(r, c)
  BY <1>2, <1>4 DEF Tries, Trying, Look
<1> QED
  BY <1>2, <1>4, <1>5, <1>6, FaultType, TryQuietly DEF Look

LEMMA LookFailsStep ==
    ASSUME IInv, NEW r \in Requests, NEW f \in Files, LookFails(r, f)
    PROVE  IInv'
<1> DEFINE c == IF call[r].op = "scan" THEN [call[r] EXCEPT !.todo = @ \ {f}]
                ELSE Call(call[r].op, "done")
<1>1. call[r] \in CallState /\ Fresh(r)
  BY DEF IInv, TypeOK
<1>2. c \in CallState /\ c.op = call[r].op
  BY <1>1 DEF CallState, Call, Steps
<1>3. IF call[r].op = "scan" THEN c.at = call[r].at /\ c.added = call[r].added ELSE c.at = "done"
  BY <1>1 DEF CallState, Call
<1>4. call[r].at = "look" /\ call' = [call EXCEPT ![r] = c]
  BY <1>1 DEF LookFails, CallState, Goto
<1> HIDE DEF c
<1>5. Tries(r, c)
  BY <1>2, <1>3, <1>4 DEF Tries, Trying, LookFails
<1>6. c.op = "scan" => \A x \in rows : x[1] \in c.added => call[x[2]].op # "scan"
  BY <1>1, <1>2, <1>3, <1>4 DEF Fresh
<1> QED
  BY <1>2, <1>3, <1>4, <1>5, <1>6, FaultType, TryQuietly DEF LookFails

LEMMA LookedAllStep ==
    ASSUME IInv, NEW r \in Requests, LookedAll(r)
    PROVE  IInv'
<1> DEFINE c == [call[r] EXCEPT !.at = IF call[r].op = "scan" THEN "save" ELSE "count"]
<1>1. call[r] \in CallState /\ Fresh(r)
  BY DEF IInv, TypeOK
<1>2. /\ c \in CallState /\ c.op = call[r].op /\ c.added = call[r].added
      /\ c.at = IF call[r].op = "scan" THEN "save" ELSE "count"
  BY <1>1 DEF CallState, Steps
<1>3. call[r].at = "look" /\ call' = [call EXCEPT ![r] = c]
  BY <1>1 DEF LookedAll, CallState
<1> HIDE DEF c
<1>4. Tries(r, c)
  BY <1>2, <1>3 DEF Tries, Trying, LookedAll
<1>5. c.op = "scan" => \A x \in rows : x[1] \in c.added => call[x[2]].op # "scan"
  BY <1>1, <1>2, <1>3 DEF Fresh
<1> QED
  BY <1>2, <1>3, <1>4, <1>5, FaultType, TryQuietly DEF LookedAll

-----------------------------------------------------------------------------
\* What a request adds is finitely many rows of its own.
LEMMA EntriesType ==
    ASSUME IInv, NEW r \in Requests
    PROVE  /\ rows \cup Entries(r) \subseteq Files \X Requests
           /\ IsFiniteSet(rows \cup Entries(r))
           /\ \A x \in Entries(r) : x = <<x[1], r>> /\ x[2] = r /\ x[1] \in call[r].added
           /\ Cardinality(rows) \in Nat /\ Cardinality(call[r].added) \in Nat
<1>1. call[r].added \subseteq Files /\ rows \subseteq Files \X Requests /\ IsFiniteSet(rows)
  BY DEF IInv, TypeOK, CallState
<1>2. IsFiniteSet(call[r].added)
  BY <1>1, ScanAssumption, FS_Subset
<1>3. IsFiniteSet(Entries(r))
  BY <1>2, FS_Singleton, FS_Product DEF Entries
<1>4. IsFiniteSet(rows \cup Entries(r))
  BY <1>1, <1>3, FS_Union
<1>5. \A x \in Entries(r) : x = <<x[1], r>> /\ x[2] = r /\ x[1] \in call[r].added
  BY DEF Entries
<1>6. Cardinality(rows) \in Nat /\ Cardinality(call[r].added) \in Nat
  BY <1>1, <1>2, FS_CardinalityType
<1>7. Entries(r) \subseteq Files \X Requests
  BY <1>1 DEF Entries
<1> QED
  BY <1>1, <1>4, <1>5, <1>6, <1>7

\* The rows of a background scan are added to those of others, which it knew.
LEMMA SaveItemsStep ==
    ASSUME IInv, NEW r \in Requests, SaveItems(r)
    PROVE  IInv'
<1>1. call[r].at = "save" /\ call[r].op = "scan" /\ call[r] \in CallState
  BY DEF SaveItems, IInv, TypeOK, Placed
<1>2. CASE ~(library \/ call[r].added = {})
  <2>1. /\ End(r, "failed") /\ scanState' = scanState /\ store' = store
        /\ restarts' = restarts /\ faults' = faults
    BY <1>2 DEF SaveItems, store
  <2> QED
    BY <1>1, <2>1, FaultType, EndQuietly DEF Trying, Ended
<1>3. CASE library \/ call[r].added = {}
  <2> DEFINE c == Call("scan", "count")
  <2>1. rows' = rows \cup Entries(r) /\ call' = [call EXCEPT ![r] = c]
    BY <1>1, <1>3 DEF SaveItems, Goto
  <2>2. /\ library' = library /\ itemCount' = itemCount /\ scanState' = scanState
        /\ faults' = faults /\ restarts' = restarts
    BY <1>3 DEF SaveItems
  <2>3. c \in CallState /\ c.op = "scan" /\ c.at = "count"
    BY CallType DEF Call, AllOps, Steps
  <2> HIDE DEF c
  <2>4. Tries(r, c)
    BY <1>1, <2>1, <2>2, <2>3 DEF Tries, Trying
  <2>20. /\ call' \in [Requests -> CallState] /\ call'[r] = c /\ Alone' = Alone
        /\ \A q \in Requests : /\ Placed(q)' /\ Owner(q)'
                               /\ call'[q].op = call[q].op
                               /\ q # r => call'[q] = call[q]
        /\ \A x \in rows : call'[x[2]].op = call[x[2]].op /\ call'[x[2]].at # "new"
    BY <2>4, TryKeeps
  <2>21. /\ rows \cup Entries(r) \subseteq Files \X Requests /\ IsFiniteSet(rows \cup Entries(r))
        /\ \A x \in Entries(r) : x = <<x[1], r>> /\ x[2] = r /\ x[1] \in call[r].added
    BY EntriesType
  <2>5. token' = token /\ job' = job /\ status' = status /\ source' = source
    BY <2>2 DEF scanState
  <2>6. TypeOK'
    BY <2>1, <2>2, <2>20, <2>21, <2>5 DEF IInv, TypeOK
  <2>7. IsFiniteSet(rows')
    BY <2>1, <2>21
  <2>8. ASSUME NEW x \in rows'
        PROVE  /\ call'[x[2]].at # "new" /\ x[2] \in Requests
               /\ call'[x[2]].op = call[x[2]].op
    <3>1. CASE x \in rows
      BY <2>20, <3>1 DEF IInv, TypeOK
    <3>2. CASE x \in Entries(r)
      BY <1>1, <2>3, <2>20, <2>21, <3>2
    <3> QED
      BY <2>1, <3>1, <3>2
  <2>9. Running(r) /\ Owner(r)
    BY <1>1 DEF Running, IInv
  <2>10. ASSUME NEW q \in Requests
         PROVE  Fresh(q)' /\ Counted(q)'
    <3>1. CASE q = r
      BY <2>3, <2>20, <3>1 DEF Fresh, Counted
    <3>2. CASE q # r
      <4>1. ~Running(q) /\ call'[q] = call[q]
        BY <2>20, <2>9, <3>2, OneRunning
      <4> QED
        BY <4>1 DEF Fresh, Counted, Running
    <3> QED
      BY <3>1, <3>2
  <2>11. OneBackgroundCopy'
    <3> SUFFICES ASSUME NEW x \in rows', NEW y \in rows', x[1] = y[1],
                        call[x[2]].op = "scan", call[y[2]].op = "scan"
                 PROVE  x = y
      BY <2>8 DEF OneBackgroundCopy
    <3>1. Fresh(r) /\ OneBackgroundCopy
      BY DEF IInv
    <3>2. CASE x \in rows /\ y \in rows
      BY <3>1, <3>2 DEF OneBackgroundCopy
    <3>3. CASE x \in Entries(r) /\ y \in Entries(r)
      BY <2>21, <3>3
    <3>4. ~(x \in rows /\ y \in Entries(r)) /\ ~(y \in rows /\ x \in Entries(r))
      BY <1>1, <2>21, <3>1 DEF Fresh
    <3> QED
      BY <2>1, <3>2, <3>3, <3>4
  <2>12. CountRight'
    BY <2>5, <2>9 DEF CountRight, Owner, Busy
  <2> QED
    BY <2>20, <2>6, <2>7, <2>8, <2>10, <2>11, <2>12 DEF IInv
<1> QED
  BY <1>2, <1>3

LEMMA CountStep ==
    ASSUME IInv, NEW r \in Requests, Count(r)
    PROVE  IInv'
<1>1. /\ call[r].at = "count" /\ call[r] \in CallState
      /\ scanState' = scanState /\ store' = store /\ restarts' = restarts /\ faults' = faults
  BY DEF Count, IInv, TypeOK
<1>2. CASE call[r].op = "scan" /\ ~library
  <2>1. PICK c : Ends(r, "completed", c)
    BY <1>1, <1>2, EndTries DEF Count, Trying, Ended
  <2> QED
    BY <1>1, <1>2, <2>1, FaultType, TryQuietly DEF Ends
<1>3. CASE ~(call[r].op = "scan" /\ ~library)
  <2> DEFINE n == Cardinality(rows) + IF call[r].op = "bridge" THEN Cardinality(call[r].added) ELSE 0
             c == [call[r] EXCEPT !.at = "close", !.counted = n]
  <2>1. n \in Nat /\ (call[r].op = "scan" => n = Cardinality(rows))
    <3>1. Cardinality(rows) \in Nat /\ Cardinality(call[r].added) \in Nat
      BY EntriesType
    <3> QED
      BY <3>1
  <2>2. call' = [call EXCEPT ![r] = c]
    BY <1>1, <1>3 DEF Count, CallState
  <2> HIDE DEF n
  <2>3. c \in CallState /\ c.op = call[r].op /\ c.at = "close" /\ c.counted = n
    BY <1>1, <2>1 DEF CallState, Steps
  <2> HIDE DEF c
  <2>4. Tries(r, c)
    BY <1>1, <2>2, <2>3 DEF Tries, Trying
  <2> QED
    BY <1>1, <2>1, <2>3, <2>4, FaultType, TryQuietly
<1> QED
  BY <1>2, <1>3

\* The bridge adds its rows here: it is not alone, and no background scan.
LEMMA CloseStep ==
    ASSUME IInv, NEW r \in Requests, Close(r)
    PROVE  IInv'
<1>1. call[r].at = "close" /\ call[r].op \in {"scan", "bridge"} /\ call[r] \in CallState
  BY DEF Close, IInv, TypeOK, Placed, Trying
<1>2. CASE ~library
  <2>1. /\ End(r, "failed") /\ scanState' = scanState /\ store' = store
        /\ restarts' = restarts /\ faults' = faults
    BY <1>2 DEF Close, store
  <2> QED
    BY <1>1, <2>1, FaultType, EndQuietly DEF Trying, Ended
<1>3. CASE library
  <2>1. /\ itemCount' = call[r].counted
        /\ rows' = IF call[r].op = "bridge" THEN rows \cup Entries(r) ELSE rows
        /\ library' = library /\ scanState' = scanState
        /\ faults' = faults /\ restarts' = restarts
    BY <1>3 DEF Close
  <2>2. PICK c : Ends(r, "completed", c)
    BY <1>1, <1>3, EndTries DEF Close, Trying, Ended
  <2>3. Tries(r, c) /\ c.op = call[r].op /\ c.at \in {"report", "done"}
    BY <2>2 DEF Ends, Tries
  <2>20. /\ call' \in [Requests -> CallState] /\ call'[r] = c /\ Alone' = Alone
        /\ \A q \in Requests : /\ Placed(q)' /\ Owner(q)'
                               /\ call'[q].op = call[q].op
                               /\ q # r => call'[q] = call[q]
        /\ \A x \in rows : call'[x[2]].op = call[x[2]].op /\ call'[x[2]].at # "new"
    BY <2>3, TryKeeps
  <2>21. /\ rows \cup Entries(r) \subseteq Files \X Requests /\ IsFiniteSet(rows \cup Entries(r))
        /\ \A x \in Entries(r) : x = <<x[1], r>> /\ x[2] = r /\ x[1] \in call[r].added
    BY EntriesType
  <2>4. token' = token /\ job' = job /\ status' = status /\ source' = source
    BY <2>1 DEF scanState
  <2>5. rows' \subseteq Files \X Requests /\ IsFiniteSet(rows') /\ rows \subseteq rows'
    BY <2>1, <2>21 DEF IInv, TypeOK
  <2>6. TypeOK'
    BY <1>1, <2>1, <2>20, <2>4, <2>5 DEF IInv, TypeOK, CallState
  <2>7. ASSUME NEW x \in rows'
        PROVE  /\ call'[x[2]].at # "new" /\ call'[x[2]].op = call[x[2]].op
               /\ x \in rows \/ call[x[2]].op = "bridge"
    <3>1. CASE x \in rows
      BY <2>20, <3>1
    <3>2. CASE x \notin rows
      <4>1. x[2] = r /\ call[r].op = "bridge"
        BY <2>1, <2>21, <3>2
      <4>2. call'[r] = c
        BY <2>20
      <4> QED
        BY <2>3, <4>1, <4>2
    <3> QED
      BY <3>1, <3>2
  <2>8. ASSUME NEW q \in Requests
        PROVE  Fresh(q)'
    <3>1. Fresh(q)
      BY DEF IInv
    <3>2. CASE q = r
      BY <2>3, <2>20, <3>2 DEF Fresh
    <3>3. CASE q # r
      BY <2>20, <2>7, <3>1, <3>3 DEF Fresh
    <3> QED
      BY <3>2, <3>3
  <2>9. OneBackgroundCopy'
    BY <2>7 DEF IInv, OneBackgroundCopy
  <2>10. ASSUME Alone
         PROVE  call[r].op = "scan" /\ rows' = rows /\ itemCount' = Cardinality(rows) /\ Running(r)
    <3>1. call[r].op = "scan" /\ Counted(r)
      BY <1>1, <2>10 DEF Alone, IInv
    <3> QED
      BY <1>1, <1>3, <2>1, <2>10, <3>1 DEF Counted, Running
  <2>11. ASSUME NEW q \in Requests
         PROVE  Counted(q)'
    <3> SUFFICES ASSUME Alone, call'[q].op = "scan"
                 PROVE  /\ call'[q].at = "close" => call'[q].counted = Cardinality(rows')
                        /\ call'[q].at = "report" /\ call'[q].verdict = "completed" =>
                              itemCount' = Cardinality(rows')
      BY <2>20 DEF Counted
    <3>1. CASE q = r
      BY <2>3, <2>20, <2>10, <3>1
    <3>2. CASE q # r
      <4>1. ~Running(q) /\ call'[q] = call[q]
        BY <2>20, <2>10, <3>2, OneRunning
      <4> QED
        BY <4>1 DEF Running
    <3> QED
      BY <3>1, <3>2
  <2>12. CountRight'
    <3>1. CASE Alone'
      BY <2>20, <2>10, <3>1 DEF CountRight
    <3>2. CASE ~Alone'
      BY <3>2 DEF CountRight, Alone
    <3> QED
      BY <3>1, <3>2
  <2> QED
    BY <2>20, <2>5, <2>6, <2>7, <2>8, <2>9, <2>11, <2>12 DEF IInv
<1> QED
  BY <1>2, <1>3

-----------------------------------------------------------------------------
\* A step of r outside the try block, which goes to a call without data.
Passes(r, op, at) ==
    /\ call' = [call EXCEPT ![r] = Call(op, at)]
    /\ op \in AllOps \cup {"none"} /\ at \in Steps \ {"new"}
    /\ op = call[r].op \/ call[r].at = "new"
    /\ faults' \in Nat /\ restarts' = restarts

LEMMA PassKeeps ==
    ASSUME IInv, NEW r \in Requests, NEW op, NEW at, Passes(r, op, at)
    PROVE  /\ call' \in [Requests -> CallState]
           /\ call'[r].op = op /\ call'[r].at = at /\ call'[r].added = {}
           /\ \A q \in Requests \ {r} : call'[q] = call[q]
           /\ \A x \in rows : /\ call'[x[2]].op = call[x[2]].op /\ call'[x[2]].at # "new"
                              /\ x[2] \in Requests
           /\ Alone' => Alone
<1>1. call \in [Requests -> CallState] /\ rows \subseteq Files \X Requests
  BY DEF IInv, TypeOK
<1>2. /\ Call(op, at) \in CallState /\ Call(op, at).op = op /\ Call(op, at).at = at
      /\ Call(op, at).added = {}
  BY CallType DEF Passes, Call
<1>3. call' \in [Requests -> CallState] /\ call'[r] = Call(op, at)
  BY <1>1, <1>2 DEF Passes
<1>4. \A q \in Requests \ {r} : call'[q] = call[q]
  BY <1>1 DEF Passes
<1>5. ASSUME NEW x \in rows
      PROVE  call'[x[2]].op = call[x[2]].op /\ call'[x[2]].at # "new" /\ x[2] \in Requests
  <2>1. x[2] \in Requests /\ call[x[2]].at # "new"
    BY <1>1 DEF IInv
  <2> QED
    BY <1>2, <1>3, <1>4, <2>1 DEF Passes
<1>6. Alone' => Alone
  <2>1. call[r].at = "new" => call[r].op # "bridge"
    BY DEF IInv, Placed
  <2>2. call[r].at # "new" => call'[r].op = call[r].op
    BY <1>2, <1>3 DEF Passes
  <2> QED
    BY <1>4, <2>1, <2>2 DEF Alone
<1> QED
  BY <1>2, <1>3, <1>4, <1>5, <1>6

\* What such a step leaves of the invariant: the rows and their copies. The
\* rest is about who owns the job, and about the counts.
LEMMA PassRows ==
    ASSUME IInv, NEW r \in Requests, NEW op, NEW at, Passes(r, op, at),
           at \notin Trying \/ at = "enumerate", rows' \in {rows, {}}
    PROVE  /\ rows' \subseteq Files \X Requests /\ IsFiniteSet(rows')
           /\ \A x \in rows' : call'[x[2]].at # "new"
           /\ \A q \in Requests : Fresh(q)'
           /\ OneBackgroundCopy'
<1>1. rows \subseteq Files \X Requests /\ IsFiniteSet(rows) /\ OneBackgroundCopy
  BY DEF IInv, TypeOK
<1>2. IsFiniteSet(rows') /\ rows' \subseteq rows
  BY <1>1, FS_EmptySet
<1>3. \A x \in rows : /\ call'[x[2]].op = call[x[2]].op /\ call'[x[2]].at # "new"
  BY PassKeeps
<1>4. ASSUME NEW q \in Requests
      PROVE  Fresh(q)'
  <2>1. CASE q = r
    <3>1. call'[q].at = at
      BY <2>1, PassKeeps
    <3> QED
      BY <3>1 DEF Fresh, Trying
  <2>2. CASE q # r
    <3>1. call'[q] = call[q] /\ Fresh(q)
      BY <2>2, PassKeeps DEF IInv
    <3> QED
      BY <1>2, <1>3, <3>1 DEF Fresh
  <2> QED
    BY <2>1, <2>2
<1>5. OneBackgroundCopy'
  BY <1>1, <1>2, <1>3 DEF OneBackgroundCopy
<1> QED
  BY <1>1, <1>2, <1>3, <1>4, <1>5

\* A step that leaves job, token and sources alone keeps them, unless it is
\* one of the task.
LEMMA PassOwners ==
    ASSUME IInv, NEW r \in Requests, NEW op, NEW at, Passes(r, op, at),
           job' = job, token' = token,
           \A q \in Requests : source'[q] = "disposed" => source[q] = "disposed",
           Busy => Busy',
           call[r].at \in {"new", "register", "signal", "remove"},
           at \in {"register"} => op = "scan",
           at = "enumerate" => op = "bridge",
           at \in {"register", "signal", "remove", "enumerate", "done"}
    PROVE  \A q \in Requests : Placed(q)' /\ Owner(q)'
<1> SUFFICES ASSUME NEW q \in Requests PROVE Placed(q)' /\ Owner(q)'
  OBVIOUS
<1>1. Placed(q) /\ Owner(q)
  BY DEF IInv
<1>2. CASE q # r
  <2>1. call'[q] = call[q]
    BY <1>2, PassKeeps
  <2> QED
    BY <1>1, <2>1 DEF Placed, Owner, Running
<1>3. CASE q = r
  <2>1. call'[q].op = op /\ call'[q].at = at /\ call'[q].added = {}
    BY <1>3, PassKeeps
  <2>2. ~Running(q) /\ ~Running(q)'
    BY <1>3, <2>1 DEF Running
  <2>3. Placed(q)'
    BY <2>1 DEF Placed, Trying
  <2>4. source[q] # "disposed" /\ token # q
    BY <1>1, <1>3, <2>2 DEF Owner
  <2> QED
    BY <2>2, <2>3, <2>4 DEF Owner
<1> QED
  BY <1>2, <1>3

\* And a step that changes no count keeps them right.
LEMMA PassCounts ==
    ASSUME IInv, NEW r \in Requests, NEW op, NEW at, Passes(r, op, at),
           library' => library /\ rows' = rows /\ itemCount' = itemCount,
           at \notin {"close", "report"}
    PROVE  /\ \A q \in Requests : Counted(q)'
           /\ (status' = "completed" => status = "completed") => CountRight'
<1>1. Alone' => Alone
  BY PassKeeps
<1>2. ASSUME NEW q \in Requests
      PROVE  Counted(q)'
  <2>1. CASE q = r
    <3>1. call'[q].at = at
      BY <2>1, PassKeeps
    <3> QED
      BY <3>1 DEF Counted
  <2>2. CASE q # r
    <3>1. call'[q] = call[q] /\ Counted(q)
      BY <2>2, PassKeeps DEF IInv
    <3> QED
      BY <1>1, <3>1 DEF Counted
  <2> QED
    BY <2>1, <2>2
<1>3. (status' = "completed" => status = "completed") => CountRight'
  <2> SUFFICES ASSUME status = "completed", library', Alone'
               PROVE  itemCount' = Cardinality(rows')
    BY DEF CountRight, Alone
  <2> QED
    BY <1>1 DEF IInv, CountRight, Alone
<1> QED
  BY <1>2, <1>3

\* A request comes, is refused, or has its effect at once.
Aside(r, op, at) ==
    /\ Passes(r, op, at)
    /\ at \in {"register", "signal", "remove", "enumerate", "done"}
    /\ at = "register" => op = "scan"
    /\ at = "enumerate" => op = "bridge"
    /\ call[r].at \in {"new", "register", "signal", "remove"}
    /\ job' = job /\ token' = token
    /\ source' \in [Requests -> {"live", "cancelled", "disposed"}]
    /\ \A q \in Requests : source'[q] = "disposed" => source[q] = "disposed"
    /\ status' = status \/ (status = "scanning" /\ status' = "cancelling")
    /\ \/ library' = library /\ rows' = rows
       \/ library' = FALSE /\ rows' \in {rows, {}}
    /\ itemCount' = itemCount

LEMMA PassStep ==
    ASSUME IInv, NEW r \in Requests, NEW op, NEW at, Aside(r, op, at)
    PROVE  IInv'
<1> USE DEF Aside
<1>1. Busy => Busy'
  BY DEF Busy
<1>2. \A q \in Requests : Placed(q)' /\ Owner(q)'
  BY <1>1, PassOwners
<1>3. /\ rows' \subseteq Files \X Requests /\ IsFiniteSet(rows')
      /\ \A x \in rows' : call'[x[2]].at # "new"
      /\ \A q \in Requests : Fresh(q)'
      /\ OneBackgroundCopy'
  BY PassRows DEF Trying
<1>4. (\A q \in Requests : Counted(q)') /\ CountRight'
  BY PassCounts
<1>5. call' \in [Requests -> CallState]
  BY PassKeeps
<1>6. TypeOK'
  BY <1>3, <1>5 DEF IInv, TypeOK, Statuses, Passes
<1> QED
  BY <1>2, <1>3, <1>4, <1>6 DEF IInv

LEMMA ArriveStep ==
    ASSUME IInv, NEW r \in Requests, NEW op \in Ops, Arrive(r, op)
    PROVE  IInv'
<1> DEFINE at == IF library THEN First[op] ELSE "done"
<1>1. op \in AllOps
  BY ScanAssumption
<1>2. /\ at \in {"register", "signal", "remove", "enumerate", "done"}
      /\ at = "register" => op = "scan"
      /\ at = "enumerate" => op = "bridge"
  BY <1>1 DEF First, AllOps
<1>3. call' = [call EXCEPT ![r] = Call(op, at)]
  BY DEF Arrive
<1> HIDE DEF at
<1>4. /\ call[r].at = "new" /\ restarts' = restarts /\ faults' = faults
      /\ job' = job /\ token' = token /\ status' = status /\ source' = source
      /\ library' = library /\ rows' = rows /\ itemCount' = itemCount
  BY DEF Arrive, store, scanState
<1>5. Passes(r, op, at)
  BY <1>1, <1>2, <1>3, <1>4, FaultType DEF Passes, Steps
<1>6. source \in [Requests -> {"live", "cancelled", "disposed"}]
  BY DEF IInv, TypeOK
<1>7. Aside(r, op, at)
  BY <1>2, <1>4, <1>5, <1>6 DEF Aside
<1> QED
  BY <1>7, PassStep

\* A request that goes to a step of its own operation.
LEMMA GotoPasses ==
    ASSUME IInv, NEW r \in Requests, NEW at \in Steps \ {"new"}, Goto(r, at),
           faults' = faults, restarts' = restarts
    PROVE  Passes(r, call[r].op, at)
<1>1. call[r].op \in AllOps \cup {"none"}
  BY DEF IInv, TypeOK, CallState
<1> QED
  BY <1>1, FaultType DEF Passes, Goto

LEMMA SignalStep ==
    ASSUME IInv, NEW r \in Requests, Signal(r)
    PROVE  IInv'
<1>1. /\ call[r].at = "signal" /\ Goto(r, "done")
      /\ restarts' = restarts /\ faults' = faults /\ job' = job /\ token' = token
      /\ library' = library /\ rows' = rows /\ itemCount' = itemCount
      /\ status' = status \/ (status = "scanning" /\ status' = "cancelling")
  BY DEF Signal, store
<1>2. source \in [Requests -> {"live", "cancelled", "disposed"}]
  BY DEF IInv, TypeOK
<1>3. /\ source' \in [Requests -> {"live", "cancelled", "disposed"}]
      /\ \A q \in Requests : source'[q] = "disposed" => source[q] = "disposed"
  BY <1>2 DEF Signal
<1>4. Passes(r, call[r].op, "done")
  BY <1>1, GotoPasses DEF Steps
<1>5. Aside(r, call[r].op, "done")
  BY <1>1, <1>3, <1>4 DEF Aside
<1> QED
  BY <1>5, PassStep

LEMMA RemoveStep ==
    ASSUME IInv, NEW r \in Requests, Remove(r)
    PROVE  IInv'
<1>1. /\ call[r].at = "remove" /\ Goto(r, "done")
      /\ restarts' = restarts /\ faults' = faults /\ job' = job /\ token' = token
      /\ status' = status /\ source' = source
      /\ library' = FALSE /\ rows' \in {rows, {}} /\ itemCount' = itemCount
  BY DEF Remove, scanState
<1>2. source \in [Requests -> {"live", "cancelled", "disposed"}]
  BY DEF IInv, TypeOK
<1>3. Passes(r, call[r].op, "done")
  BY <1>1, GotoPasses DEF Steps
<1>4. Aside(r, call[r].op, "done")
  BY <1>1, <1>2, <1>3 DEF Aside
<1> QED
  BY <1>4, PassStep
-----------------------------------------------------------------------------
\* What is left to show of a step that changes who owns the job.
LEMMA OwnerStep ==
    ASSUME IInv, NEW r \in Requests, NEW op, NEW at, Passes(r, op, at),
           at \notin Trying \/ at = "enumerate", at # "report", store' = store,
           job' \in Requests \cup {None}, token' \in Requests \cup {None}, status' \in Statuses,
           source' \in [Requests -> {"live", "cancelled", "disposed"}],
           \A q \in Requests : Placed(q)' /\ Owner(q)',
           status' = "completed" => CountRight'
    PROVE  IInv'
<1>1. library' = library /\ rows' = rows /\ itemCount' = itemCount
  BY DEF store
<1>2. /\ rows' \subseteq Files \X Requests /\ IsFiniteSet(rows')
      /\ \A x \in rows' : call'[x[2]].at # "new"
      /\ \A q \in Requests : Fresh(q)'
      /\ OneBackgroundCopy'
  BY <1>1, PassRows
<1>3. \A q \in Requests : Counted(q)'
  BY <1>1, PassCounts DEF Trying
<1>4. TypeOK'
  BY <1>1, <1>2, PassKeeps DEF IInv, TypeOK, Passes
<1>5. CountRight'
  BY DEF CountRight
<1> QED
  BY <1>2, <1>3, <1>4, <1>5 DEF IInv

LEMMA RegisterStep ==
    ASSUME IInv, NEW r \in Requests, Register(r)
    PROVE  IInv'
<1>1. /\ call[r].at = "register" /\ call[r].op = "scan" /\ r # None
      /\ store' = store /\ faults' = faults /\ restarts' = restarts
  BY ScanAssumption DEF Register, IInv, Placed
<1>2. source \in [Requests -> {"live", "cancelled", "disposed"}]
  BY DEF IInv, TypeOK
<1>3. CASE Busy
  <2>1. /\ Goto(r, "done") /\ job' = job /\ token' = token /\ status' = status /\ source' = source
        /\ library' = library /\ rows' = rows /\ itemCount' = itemCount
    BY <1>1, <1>3 DEF Register, scanState, store
  <2>2. Passes(r, call[r].op, "done")
    BY <1>1, <2>1, GotoPasses DEF Steps
  <2>3. Aside(r, call[r].op, "done")
    BY <1>1, <1>2, <2>1, <2>2 DEF Aside
  <2> QED
    BY <2>3, PassStep
<1>4. CASE ~Busy
  <2>1. /\ Goto(r, "enumerate") /\ job' = r /\ token' = r /\ status' = "scanning" /\ source' = source
    BY <1>4 DEF Register
  <2>2. Passes(r, call[r].op, "enumerate")
    BY <1>1, <2>1, GotoPasses DEF Steps
  <2>3. /\ call'[r].op = "scan" /\ call'[r].at = "enumerate" /\ call'[r].added = {}
        /\ \A q \in Requests \ {r} : call'[q] = call[q]
    BY <1>1, <2>2, PassKeeps
  <2>4. ASSUME NEW q \in Requests
        PROVE  Placed(q)' /\ Owner(q)'
    <3>1. Placed(q) /\ Owner(q)
      BY DEF IInv
    <3>2. CASE q = r
      BY <1>1, <2>1, <2>3, <3>1, <3>2 DEF Placed, Owner, Running, Busy, Trying
    <3>3. CASE q # r
      <4>1. ~Running(q) /\ call'[q] = call[q]
        BY <1>4, <2>3, <3>1, <3>3 DEF Owner
      <4> QED
        BY <2>1, <3>1, <3>3, <4>1 DEF Placed, Owner, Running
    <3> QED
      BY <3>2, <3>3
  <2> QED
    BY <1>1, <1>2, <2>1, <2>2, <2>4, OwnerStep DEF Statuses
<1> QED
  BY <1>3, <1>4

LEMMA ReportStep ==
    ASSUME IInv, NEW r \in Requests, Report(r)
    PROVE  IInv'
<1>1. call[r].at = "report" /\ call[r].op = "scan" /\ Owner(r) /\ Counted(r)
  BY DEF Report, IInv, Placed
<1>2. Running(r) /\ job = r /\ token = r
  BY <1>1 DEF Owner, Running
<1>3. /\ store' = store /\ faults' = faults /\ restarts' = restarts /\ Goto(r, "untoken")
      /\ job' = job /\ token' = token /\ source' = source /\ status' = call[r].verdict
  BY <1>2 DEF Report
<1>4. Passes(r, call[r].op, "untoken")
  BY <1>3, GotoPasses DEF Steps
<1>5. /\ call'[r].op = "scan" /\ call'[r].at = "untoken" /\ (Alone' => Alone)
      /\ \A q \in Requests \ {r} : call'[q] = call[q]
  BY <1>1, <1>4, PassKeeps
<1>6. ASSUME NEW q \in Requests
      PROVE  Placed(q)' /\ Owner(q)'
  <2>1. Placed(q) /\ Owner(q)
    BY DEF IInv
  <2>2. CASE q = r
    BY <1>1, <1>3, <1>5, <2>1, <2>2 DEF Placed, Owner, Running, Trying
  <2>3. CASE q # r
    <3>1. ~Running(q) /\ call'[q] = call[q]
      BY <1>2, <1>5, <2>3, OneRunning
    <3> QED
      BY <1>2, <1>3, <2>1, <2>3, <3>1 DEF Placed, Owner, Running
  <2> QED
    BY <2>2, <2>3
<1>7. status' = "completed" => CountRight'
  BY <1>1, <1>3, <1>5 DEF Counted, CountRight, Alone, store
<1>8. status' \in Statuses /\ source' \in [Requests -> {"live", "cancelled", "disposed"}]
  BY <1>3 DEF IInv, TypeOK, CallState, Statuses, Ended
<1> QED
  BY <1>2, <1>3, <1>4, <1>6, <1>7, <1>8, OwnerStep DEF Trying

LEMMA UntokenStep ==
    ASSUME IInv, NEW r \in Requests, Untoken(r)
    PROVE  IInv'
<1>1. call[r].at = "untoken" /\ call[r].op = "scan" /\ r # None
  BY ScanAssumption DEF Untoken, IInv, Placed
<1>2. /\ store' = store /\ faults' = faults /\ restarts' = restarts /\ Goto(r, "dispose")
      /\ job' = job /\ status' = status /\ source' = source
      /\ token' = IF token = r THEN None ELSE token
  BY DEF Untoken
<1>3. Passes(r, call[r].op, "dispose")
  BY <1>2, GotoPasses DEF Steps
<1>4. /\ call'[r].op = "scan" /\ call'[r].at = "dispose" /\ (Alone' => Alone)
      /\ \A q \in Requests \ {r} : call'[q] = call[q]
  BY <1>1, <1>3, PassKeeps
<1>5. ASSUME NEW q \in Requests
      PROVE  Placed(q)' /\ Owner(q)'
  <2>1. Placed(q) /\ Owner(q) /\ q # None
    BY ScanAssumption DEF IInv
  <2>2. CASE q = r
    BY <1>1, <1>2, <1>4, <2>1, <2>2 DEF Placed, Owner, Running, Trying
  <2>3. CASE q # r
    <3>1. call'[q] = call[q] /\ (token' = q <=> token = q)
      BY <1>2, <1>4, <2>1, <2>3
    <3> QED
      BY <1>2, <2>1, <3>1 DEF Placed, Owner, Running, Busy
  <2> QED
    BY <2>2, <2>3
<1>6. status' = "completed" => CountRight'
  BY <1>2, <1>4 DEF IInv, CountRight, Alone, store
<1>7. /\ token' \in Requests \cup {None} /\ job' \in Requests \cup {None} /\ status' \in Statuses
      /\ source' \in [Requests -> {"live", "cancelled", "disposed"}]
  BY <1>2 DEF IInv, TypeOK
<1> QED
  BY <1>2, <1>3, <1>5, <1>6, <1>7, OwnerStep DEF Trying

LEMMA DisposeStep ==
    ASSUME IInv, NEW r \in Requests, Dispose(r)
    PROVE  IInv'
<1>1. call[r].at = "dispose" /\ call[r].op = "scan" /\ token # r
  BY DEF Dispose, IInv, Placed, Owner, Running
<1>2. /\ store' = store /\ faults' = faults /\ restarts' = restarts /\ Goto(r, "done")
      /\ job' = job /\ status' = status /\ token' = token
      /\ source' = [source EXCEPT ![r] = "disposed"]
  BY DEF Dispose
<1>3. Passes(r, call[r].op, "done")
  BY <1>2, GotoPasses DEF Steps
<1>4. /\ call'[r].op = "scan" /\ call'[r].at = "done" /\ (Alone' => Alone)
      /\ \A q \in Requests \ {r} : call'[q] = call[q]
  BY <1>1, <1>3, PassKeeps
<1>5. source \in [Requests -> {"live", "cancelled", "disposed"}]
  BY DEF IInv, TypeOK
<1>6. ASSUME NEW q \in Requests
      PROVE  Placed(q)' /\ Owner(q)'
  <2>1. Placed(q) /\ Owner(q)
    BY DEF IInv
  <2>2. CASE q = r
    BY <1>1, <1>2, <1>4, <2>1, <2>2 DEF Placed, Owner, Running, Trying
  <2>3. CASE q # r
    <3>1. call'[q] = call[q] /\ source'[q] = source[q]
      BY <1>2, <1>4, <1>5, <2>3
    <3> QED
      BY <1>2, <2>1, <3>1 DEF Placed, Owner, Running, Busy
  <2> QED
    BY <2>2, <2>3
<1>7. status' = "completed" => CountRight'
  BY <1>2, <1>4 DEF IInv, CountRight, Alone, store
<1>8. /\ token' \in Requests \cup {None} /\ job' \in Requests \cup {None} /\ status' \in Statuses
      /\ source' \in [Requests -> {"live", "cancelled", "disposed"}]
  BY <1>2, <1>5 DEF IInv, TypeOK
<1> QED
  BY <1>2, <1>3, <1>6, <1>7, <1>8, OwnerStep DEF Trying

LEMMA RestartStep ==
    ASSUME IInv, Restart
    PROVE  IInv'
<1>1. /\ job' = None /\ token' = None /\ status' = "none"
      /\ source' = [r \in Requests |-> "live"]
      /\ library' = library /\ rows' = rows /\ itemCount' = itemCount
      /\ faults' = faults /\ restarts' = restarts + 1
  BY DEF Restart, store
<1>2. ASSUME NEW r \in Requests
      PROVE  /\ call'[r] \in CallState /\ call'[r].added = {}
             /\ call'[r].op = call[r].op
             /\ call'[r].at = IF call[r].at = "new" THEN "new" ELSE "done"
  <2>1. call[r].op \in AllOps \cup {"none"} /\ Placed(r)
    BY DEF IInv, TypeOK, CallState
  <2>2. call'[r] = IF call[r].at = "new" THEN New ELSE Call(call[r].op, "done")
    BY DEF Restart
  <2>3. New \in CallState /\ New.op = "none" /\ New.at = "new" /\ New.added = {}
    BY CallType DEF New, Call, Steps
  <2>4. /\ Call(call[r].op, "done") \in CallState /\ Call(call[r].op, "done").added = {}
        /\ Call(call[r].op, "done").op = call[r].op /\ Call(call[r].op, "done").at = "done"
    BY <2>1, CallType DEF Call, Steps
  <2> QED
    BY <2>1, <2>2, <2>3, <2>4 DEF Placed
<1>3. call' \in [Requests -> CallState]
  BY <1>2 DEF Restart
<1>4. TypeOK'
  BY <1>1, <1>3 DEF IInv, TypeOK, Statuses
<1>5. ASSUME NEW r \in Requests
      PROVE  Placed(r)' /\ Owner(r)' /\ Fresh(r)' /\ Counted(r)'
  <2>1. Placed(r) /\ token' # r /\ source'[r] = "live"
    BY <1>1, ScanAssumption DEF IInv
  <2> QED
    BY <1>2, <2>1 DEF Placed, Owner, Fresh, Counted, Running, Trying
<1>6. \A x \in rows : x[2] \in Requests /\ call[x[2]].at # "new"
  BY DEF IInv, TypeOK
<1>7. OneBackgroundCopy' /\ CountRight' /\ \A x \in rows' : call'[x[2]].at # "new"
  BY <1>1, <1>2, <1>6 DEF IInv, OneBackgroundCopy, CountRight
<1> QED
  BY <1>1, <1>4, <1>5, <1>7 DEF IInv

-----------------------------------------------------------------------------
LEMMA NextInv == IInv /\ [Next]_vars => IInv'
<1> SUFFICES ASSUME IInv, [Next]_vars PROVE IInv'
  OBVIOUS
<1>1. CASE UNCHANGED vars
  BY <1>1 DEF vars, IInv, TypeOK, Placed, Owner, Fresh, Counted, Running, Busy, Alone,
              OneBackgroundCopy, CountRight
<1>2. ASSUME NEW r \in Requests, Task(r)
      PROVE  IInv'
  BY <1>2, EnumerateStep, EnumerateEnds, LookStep, LookFailsStep, LookedAllStep, SaveItemsStep,
     CountStep, CloseStep, ReportStep, UntokenStep, DisposeStep DEF Task
<1>3. ASSUME NEW r \in Requests, NEW op \in Ops, Arrive(r, op)
      PROVE  IInv'
  BY <1>3, ArriveStep
<1>4. ASSUME NEW r \in Requests, Register(r) \/ Signal(r) \/ Remove(r)
      PROVE  IInv'
  BY <1>4, RegisterStep, SignalStep, RemoveStep
<1>5. CASE Restart
  BY <1>5, RestartStep
<1> QED
  BY <1>1, <1>2, <1>3, <1>4, <1>5 DEF Next

LEMMA ScanInvariant == Spec => []IInv
<1>1. Init => IInv
  BY InitInv
<1>2. IInv /\ [Next]_vars => IInv'
  BY NextInv
<1> QED
  BY <1>1, <1>2, PTL DEF Spec

\* The state of the scans keeps its types (the statics and the rows of
\* LibrariesController).
THEOREM ScanTypeCorrect == Spec => []TypeOK
<1>1. IInv => TypeOK
  BY DEF IInv
<1> QED
  BY <1>1, ScanInvariant, PTL

\* However many requests scan, cancel, delete and restart: no two background
\* scans add the same file (Scan and RunScanBackground).
THEOREM BackgroundCopiesAreOne == Spec => []OneBackgroundCopy
<1>1. IInv => OneBackgroundCopy
  BY DEF IInv
<1> QED
  BY <1>1, ScanInvariant, PTL

\* The source in the dictionary is that of the scan that runs and is not
\* disposed (CancelScan and the finally block).
THEOREM CancellationReaches == Spec => []CancelReaches
<1>1. ASSUME IInv PROVE CancelReaches
  <2>1. \A r \in Requests : Running(r) => token = r /\ job = r
    BY <1>1 DEF IInv, Owner
  <2>2. token # None => token \in Requests
    BY <1>1 DEF IInv, TypeOK
  <2>3. \A r \in Requests : token = r => source[r] # "disposed"
    BY <1>1 DEF IInv, Owner, Running
  <2> QED
    BY <2>1, <2>2, <2>3 DEF CancelReaches
<1>2. IInv => CancelReaches
  BY <1>1
<1> QED
  BY <1>2, ScanInvariant, PTL

\* What a completed scan reports is what the library holds (ItemCount), if
\* only background scans add to it.
THEOREM CountsAreRight == Spec => []CountRight
<1>1. IInv => CountRight
  BY DEF IInv
<1> QED
  BY <1>1, ScanInvariant, PTL
================================================================================
