------------------------------ MODULE Pages_proofs ------------------------------
(***************************************************************************)
(* What holds of every page, for any catalog and any number of calls: a    *)
(* flag that is a lock admits one call; a flag that every way out of its   *)
(* handlers lowers is down when the page is at rest; what the user types   *)
(* behind a loader stays; what is fetched again after a change is shown.   *)
(***************************************************************************)
EXTENDS PageClaims, SequenceTheorems, FiniteSetTheorems, TLAPS

\* A call is of a handler of the page, and awaits one of its requests.
Awaits(t) == t.h \in DOMAIN P.handlers /\ t.pc \in DOMAIN Handler(t.h).does

Calls ==
    /\ page \in DOMAIN Catalog
    /\ \E S : tasks \in Seq(S)
    /\ \A i \in DOMAIN tasks : Active(i) => Awaits(tasks[i])

\* The handlers that may be called: they have something to await.
Callable == {h \in DOMAIN P.handlers : Handler(h).does # <<>>}

\* One call holds a lock, and it is up meanwhile.
LockInv(f) ==
    /\ \A i, j \in Holders(f) : i = j
    /\ Holders(f) # {} => f \in flags

\* A flag that settles is up on behalf of a running call that will lower it, or
\* of a timer.
Ticks(f, fs) == \E t \in Clocks(P, f) : P.timers[t].needs \subseteq fs
SettleInv(f) ==
    f \in flags => \/ \E i \in DOMAIN tasks : Active(i) /\ Lowers(P, Handler(tasks[i].h), f)
                   \/ Ticks(f, flags)

IInv ==
    /\ Calls
    /\ \A f : Keeps(P, f) => LockInv(f)
    /\ \A f : Settles(P, f) => SettleInv(f)

-----------------------------------------------------------------------------
\* What a step may do to the calls, in terms of what goes on running and what
\* is new: those it stops, and the handlers it calls.
Carries(stops, new) ==
    /\ page' = page
    /\ \E S : tasks' \in Seq(S)
    /\ \A j \in DOMAIN tasks' : Active(j)' =>
          /\ Awaits(tasks'[j])
          /\ \/ j \in DOMAIN tasks /\ Active(j) /\ j \notin stops /\ tasks'[j].h = tasks[j].h
             \/ j \notin DOMAIN tasks /\ tasks'[j].h \in new
    /\ \A j \in DOMAIN tasks \ stops :
          Active(j) => j \in DOMAIN tasks' /\ Active(j)' /\ tasks'[j].h = tasks[j].h
    /\ \A h \in new : Handler(h).does # <<>> =>
          \E j \in DOMAIN tasks' : Active(j)' /\ tasks'[j].h = h

\* The lists of handlers of the page that is open.
LEMMA CallLists ==
    ASSUME page \in DOMAIN Catalog
    PROVE  /\ P.mount \in Seq(Callable)
           /\ \A k \in DOMAIN P.selects : P.selects[k] \in Seq(Callable)
           /\ \A k \in DOMAIN P.presses : P.presses[k] \in Seq(Callable)
           /\ \A h \in DOMAIN P.handlers :
                 Handler(h).then \in Seq(Callable) /\ Handler(h).rescue \in Seq(Callable)
<1>1. {h \in DOMAIN P.handlers : P.handlers[h].does # <<>>} = Callable
  BY DEF Callable, Handler
<1> QED
  BY <1>1, CatalogAssumption DEF P, Handler

\* Who is only pressed is in no list but that of the mount.
LEMMA PressedRules ==
    ASSUME NEW HS, Pressed(P, HS)
    PROVE  /\ \A k \in DOMAIN P.selects : Names(P.selects[k]) \cap HS = {}
           /\ \A k \in DOMAIN P.presses : Names(P.presses[k]) \cap HS = {}
           /\ \A h \in DOMAIN P.handlers :
                 (Names(Handler(h).then) \cup Names(Handler(h).rescue)) \cap HS = {}
           /\ DOMAIN P.timers \cap HS = {}
           /\ \A k, l \in DOMAIN P.mount : P.mount[k] \in HS /\ P.mount[l] \in HS => k = l
<1>1. \A k \in DOMAIN P.selects : Names(P.selects[k]) \subseteq PageCalls(P)
  BY DEF PageCalls
<1>2. \A k \in DOMAIN P.presses : Names(P.presses[k]) \subseteq PageCalls(P)
  BY DEF PageCalls
<1> QED
  BY <1>1, <1>2 DEF Pressed, NextCalls, Handler

\* One more task.
LEMMA AppendTasks ==
    ASSUME Calls, NEW t, tasks' = Append(tasks, t)
    PROVE  /\ \E S : tasks' \in Seq(S)
           /\ DOMAIN tasks' = DOMAIN tasks \cup {Len(tasks) + 1}
           /\ Len(tasks) + 1 \notin DOMAIN tasks
           /\ \A j \in DOMAIN tasks : tasks'[j] = tasks[j]
           /\ tasks'[Len(tasks) + 1] = t
<1>1. PICK S : tasks \in Seq(S)
  BY DEF Calls
<1>2. tasks \in Seq(S \cup {t}) /\ t \in S \cup {t}
  BY <1>1
<1>3. /\ tasks' \in Seq(S \cup {t})
      /\ Len(tasks') = Len(tasks) + 1
      /\ \A j \in 1 .. Len(tasks) : tasks'[j] = tasks[j]
      /\ tasks'[Len(tasks) + 1] = t
  BY <1>2
<1>4. DOMAIN tasks = 1 .. Len(tasks) /\ DOMAIN tasks' = 1 .. (Len(tasks) + 1) /\ Len(tasks) \in Nat
  BY <1>1, <1>3
<1> QED
  BY <1>3, <1>4

\* Several handlers called at once, after the tasks b.
LEMMA CalledTasks ==
    ASSUME Calls, NEW hs, NEW D, hs \in Seq(D), NEW s, NEW b,
           \E S : b \in Seq(S), DOMAIN b = DOMAIN tasks,
           tasks' = b \o Called(hs, s)
    PROVE  /\ \E S : tasks' \in Seq(S)
           /\ \A j \in DOMAIN tasks : j \in DOMAIN tasks' /\ tasks'[j] = b[j]
           /\ \A j \in DOMAIN tasks' \ DOMAIN tasks :
                 \E h \in Names(hs) : tasks'[j] = Task(h, s, shown)
           /\ \A h \in Names(hs) :
                 \E j \in DOMAIN tasks' \ DOMAIN tasks : tasks'[j] = Task(h, s, shown)
           /\ Len(hs) <= 1 => \A j, k \in DOMAIN tasks' \ DOMAIN tasks : j = k
<1> DEFINE c == Called(hs, s)
<1>1. /\ DOMAIN c = DOMAIN hs
      /\ \A k \in DOMAIN hs : c[k] = Task(hs[k], s, shown)
  BY DEF Called
<1>2. PICK S : b \in Seq(S)
  OBVIOUS
<1>3. PICK T : T = {c[k] : k \in DOMAIN c}
  OBVIOUS
<1>4. c \in Seq(T)
  <2>1. DOMAIN hs = 1 .. Len(hs) /\ Len(hs) \in Nat
    OBVIOUS
  <2>2. c \in [1 .. Len(hs) -> T]
    BY <1>1, <1>3, <2>1 DEF Called
  <2> QED
    BY <2>1, <2>2, SeqDef
<1> HIDE DEF c
<1>5. b \in Seq(S \cup T) /\ c \in Seq(S \cup T)
  BY <1>2, <1>4
<1>6. /\ tasks' \in Seq(S \cup T)
      /\ Len(tasks') = Len(b) + Len(c)
      /\ \A j \in 1 .. Len(b) : tasks'[j] = b[j]
      /\ \A k \in 1 .. Len(c) : tasks'[Len(b) + k] = c[k]
  BY <1>5 DEF c
<1>7. /\ DOMAIN b = 1 .. Len(b) /\ Len(b) \in Nat
      /\ DOMAIN c = 1 .. Len(c) /\ Len(c) \in Nat
      /\ DOMAIN tasks' = 1 .. (Len(b) + Len(c))
  BY <1>5, <1>6
<1>8. \A j \in DOMAIN tasks : j \in DOMAIN tasks' /\ tasks'[j] = b[j]
  BY <1>6, <1>7
<1>9. ASSUME NEW j \in DOMAIN tasks' \ DOMAIN tasks
      PROVE  j - Len(b) \in 1 .. Len(c) /\ tasks'[j] = c[j - Len(b)]
  <2>1. j - Len(b) \in 1 .. Len(c) /\ j = Len(b) + (j - Len(b))
    BY <1>7
  <2> QED
    BY <2>1, <1>6
<1>10. ASSUME NEW j \in DOMAIN tasks' \ DOMAIN tasks
       PROVE  \E h \in Names(hs) : tasks'[j] = Task(h, s, shown)
  BY <1>1, <1>7, <1>9 DEF Names
<1>11. ASSUME NEW h \in Names(hs)
       PROVE  \E j \in DOMAIN tasks' \ DOMAIN tasks : tasks'[j] = Task(h, s, shown)
  <2>1. PICK k \in DOMAIN hs : h = hs[k]
    BY DEF Names
  <2>2. k \in 1 .. Len(c)
    BY <1>1, <1>7, <2>1
  <2>3. Len(b) + k \in DOMAIN tasks' \ DOMAIN tasks
    BY <1>7, <2>2
  <2> QED
    BY <1>1, <1>6, <2>1, <2>2, <2>3
<1>12. ASSUME Len(hs) <= 1, NEW j \in DOMAIN tasks' \ DOMAIN tasks, NEW k \in DOMAIN tasks' \ DOMAIN tasks
       PROVE  j = k
  <2>1. Len(c) <= 1
    <3>1. DOMAIN hs = 1 .. Len(hs) /\ Len(hs) \in Nat
      OBVIOUS
    <3>2. 1 .. Len(c) = 1 .. Len(hs)
      BY <1>1, <1>7, <3>1
    <3>3. Len(c) > Len(hs) => Len(c) \in 1 .. Len(c) /\ Len(c) \notin 1 .. Len(hs)
      BY <1>7, <3>1
    <3>4. ~(Len(c) > Len(hs))
      BY <3>2, <3>3
    <3> QED
      BY <1>7, <1>12, <3>1, <3>4
  <2>2. j - Len(b) = 1 /\ k - Len(b) = 1
    BY <1>7, <1>9, <1>12, <2>1
  <2> QED
    BY <1>7, <2>2
<1> QED
  BY <1>6, <1>8, <1>10, <1>11, <1>12

\* What is called awaits its first request.
LEMMA FirstRequest ==
    ASSUME Calls, NEW h \in Callable, NEW s, NEW now
    PROVE  /\ Awaits(Task(h, s, now))
           /\ Task(h, s, now).h = h
           /\ Task(h, s, now).at = "asked"
<1>1. PICK S : Handler(h).does \in Seq(S)
  BY CatalogAssumption DEF Calls, Callable, P, Handler
<1>2. Handler(h).does # <<>>
  BY DEF Callable
<1>3. 1 \in DOMAIN Handler(h).does
  BY <1>1, <1>2
<1> QED
  BY <1>3 DEF Callable, Awaits, Task

\* After a request that is not the last there is one more.
LEMMA NextRequest ==
    ASSUME Calls, NEW i \in DOMAIN tasks, Active(i)
    PROVE  /\ tasks[i].pc \in Nat \ {0}
           /\ ~Last(i) => tasks[i].pc + 1 \in DOMAIN Handler(tasks[i].h).does
           /\ Last(i) => \A k \in DOMAIN Handler(tasks[i].h).does : k \in Nat /\ k <= tasks[i].pc
           /\ \A k \in DOMAIN Handler(tasks[i].h).does : k \in Nat \ {0}
<1> DEFINE does == Handler(tasks[i].h).does
<1>1. Awaits(tasks[i]) /\ page \in DOMAIN Catalog
  BY DEF Calls
<1>2. PICK S : does \in Seq(S)
  BY <1>1, CatalogAssumption DEF Awaits, P, Handler
<1>3. DOMAIN does = 1 .. Len(does) /\ Len(does) \in Nat
  BY <1>2
<1>4. tasks[i].pc \in DOMAIN does
  BY <1>1 DEF Awaits
<1> HIDE DEF does
<1>5. Last(i) <=> tasks[i].pc = Len(does)
  BY DEF Last, does
<1> QED
  BY <1>3, <1>4, <1>5 DEF does

LEMMA AppendCarries ==
    ASSUME Calls, NEW h \in DOMAIN P.handlers, NEW t, page' = page, tasks' = Append(tasks, t),
           t.at = "gone" => Handler(h).does = <<>>,
           t.at # "gone" => t.h = h /\ Awaits(t)
    PROVE  /\ Carries({}, {h})
           /\ \A j, k \in DOMAIN tasks' \ DOMAIN tasks : j = k
<1>1. /\ \E S : tasks' \in Seq(S)
      /\ DOMAIN tasks' = DOMAIN tasks \cup {Len(tasks) + 1}
      /\ Len(tasks) + 1 \notin DOMAIN tasks
      /\ \A j \in DOMAIN tasks : tasks'[j] = tasks[j]
      /\ tasks'[Len(tasks) + 1] = t
  BY AppendTasks
<1>2. ASSUME NEW j \in DOMAIN tasks', Active(j)'
      PROVE  /\ Awaits(tasks'[j])
             /\ \/ j \in DOMAIN tasks /\ Active(j) /\ tasks'[j].h = tasks[j].h
                \/ j \notin DOMAIN tasks /\ tasks'[j].h \in {h}
  <2>1. CASE j \in DOMAIN tasks
    BY <2>1, <1>1, <1>2 DEF Active, Calls
  <2>2. CASE j = Len(tasks) + 1
    BY <2>2, <1>1, <1>2 DEF Active
  <2> QED
    BY <2>1, <2>2, <1>1
<1>3. \A j \in DOMAIN tasks : Active(j) => j \in DOMAIN tasks' /\ Active(j)' /\ tasks'[j].h = tasks[j].h
  BY <1>1 DEF Active
<1>4. Handler(h).does # <<>> => \E j \in DOMAIN tasks' : Active(j)' /\ tasks'[j].h = h
  BY <1>1 DEF Active
<1>5. \A j, k \in DOMAIN tasks' \ DOMAIN tasks : j = k
  BY <1>1
<1> QED
  BY <1>1, <1>2, <1>3, <1>4, <1>5 DEF Carries

LEMMA CalledCarries ==
    ASSUME Calls, NEW hs \in Seq(Callable), NEW s, NEW b, NEW stops, page' = page,
           \E S : b \in Seq(S), DOMAIN b = DOMAIN tasks,
           tasks' = b \o Called(hs, s),
           \A j \in DOMAIN tasks : /\ b[j].at # "gone" => Active(j) /\ j \notin stops /\ b[j] = tasks[j]
                                   /\ Active(j) /\ j \notin stops => b[j].at # "gone"
    PROVE  Carries(stops, Names(hs))
<1>1. /\ \E S : tasks' \in Seq(S)
      /\ \A j \in DOMAIN tasks : j \in DOMAIN tasks' /\ tasks'[j] = b[j]
      /\ \A j \in DOMAIN tasks' \ DOMAIN tasks :
            \E h \in Names(hs) : tasks'[j] = Task(h, s, shown)
      /\ \A h \in Names(hs) :
            \E j \in DOMAIN tasks' \ DOMAIN tasks : tasks'[j] = Task(h, s, shown)
  <2>1. hs \in Seq(Callable)
    OBVIOUS
  <2> QED
    BY SMTT(30), <2>1, CalledTasks
<1>2. \A h \in Names(hs) : /\ Awaits(Task(h, s, shown))
                           /\ Task(h, s, shown).h = h
                           /\ Task(h, s, shown).at = "asked"
  <2>1. Names(hs) \subseteq Callable
    BY DEF Names
  <2> QED
    BY <2>1, FirstRequest
<1>3. ASSUME NEW j \in DOMAIN tasks', Active(j)'
      PROVE  /\ Awaits(tasks'[j])
             /\ \/ j \in DOMAIN tasks /\ Active(j) /\ j \notin stops /\ tasks'[j].h = tasks[j].h
                \/ j \notin DOMAIN tasks /\ tasks'[j].h \in Names(hs)
  <2>1. CASE j \in DOMAIN tasks
    BY <2>1, <1>1, <1>3 DEF Active, Calls
  <2>2. CASE j \notin DOMAIN tasks
    BY <2>2, <1>1, <1>2
  <2> QED
    BY <2>1, <2>2
<1>4. \A j \in DOMAIN tasks \ stops :
         Active(j) => j \in DOMAIN tasks' /\ Active(j)' /\ tasks'[j].h = tasks[j].h
  BY <1>1 DEF Active
<1>5. ASSUME NEW h \in Names(hs)
      PROVE  \E j \in DOMAIN tasks' : Active(j)' /\ tasks'[j].h = h
  BY SMTT(30), <1>1, <1>2 DEF Active
<1> QED
  BY <1>1, <1>3, <1>4, <1>5 DEF Carries

LEMMA BeginCarries ==
    ASSUME Calls, NEW h \in DOMAIN P.handlers, NEW i, Begin(h, i), page' = page
    PROVE  /\ \E new \in {{}, {h}} : Carries({}, new) /\ (new = {} => Handler(h).does = <<>>)
           /\ \A j, k \in DOMAIN tasks' \ DOMAIN tasks : j = k
<1> DEFINE H == Handler(h)
<1>1. CASE Instant(h)
  <2>1. tasks' = tasks /\ H.does = <<>>
    BY <1>1 DEF Begin, Instant
  <2>2. Carries({}, {})
    BY <2>1 DEF Carries, Calls, Active
  <2> QED
    BY <2>1, <2>2
<1>2. CASE ~Instant(h)
  <2> DEFINE t == IF H.does = <<>> THEN Gone ELSE Task(h, sel, shown')
  <2>1. tasks' = Append(tasks, t)
    BY <1>2 DEF Begin
  <2>2. (t.at = "gone" => H.does = <<>>) /\ (t.at # "gone" => t.h = h /\ Awaits(t))
    <3>1. CASE H.does = <<>>
      BY <3>1 DEF Gone
    <3>2. CASE H.does # <<>>
      <4>1. h \in Callable /\ t = Task(h, sel, shown')
        BY <3>2 DEF Callable
      <4> HIDE DEF t
      <4> QED
        BY <4>1, FirstRequest
    <3> QED
      BY <3>1, <3>2
  <2> HIDE DEF t
  <2> QED
    BY <2>1, <2>2, AppendCarries
<1> QED
  BY <1>1, <1>2

LEMMA CallAllCarries ==
    ASSUME Calls, NEW k, NEW hs \in Seq(Callable), NEW s, CallAll(k, hs, s)
    PROVE  page' = page /\ Carries({}, Names(hs))
<1>1. page' = page
  BY DEF CallAll
<1>2. PICK S : tasks \in Seq(S)
  BY DEF Calls
<1>3. tasks' = tasks \o Called(hs, s)
  BY DEF CallAll
<1>4. \A j \in DOMAIN tasks : tasks[j].at # "gone" <=> Active(j)
  BY DEF Active
<1>5. hs \in Seq(Callable)
  OBVIOUS
<1> QED
  BY <1>1, <1>2, <1>3, <1>4, <1>5, CalledCarries

LEMMA MoreTasks ==
    ASSUME Calls, NEW hs \in Seq(Callable), NEW s, tasks' = tasks \o Called(hs, s)
    PROVE  /\ \A j \in DOMAIN tasks : j \in DOMAIN tasks' /\ tasks'[j] = tasks[j]
           /\ \A j \in DOMAIN tasks' \ DOMAIN tasks :
                 \E h \in Names(hs) : tasks'[j] = Task(h, s, shown)
<1>1. PICK S : tasks \in Seq(S)
  BY DEF Calls
<1>2. hs \in Seq(Callable)
  OBVIOUS
<1>3. /\ \E T : tasks' \in Seq(T)
      /\ \A j \in DOMAIN tasks : j \in DOMAIN tasks' /\ tasks'[j] = tasks[j]
      /\ \A j \in DOMAIN tasks' \ DOMAIN tasks :
            \E h \in Names(hs) : tasks'[j] = Task(h, s, shown)
      /\ \A h \in Names(hs) :
            \E j \in DOMAIN tasks' \ DOMAIN tasks : tasks'[j] = Task(h, s, shown)
      /\ Len(hs) <= 1 => \A j, k \in DOMAIN tasks' \ DOMAIN tasks : j = k
  BY <1>1, <1>2, CalledTasks
<1> QED
  BY <1>3

\* A call that ends is gone, and those it calls are new.
LEMMA EndTasks ==
    ASSUME Calls, NEW i \in DOMAIN tasks, NEW lowers, NEW raises, NEW calls,
           calls \in Seq(Callable), End(i, lowers, raises, calls)
    PROVE  /\ \E S : tasks' \in Seq(S)
           /\ \A j \in DOMAIN tasks : j \in DOMAIN tasks' /\ tasks'[j] = IF j = i THEN Gone ELSE tasks[j]
           /\ \A j \in DOMAIN tasks' \ DOMAIN tasks :
                 \E h \in Names(calls) : tasks'[j] = Task(h, tasks[i].sel, shown)
           /\ \A h \in Names(calls) :
                 \E j \in DOMAIN tasks' \ DOMAIN tasks : tasks'[j] = Task(h, tasks[i].sel, shown)
           /\ Len(calls) <= 1 => \A j, k \in DOMAIN tasks' \ DOMAIN tasks : j = k
<1>1. PICK S : tasks \in Seq(S)
  BY DEF Calls
<1> DEFINE b == [tasks EXCEPT ![i] = Gone]
<1>2. tasks' = b \o Called(calls, tasks[i].sel)
  BY DEF End
<1>3. b \in Seq(S \cup {Gone})
  <2>1. tasks \in Seq(S \cup {Gone})
    BY <1>1
  <2> QED
    BY <2>1
<1>4. DOMAIN b = DOMAIN tasks /\ \A j \in DOMAIN tasks : b[j] = IF j = i THEN Gone ELSE tasks[j]
  OBVIOUS
<1> HIDE DEF b
<1>5. /\ \E T : tasks' \in Seq(T)
      /\ \A j \in DOMAIN tasks : j \in DOMAIN tasks' /\ tasks'[j] = b[j]
      /\ \A j \in DOMAIN tasks' \ DOMAIN tasks :
            \E h \in Names(calls) : tasks'[j] = Task(h, tasks[i].sel, shown)
      /\ \A h \in Names(calls) :
            \E j \in DOMAIN tasks' \ DOMAIN tasks : tasks'[j] = Task(h, tasks[i].sel, shown)
      /\ Len(calls) <= 1 => \A j, k \in DOMAIN tasks' \ DOMAIN tasks : j = k
  BY <1>2, <1>3, <1>4, CalledTasks
<1> QED
  BY <1>4, <1>5

LEMMA EndCarries ==
    ASSUME Calls, NEW i \in DOMAIN tasks, Active(i), page' = page,
           NEW lowers, NEW raises, NEW calls, calls \in Seq(Callable), End(i, lowers, raises, calls)
    PROVE  Carries({i}, Names(calls))
<1>1. PICK S : tasks \in Seq(S)
  BY DEF Calls
<1> DEFINE b == [tasks EXCEPT ![i] = Gone]
<1>2. tasks' = b \o Called(calls, tasks[i].sel)
  BY DEF End
<1>3. b \in Seq(S \cup {Gone})
  <2>1. tasks \in Seq(S \cup {Gone})
    BY <1>1
  <2> QED
    BY <2>1
<1>4. DOMAIN b = DOMAIN tasks
  OBVIOUS
<1>5. \A j \in DOMAIN tasks : /\ b[j].at # "gone" => Active(j) /\ j \notin {i} /\ b[j] = tasks[j]
                              /\ Active(j) /\ j \notin {i} => b[j].at # "gone"
  BY DEF Active, Gone
<1> HIDE DEF b
<1> QED
  BY <1>2, <1>3, <1>4, <1>5, CalledCarries

\* A call that goes on keeps its handler; so do all others.
LEMMA MovedCarries ==
    ASSUME Calls, NEW i \in DOMAIN tasks, NEW at, NEW pc, NEW got, page' = page,
           Active(i), at # "gone", pc \in DOMAIN Handler(tasks[i].h).does,
           tasks' = [tasks EXCEPT ![i] = Moved(@, at, pc, got)]
    PROVE  Carries({}, {})
<1>1. PICK S : tasks \in Seq(S)
  BY DEF Calls
<1> DEFINE m == Moved(tasks[i], at, pc, got)
<1>2. m.at = at /\ m.h = tasks[i].h /\ m.pc = pc
  BY DEF Moved
<1>3. tasks' = [tasks EXCEPT ![i] = m]
  OBVIOUS
<1> HIDE DEF m
<1>4. /\ tasks' \in Seq(S \cup {m})
      /\ DOMAIN tasks' = DOMAIN tasks
      /\ \A j \in DOMAIN tasks : tasks'[j] = IF j = i THEN m ELSE tasks[j]
  <2>1. tasks \in Seq(S \cup {m})
    BY <1>1
  <2> QED
    BY <2>1, <1>3
<1>5. Awaits(tasks[i])
  BY DEF Calls
<1>6. Awaits(m)
  BY <1>2, <1>5 DEF Awaits
<1>7. \A j \in DOMAIN tasks : Active(j) => Awaits(tasks'[j])
  BY <1>4, <1>6 DEF Calls
<1> QED
  BY <1>2, <1>4, <1>7 DEF Carries, Active

-----------------------------------------------------------------------------
\* What carries the calls keeps the invariant, if the flags follow.
HoldersOf(f) == {h \in DOMAIN P.handlers : f \in Holds(Handler(h))}

LEMMA CallsStep ==
    ASSUME Calls, NEW stops, NEW new \in SUBSET DOMAIN P.handlers, Carries(stops, new)
    PROVE  Calls'
<1>1. P' = P /\ page' \in DOMAIN Catalog
  BY DEF Calls, Carries, P
<1>2. ASSUME NEW j \in DOMAIN tasks', Active(j)'
      PROVE  Awaits(tasks[j])'
  <2>1. Awaits(tasks'[j])
    BY <1>2 DEF Carries
  <2> QED
    BY <1>1, <2>1 DEF Awaits, Handler
<1> QED
  BY <1>1, <1>2 DEF Calls, Carries

\* No call that takes the lock is new.
LEMMA LockStep ==
    ASSUME NEW f, LockInv(f), NEW stops, NEW new, Carries(stops, new),
           \A h \in new : f \notin Holds(Handler(h)),
           f \in flags /\ (\A i \in Holders(f) : i \notin stops) => f \in flags'
    PROVE  LockInv(f)'
<1>1. P' = P /\ \A h : Handler(h)' = Handler(h)
  BY DEF Carries, P, Handler
<1>2. \A j \in Holders(f)' : j \in Holders(f) /\ j \notin stops
  BY <1>1 DEF Carries, Holders, Holds, Active
<1>3. ASSUME NEW j \in Holders(f)'
      PROVE  f \in flags'
  BY <1>2, <1>3 DEF LockInv
<1> QED
  BY <1>2, <1>3 DEF LockInv

\* The lock is free and taken.
LEMMA LockTaken ==
    ASSUME NEW f, LockInv(f), NEW stops, NEW new, Carries(stops, new),
           f \notin flags, f \in flags',
           \A j, k \in DOMAIN tasks' \ DOMAIN tasks : j = k
    PROVE  LockInv(f)'
<1>1. P' = P /\ \A h : Handler(h)' = Handler(h)
  BY DEF Carries, P, Handler
<1>2. Holders(f) = {}
  BY DEF LockInv
<1>3. \A j \in Holders(f)' : j \in DOMAIN tasks' \ DOMAIN tasks
  BY <1>1, <1>2 DEF Carries, Holders, Active
<1> QED
  BY <1>3 DEF LockInv

LEMMA SettleStep ==
    ASSUME NEW f, SettleInv(f), NEW stops, NEW new, Carries(stops, new),
           f \in flags' =>
              \/ Ticks(f, flags')
              \/ \E h \in new : Lowers(P, Handler(h), f) /\ Handler(h).does # <<>>
              \/ /\ f \in flags /\ ~Ticks(f, flags)
                 /\ \A i \in stops : ~Lowers(P, Handler(tasks[i].h), f)
    PROVE  SettleInv(f)'
<1>1. P' = P /\ \A h : Handler(h)' = Handler(h)
  BY DEF Carries, P, Handler
<1> SUFFICES ASSUME f \in flags', ~Ticks(f, flags')
             PROVE  \E j \in DOMAIN tasks' : Active(j)' /\ Lowers(P, Handler(tasks'[j].h), f)
  BY <1>1 DEF SettleInv, Ticks
<1>2. CASE f \in flags /\ ~Ticks(f, flags) /\ \A i \in stops : ~Lowers(P, Handler(tasks[i].h), f)
  <2>1. PICK i \in DOMAIN tasks : Active(i) /\ Lowers(P, Handler(tasks[i].h), f)
    BY <1>2 DEF SettleInv
  <2>2. i \notin stops
    BY <1>2, <2>1
  <2> QED
    BY <2>1, <2>2 DEF Carries
<1>3. CASE \E h \in new : Lowers(P, Handler(h), f) /\ Handler(h).does # <<>>
  BY <1>3 DEF Carries
<1> QED
  BY <1>2, <1>3

\* A handler that leaves f up leaves the timers running that lower it.
LEMMA ClocksKept ==
    ASSUME NEW f, NEW h \in DOMAIN P.handlers, NEW fs, f \notin fs,
           LET H == Handler(h)
           IN  fs \in {H.drops, H.busy \cup H.okLowers, H.busy \cup H.failLowers}
    PROVE  \A t \in Clocks(P, f) : fs \cap P.timers[t].needs = {}
  BY DEF Clocks, Handler

LEMMA FreesLowers ==
    ASSUME NEW H, NEW f \in Frees(H)
    PROVE  Lowers(P, H, f)
  BY DEF Frees, Lowers

-----------------------------------------------------------------------------
\* A handler begins. A lock it takes is free.
LEMMA BeginStep ==
    ASSUME IInv, NEW h \in DOMAIN P.handlers, NEW i, Begin(h, i), page' = page,
           \A f : Keeps(P, f) /\ f \in Holds(Handler(h)) => f \notin flags
    PROVE  IInv'
<1> DEFINE H == Handler(h)
<1>1. /\ \E new \in {{}, {h}} : Carries({}, new) /\ (new = {} => H.does = <<>>)
      /\ \A j, k \in DOMAIN tasks' \ DOMAIN tasks : j = k
  BY BeginCarries DEF IInv
<1>2. PICK new \in {{}, {h}} : Carries({}, new) /\ (new = {} => H.does = <<>>)
  BY <1>1
<1>3. flags' = (flags \ H.drops) \cup Holds(H)
  BY DEF Begin, Holds
<1>4. P' = P
  BY DEF P
<1>5. Calls'
  BY <1>2, CallsStep DEF IInv
<1>6. ASSUME NEW f, Keeps(P, f)
      PROVE  LockInv(f)'
  <2>1. CASE f \in Holds(H)
    BY <1>1, <1>2, <1>3, <1>6, <2>1, LockTaken DEF IInv
  <2>2. CASE f \notin Holds(H)
    <3>1. f \notin H.drops
      BY <1>6, <2>2 DEF Keeps, Handler
    <3> QED
      BY <1>2, <1>3, <1>6, <2>2, <3>1, LockStep DEF IInv
  <2> QED
    BY <2>1, <2>2
<1>7. ASSUME NEW f, Settles(P, f)
      PROVE  SettleInv(f)'
  <2>1. f \in Holds(H) => Lowers(P, H, f) /\ H.does # <<>>
    BY <1>7 DEF Settles, Handler
  <2>2. f \notin H.drops /\ Ticks(f, flags) => Ticks(f, flags')
    BY <1>3, ClocksKept DEF Ticks
  <2> HIDE DEF H
  <2>3. f \in flags' => \/ Ticks(f, flags')
                        \/ \E g \in new : Lowers(P, Handler(g), f) /\ Handler(g).does # <<>>
                        \/ f \in flags /\ ~Ticks(f, flags)
    BY <1>2, <1>3, <2>1, <2>2 DEF H
  <2> QED
    BY <1>2, <1>7, <2>3, SettleStep DEF IInv
<1> QED
  BY <1>4, <1>5, <1>6, <1>7 DEF IInv

\* Handlers that take no lock are called while others run.
LEMMA CallAllStep ==
    ASSUME IInv, NEW k, NEW hs \in Seq(Callable), NEW s, CallAll(k, hs, s),
           \A f : Keeps(P, f) => \A h \in Names(hs) : f \notin Holds(Handler(h))
    PROVE  IInv'
<1>1. Names(hs) \in SUBSET DOMAIN P.handlers
  BY DEF Names, Callable
<1>2. page' = page /\ P' = P
  BY DEF CallAll, P
<1>3. Carries({}, Names(hs))
  BY CallAllCarries DEF IInv
<1>4. flags' = (flags \ Dropped(hs)) \cup Raised(hs)
  BY DEF CallAll
<1>5. Calls'
  BY <1>1, <1>3, CallsStep DEF IInv
<1>6. ASSUME NEW f, Keeps(P, f)
      PROVE  LockInv(f)'
  <2>1. \A h \in Names(hs) : f \notin Holds(Handler(h)) /\ f \notin Handler(h).drops
    BY <1>1, <1>6 DEF Keeps, Handler
  <2>2. f \notin Dropped(hs)
    BY <2>1 DEF Dropped, Names
  <2> QED
    BY <1>3, <1>4, <1>6, <2>1, <2>2, LockStep DEF IInv
<1>7. ASSUME NEW f, Settles(P, f)
      PROVE  SettleInv(f)'
  <2>1. \A h \in Names(hs) : f \in Holds(Handler(h)) => Lowers(P, Handler(h), f) /\ Handler(h).does # <<>>
    BY <1>1, <1>7 DEF Settles, Handler
  <2>2. f \in Raised(hs) => \E h \in Names(hs) : f \in Holds(Handler(h))
    BY DEF Raised, Names, Holds
  <2>3. f \notin Dropped(hs) /\ Ticks(f, flags) => Ticks(f, flags')
    <3> SUFFICES ASSUME f \notin Dropped(hs), NEW t \in Clocks(P, f), P.timers[t].needs \subseteq flags
                 PROVE  P.timers[t].needs \subseteq flags'
      BY DEF Ticks
    <3>1. \A n \in DOMAIN hs : Handler(hs[n]).drops \cap P.timers[t].needs = {}
      BY <1>1, ClocksKept DEF Dropped, Names
    <3>2. Dropped(hs) \cap P.timers[t].needs = {}
      BY <3>1 DEF Dropped
    <3> QED
      BY <1>4, <3>2
  <2>4. f \in flags' => \/ Ticks(f, flags')
                        \/ \E h \in Names(hs) : Lowers(P, Handler(h), f) /\ Handler(h).does # <<>>
                        \/ f \in flags /\ ~Ticks(f, flags)
    BY <1>4, <2>1, <2>2, <2>3
  <2> QED
    BY <1>3, <1>7, <2>4, SettleStep DEF IInv
<1> QED
  BY <1>2, <1>5, <1>6, <1>7 DEF IInv

\* A handler ends, and calls others without awaiting them.
LEMMA EndStep ==
    ASSUME IInv, NEW i \in DOMAIN tasks, Active(i), page' = page,
           NEW lowers, NEW raises, NEW calls, End(i, lowers, raises, calls),
           \/ /\ lowers = Handler(tasks[i].h).okLowers
              /\ raises = Handler(tasks[i].h).okRaises
              /\ calls = Handler(tasks[i].h).then
           \/ /\ lowers = Handler(tasks[i].h).failLowers
              /\ raises = Handler(tasks[i].h).failRaises
              /\ calls = Handler(tasks[i].h).rescue
              /\ MayEndBadly(Handler(tasks[i].h))
    PROVE  IInv'
<1> DEFINE H == Handler(tasks[i].h)
<1>1. tasks[i].h \in DOMAIN P.handlers /\ P' = P
  BY DEF IInv, Calls, Awaits, P
<1>2. calls \in Seq(Callable) /\ Names(calls) \in SUBSET DOMAIN P.handlers
  <2>1. calls \in Seq(Callable)
    BY <1>1, CallLists DEF IInv, Calls
  <2> QED
    BY <2>1 DEF Names, Callable
<1>3. Carries({i}, Names(calls))
  BY <1>2, EndCarries DEF IInv
<1>4. flags' = (((flags \ H.busy) \ lowers) \cup raises) \cup Raised(calls)
  BY DEF End
<1>5. Calls'
  BY <1>2, <1>3, CallsStep DEF IInv
<1>6. ASSUME NEW f, Keeps(P, f)
      PROVE  LockInv(f)'
  <2>1. \A h \in Names(calls) : f \notin Holds(Handler(h))
    <3>1. Pressed(P, HoldersOf(f))
      BY <1>6 DEF Keeps, HoldersOf, Handler
    <3>2. Names(calls) \cap HoldersOf(f) = {}
      BY <1>1, <3>1, PressedRules
    <3> QED
      BY <1>2, <3>2 DEF HoldersOf
  <2>2. f \in Holds(H) => i \in Holders(f)
    BY DEF Holders
  <2>3. f \notin Holds(H) => f \notin H.busy \cup lowers
    BY <1>1, <1>6 DEF Keeps, Handler, Holds
  <2> HIDE DEF H
  <2>4. f \in flags /\ (\A j \in Holders(f) : j \notin {i}) => f \in flags'
    BY <1>4, <2>2, <2>3
  <2> QED
    BY <1>3, <1>6, <2>1, <2>4, LockStep DEF IInv
<1>7. ASSUME NEW f, Settles(P, f)
      PROVE  SettleInv(f)'
  <2>1. \A h \in Names(calls) : f \in Holds(Handler(h)) => Lowers(P, Handler(h), f) /\ Handler(h).does # <<>>
    BY <1>2, <1>7 DEF Settles, Handler
  <2>2. f \in Raised(calls) => \E h \in Names(calls) : f \in Holds(Handler(h))
    BY DEF Raised, Names, Holds
  <2>3. f \notin raises
    BY <1>1, <1>7 DEF Settles, Handler
  <2>4. Lowers(P, H, f) => f \in H.busy \cup lowers \/ Leaves(P, calls, raises, f)
    BY DEF Lowers
  <2>5. Leaves(P, calls, raises, f) =>
           \/ Ticks(f, flags')
           \/ \E h \in Names(calls) : Lowers(P, Handler(h), f) /\ Handler(h).does # <<>>
    <3>1. CASE \E t \in Clocks(P, f) : P.timers[t].needs \subseteq raises
      BY <1>4, <3>1 DEF Ticks
    <3>2. CASE \E h \in Names(calls) : f \in Frees(Handler(h))
      <4>1. Names(calls) \subseteq Callable
        BY <1>2 DEF Names
      <4> QED
        BY <3>2, <4>1, FreesLowers DEF Callable
    <3> QED
      BY <3>1, <3>2 DEF Leaves, Handler
  <2>6. f \notin H.busy \cup lowers /\ Ticks(f, flags) => Ticks(f, flags')
    <3>1. H.busy \cup lowers \in {H.drops, H.busy \cup H.okLowers, H.busy \cup H.failLowers}
      OBVIOUS
    <3>2. f \notin H.busy \cup lowers =>
             \A t \in Clocks(P, f) : (H.busy \cup lowers) \cap P.timers[t].needs = {}
      BY <1>1, <3>1, ClocksKept
    <3> QED
      BY <1>4, <3>2 DEF Ticks
  <2> HIDE DEF H
  <2>7. f \in flags' =>
           \/ Ticks(f, flags')
           \/ \E h \in Names(calls) : Lowers(P, Handler(h), f) /\ Handler(h).does # <<>>
           \/ /\ f \in flags /\ ~Ticks(f, flags)
              /\ \A j \in {i} : ~Lowers(P, Handler(tasks[j].h), f)
    BY <1>4, <2>1, <2>2, <2>3, <2>4, <2>5, <2>6 DEF H
  <2> QED
    BY <1>3, <1>7, <2>7, SettleStep DEF IInv
<1> QED
  BY <1>1, <1>5, <1>6, <1>7 DEF IInv

\* A call goes on.
LEMMA MovedStep ==
    ASSUME IInv, NEW i \in DOMAIN tasks, Active(i), page' = page, flags' = flags,
           NEW at, NEW pc \in DOMAIN Handler(tasks[i].h).does, NEW got, at # "gone",
           tasks' = [tasks EXCEPT ![i] = Moved(@, at, pc, got)]
    PROVE  IInv'
<1>1. Carries({}, {})
  BY MovedCarries DEF IInv
<1>2. P' = P /\ Calls'
  BY <1>1, CallsStep DEF IInv, P
<1>3. ASSUME NEW f, Keeps(P, f)
      PROVE  LockInv(f)'
  BY <1>1, <1>3, LockStep DEF IInv
<1>4. ASSUME NEW f, Settles(P, f)
      PROVE  SettleInv(f)'
  BY <1>1, <1>2, <1>4, SettleStep DEF IInv, Ticks
<1> QED
  BY <1>2, <1>3, <1>4 DEF IInv

-----------------------------------------------------------------------------
LEMMA InitInv == Init => IInv
<1> SUFFICES ASSUME Init PROVE IInv
  OBVIOUS
<1> DEFINE hs == P.mount
<1>1. page \in DOMAIN Catalog /\ hs \in Seq(Callable)
  BY CallLists DEF Init
<1>2. tasks = [k \in DOMAIN hs |-> Task(hs[k], sel, shown)] /\ flags = P.at \cup Raised(hs)
  BY DEF Init, Called
<1> HIDE DEF hs
<1>3. \A k \in DOMAIN hs : hs[k] \in DOMAIN P.handlers /\ hs[k] \in Callable
  BY <1>1 DEF Callable
<1>4. DOMAIN tasks = DOMAIN hs /\ \A k \in DOMAIN hs : Active(k) /\ tasks[k].h = hs[k]
  BY <1>2 DEF Task, Active
<1>5. Calls
  <2>1. DOMAIN hs = 1 .. Len(hs) /\ Len(hs) \in Nat
    BY <1>1
  <2>2. PICK S : S = {tasks[k] : k \in DOMAIN hs}
    OBVIOUS
  <2>3. tasks \in [1 .. Len(hs) -> S]
    BY <1>2, <2>1, <2>2
  <2>4. tasks \in Seq(S)
    BY <2>1, <2>3, SeqDef
  <2>5. \A k \in DOMAIN hs : Awaits(Task(hs[k], sel, shown))
    <3> TAKE k \in DOMAIN hs
    <3>1. hs[k] \in Callable
      BY <1>3
    <3>2. PICK T : Handler(hs[k]).does \in Seq(T)
      BY <1>1, <3>1, CatalogAssumption DEF Callable, P, Handler
    <3>3. 1 \in DOMAIN Handler(hs[k]).does
      BY <3>1, <3>2 DEF Callable
    <3> QED
      BY <3>1, <3>3 DEF Callable, Awaits, Task
  <2> QED
    BY <1>1, <1>2, <1>4, <2>4, <2>5 DEF Calls
<1>6. ASSUME NEW f, Keeps(P, f)
      PROVE  LockInv(f)
  <2>1. \A k, l \in DOMAIN hs : f \in Holds(Handler(hs[k])) /\ f \in Holds(Handler(hs[l])) => k = l
    <3>1. Pressed(P, HoldersOf(f))
      BY <1>6 DEF Keeps, HoldersOf, Handler
    <3>2. \A k, l \in DOMAIN hs : hs[k] \in HoldersOf(f) /\ hs[l] \in HoldersOf(f) => k = l
      BY <3>1, PressedRules DEF hs
    <3> QED
      BY <1>3, <3>2 DEF HoldersOf
  <2>2. \A i \in Holders(f) : i \in DOMAIN hs /\ f \in Holds(Handler(hs[i]))
    BY <1>4 DEF Holders
  <2>3. Holders(f) # {} => f \in flags
    BY <1>2, <2>2 DEF Raised, Holds
  <2> QED
    BY <2>1, <2>2, <2>3 DEF LockInv
<1>7. ASSUME NEW f, Settles(P, f)
      PROVE  SettleInv(f)
  <2>1. f \in flags => \E k \in DOMAIN hs : Lowers(P, Handler(hs[k]), f)
    <3>1. f \in P.at => \E k \in DOMAIN hs : Lowers(P, Handler(hs[k]), f)
      BY <1>7 DEF Settles, Handler, hs
    <3>2. f \in Raised(hs) => \E k \in DOMAIN hs : f \in Holds(Handler(hs[k]))
      BY DEF Raised, Holds
    <3>3. \A k \in DOMAIN hs : f \in Holds(Handler(hs[k])) => Lowers(P, Handler(hs[k]), f)
      BY <1>3, <1>7 DEF Settles, Handler
    <3> QED
      BY <1>2, <3>1, <3>2, <3>3
  <2> QED
    BY <1>4, <2>1 DEF SettleInv
<1> QED
  BY <1>5, <1>6, <1>7 DEF IInv

\* A pressed lock is free: it turns its own buttons off, and no timer takes it.
LEMMA ClickStep ==
    ASSUME IInv, NEW h \in DOMAIN P.handlers, Click(h) \/ Timer(h)
    PROVE  IInv'
<1>1. Begin(h, Len(tasks) + 1) /\ page' = page
  BY DEF Click, Timer
<1>2. ASSUME NEW f, Keeps(P, f), f \in Holds(Handler(h))
      PROVE  f \notin flags
  <2>1. h \in DOMAIN P.controls => f \in P.controls[h].unless
    BY <1>2 DEF Keeps, Handler
  <2>2. h \notin DOMAIN P.timers
    BY <1>2 DEF Keeps, Pressed, Handler
  <2> QED
    BY <2>1, <2>2 DEF Click, Timer, Offered
<1> QED
  BY <1>1, <1>2, BeginStep

LEMMA CalledStep ==
    ASSUME IInv, NEW k, NEW s, Select(k, s) \/ Press(k)
    PROVE  IInv'
<1>1. CASE Select(k, s)
  <2>1. P.selects[k] \in Seq(Callable) /\ CallAll(k, P.selects[k], s)
    BY <1>1, CallLists DEF IInv, Calls, Select
  <2>2. \A f : Keeps(P, f) => \A h \in Names(P.selects[k]) : f \notin Holds(Handler(h))
    <3> SUFFICES ASSUME NEW f, Keeps(P, f), NEW h \in Names(P.selects[k])
                 PROVE  f \notin Holds(Handler(h))
      OBVIOUS
    <3>1. h \in DOMAIN P.handlers
      BY <2>1 DEF Names, Callable
    <3>2. Pressed(P, HoldersOf(f))
      BY DEF Keeps, HoldersOf, Handler
    <3>3. h \notin HoldersOf(f)
      BY <1>1, <3>2, PressedRules DEF Select
    <3> QED
      BY <3>1, <3>3 DEF HoldersOf
  <2> QED
    BY <2>1, <2>2, CallAllStep
<1>2. CASE Press(k)
  <2>1. P.presses[k] \in Seq(Callable) /\ CallAll(k, P.presses[k], sel)
    BY <1>2, CallLists DEF IInv, Calls, Press
  <2>2. \A f : Keeps(P, f) => \A h \in Names(P.presses[k]) : f \notin Holds(Handler(h))
    <3> SUFFICES ASSUME NEW f, Keeps(P, f), NEW h \in Names(P.presses[k])
                 PROVE  f \notin Holds(Handler(h))
      OBVIOUS
    <3>1. h \in DOMAIN P.handlers
      BY <2>1 DEF Names, Callable
    <3>2. Pressed(P, HoldersOf(f))
      BY DEF Keeps, HoldersOf, Handler
    <3>3. h \notin HoldersOf(f)
      BY <1>2, <3>2, PressedRules DEF Press
    <3> QED
      BY <3>1, <3>3 DEF HoldersOf
  <2> QED
    BY <2>1, <2>2, CallAllStep
<1> QED
  BY <1>1, <1>2

LEMMA RequestStep ==
    ASSUME IInv, NEW i \in DOMAIN tasks, Serve(i) \/ Answer(i) \/ Fail(i)
    PROVE  IInv'
<1> DEFINE H == Handler(tasks[i].h)
<1>1. Active(i) /\ page' = page
  BY DEF Serve, Answer, Fail
<1>2. CASE Serve(i)
  <2>1. \E got : tasks' = [tasks EXCEPT ![i] = Moved(@, "served", @.pc, got)]
    BY <1>2 DEF Serve
  <2>2. flags' = flags
    BY <1>2 DEF Serve
  <2>3. PICK got, pc : pc = tasks[i].pc /\ tasks' = [tasks EXCEPT ![i] = Moved(@, "served", pc, got)]
    BY <2>1
  <2>4. pc \in DOMAIN H.does
    BY <1>1, <2>3 DEF IInv, Calls, Awaits
  <2> QED
    BY <1>1, <2>2, <2>3, <2>4, MovedStep
<1>3. ASSUME Onward(i), ~Last(i), flags' = flags
      PROVE  IInv'
  <2>1. PICK pc : pc = tasks[i].pc + 1 /\ tasks' = [tasks EXCEPT ![i] = Moved(@, "asked", pc, <<>>)]
    BY <1>3 DEF Onward
  <2>2. pc \in DOMAIN H.does
    BY <1>1, <1>3, <2>1, NextRequest DEF IInv
  <2> QED
    BY <1>1, <1>3, <2>1, <2>2, MovedStep
<1>4. ASSUME \/ End(i, H.okLowers, H.okRaises, H.then)
             \/ End(i, H.failLowers, H.failRaises, H.rescue) /\ ~Request(i).soft
      PROVE  IInv'
  <2>1. ~Request(i).soft => MayEndBadly(H)
    BY <1>1 DEF MayEndBadly, IInv, Calls, Awaits, Request
  <2> QED
    BY <1>1, <1>4, <2>1, EndStep
<1>5. CASE Answer(i)
  BY <1>3, <1>4, <1>5 DEF Answer
<1>6. CASE Fail(i)
  BY <1>3, <1>4, <1>6 DEF Fail
<1> QED
  BY <1>2, <1>5, <1>6

LEMMA StepInv == IInv /\ [Next]_vars => IInv'
<1> SUFFICES ASSUME IInv, [Next]_vars PROVE IInv'
  OBVIOUS
<1>1. ASSUME NEW h \in DOMAIN P.handlers, Click(h) \/ Timer(h) PROVE IInv'
  BY <1>1, ClickStep
<1>2. ASSUME NEW k, NEW s, Select(k, s) \/ Press(k) PROVE IInv'
  BY <1>2, CalledStep
<1>3. ASSUME NEW i \in DOMAIN tasks, Serve(i) \/ Answer(i) \/ Fail(i) PROVE IInv'
  BY <1>3, RequestStep
<1>4. CASE UNCHANGED vars
  BY <1>4 DEF vars, IInv, Calls, Awaits, LockInv, SettleInv, Ticks, Holders, Active, Handler, P
<1> QED
  BY <1>1, <1>2, <1>3, <1>4 DEF Next

LEMMA InvHolds == Spec => []IInv
  BY InitInv, StepInv, PTL DEF Spec

-----------------------------------------------------------------------------
LEMMA AtMostOne ==
    ASSUME NEW f, LockInv(f)
    PROVE  Cardinality(Holders(f)) <= 1
<1>1. CASE Holders(f) = {}
  BY <1>1, FS_EmptySet
<1>2. CASE Holders(f) # {}
  <2>1. PICK i : Holders(f) = {i}
    BY <1>2 DEF LockInv
  <2> QED
    BY <2>1, FS_Singleton
<1> QED
  BY <1>1, <1>2

LEMMA DownAtRest ==
    ASSUME NEW f, SettleInv(f)
    PROVE  f \notin Stuck
<1>1. Ticks(f, flags) => f \in Ticking
  BY DEF Ticks, Clocks, Ticking, Handler
<1> QED
  BY <1>1 DEF SettleInv, Stuck, Quiet

\* Whatever the page: where a flag turns off every button that raises it and
\* nobody else lowers it, two calls never hold it (the buttons with
\* disabled={saving} of pages and settings).
THEOREM LocksHold == Spec => [](\A f : Keeps(P, f) => Cardinality(Holders(f)) <= 1)
<1>1. IInv => \A f : Keeps(P, f) => Cardinality(Holders(f)) <= 1
  BY AtMostOne DEF IInv
<1> QED
  BY <1>1, InvHolds, PTL

\* No change is sent twice at once, on every catalog whose locks are kept.
THEOREM NoDoubleSubmitHolds ==
    ASSUME \A l \in Locks : l[1] \in DOMAIN Catalog => Keeps(Catalog[l[1]], l[2])
    PROVE  Spec => []NoDoubleSubmit
<1>1. IInv => NoDoubleSubmit
  BY AtMostOne DEF IInv, Calls, NoDoubleSubmit, P
<1> QED
  BY <1>1, InvHolds, PTL

\* Whatever the page: a flag that every way out of its handlers lowers (finally),
\* or leaves to a handler or a timer that does, is down when nothing runs and no
\* such timer is set, whatever failed and in whatever order the answers came.
THEOREM FlagsRest == Spec => [](\A f : Settles(P, f) => f \notin Stuck)
<1>1. IInv => \A f : Settles(P, f) => f \notin Stuck
  BY DownAtRest DEF IInv
<1> QED
  BY <1>1, InvHolds, PTL

\* No page of a catalog whose flags settle comes to rest spinning or disabled.
THEOREM NoStuckFlagsHolds ==
    ASSUME \A p \in DOMAIN Catalog : \A f \in Catalog[p].busy : Settles(Catalog[p], f)
    PROVE  Spec => []NoStuckFlags
<1>1. IInv => NoStuckFlags
  <2> SUFFICES ASSUME IInv, NEW f \in Stuck PROVE FALSE
    BY DEF NoStuckFlags
  <2>1. Settles(P, f)
    BY DEF IInv, Calls, Stuck, P
  <2> QED
    BY <2>1, DownAtRest DEF IInv
<1> QED
  BY <1>1, InvHolds, PTL

-----------------------------------------------------------------------------
(* What the user types.                                                        *)

Overwriters(r) == {h \in DOMAIN P.handlers : Overwrites(Handler(h), r)}

\* The running calls that may overwrite r.
Overwriting(r) == {i \in DOMAIN tasks : Active(i) /\ tasks[i].h \in Overwriters(r)}

\* The flag f is the loader behind which r is overwritten.
Loader(f, r) ==
    /\ Pressed(P, Overwriters(r))
    /\ Overwriters(r) \cap DOMAIN P.controls = {}
    /\ \A h \in DOMAIN P.timers \cap DOMAIN P.handlers : r \notin Handler(h).edits
    /\ f \in P.at \cap P.hides
    /\ \A h \in DOMAIN P.handlers \ Overwriters(r) :
          LET H == Handler(h) IN f \notin H.drops \cup H.busy \cup H.okLowers \cup H.failLowers

\* Either the loader is up and nothing was typed, or nothing is left that could
\* overwrite what was.
LoaderInv(f, r) ==
    /\ \A i, j \in Overwriting(r) : i = j
    /\ \/ f \in flags /\ edited[r] = {}
       \/ Overwriting(r) = {} /\ edited[r] \subseteq shown[r]

EditInv ==
    \A r \in Reads :
        /\ (\A h \in DOMAIN P.handlers : r \notin Handler(h).edits) => edited[r] = {}
        /\ \A f : Loader(f, r) => LoaderInv(f, r)

LEMMA LoaderStep ==
    ASSUME NEW r, NEW f, LoaderInv(f, r), NEW stops, NEW new, Carries(stops, new),
           new \cap Overwriters(r) = {},
           f \in flags /\ (\A i \in Overwriting(r) : i \notin stops) => f \in flags',
           f \in flags => edited'[r] = edited[r],
           Overwriting(r) = {} /\ edited[r] \subseteq shown[r] => edited'[r] \subseteq shown'[r]
    PROVE  LoaderInv(f, r)'
<1>1. Overwriters(r)' = Overwriters(r)
  BY DEF Carries, Overwriters, P, Handler
<1>2. \A j \in Overwriting(r)' : j \in Overwriting(r) /\ j \notin stops
  BY <1>1 DEF Carries, Overwriting
<1>3. \A i, j \in Overwriting(r)' : i = j
  BY <1>2 DEF LoaderInv
<1>4. CASE f \in flags /\ edited[r] = {}
  <2>1. CASE \A i \in Overwriting(r) : i \notin stops
    BY <1>3, <1>4, <2>1 DEF LoaderInv
  <2>2. CASE ~ \A i \in Overwriting(r) : i \notin stops
    <3>1. Overwriting(r)' = {}
      BY <1>2, <2>2 DEF LoaderInv
    <3> QED
      BY <1>4, <3>1 DEF LoaderInv
  <2> QED
    BY <2>1, <2>2
<1>5. CASE Overwriting(r) = {} /\ edited[r] \subseteq shown[r]
  <2>1. Overwriting(r)' = {}
    BY <1>2, <1>5
  <2> QED
    BY <1>5, <2>1 DEF LoaderInv
<1> QED
  BY <1>4, <1>5 DEF LoaderInv

\* The user acts: not on what the loader hides.
LEMMA EditClick ==
    ASSUME IInv, EditInv, NEW h \in DOMAIN P.handlers, Click(h) \/ Timer(h)
    PROVE  EditInv'
<1> DEFINE H == Handler(h)
<1>1. Begin(h, Len(tasks) + 1) /\ page' = page
  BY DEF Click, Timer
<1>2. PICK new \in {{}, {h}} : Carries({}, new)
  BY <1>1, BeginCarries DEF IInv
<1>3. Reads' = Reads /\ P' = P /\ \A g : Handler(g)' = Handler(g)
  BY <1>1 DEF Reads, P, Handler
<1> SUFFICES ASSUME NEW r \in Reads
             PROVE  /\ (\A g \in DOMAIN P.handlers : r \notin Handler(g).edits) => edited'[r] = {}
                    /\ \A f : Loader(f, r)' => LoaderInv(f, r)'
  BY <1>3 DEF EditInv
<1>4. /\ edited'[r] = IF r \in H.edits THEN edited[r] \cup {Len(tasks) + 1} ELSE edited[r]
      /\ shown[r] \subseteq shown'[r]
      /\ r \in H.edits => Len(tasks) + 1 \in shown'[r]
  BY <1>1 DEF Begin
<1>5. ASSUME \A g \in DOMAIN P.handlers : r \notin Handler(g).edits
      PROVE  edited'[r] = {}
  BY <1>4, <1>5 DEF EditInv
<1>6. ASSUME NEW f, Loader(f, r)
      PROVE  LoaderInv(f, r)'
  <2>1. h \notin Overwriters(r)
    <3>1. DOMAIN P.timers \cap Overwriters(r) = {}
      BY <1>6, PressedRules DEF Loader
    <3> QED
      BY <1>6, <3>1 DEF Loader, Click, Timer
  <2>2. f \notin H.drops
    BY <1>6, <2>1 DEF Loader
  <2>3. f \in flags => f \in flags'
    BY <1>1, <2>2 DEF Begin
  <2>4. f \in flags => r \notin H.edits
    <3>1. CASE Click(h)
      BY <1>6, <3>1 DEF Loader, Click, Offered
    <3>2. CASE Timer(h)
      BY <1>6, <3>2 DEF Loader, Timer
    <3> QED
      BY <3>1, <3>2
  <2>5. edited[r] \subseteq shown[r] => edited'[r] \subseteq shown'[r]
    BY <1>4
  <2> QED
    BY <1>2, <1>4, <1>6, <2>1, <2>3, <2>4, <2>5, LoaderStep DEF EditInv
<1>7. \A f : Loader(f, r)' <=> Loader(f, r)
  BY <1>3 DEF Loader, Overwriters
<1> QED
  BY <1>5, <1>6, <1>7

\* Handlers are called that do not overwrite what may be typed.
LEMMA EditCalled ==
    ASSUME IInv, EditInv, NEW k, NEW s, Select(k, s) \/ Press(k)
    PROVE  EditInv'
<1>1. PICK hs, t :
         /\ hs \in Seq(Callable) /\ CallAll(k, hs, t)
         /\ \A r, f : Loader(f, r) => Names(hs) \cap Overwriters(r) = {}
  <2>1. CASE Select(k, s)
    BY <2>1, CallLists, PressedRules DEF IInv, Calls, Select, Loader
  <2>2. CASE Press(k)
    BY <2>2, CallLists, PressedRules DEF IInv, Calls, Press, Loader
  <2> QED
    BY <2>1, <2>2
<1>2. page' = page /\ Carries({}, Names(hs))
  BY <1>1, CallAllCarries DEF IInv
<1>3. Reads' = Reads /\ P' = P /\ \A g : Handler(g)' = Handler(g)
  BY <1>2 DEF Reads, P, Handler
<1>4. edited' = edited /\ shown' = shown /\ flags' = (flags \ Dropped(hs)) \cup Raised(hs)
  BY <1>1 DEF CallAll
<1>5. ASSUME NEW r \in Reads, NEW f, Loader(f, r)
      PROVE  LoaderInv(f, r)'
  <2>1. Names(hs) \cap Overwriters(r) = {} /\ Names(hs) \subseteq DOMAIN P.handlers
    BY <1>1, <1>5 DEF Names, Callable
  <2>2. f \notin Dropped(hs)
    BY <1>5, <2>1 DEF Loader, Dropped, Names
  <2> QED
    BY <1>2, <1>4, <1>5, <2>1, <2>2, LoaderStep DEF EditInv
<1>6. \A r, f : Loader(f, r)' <=> Loader(f, r)
  BY <1>3 DEF Loader, Overwriters
<1> QED
  BY <1>3, <1>4, <1>5, <1>6 DEF EditInv

\* A call that goes on, ends or fails: it takes something typed away only if it
\* is one that overwrites.
LEMMA EditKept ==
    ASSUME Calls, NEW i \in DOMAIN tasks, Answer(i) \/ Fail(i), NEW r \in Reads,
           tasks[i].h \notin Overwriters(r)
    PROVE  shown[r] \subseteq shown'[r]
<1> DEFINE H == Handler(tasks[i].h)
<1>1. /\ Awaits(tasks[i])
      /\ r \notin H.blank
      /\ ~(r \in H.early /\ H.undo)
      /\ ~(r \in H.local /\ H.stale)
      /\ \A k \in DOMAIN H.does : r \notin H.does[k].gets
  BY DEF Calls, Answer, Fail, Active, Overwriters, Overwrites, Awaits
<1>2. r \notin Request(i).gets
  BY <1>1 DEF Request, Awaits
<1>3. CASE Answer(i)
  BY <1>1, <1>2, <1>3 DEF Answer, Answered
<1>4. CASE Fail(i)
  BY <1>1, <1>4 DEF Fail
<1> QED
  BY <1>3, <1>4

LEMMA EditRequest ==
    ASSUME IInv, EditInv, NEW i \in DOMAIN tasks, Serve(i) \/ Answer(i) \/ Fail(i)
    PROVE  EditInv'
<1> DEFINE H == Handler(tasks[i].h)
<1>1. Active(i) /\ page' = page /\ edited' = edited /\ Calls /\ Awaits(tasks[i])
  BY DEF Serve, Answer, Fail, IInv, Calls
<1>2. Reads' = Reads /\ P' = P /\ \A g : Handler(g)' = Handler(g)
  BY <1>1 DEF Reads, P, Handler
<1>3. \A r, f : Loader(f, r)' <=> Loader(f, r)
  BY <1>2 DEF Loader, Overwriters
<1> SUFFICES ASSUME NEW r \in Reads, NEW f, Loader(f, r)
             PROVE  LoaderInv(f, r)'
  BY <1>1, <1>2, <1>3 DEF EditInv
<1>4. /\ LoaderInv(f, r)
      /\ Overwriting(r) = {} /\ edited[r] \subseteq shown[r] => edited'[r] \subseteq shown'[r]
  <2>1. LoaderInv(f, r)
    BY DEF EditInv
  <2>2. CASE Serve(i)
    BY <1>1, <2>1, <2>2 DEF Serve
  <2>3. CASE Answer(i) \/ Fail(i)
    BY <1>1, <2>1, <2>3, EditKept DEF Overwriting
  <2> QED
    BY <2>1, <2>2, <2>3
<1>5. ASSUME flags' = flags, Carries({}, {})
      PROVE  LoaderInv(f, r)'
  BY <1>1, <1>4, <1>5, LoaderStep
<1>6. CASE Serve(i)
  <2>1. PICK got : tasks' = [tasks EXCEPT ![i] = Moved(tasks[i], "served", tasks[i].pc, got)]
    BY <1>6 DEF Serve
  <2>2. tasks[i].pc \in DOMAIN H.does
    BY <1>1 DEF Awaits
  <2>3. Carries({}, {})
    BY <1>1, <2>1, <2>2, MovedCarries
  <2> QED
    BY <1>5, <1>6, <2>3 DEF Serve
<1>7. ASSUME Onward(i), ~Last(i), flags' = flags
      PROVE  LoaderInv(f, r)'
  <2>1. tasks' = [tasks EXCEPT ![i] = Moved(tasks[i], "asked", tasks[i].pc + 1, <<>>)]
    BY <1>7 DEF Onward
  <2>2. tasks[i].pc + 1 \in DOMAIN H.does
    BY <1>1, <1>7, NextRequest
  <2>3. Carries({}, {})
    BY <1>1, <2>1, <2>2, MovedCarries
  <2> QED
    BY <1>5, <1>7, <2>3
<1>8. ASSUME NEW lowers, NEW raises, NEW calls, End(i, lowers, raises, calls),
             lowers \in {H.okLowers, H.failLowers}, calls \in {H.then, H.rescue}
      PROVE  LoaderInv(f, r)'
  <2>1. tasks[i].h \in DOMAIN P.handlers
    BY <1>1 DEF Awaits
  <2>2. calls \in Seq(Callable) /\ Names(calls) \cap Overwriters(r) = {}
    BY <1>1, <1>8, <2>1, CallLists, PressedRules DEF Calls, Loader
  <2>3. Carries({i}, Names(calls))
    BY <1>1, <1>8, <2>2, EndCarries
  <2>4. tasks[i].h \notin Overwriters(r) => f \notin H.busy \cup lowers
    BY <1>8, <2>1 DEF Loader
  <2>5. f \in flags /\ (\A j \in Overwriting(r) : j \notin {i}) => f \in flags'
    BY <1>1, <1>8, <2>4 DEF End, Overwriting
  <2> QED
    BY <1>1, <1>4, <2>2, <2>3, <2>5, LoaderStep
<1>9. CASE Answer(i)
  BY <1>7, <1>8, <1>9 DEF Answer
<1>10. CASE Fail(i)
  BY <1>7, <1>8, <1>10 DEF Fail
<1> QED
  BY <1>6, <1>9, <1>10

LEMMA EditInit == Init => EditInv
<1> SUFFICES ASSUME Init PROVE EditInv
  OBVIOUS
<1>1. \A r \in Reads : edited[r] = {}
  BY DEF Init, Reads, P
<1> SUFFICES ASSUME NEW r \in Reads, NEW f, Loader(f, r)
             PROVE  LoaderInv(f, r)
  BY <1>1 DEF EditInv
<1>2. f \in flags
  BY DEF Loader, Init
<1>3. ASSUME NEW i \in Overwriting(r), NEW j \in Overwriting(r)
      PROVE  i = j
  <2>1. \A k \in DOMAIN tasks : k \in DOMAIN P.mount /\ tasks[k].h = P.mount[k]
    BY DEF Init, Called, Task
  <2> QED
    BY <1>3, <2>1, PressedRules DEF Loader, Overwriting
<1> QED
  BY <1>1, <1>2, <1>3 DEF LoaderInv

LEMMA EditStep == IInv /\ EditInv /\ [Next]_vars => EditInv'
<1> SUFFICES ASSUME IInv, EditInv, [Next]_vars PROVE EditInv'
  OBVIOUS
<1>1. ASSUME NEW h \in DOMAIN P.handlers, Click(h) \/ Timer(h) PROVE EditInv'
  BY <1>1, EditClick
<1>2. ASSUME NEW k, NEW s, Select(k, s) \/ Press(k) PROVE EditInv'
  BY <1>2, EditCalled
<1>3. ASSUME NEW i \in DOMAIN tasks, Serve(i) \/ Answer(i) \/ Fail(i) PROVE EditInv'
  BY <1>3, EditRequest
<1>4. CASE UNCHANGED vars
  <2>1. P' = P /\ Reads' = Reads /\ \A h : Handler(h)' = Handler(h)
    BY <1>4 DEF vars, P, Reads, Handler
  <2>2. \A r : Overwriters(r)' = Overwriters(r) /\ Overwriting(r)' = Overwriting(r)
    BY <1>4, <2>1 DEF vars, Overwriters, Overwriting, Active
  <2>3. \A r, f : (Loader(f, r)' <=> Loader(f, r)) /\ (LoaderInv(f, r)' <=> LoaderInv(f, r))
    BY <1>4, <2>1, <2>2 DEF vars, Loader, LoaderInv
  <2> QED
    BY <1>4, <2>1, <2>3 DEF vars, EditInv
<1> QED
  BY <1>1, <1>2, <1>3, <1>4 DEF Next

LEMMA EditHolds == Spec => []EditInv
  BY InvHolds, EditInit, EditStep, PTL DEF Spec

LEMMA MindedKept ==
    ASSUME EditInv, NEW r \in Reads, Minds(P, r)
    PROVE  edited[r] \subseteq shown[r]
<1>1. CASE \A h \in DOMAIN P.handlers : r \notin Handler(h).edits
  BY <1>1 DEF EditInv
<1>2. CASE \E f : Loader(f, r)
  <2>1. PICK f : LoaderInv(f, r)
    BY <1>2 DEF EditInv
  <2> QED
    BY <2>1 DEF LoaderInv
<1>3. Minds(P, r) => (\A h \in DOMAIN P.handlers : r \notin Handler(h).edits) \/ \E f : Loader(f, r)
  BY DEF Minds, Loader, Overwriters, Handler
<1> QED
  BY <1>1, <1>2, <1>3

\* Whatever the page: what is overwritten only behind a loader is never typed in
\* vain (forms that are shown when their data has arrived).
THEOREM TypedTextStays ==
    Spec => [](\A r \in Reads : Minds(P, r) => r \notin Forgotten)
<1>1. EditInv => \A r \in Reads : Minds(P, r) => r \notin Forgotten
  BY MindedKept DEF Forgotten
<1> QED
  BY <1>1, EditHolds, PTL

\* No answer, late or failed, overwrites what the user typed on a careful page
\* (GlazePage.jsx, UpdateSettings.jsx), if it minds all it reads.
THEOREM NoEditLostHolds ==
    ASSUME \A p \in Careful \cap DOMAIN Catalog : \A r \in Catalog[p].reads : Minds(Catalog[p], r)
    PROVE  Spec => []NoEditLost
<1>1. IInv /\ EditInv => NoEditLost
  BY MindedKept DEF IInv, Calls, NoEditLost, Forgotten, Reads, P
<1> QED
  BY <1>1, InvHolds, EditHolds, PTL

-----------------------------------------------------------------------------
(* What the page shows after a change. The proof follows a user who waits: the *)
(* page shows what the server has, or a running call is going to fetch it, or  *)
(* the one running call is going to change the page as it changed the server.  *)

\* The calls of a page that is used so, from the mount on, run side by side only
\* if they were called together.
Closed == \A h \in Beside(P) : NextCalls(P.handlers[h]) \subseteq Beside(P)
Alone ==
    \A i, j \in DOMAIN tasks : Active(i) /\ Active(j) /\ tasks[i].h \notin Beside(P) => i = j

\* The call t is going to fetch r, whatever fails on the server.
Due(t, r) ==
    LET H == Handler(t.h) IN
    /\ t.at # "gone"
    /\ \/ Fetches(H, r) /\ \E k \in DOMAIN H.does : k >= t.pc /\ r \in H.does[k].gets
       \/ /\ Renews(P, H, r)
          /\ t.pc > 1 \/ t.at = "served"
          /\ \/ \E k \in DOMAIN H.does : k >= t.pc /\ FetchesAt(H, r, k)
             \/ \E h \in Names(H.then) : Fetches(Handler(h), r)

\* The handler h mirrors its change of r, and only the user calls it.
Copies(h, r) == Mirrors(Handler(h), r) /\ h \notin Callees(P)
Pending(t, r) == Due(t, r) \/ (t.at = "served" /\ Copies(t.h, r))

\* What a running call i has been told of r is true, if the page shows now and
\* the server has real, but for what was typed.
Suits(t, i, r, now, real, typed) ==
    LET H == Handler(t.h) IN
    /\ t.at = "served" /\ r \in H.does[t.pc].gets => t.got[r] = real
    /\ Copies(t.h, r) =>
          /\ Closes(t.h) => t.saw[r] = now
          /\ t.at = "served" => (now \cup {x \in {i} : r \in H.local}) \ typed = real \ typed

FreshInv(r) ==
    /\ \A i \in DOMAIN tasks : Active(i) => Suits(tasks[i], i, r, shown[r], srv[r], edited[r])
    /\ \/ shown[r] \ edited[r] = srv[r] \ edited[r]
       \/ \E i \in DOMAIN tasks : Pending(tasks[i], r)

Orderly == ~overlap /\ trouble # "lost"

SerialInv ==
    Orderly => /\ Closed => Alone
               /\ \A r \in Reads : Refreshes(P, r) => FreshInv(r)

-----------------------------------------------------------------------------
\* Who is called, and who may be called beside others.
LEMMA CalleeLists ==
    ASSUME page \in DOMAIN Catalog
    PROVE  /\ Names(P.mount) \subseteq Together(P)
           /\ \A k \in DOMAIN P.selects : Names(P.selects[k]) \subseteq Together(P)
           /\ \A k \in DOMAIN P.presses : Names(P.presses[k]) \subseteq Together(P)
           /\ \A h \in DOMAIN P.handlers :
                 /\ NextCalls(Handler(h)) \subseteq Callees(P)
                 /\ Len(Handler(h).then) > 1 => Names(Handler(h).then) \subseteq Together(P)
                 /\ Len(Handler(h).rescue) > 1 => Names(Handler(h).rescue) \subseteq Together(P)
           /\ Together(P) \subseteq Beside(P)
           /\ Beside(P) \subseteq Callees(P)
<1> DEFINE LS == UNION {{P.handlers[h].then, P.handlers[h].rescue} : h \in DOMAIN P.handlers}
<1>1. Together(P) = Names(P.mount) \cup PageCalls(P) \cup UNION {Names(hs) : hs \in {l \in LS : Len(l) > 1}}
  BY DEF Together
<1>2. \A h \in DOMAIN P.handlers : Handler(h).then \in LS /\ Handler(h).rescue \in LS
  BY DEF Handler
<1>3. \A l \in LS : \E h \in DOMAIN P.handlers : l = Handler(h).then \/ l = Handler(h).rescue
  BY DEF Handler
<1> HIDE DEF LS
<1>4. \A l \in LS : Len(l) > 1 => Names(l) \subseteq Together(P)
  BY <1>1
<1>5. \A h \in DOMAIN P.handlers : NextCalls(Handler(h)) \subseteq Callees(P)
  BY DEF Callees, Handler
<1>6. \A l \in LS : Names(l) \subseteq Callees(P)
  BY <1>3, <1>5 DEF NextCalls
<1>7. Together(P) \subseteq Callees(P)
  BY <1>1, <1>6 DEF Callees
<1>8. Together(P) \subseteq DOMAIN P.handlers
  <2>1. \A l \in Seq(Callable) : Names(l) \subseteq DOMAIN P.handlers
    BY DEF Names, Callable
  <2>2. \A l \in LS : l \in Seq(Callable)
    BY <1>3, CallLists
  <2>3. PageCalls(P) \subseteq DOMAIN P.handlers
    BY <2>1, CallLists DEF PageCalls
  <2> QED
    BY <1>1, <2>1, <2>2, <2>3, CallLists
<1>9. Beside(P) \subseteq Callees(P)
  <2>1. ASSUME NEW h \in Together(P)
        PROVE  NextCalls(P.handlers[h]) \subseteq Callees(P)
    BY <1>5, <1>8, <2>1 DEF Handler
  <2> QED
    BY <1>7, <2>1 DEF Beside
<1>10. \A k \in DOMAIN P.selects : Names(P.selects[k]) \subseteq Together(P)
  BY <1>1 DEF PageCalls
<1>11. \A k \in DOMAIN P.presses : Names(P.presses[k]) \subseteq Together(P)
  BY <1>1 DEF PageCalls
<1>12. Together(P) \subseteq Beside(P)
  BY DEF Beside
<1> QED
  BY <1>1, <1>2, <1>4, <1>5, <1>9, <1>10, <1>11, <1>12

\* What refreshes r on this page; a copy is not a mere reader.
LEMMA Kinds ==
    ASSUME page \in DOMAIN Catalog, NEW r, Refreshes(P, r), NEW h \in DOMAIN P.handlers
    PROVE  /\ \/ ReadsOnly(Handler(h), r)
              \/ Copies(h, r)
              \/ Renews(P, Handler(h), r) /\ h \notin Beside(P) /\ ~Copies(h, r)
           /\ Copies(h, r) => h \notin Beside(P) /\ ~ReadsOnly(Handler(h), r)
<1>1. \/ ReadsOnly(Handler(h), r)
      \/ Mirrors(Handler(h), r) /\ h \notin Callees(P)
      \/ Renews(P, Handler(h), r) /\ h \notin Beside(P)
  BY DEF Refreshes, Handler
<1>2. PICK S : Handler(h).does \in Seq(S)
  BY CatalogAssumption DEF P, Handler
<1>3. Mirrors(Handler(h), r) => 1 \in DOMAIN Handler(h).does
  BY <1>2 DEF Mirrors
<1>4. Mirrors(Handler(h), r) => ~ReadsOnly(Handler(h), r)
  BY <1>3 DEF Mirrors, ReadsOnly
<1>5. Copies(h, r) => h \notin Beside(P) /\ ~ReadsOnly(Handler(h), r)
  BY <1>4, CalleeLists DEF Copies
<1> QED
  BY <1>1, <1>5 DEF Copies

\* The one request of a copy is its last.
LEMMA CopyIsLast ==
    ASSUME Calls, NEW i \in DOMAIN tasks, Active(i), NEW r, Copies(tasks[i].h, r)
    PROVE  Last(i) /\ tasks[i].pc = 1
<1> DEFINE does == Handler(tasks[i].h).does
<1>1. Awaits(tasks[i])
  BY DEF Calls
<1>2. PICK S : does \in Seq(S)
  BY <1>1, CatalogAssumption DEF Calls, Awaits, P, Handler
<1>3. Len(does) = 1
  BY DEF Copies, Mirrors
<1>4. tasks[i].pc \in 1 .. Len(does)
  BY <1>1, <1>2 DEF Awaits
<1> QED
  BY <1>3, <1>4 DEF Last

\* The invariant of r after a step, in the terms of the page before it.
LEMMA FreshNext ==
    ASSUME page' = page, NEW r,
           \A i \in DOMAIN tasks' :
              tasks'[i].at # "gone" => Suits(tasks'[i], i, r, shown'[r], srv'[r], edited'[r]),
           \/ shown'[r] \ edited'[r] = srv'[r] \ edited'[r]
           \/ \E i \in DOMAIN tasks' : Pending(tasks'[i], r)
    PROVE  FreshInv(r)'
<1>1. P' = P /\ (\A h : Handler(h)' = Handler(h)) /\ (\A h : Closes(h)' <=> Closes(h))
  BY DEF P, Handler, Closes
<1>2. \A h, q : Copies(h, q)' <=> Copies(h, q)
  BY <1>1 DEF Copies
<1>3. \A i \in DOMAIN tasks' : Pending(tasks'[i], r) => Pending(tasks[i], r)'
  BY <1>1, <1>2 DEF Pending, Due
<1>4. ASSUME NEW i \in DOMAIN tasks', Active(i)'
      PROVE  Suits(tasks[i], i, r, shown[r], srv[r], edited[r])'
  <2>1. Suits(tasks'[i], i, r, shown'[r], srv'[r], edited'[r])
    BY <1>4 DEF Active
  <2> QED
    BY <1>1, <1>2, <2>1 DEF Suits
<1> QED
  BY <1>3, <1>4 DEF FreshInv

-----------------------------------------------------------------------------
\* A call goes on to its next request, or ends and calls others.
GoesOn(i) == Onward(i) /\ ~Last(i)
Ends(i, calls) == \E lowers, raises : End(i, lowers, raises, calls)
Proceeds(i) == GoesOn(i) \/ Ends(i, Handler(tasks[i].h).then) \/ Ends(i, Handler(tasks[i].h).rescue)

LEMMA GoesOnTasks ==
    ASSUME Calls, NEW i \in DOMAIN tasks, GoesOn(i)
    PROVE  /\ DOMAIN tasks' = DOMAIN tasks
           /\ \A j \in DOMAIN tasks \ {i} : tasks'[j] = tasks[j]
           /\ tasks'[i] = Moved(tasks[i], "asked", tasks[i].pc + 1, <<>>)
  BY DEF GoesOn, Onward

LEMMA EndsTasks ==
    ASSUME Calls, NEW i \in DOMAIN tasks, Active(i), NEW calls, Ends(i, calls),
           calls \in {Handler(tasks[i].h).then, Handler(tasks[i].h).rescue}
    PROVE  /\ Names(calls) \subseteq NextCalls(Handler(tasks[i].h))
           /\ Names(calls) \subseteq Callable
           /\ \A j \in DOMAIN tasks : j \in DOMAIN tasks' /\ tasks'[j] = IF j = i THEN Gone ELSE tasks[j]
           /\ \A j \in DOMAIN tasks' \ DOMAIN tasks :
                 \E h \in Names(calls) : tasks'[j] = Task(h, tasks[i].sel, shown)
           /\ \A h \in Names(calls) :
                 \E j \in DOMAIN tasks' \ DOMAIN tasks : tasks'[j] = Task(h, tasks[i].sel, shown)
           /\ ~(Len(calls) > 1) => \A j, k \in DOMAIN tasks' \ DOMAIN tasks : j = k
<1>1. tasks[i].h \in DOMAIN P.handlers
  BY DEF Calls, Awaits
<1>2. calls \in Seq(Callable)
  BY <1>1, CallLists DEF Calls
<1>3. Names(calls) \subseteq Callable /\ Len(calls) \in Nat
  BY <1>2 DEF Names
<1>4. PICK lowers, raises : End(i, lowers, raises, calls)
  BY DEF Ends
<1>5. Names(calls) \subseteq NextCalls(Handler(tasks[i].h))
  BY DEF NextCalls
<1>6. /\ \A j \in DOMAIN tasks : j \in DOMAIN tasks' /\ tasks'[j] = IF j = i THEN Gone ELSE tasks[j]
      /\ \A j \in DOMAIN tasks' \ DOMAIN tasks :
            \E h \in Names(calls) : tasks'[j] = Task(h, tasks[i].sel, shown)
      /\ \A h \in Names(calls) :
            \E j \in DOMAIN tasks' \ DOMAIN tasks : tasks'[j] = Task(h, tasks[i].sel, shown)
      /\ Len(calls) <= 1 => \A j, k \in DOMAIN tasks' \ DOMAIN tasks : j = k
  BY <1>2, <1>4, EndTasks
<1>7. ~(Len(calls) > 1) => Len(calls) <= 1
  BY <1>3
<1> QED
  BY <1>3, <1>5, <1>6, <1>7

\* What a call leaves behind when it proceeds: the other calls, itself or not,
\* and handlers it calls.
LEMMA ProceedsTasks ==
    ASSUME Calls, NEW i \in DOMAIN tasks, Active(i), Proceeds(i)
    PROVE  /\ \A j \in DOMAIN tasks \ {i} : j \in DOMAIN tasks' /\ tasks'[j] = tasks[j]
           /\ \/ tasks'[i].at = "gone"
              \/ ~Last(i) /\ tasks'[i] = Moved(tasks[i], "asked", tasks[i].pc + 1, <<>>)
           /\ \A j \in DOMAIN tasks' \ DOMAIN tasks :
                 \E h \in NextCalls(Handler(tasks[i].h)) : tasks'[j] = Task(h, tasks[i].sel, shown)
<1>1. CASE GoesOn(i)
  BY <1>1, GoesOnTasks DEF GoesOn
<1>2. ASSUME NEW calls \in {Handler(tasks[i].h).then, Handler(tasks[i].h).rescue}, Ends(i, calls)
      PROVE  /\ \A j \in DOMAIN tasks \ {i} : j \in DOMAIN tasks' /\ tasks'[j] = tasks[j]
             /\ tasks'[i].at = "gone"
             /\ \A j \in DOMAIN tasks' \ DOMAIN tasks :
                   \E h \in NextCalls(Handler(tasks[i].h)) : tasks'[j] = Task(h, tasks[i].sel, shown)
  <2>1. Gone.at = "gone"
    BY DEF Gone
  <2> QED
    BY <1>2, <2>1, EndsTasks
<1> QED
  BY <1>1, <1>2 DEF Proceeds

-----------------------------------------------------------------------------
\* A handler begins on a page at rest.
LEMMA AloneBegin ==
    ASSUME Calls, Alone, NEW h \in DOMAIN P.handlers, NEW i, Begin(h, i), page' = page, ~overlap'
    PROVE  Alone'
<1>1. P' = P
  BY DEF P
<1>2. CASE Instant(h)
  BY <1>1, <1>2 DEF Begin, Alone, Active
<1>3. CASE ~Instant(h)
  <2>1. PICK t : tasks' = Append(tasks, t)
    BY <1>3 DEF Begin
  <2>2. Quiet
    BY <1>3 DEF Begin
  <2>3. \A j \in DOMAIN tasks' : Active(j)' => j = Len(tasks) + 1
    BY <2>1, <2>2, AppendTasks DEF Quiet, Active
  <2> QED
    BY <2>3 DEF Alone
<1> QED
  BY <1>2, <1>3

LEMMA AloneCalled ==
    ASSUME Calls, NEW k, NEW hs \in Seq(Callable), NEW s, CallAll(k, hs, s),
           Names(hs) \subseteq Beside(P), ~overlap'
    PROVE  Alone'
<1>1. P' = P
  BY DEF CallAll, P
<1>2. Quiet /\ tasks' = tasks \o Called(hs, s)
  BY DEF CallAll
<1>3. /\ \A j \in DOMAIN tasks : j \in DOMAIN tasks' /\ tasks'[j] = tasks[j]
      /\ \A j \in DOMAIN tasks' \ DOMAIN tasks : \E h \in Names(hs) : tasks'[j] = Task(h, s, shown)
  BY SMTT(30), <1>2, MoreTasks
<1>4. ASSUME NEW j \in DOMAIN tasks', Active(j)'
      PROVE  tasks'[j].h \in Beside(P)
  <2>1. j \notin DOMAIN tasks
    BY <1>2, <1>3, <1>4 DEF Quiet, Active
  <2>2. PICK h \in Names(hs) : tasks'[j] = Task(h, s, shown)
    BY <1>3, <2>1
  <2> QED
    BY <2>2 DEF Task
<1> QED
  BY <1>1, <1>4 DEF Alone

LEMMA AloneProceeds ==
    ASSUME Calls, Closed, Alone, NEW i \in DOMAIN tasks, Active(i), Proceeds(i), page' = page
    PROVE  Alone'
<1> DEFINE H == Handler(tasks[i].h)
<1>1. P' = P
  BY DEF P
<1>2. tasks[i].h \in DOMAIN P.handlers /\ page \in DOMAIN Catalog
  BY DEF Calls, Awaits
<1> SUFFICES ASSUME NEW a \in DOMAIN tasks', NEW b \in DOMAIN tasks', Active(a)', Active(b)',
                    tasks'[a].h \notin Beside(P)
             PROVE  a = b
  BY <1>1 DEF Alone
<1>3. CASE GoesOn(i)
  <2>1. tasks'[i].h = tasks[i].h
    <3>1. tasks'[i] = Moved(tasks[i], "asked", tasks[i].pc + 1, <<>>)
      BY <1>3, GoesOnTasks
    <3> QED
      BY <3>1 DEF Moved
  <2>2. /\ DOMAIN tasks' = DOMAIN tasks
        /\ \A j \in DOMAIN tasks \ {i} : tasks'[j] = tasks[j]
    BY <1>3, GoesOnTasks
  <2>3. \A j \in DOMAIN tasks : Active(j)' => Active(j) /\ tasks'[j].h = tasks[j].h
    BY <2>1, <2>2 DEF Active
  <2> QED
    BY <2>2, <2>3 DEF Alone
<1>4. ASSUME NEW calls \in {H.then, H.rescue}, Ends(i, calls)
      PROVE  a = b
  <2>1. /\ Names(calls) \subseteq NextCalls(H)
        /\ \A j \in DOMAIN tasks : j \in DOMAIN tasks' /\ tasks'[j] = IF j = i THEN Gone ELSE tasks[j]
        /\ \A j \in DOMAIN tasks' \ DOMAIN tasks :
              \E h \in Names(calls) : tasks'[j] = Task(h, tasks[i].sel, shown)
        /\ ~(Len(calls) > 1) => \A j, k \in DOMAIN tasks' \ DOMAIN tasks : j = k
    BY <1>4, EndsTasks
  <2>2. \A j \in DOMAIN tasks : Active(j)' => j # i /\ Active(j) /\ tasks'[j] = tasks[j]
    BY <2>1 DEF Active, Gone
  <2>3. a \notin DOMAIN tasks
    BY <2>2 DEF Alone
  <2>4. PICK h \in Names(calls) : tasks'[a] = Task(h, tasks[i].sel, shown)
    BY <2>1, <2>3
  <2>5. h \notin Beside(P)
    BY <2>4 DEF Task
  <2>6. tasks[i].h \notin Beside(P)
    <3>1. NextCalls(P.handlers[tasks[i].h]) = NextCalls(H)
      BY DEF Handler
    <3> QED
      BY <2>1, <2>5, <3>1 DEF Closed
  <2>7. b \notin DOMAIN tasks
    BY <2>2, <2>6 DEF Alone
  <2>8. ~(Len(calls) > 1)
    <3>1. Len(calls) > 1 => Names(calls) \subseteq Together(P)
      BY <1>2, <1>4, CalleeLists
    <3>2. Together(P) \subseteq Beside(P)
      BY <1>2, CalleeLists
    <3> QED
      BY <2>5, <3>1, <3>2
  <2> QED
    BY <2>1, <2>3, <2>7, <2>8
<1> QED
  BY <1>3, <1>4 DEF Proceeds

-----------------------------------------------------------------------------
\* No call is pending on a page at rest: it shows what the server has.
LEMMA AtRest ==
    ASSUME NEW r, FreshInv(r), Quiet
    PROVE  shown[r] \ edited[r] = srv[r] \ edited[r]
<1>1. \A i \in DOMAIN tasks : ~Pending(tasks[i], r)
  BY DEF Quiet, Pending, Due, Active
<1> QED
  BY <1>1 DEF FreshInv

\* Where r is refreshed, what is shown of it changes with an answer only, or
\* with what the user types.
LEMMA Untouched ==
    ASSUME page \in DOMAIN Catalog, NEW r, Refreshes(P, r), NEW h \in DOMAIN P.handlers
    PROVE  /\ r \notin Handler(h).early
           /\ r \in Handler(h).local => Copies(h, r)
           /\ Copies(h, r) => Handler(h).does # <<>> /\ r \notin Handler(h).blank
           /\ r \in Handler(h).blank =>
                 \A k \in DOMAIN Handler(h).does : Changes(Handler(h).does[k]) = {}
<1>1. CASE ReadsOnly(Handler(h), r)
  BY <1>1, Kinds DEF ReadsOnly
<1>2. CASE Copies(h, r)
  <2>1. Handler(h).does # <<>>
    BY <1>2 DEF Copies, Mirrors
  <2> QED
    BY <1>2, <2>1 DEF Copies, Mirrors
<1>3. CASE Renews(P, Handler(h), r) /\ ~Copies(h, r)
  BY <1>3 DEF Renews
<1> QED
  BY <1>1, <1>2, <1>3, Kinds

LEMMA FreshBegin ==
    ASSUME Calls, NEW r \in Reads, Refreshes(P, r), FreshInv(r), NEW h \in DOMAIN P.handlers,
           NEW i, Begin(h, i), page' = page, srv' = srv, ~overlap'
    PROVE  FreshInv(r)'
<1> DEFINE H == Handler(h)
           now == shown'
<1>1. /\ now[r] = IF r \in H.early \cup H.edits \/ (H.does = <<>> /\ r \in H.local)
                  THEN shown[r] \cup {i} ELSE shown[r]
      /\ edited'[r] = IF r \in H.edits THEN edited[r] \cup {i} ELSE edited[r]
  BY DEF Begin
<1>2. CASE Instant(h)
  <2>1. now[r] = shown[r] /\ edited'[r] = edited[r] /\ tasks' = tasks
    BY <1>1, <1>2 DEF Instant, Begin
  <2>2. \A j \in DOMAIN tasks : tasks[j].at # "gone" => Suits(tasks[j], j, r, shown[r], srv[r], edited[r])
    BY DEF FreshInv, Active
  <2> QED
    BY <2>1, <2>2, FreshNext DEF FreshInv
<1>3. CASE ~Instant(h)
  <2>1. PICK t : /\ tasks' = Append(tasks, t)
                 /\ t = IF H.does = <<>> THEN Gone ELSE Task(h, sel, now)
    BY <1>3 DEF Begin
  <2>2. Quiet
    BY <1>3 DEF Begin
  <2>3. r \notin H.early /\ ~(H.does = <<>> /\ r \in H.local)
    BY Untouched DEF Calls
  <2>4. now[r] \ edited'[r] = srv[r] \ edited'[r]
    BY <1>1, <2>2, <2>3, AtRest
  <2>5. /\ t.at # "gone" => t.at = "asked" /\ t.h = h
        /\ t.at # "gone" /\ Closes(h) => t.saw = now
    BY <2>1 DEF Gone, Task
  <2>6. t.at # "gone" => Suits(t, Len(tasks) + 1, r, now[r], srv[r], edited'[r])
    BY <2>5 DEF Suits
  <2>7. \A j \in DOMAIN tasks' : tasks'[j].at # "gone" => j = Len(tasks) + 1 /\ tasks'[j] = t
    BY <2>1, <2>2, AppendTasks DEF Quiet, Active
  <2> QED
    BY <2>4, <2>6, <2>7, FreshNext
<1> QED
  BY <1>2, <1>3

LEMMA FreshCalled ==
    ASSUME Calls, NEW r \in Reads, Refreshes(P, r), FreshInv(r), NEW k, NEW hs \in Seq(Callable),
           NEW s, CallAll(k, hs, s), Names(hs) \subseteq Callees(P), ~overlap'
    PROVE  FreshInv(r)'
<1>1. Quiet /\ tasks' = tasks \o Called(hs, s)
  BY DEF CallAll
<1>2. page' = page /\ srv' = srv /\ shown' = shown /\ edited' = edited
  BY DEF CallAll
<1>3. /\ \A j \in DOMAIN tasks : j \in DOMAIN tasks' /\ tasks'[j] = tasks[j]
      /\ \A j \in DOMAIN tasks' \ DOMAIN tasks : \E h \in Names(hs) : tasks'[j] = Task(h, s, shown)
  BY ZenonT(30), <1>1, MoreTasks
<1>4. ASSUME NEW j \in DOMAIN tasks', tasks'[j].at # "gone"
      PROVE  Suits(tasks'[j], j, r, shown'[r], srv'[r], edited'[r])
  <2>1. j \notin DOMAIN tasks
    BY <1>1, <1>3, <1>4 DEF Quiet, Active
  <2>2. PICK h \in Names(hs) : tasks'[j] = Task(h, s, shown)
    BY <1>3, <2>1
  <2>3. tasks'[j].at = "asked" /\ tasks'[j].h = h
    BY <2>2 DEF Task
  <2> QED
    BY <2>3 DEF Suits, Copies
<1> QED
  BY <1>1, <1>2, <1>4, AtRest, FreshNext

\* After a call has proceeded nobody has been told anything new of r, and nobody
\* is about to copy a change of it.
LEMMA SuitsAfter ==
    ASSUME Calls, Alone, NEW r, Refreshes(P, r), FreshInv(r), NEW i \in DOMAIN tasks, Active(i),
           Proceeds(i), NEW now, NEW j \in DOMAIN tasks', tasks'[j].at # "gone"
    PROVE  Suits(tasks'[j], j, r, now, srv[r], edited[r])
<1>1. tasks[i].h \in DOMAIN P.handlers /\ page \in DOMAIN Catalog
  BY DEF Calls, Awaits
<1>2. CASE j \in DOMAIN tasks \ {i}
  <2>1. tasks'[j] = tasks[j] /\ Active(j)
    BY <1>2, ProceedsTasks DEF Active
  <2>2. tasks[j].h \in DOMAIN P.handlers
    BY <2>1, <1>2 DEF Calls, Awaits
  <2>3. tasks[j].h \in Beside(P)
    BY <1>2, <2>1 DEF Alone
  <2>4. ~Copies(tasks[j].h, r)
    BY <1>1, <2>2, <2>3, Kinds
  <2>5. Suits(tasks[j], j, r, shown[r], srv[r], edited[r])
    BY <1>2, <2>1 DEF FreshInv
  <2> QED
    BY <2>1, <2>4, <2>5 DEF Suits
<1>3. CASE j = i
  <2>1. ~Last(i) /\ tasks'[i] = Moved(tasks[i], "asked", tasks[i].pc + 1, <<>>)
    BY <1>3, ProceedsTasks
  <2>2. tasks'[i].at = "asked" /\ tasks'[i].h = tasks[i].h
    BY <2>1 DEF Moved
  <2>3. ~Copies(tasks[i].h, r)
    BY <2>1, CopyIsLast
  <2> QED
    BY <1>3, <2>2, <2>3 DEF Suits
<1>4. CASE j \notin DOMAIN tasks
  <2>1. PICK h \in NextCalls(Handler(tasks[i].h)) : tasks'[j] = Task(h, tasks[i].sel, shown)
    BY <1>4, ProceedsTasks
  <2>2. tasks'[j].at = "asked" /\ tasks'[j].h = h
    BY <2>1 DEF Task
  <2>3. h \in Callees(P)
    BY <1>1, CalleeLists
  <2> QED
    BY <2>2, <2>3 DEF Suits, Copies
<1> QED
  BY <1>2, <1>3, <1>4

\* What is due stays due: the call goes on, or calls the handler that fetches.
LEMMA DueStill ==
    ASSUME Calls, NEW r, NEW i \in DOMAIN tasks, Active(i), Due(tasks[i], r),
           GoesOn(i) \/ (Last(i) /\ Ends(i, Handler(tasks[i].h).then)),
           r \notin Request(i).gets \/ Changes(Request(i)) # {}
    PROVE  \E j \in DOMAIN tasks' : Due(tasks'[j], r)
<1> DEFINE H == Handler(tasks[i].h)
           pc == tasks[i].pc
<1>1. /\ pc \in Nat \ {0}
      /\ Last(i) => \A k \in DOMAIN H.does : k \in Nat /\ k <= pc
      /\ \A k \in DOMAIN H.does : k \in Nat \ {0}
  BY NextRequest
<1>2. pc \in DOMAIN H.does /\ Request(i) = H.does[pc]
  BY DEF Calls, Awaits, Request
<1>3. ASSUME NEW k \in DOMAIN H.does, k >= pc, r \in H.does[k].gets,
             Fetches(H, r) \/ FetchesAt(H, r, k)
      PROVE  k >= pc + 1
  <2>1. k # pc
    BY <1>2, <1>3 DEF Fetches, FetchesAt
  <2> QED
    BY <1>1, <1>3, <2>1
<1>4. CASE GoesOn(i)
  <2> DEFINE t == tasks'[i]
  <2>1. i \in DOMAIN tasks' /\ t = Moved(tasks[i], "asked", pc + 1, <<>>)
    BY <1>4, GoesOnTasks
  <2>2. t.at = "asked" /\ t.h = tasks[i].h /\ t.pc = pc + 1 /\ pc + 1 > 1
    BY <1>1, <2>1 DEF Moved
  <2> HIDE DEF t
  <2>3. CASE Fetches(H, r) /\ \E k \in DOMAIN H.does : k >= pc /\ r \in H.does[k].gets
    <3>1. \E k \in DOMAIN H.does : k >= pc + 1 /\ r \in H.does[k].gets
      BY <1>3, <2>3
    <3> QED
      BY <2>1, <2>2, <2>3, <3>1 DEF Due, t
  <2>4. CASE Renews(P, H, r) /\ \E k \in DOMAIN H.does : k >= pc /\ FetchesAt(H, r, k)
    <3>1. \E k \in DOMAIN H.does : k >= pc + 1 /\ FetchesAt(H, r, k)
      BY <1>3, <2>4 DEF FetchesAt
    <3> QED
      BY <2>1, <2>2, <2>4, <3>1 DEF Due, t
  <2>5. CASE Renews(P, H, r) /\ \E h \in Names(H.then) : Fetches(Handler(h), r)
    BY <2>1, <2>2, <2>5 DEF Due, t
  <2> QED
    BY <2>3, <2>4, <2>5 DEF Due
<1>5. CASE Last(i) /\ Ends(i, H.then)
  <2>1. ~(\E k \in DOMAIN H.does : k >= pc /\ r \in H.does[k].gets /\ (Fetches(H, r) \/ FetchesAt(H, r, k)))
    BY <1>1, <1>3, <1>5
  <2>2. PICK h \in Names(H.then) : Fetches(Handler(h), r)
    BY <2>1 DEF Due, FetchesAt
  <2>3. h \in Callable
    BY <1>5, EndsTasks
  <2>4. PICK j \in DOMAIN tasks' : tasks'[j] = Task(h, tasks[i].sel, shown)
    BY <1>5, EndsTasks
  <2>5. tasks'[j].at = "asked" /\ tasks'[j].h = h /\ tasks'[j].pc = 1
    BY <2>4 DEF Task
  <2>6. \E k \in DOMAIN Handler(h).does : k >= 1 /\ r \in Handler(h).does[k].gets
    <3>1. PICK S : Handler(h).does \in Seq(S)
      BY <2>3, CatalogAssumption DEF Calls, Callable, P, Handler
    <3>2. \A k \in DOMAIN Handler(h).does : k >= 1
      BY <3>1
    <3> QED
      BY <2>2, <3>2 DEF Fetches
  <2> QED
    BY <2>2, <2>5, <2>6 DEF Due
<1> QED
  BY <1>4, <1>5

\* The server changes r, or does not, and says what it has.
LEMMA FreshServe ==
    ASSUME Calls, Alone, NEW r \in Reads, Refreshes(P, r), FreshInv(r),
           NEW i \in DOMAIN tasks, Serve(i)
    PROVE  FreshInv(r)'
<1> DEFINE H == Handler(tasks[i].h)
           pc == tasks[i].pc
           q == Request(i)
           real == srv'[r]
           t == tasks'[i]
<1>1. Active(i) /\ tasks[i].at = "asked" /\ page' = page /\ shown' = shown /\ edited' = edited
  BY DEF Serve
<1>2. /\ tasks[i].h \in DOMAIN P.handlers /\ page \in DOMAIN Catalog
      /\ pc \in DOMAIN H.does /\ q = H.does[pc]
  BY <1>1 DEF Calls, Awaits, Request
<1>3. /\ pc \in Nat \ {0}
      /\ \A k \in DOMAIN H.does : k \in Nat \ {0}
  BY <1>1, NextRequest
<1>4. real = (IF r \in q.saves THEN tasks[i].saw[r] ELSE srv[r]) \cup (IF r \in q.puts THEN {i} ELSE {})
  BY DEF Serve
<1>5. /\ DOMAIN tasks' = DOMAIN tasks
      /\ \A j \in DOMAIN tasks \ {i} : tasks'[j] = tasks[j]
      /\ t = Moved(tasks[i], "served", pc, [x \in q.gets |-> srv'[x]])
  BY DEF Serve
<1>6. /\ t.at = "served" /\ t.h = tasks[i].h /\ t.pc = pc /\ t.saw = tasks[i].saw
      /\ r \in q.gets => t.got[r] = real
  BY <1>5 DEF Moved
<1> HIDE DEF t, real, q, H, pc
<1>7. CASE r \notin Changes(q)
  <2>1. real = srv[r]
    BY <1>4, <1>7 DEF Changes
  <2>2. ~Copies(tasks[i].h, r)
    <3>1. Copies(tasks[i].h, r) => pc = 1
      BY <1>1, CopyIsLast DEF pc
    <3> QED
      BY <1>2, <1>7, <3>1 DEF Copies, Mirrors, H
  <2>3. Suits(t, i, r, shown[r], real, edited[r])
    BY <1>2, <1>6, <2>2 DEF Suits, H
  <2>4. ASSUME NEW j \in DOMAIN tasks', tasks'[j].at # "gone"
        PROVE  Suits(tasks'[j], j, r, shown[r], real, edited[r])
    BY <1>5, <2>1, <2>3, <2>4 DEF FreshInv, Active, t
  <2>5. Pending(tasks[i], r) => Pending(t, r)
    BY <1>1, <1>6, <2>2 DEF Pending, Due, pc
  <2>6. \A j \in DOMAIN tasks : Pending(tasks[j], r) => Pending(tasks'[j], r)
    BY <1>5, <2>5 DEF t
  <2> QED
    BY <1>1, <1>5, <2>1, <2>4, <2>6, FreshNext DEF FreshInv, real
<1>8. CASE r \in Changes(q)
  <2>1. ~ReadsOnly(H, r)
    BY <1>2, <1>8 DEF ReadsOnly
  <2>2. /\ tasks[i].h \notin Beside(P)
        /\ Copies(tasks[i].h, r) \/ (Renews(P, H, r) /\ ~Copies(tasks[i].h, r))
    <3>1. ~ReadsOnly(Handler(tasks[i].h), r)
      BY <2>1 DEF H
    <3>2. /\ tasks[i].h \notin Beside(P)
          /\ \/ Copies(tasks[i].h, r)
             \/ Renews(P, Handler(tasks[i].h), r) /\ ~Copies(tasks[i].h, r)
      BY <1>2, <3>1, Kinds
    <3> QED
      BY <3>2 DEF H
  <2>3. \A j \in DOMAIN tasks : Active(j) => j = i
    BY <1>1, <2>2 DEF Alone
  <2>4. \A j \in DOMAIN tasks' : tasks'[j].at # "gone" => j = i
    BY <1>5, <2>3 DEF Active
  <2>5. CASE Copies(tasks[i].h, r)
    <3>1. pc = 1
      BY <1>1, <2>5, CopyIsLast DEF pc
    <3>2. r \notin q.gets /\ (r \in q.puts <=> r \in H.local)
      BY <1>2, <2>5, <3>1 DEF Copies, Mirrors, H
    <3>3. ~Pending(tasks[i], r)
      BY <1>1, <1>2, <1>8, <3>1 DEF Pending, Due, Fetches, H, pc
    <3>4. shown[r] \ edited[r] = srv[r] \ edited[r]
      <4>1. \A j \in DOMAIN tasks : ~Pending(tasks[j], r)
        BY <2>3, <3>3 DEF Pending, Due, Active
      <4> QED
        BY <4>1 DEF FreshInv
    <3>5. Closes(tasks[i].h) => tasks[i].saw[r] = shown[r]
      BY <1>1, <2>5 DEF FreshInv, Suits
    <3>6. r \in q.saves => Closes(tasks[i].h)
      BY <1>2 DEF Closes, H
    <3>7. (shown[r] \cup {x \in {i} : r \in H.local}) \ edited[r] = real \ edited[r]
      BY <1>4, <3>2, <3>4, <3>5, <3>6
    <3>8. Suits(t, i, r, shown[r], real, edited[r])
      BY <1>2, <1>6, <3>2, <3>5, <3>7 DEF Suits, H
    <3>9. Pending(t, r)
      BY <1>6, <2>5 DEF Pending
    <3> QED
      BY <1>1, <1>5, <2>4, <3>8, <3>9, FreshNext DEF t, real
  <2>6. CASE Renews(P, H, r) /\ ~Copies(tasks[i].h, r)
    <3>1. Suits(t, i, r, shown[r], real, edited[r])
      BY <1>2, <1>6, <2>6 DEF Suits, H
    <3>2. ASSUME NEW k \in DOMAIN H.does, FetchesAt(H, r, k)
          PROVE  k >= pc
      <4>1. ~(pc >= k)
        BY <1>2, <1>8, <3>2 DEF FetchesAt
      <4> QED
        BY <1>3, <4>1
    <3>3. \/ \E k \in DOMAIN H.does : k >= pc /\ FetchesAt(H, r, k)
          \/ \E h \in Names(H.then) : Fetches(Handler(h), r)
      BY <2>6, <3>2 DEF Renews, Handler
    <3>4. Pending(t, r)
      BY <1>6, <2>6, <3>3 DEF Pending, Due, H
    <3> QED
      BY <1>1, <1>5, <2>4, <3>1, <3>4, FreshNext DEF t, real
  <2> QED
    BY <2>2, <2>5, <2>6
<1> QED
  BY <1>7, <1>8

\* The call that i makes or ends, and what is pending of r, after its answer or
\* its failure. What is shown of r is now, and is true if nothing is due.
LEMMA FreshAfter ==
    ASSUME Calls, Alone, NEW r, Refreshes(P, r), FreshInv(r), NEW i \in DOMAIN tasks, Active(i),
           Proceeds(i), page' = page, srv' = srv, edited' = edited,
           \/ shown'[r] \ edited[r] = srv[r] \ edited[r]
           \/ \E j \in DOMAIN tasks' : Due(tasks'[j], r)
           \/ \E j \in DOMAIN tasks \ {i} : Pending(tasks[j], r)
    PROVE  FreshInv(r)'
<1>1. \A j \in DOMAIN tasks' :
         tasks'[j].at # "gone" => Suits(tasks'[j], j, r, shown'[r], srv'[r], edited'[r])
  <2>1. PICK now : now = shown'[r]
    OBVIOUS
  <2>2. \A j \in DOMAIN tasks' :
           tasks'[j].at # "gone" => Suits(tasks'[j], j, r, now, srv[r], edited[r])
    BY SuitsAfter
  <2> QED
    BY <2>1, <2>2
<1>2. \A j \in DOMAIN tasks \ {i} : j \in DOMAIN tasks' /\ tasks'[j] = tasks[j]
  BY ProceedsTasks
<1>3. \/ shown'[r] \ edited'[r] = srv'[r] \ edited'[r]
      \/ \E j \in DOMAIN tasks' : Pending(tasks'[j], r)
  BY <1>2 DEF Pending
<1> QED
  BY <1>1, <1>3, FreshNext

LEMMA FreshAnswer ==
    ASSUME Calls, Alone, NEW r \in Reads, Refreshes(P, r), FreshInv(r),
           NEW i \in DOMAIN tasks, Answer(i)
    PROVE  FreshInv(r)'
<1> DEFINE H == Handler(tasks[i].h)
           q == Request(i)
           now == shown'[r]
           clean == now \ edited[r] = srv[r] \ edited[r]
<1>1. Active(i) /\ tasks[i].at = "served" /\ page' = page /\ srv' = srv /\ edited' = edited
  BY DEF Answer
<1>2. now = Answered(i, r)
  BY DEF Answer
<1>3. GoesOn(i) \/ (Last(i) /\ Ends(i, H.then))
  BY DEF Answer, GoesOn, Ends
<1>4. /\ tasks[i].h \in DOMAIN P.handlers /\ page \in DOMAIN Catalog
      /\ tasks[i].pc \in DOMAIN H.does /\ q = H.does[tasks[i].pc]
  BY <1>1 DEF Calls, Awaits, Request
<1>5. Suits(tasks[i], i, r, shown[r], srv[r], edited[r])
  BY <1>1 DEF FreshInv
<1>6. Copies(tasks[i].h, r) => Last(i) /\ r \notin q.gets
  <2>1. Copies(tasks[i].h, r) => Last(i) /\ tasks[i].pc = 1
    BY <1>1, CopyIsLast
  <2> QED
    BY <1>4, <2>1 DEF Copies, Mirrors
<1>7. r \in H.local => Copies(tasks[i].h, r)
  BY <1>4, Untouched
<1> HIDE DEF H, q, now, clean
<1>8. \/ clean
      \/ \E j \in DOMAIN tasks' : Due(tasks'[j], r)
      \/ \E j \in DOMAIN tasks \ {i} : Pending(tasks[j], r)
  <2>1. CASE r \in q.gets
    <3>1. tasks[i].got[r] = srv[r]
      BY <1>1, <1>4, <1>5, <2>1 DEF Suits, H
    <3>2. now = tasks[i].got[r]
      BY <1>2, <1>6, <1>7, <2>1 DEF Answered, H, q
    <3> QED
      BY <3>1, <3>2 DEF clean
  <2>2. CASE Copies(tasks[i].h, r)
    <3>1. (shown[r] \cup {x \in {i} : r \in H.local}) \ edited[r] = srv[r] \ edited[r]
      BY <1>1, <1>5, <2>2 DEF Suits, H
    <3>2. H.stale => tasks[i].saw[r] = shown[r]
      BY <1>5, <2>2 DEF Suits, Closes, H
    <3>3. now = shown[r] \cup {x \in {i} : r \in H.local}
      BY <1>2, <1>6, <2>2, <3>2 DEF Answered, H, q
    <3> QED
      BY <3>1, <3>3 DEF clean
  <2>3. CASE r \notin q.gets /\ ~Copies(tasks[i].h, r)
    <3>1. now = shown[r]
      BY <1>2, <1>7, <2>3 DEF Answered, H, q
    <3>2. CASE Pending(tasks[i], r)
      <4>1. Due(tasks[i], r)
        BY <2>3, <3>2 DEF Pending
      <4> QED
        BY <1>1, <1>3, <2>3, <4>1, DueStill DEF q, H
    <3>3. CASE ~Pending(tasks[i], r)
      BY <3>1, <3>3 DEF FreshInv, clean
    <3> QED
      BY <3>2, <3>3
  <2> QED
    BY <2>1, <2>2, <2>3
<1>9. Proceeds(i)
  BY <1>3 DEF Proceeds, H
<1> QED
  BY <1>1, <1>8, <1>9, FreshAfter DEF clean, now

\* Only a refusal of a change leaves the page in order: nothing was changed, and
\* a handler that has already changed something goes on.
LEMMA FreshFail ==
    ASSUME Calls, Alone, NEW r \in Reads, Refreshes(P, r), FreshInv(r),
           NEW i \in DOMAIN tasks, Fail(i), trouble' # "lost"
    PROVE  FreshInv(r)'
<1> DEFINE H == Handler(tasks[i].h)
           q == Request(i)
<1>1. Active(i) /\ page' = page /\ srv' = srv /\ edited' = edited
  BY DEF Fail
<1>2. tasks[i].at = "asked" /\ Changes(q) # {}
  BY DEF Fail, Changes
<1>3. /\ tasks[i].h \in DOMAIN P.handlers /\ page \in DOMAIN Catalog
      /\ tasks[i].pc \in DOMAIN H.does /\ q = H.does[tasks[i].pc]
  BY <1>1 DEF Calls, Awaits, Request
<1>4. r \notin H.early /\ r \notin H.blank
  BY <1>2, <1>3, Untouched
<1>5. shown'[r] = shown[r]
  BY <1>4 DEF Fail
<1>6. /\ q.soft => GoesOn(i) \/ (Last(i) /\ Ends(i, H.then))
      /\ ~q.soft => Ends(i, H.rescue)
  BY DEF Fail, GoesOn, Ends
<1>7. Proceeds(i)
  BY <1>6 DEF Proceeds
<1>8. tasks[i].pc \in Nat \ {0}
  BY <1>1, NextRequest
<1> HIDE DEF H, q
<1>9. CASE Pending(tasks[i], r)
  <2>1. Due(tasks[i], r)
    BY <1>2, <1>9 DEF Pending
  <2>2. ~Fetches(H, r)
    BY <1>2, <1>3 DEF Fetches
  <2>3. Renews(P, H, r) /\ tasks[i].pc > 1
    BY <1>2, <2>1, <2>2 DEF Due, H
  <2>4. q.soft
    BY <1>3, <2>3 DEF Renews
  <2>5. \E j \in DOMAIN tasks' : Due(tasks'[j], r)
    BY <1>1, <1>2, <1>6, <2>1, <2>4, DueStill DEF H, q
  <2> QED
    BY <1>1, <1>7, <2>5, FreshAfter
<1>10. CASE ~Pending(tasks[i], r)
  <2>1. \/ shown'[r] \ edited[r] = srv[r] \ edited[r]
        \/ \E j \in DOMAIN tasks \ {i} : Pending(tasks[j], r)
    BY <1>5, <1>10 DEF FreshInv
  <2> QED
    BY <1>1, <1>7, <2>1, FreshAfter
<1> QED
  BY <1>9, <1>10

-----------------------------------------------------------------------------
LEMMA SerialInit == Init => SerialInv
<1> SUFFICES ASSUME Init PROVE SerialInv
  OBVIOUS
<1>1. page \in DOMAIN Catalog /\ tasks = [k \in DOMAIN P.mount |-> Task(P.mount[k], sel, shown)]
  BY DEF Init, Called
<1>2. Names(P.mount) \subseteq Beside(P) /\ Names(P.mount) \subseteq Callees(P)
  BY <1>1, CalleeLists
<1>3. \A i \in DOMAIN tasks : tasks[i].at = "asked" /\ tasks[i].h \in Names(P.mount)
  BY <1>1 DEF Task, Names
<1>4. Alone
  BY <1>2, <1>3 DEF Alone
<1>5. ASSUME NEW r \in Reads
      PROVE  FreshInv(r)
  <2>1. shown[r] = {} /\ srv[r] = {}
    BY DEF Init, Reads, P
  <2>2. \A i \in DOMAIN tasks : Suits(tasks[i], i, r, shown[r], srv[r], edited[r])
    BY <1>2, <1>3 DEF Suits, Copies
  <2> QED
    BY <2>1, <2>2 DEF FreshInv
<1> QED
  BY <1>4, <1>5 DEF SerialInv

LEMMA SerialStep == IInv /\ SerialInv /\ [Next]_vars => SerialInv'
<1> SUFFICES ASSUME IInv, SerialInv, [Next]_vars, Orderly' PROVE SerialInv'
  BY DEF SerialInv
<1>1. Calls /\ page \in DOMAIN Catalog
  BY DEF IInv, Calls
<1>2. CASE UNCHANGED vars
  <2>1. UNCHANGED <<page, srv, shown, tasks, overlap, trouble, edited>>
    BY <1>2 DEF vars
  <2>2. P' = P /\ Orderly
    BY <2>1 DEF P, Orderly
  <2>3. Closed => Alone'
    BY <2>1, <2>2 DEF SerialInv, Alone, Active
  <2>4. ASSUME NEW r \in Reads, Refreshes(P, r)
        PROVE  FreshInv(r)'
    <3>1. FreshInv(r)
      BY <2>2, <2>4 DEF SerialInv
    <3>2. \A i \in DOMAIN tasks : tasks[i].at # "gone" => Suits(tasks[i], i, r, shown[r], srv[r], edited[r])
      BY <3>1 DEF FreshInv, Active
    <3> QED
      BY <2>1, <3>1, <3>2, FreshNext DEF FreshInv
  <2> QED
    BY <2>2, <2>3, <2>4 DEF SerialInv, Closed, Reads
<1>3. CASE Next
  <2>1. page' = page /\ Orderly
    <3>1. /\ page' = page
          /\ ~overlap' => ~overlap
          /\ trouble' = trouble \/ trouble = "none"
      <4>1. ASSUME NEW h, Click(h) \/ Timer(h)
            PROVE  /\ page' = page
                   /\ ~overlap' => ~overlap
                   /\ trouble' = trouble
        BY <4>1 DEF Click, Timer, Begin
      <4>2. ASSUME NEW k, NEW s, Select(k, s) \/ Press(k)
            PROVE  page' = page /\ (~overlap' => ~overlap) /\ trouble' = trouble
        BY <4>2 DEF Select, Press, CallAll
      <4>3. ASSUME NEW i, Serve(i) \/ Answer(i) \/ Fail(i)
            PROVE  page' = page /\ overlap' = overlap /\ (trouble' = trouble \/ trouble = "none")
        BY <4>3 DEF Serve, Answer, Fail, MayFail
      <4> QED
        BY <1>3, <4>1, <4>2, <4>3 DEF Next
    <3> QED
      BY <3>1 DEF Orderly
  <2>2. P' = P
    BY <2>1 DEF P
  <2>3. ~overlap' /\ trouble' # "lost"
    BY DEF Orderly
  <2>4. (Closed => Alone) /\ \A r \in Reads : Refreshes(P, r) => Closed /\ FreshInv(r)
    BY <2>1 DEF SerialInv, Refreshes, Closed
  <2> SUFFICES ASSUME Closed
               PROVE  Alone' /\ \A r \in Reads : Refreshes(P, r) => FreshInv(r)'
    <3>1. Closed' <=> Closed
      BY <2>2 DEF Closed
    <3>2. \A r \in Reads : Refreshes(P, r) => Closed
      BY <2>4
    <3> QED
      BY <2>2, <3>1, <3>2 DEF SerialInv, Reads
  <2>5. ASSUME NEW h \in DOMAIN P.handlers, Click(h) \/ Timer(h)
        PROVE  Alone' /\ \A r \in Reads : Refreshes(P, r) => FreshInv(r)'
    <3>1. Begin(h, Len(tasks) + 1) /\ srv' = srv
      BY <2>5 DEF Click, Timer
    <3>2. Alone'
      BY <1>1, <2>1, <2>3, <2>4, <3>1, AloneBegin
    <3>3. \A r \in Reads : Refreshes(P, r) => FreshInv(r)'
      BY <1>1, <2>1, <2>3, <2>4, <3>1, FreshBegin
    <3> QED
      BY <3>2, <3>3
  <2>6. ASSUME NEW k, NEW hs \in Seq(Callable), NEW s, CallAll(k, hs, s), Names(hs) \subseteq Beside(P)
        PROVE  Alone' /\ \A r \in Reads : Refreshes(P, r) => FreshInv(r)'
    <3>1. Names(hs) \subseteq Callees(P)
      BY <1>1, <2>6, CalleeLists
    <3>2. Alone'
      BY <1>1, <2>3, <2>4, <2>6, AloneCalled
    <3>3. \A r \in Reads : Refreshes(P, r) => FreshInv(r)'
      BY <1>1, <2>3, <2>4, <2>6, <3>1, FreshCalled
    <3> QED
      BY <3>2, <3>3
  <2>7. ASSUME NEW k \in DOMAIN P.selects, NEW s, Select(k, s)
        PROVE  Alone' /\ \A r \in Reads : Refreshes(P, r) => FreshInv(r)'
    <3>1. P.selects[k] \in Seq(Callable) /\ Names(P.selects[k]) \subseteq Beside(P)
      BY <1>1, CallLists, CalleeLists
    <3> QED
      BY <2>6, <2>7, <3>1 DEF Select
  <2>8. ASSUME NEW k \in DOMAIN P.presses, Press(k)
        PROVE  Alone' /\ \A r \in Reads : Refreshes(P, r) => FreshInv(r)'
    <3>1. P.presses[k] \in Seq(Callable) /\ Names(P.presses[k]) \subseteq Beside(P)
      BY <1>1, CallLists, CalleeLists
    <3> QED
      BY <2>6, <2>8, <3>1 DEF Press
  <2>9. ASSUME NEW i \in DOMAIN tasks, Serve(i)
        PROVE  Alone' /\ \A r \in Reads : Refreshes(P, r) => FreshInv(r)'
    <3>1. \A r \in Reads : Refreshes(P, r) => FreshInv(r)'
      BY <1>1, <2>4, <2>9, FreshServe
    <3>2. DOMAIN tasks' = DOMAIN tasks /\ \A j \in DOMAIN tasks : tasks'[j].h = tasks[j].h /\ (Active(j)' => Active(j))
      <4>1. PICK t : t.h = tasks[i].h /\ tasks' = [tasks EXCEPT ![i] = t]
        BY <2>9 DEF Serve, Moved
      <4> QED
        BY <2>9, <4>1 DEF Serve, Active
    <3> QED
      BY <2>2, <2>4, <3>1, <3>2 DEF Alone
  <2>10. ASSUME NEW i \in DOMAIN tasks, Answer(i) \/ Fail(i)
         PROVE  Alone' /\ \A r \in Reads : Refreshes(P, r) => FreshInv(r)'
    <3>1. Active(i) /\ Proceeds(i)
      BY <2>10 DEF Answer, Fail, Proceeds, GoesOn, Ends
    <3>2. Alone'
      BY <1>1, <2>1, <2>4, <3>1, AloneProceeds
    <3>3. \A r \in Reads : Refreshes(P, r) => FreshInv(r)'
      BY <1>1, <2>3, <2>4, <2>10, FreshAnswer, FreshFail
    <3> QED
      BY <3>2, <3>3
  <2> QED
    BY <1>3, <2>5, <2>7, <2>8, <2>9, <2>10 DEF Next
<1> QED
  BY <1>2, <1>3

LEMMA SerialHolds == Spec => []SerialInv
  BY InitInv, SerialInit, StepInv, SerialStep, PTL DEF Spec

LEMMA RefreshedIsTrue ==
    ASSUME SerialInv, ~overlap, NEW r \in Reads, Refreshes(P, r)
    PROVE  r \notin Stale
<1> SUFFICES ASSUME Quiet, trouble # "lost" PROVE shown[r] \ edited[r] = srv[r] \ edited[r]
  BY DEF Stale
<1> QED
  BY AtRest DEF SerialInv, Orderly

\* Whatever the page: where every handler that changes a resource fetches it
\* again, by itself or by what it calls, or changes it on the page as well, and
\* the calls were made one at a time, the page at rest shows what the server
\* has (await api.put(..); loadData() of pages and settings).
THEOREM ChangesAreShown == Spec => [](\A r \in Reads : Refreshes(P, r) /\ ~overlap => r \notin Stale)
<1>1. SerialInv => \A r \in Reads : Refreshes(P, r) /\ ~overlap => r \notin Stale
  BY RefreshedIsTrue
<1> QED
  BY <1>1, SerialHolds, PTL

\* No page comes to rest with an old state, on every catalog that refreshes
\* what it does not list as lagging.
THEOREM SerialFreshHolds ==
    ASSUME \A p \in DOMAIN Catalog : \A r \in Catalog[p].reads :
              <<p, r>> \in Lagging \/ Refreshes(Catalog[p], r)
    PROVE  Spec => []SerialFresh
<1>1. IInv /\ SerialInv => SerialFresh
  <2> SUFFICES ASSUME IInv, SerialInv, ~overlap, NEW r \in Stale PROVE <<page, r>> \in Lagging
    BY DEF SerialFresh
  <2>1. r \in Reads /\ page \in DOMAIN Catalog
    BY DEF Stale, IInv, Calls
  <2>2. ~Refreshes(P, r)
    BY <2>1, RefreshedIsTrue
  <2> QED
    BY <2>1, <2>2 DEF Reads, P
<1> QED
  BY <1>1, InvHolds, SerialHolds, PTL
=============================================================================
