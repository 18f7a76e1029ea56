--------------------------- MODULE WatchParty_proofs ---------------------------
(***************************************************************************)
(* What holds of the lists and of broadcasts for any number of sockets,    *)
(* however handlers enter, broadcast and leave at once; and of the rate    *)
(* limiter of a socket, for every limit and window.                        *)
(***************************************************************************)
EXTENDS WatchParty, SlidingWindow, FiniteSetTheorems, TLAPS

\* A handler knows the list it was given, and one that broadcasts its room.
Placed(s) ==
    /\ conn[s].pc # "out" => conn[s].list \in Lists
    /\ conn[s].pc = "bcast" => conn[s].room \in Lists

Capped(l) ==
    /\ IsFiniteSet(members[l])
    /\ Cardinality(members[l]) <= MaxConnectionsPerParty

IInv ==
    /\ TypeOK /\ NoGhosts
    /\ \A s \in Sockets : Placed(s)
    /\ \A l \in Lists : Capped(l)

LEMMA InitInv == Init => IInv
<1> SUFFICES ASSUME Init PROVE IInv
  OBVIOUS
<1>1. Out \in ConnState /\ Out.pc = "out"
  BY DEF Out, ConnState
<1>2. TypeOK
  BY <1>1 DEF Init, TypeOK
<1>3. \A s \in Sockets : Placed(s)
  BY <1>1 DEF Init, Placed
<1>4. \A l \in Lists : members[l] = {}
  BY DEF Init
<1>5. NoGhosts /\ \A l \in Lists : Capped(l)
  BY <1>4, FS_EmptySet, PartyAssumption DEF NoGhosts, Capped
<1> QED
  BY <1>2, <1>3, <1>5 DEF IInv

-----------------------------------------------------------------------------
\* Invalidating the enumerators of a list changes nothing but that.
LEMMA ChangedKeeps ==
    ASSUME IInv, NEW l
    PROVE  /\ Changed(l) \in [Sockets -> ConnState]
           /\ \A t \in Sockets : /\ Changed(l)[t].pc = conn[t].pc
                                 /\ Changed(l)[t].list = conn[t].list
                                 /\ Changed(l)[t].room = conn[t].room
<1>1. \A t \in Sockets : conn[t] \in ConnState
  BY DEF IInv, TypeOK
<1>2. ASSUME NEW h \in ConnState, NEW c, c = [h EXCEPT !.valid = FALSE]
      PROVE  c \in ConnState /\ c.pc = h.pc /\ c.list = h.list /\ c.room = h.room
  BY <1>2 DEF ConnState
<1>3. ASSUME NEW t \in Sockets
      PROVE  Changed(l)[t] \in {conn[t], [conn[t] EXCEPT !.valid = FALSE]}
  BY DEF Changed
<1>4. Changed(l) = [t \in Sockets |-> Changed(l)[t]]
  BY DEF Changed
<1> HIDE DEF Changed
<1> QED
  BY <1>1, <1>2, <1>3, <1>4

\* A step that gives one handler a new state n and at most invalidates the
\* others' enumerators keeps the handlers well typed and placed.
LEMMA HandlerStep ==
    ASSUME IInv, NEW s \in Sockets, NEW n \in ConnState, NEW c,
           c = conn \/ \E l \in Lists : c = Changed(l),
           conn' = [c EXCEPT ![s] = n],
           n.pc # "out" => n.list \in Lists,
           n.pc = "bcast" => n.room \in Lists
    PROVE  /\ conn' \in [Sockets -> ConnState] /\ conn'[s] = n
           /\ \A t \in Sockets \ {s} : /\ conn'[t].pc = conn[t].pc
                                       /\ conn'[t].list = conn[t].list
           /\ \A t \in Sockets : Placed(t)'
<1>1. /\ c \in [Sockets -> ConnState]
      /\ \A t \in Sockets : /\ c[t].pc = conn[t].pc
                            /\ c[t].list = conn[t].list
                            /\ c[t].room = conn[t].room
  BY ChangedKeeps DEF IInv, TypeOK
<1>2. conn' \in [Sockets -> ConnState] /\ conn'[s] = n
  BY <1>1
<1>3. \A t \in Sockets \ {s} : /\ conn'[t].pc = conn[t].pc
                               /\ conn'[t].list = conn[t].list
                               /\ conn'[t].room = conn[t].room
  BY <1>1
<1>4. \A t \in Sockets : Placed(t)'
  <2> SUFFICES ASSUME NEW t \in Sockets PROVE Placed(t)'
    OBVIOUS
  <2>1. CASE t = s
    BY <1>2, <2>1 DEF Placed
  <2>2. CASE t # s
    BY <1>3, <2>2 DEF Placed, IInv
  <2> QED
    BY <2>1, <2>2
<1> QED
  BY <1>2, <1>3, <1>4

\* A step whose handler stays in, or never was in, the lists, and that removes
\* members if anything.
LEMMA ShrinkStep ==
    ASSUME IInv, NEW s \in Sockets,
           conn' \in [Sockets -> ConnState],
           \A t \in Sockets : Placed(t)',
           \A t \in Sockets \ {s} : /\ conn'[t].pc = conn[t].pc
                                    /\ conn'[t].list = conn[t].list,
           members' \in [Lists -> SUBSET Sockets],
           \A l \in Lists : members'[l] \subseteq members[l],
           \/ /\ conn'[s].pc \in {"recv", "bcast", "leave"}
              /\ conn'[s].list = conn[s].list
           \/ \A l \in Lists : s \notin members'[l],
           dict' \in Lists \cup {NoList}, open' \subseteq Sockets, joins' \in Nat
    PROVE  IInv'
<1>1. TypeOK'
  BY DEF TypeOK, ConnState
<1>2. NoGhosts'
  <2> SUFFICES ASSUME NEW l \in Lists, NEW t \in members'[l]
               PROVE  /\ conn'[t].pc \in {"recv", "bcast", "leave"}
                      /\ conn'[t].list = l
    BY DEF NoGhosts
  <2>1. t \in members[l] /\ t \in Sockets
    BY DEF IInv, TypeOK
  <2>2. conn[t].pc \in {"recv", "bcast", "leave"} /\ conn[t].list = l
    BY <2>1 DEF IInv, NoGhosts
  <2> QED
    BY <2>1, <2>2
<1>3. ASSUME NEW l \in Lists PROVE Capped(l)'
  <2>1. /\ IsFiniteSet(members[l])
        /\ Cardinality(members[l]) <= MaxConnectionsPerParty
    BY DEF IInv, Capped
  <2>2. /\ IsFiniteSet(members'[l])
        /\ Cardinality(members'[l]) <= Cardinality(members[l])
    BY <2>1, FS_Subset
  <2>3. /\ Cardinality(members[l]) \in Nat /\ Cardinality(members'[l]) \in Nat
        /\ MaxConnectionsPerParty \in Nat
    BY <2>1, <2>2, FS_CardinalityType, PartyAssumption
  <2> QED
    BY <2>1, <2>2, <2>3 DEF Capped
<1> QED
  BY <1>1, <1>2, <1>3 DEF IInv

-----------------------------------------------------------------------------
(* The steps of a handler.                                                 *)

\* A socket that has not been added is in no list.
LEMMA Outside ==
    ASSUME IInv, NEW s \in Sockets, conn[s].pc \in {"out", "add"}, NEW l \in Lists
    PROVE  s \notin members[l]
  BY DEF IInv, NoGhosts

LEMMA JoinInv == ASSUME IInv, NEW s \in Sockets, Join(s) PROVE IInv'
<1>1. PICK l \in Lists :
         /\ dict' = l
         /\ members' = [members EXCEPT ![l] = IF dict = NoList THEN {} ELSE @]
         /\ conn' = [conn EXCEPT ![s] = [Out EXCEPT !.pc = "add", !.list = l]]
  BY DEF Join
<1> DEFINE n == [Out EXCEPT !.pc = "add", !.list = l]
<1>2. n \in ConnState /\ n.pc = "add" /\ n.list = l
  BY DEF Out, ConnState
<1>3. conn' = [conn EXCEPT ![s] = n]
  BY <1>1
<1> HIDE DEF n
<1>4. /\ conn' \in [Sockets -> ConnState]
      /\ \A t \in Sockets \ {s} : /\ conn'[t].pc = conn[t].pc
                                  /\ conn'[t].list = conn[t].list
      /\ \A t \in Sockets : Placed(t)'
  BY <1>2, <1>3, HandlerStep
<1>5. /\ members' \in [Lists -> SUBSET Sockets]
      /\ \A k \in Lists : members'[k] \subseteq members[k]
  BY <1>1 DEF IInv, TypeOK
<1>6. \A k \in Lists : s \notin members'[k]
  BY <1>5, Outside DEF Join
<1>7. dict' \in Lists \cup {NoList} /\ open' \subseteq Sockets /\ joins' \in Nat
  BY <1>1 DEF Join, IInv, TypeOK
<1> QED
  BY <1>4, <1>5, <1>6, <1>7, ShrinkStep

\* Adding takes place under the list's lock, after the check of its size.
LEMMA AddInv == ASSUME IInv, NEW s \in Sockets, Add(s) PROVE IInv'
<1> DEFINE l == conn[s].list
           n == [conn[s] EXCEPT !.pc = "recv"]
<1>1. conn[s].pc = "add" /\ l \in Lists
  BY DEF Add, IInv, Placed
<1>2. n \in ConnState /\ n.pc = "recv" /\ n.list = l
  BY DEF IInv, TypeOK, ConnState
<1>3. /\ members' = [members EXCEPT ![l] = @ \cup {s}]
      /\ conn' = [Changed(l) EXCEPT ![s] = n]
      /\ ~Full(l) /\ UNCHANGED <<dict, open, joins>>
  BY DEF Add
<1>4. s \notin members[l] /\ Capped(l)
  BY <1>1, Outside DEF IInv
<1> HIDE DEF l, n
<1>5. /\ conn' \in [Sockets -> ConnState] /\ conn'[s] = n
      /\ \A t \in Sockets \ {s} : /\ conn'[t].pc = conn[t].pc
                                  /\ conn'[t].list = conn[t].list
      /\ \A t \in Sockets : Placed(t)'
  BY <1>1, <1>2, <1>3, HandlerStep
<1>6. /\ members' \in [Lists -> SUBSET Sockets] /\ members'[l] = members[l] \cup {s}
      /\ \A k \in Lists \ {l} : members'[k] = members[k]
  BY <1>1, <1>3 DEF IInv, TypeOK
<1>7. TypeOK'
  BY <1>3, <1>5, <1>6 DEF IInv, TypeOK, ConnState
<1>8. NoGhosts'
  <2> SUFFICES ASSUME NEW k \in Lists, NEW t \in members'[k]
               PROVE  /\ conn'[t].pc \in {"recv", "bcast", "leave"}
                      /\ conn'[t].list = k
    BY DEF NoGhosts
  <2>1. CASE t = s
    <3>1. k = l
      BY <1>1, <1>6, <2>1, Outside
    <3> QED
      BY <1>2, <1>5, <2>1, <3>1
  <2>2. CASE t # s
    <3>1. t \in members[k] /\ t \in Sockets
      BY <1>6, <2>2 DEF IInv, TypeOK
    <3> QED
      BY <1>5, <2>2, <3>1 DEF IInv, NoGhosts
  <2> QED
    BY <2>1, <2>2
<1>9. ASSUME NEW k \in Lists PROVE Capped(k)'
  <2>1. CASE k # l
    BY <1>6, <2>1 DEF IInv, Capped
  <2>2. CASE k = l
    <3>1. /\ IsFiniteSet(members[l]) /\ Cardinality(members[l]) \in Nat
          /\ MaxConnectionsPerParty \in Nat
      BY <1>4, FS_CardinalityType, PartyAssumption DEF Capped
    <3>2. Cardinality(members[l]) < MaxConnectionsPerParty
      BY <1>3, <3>1 DEF Full
    <3>3. /\ IsFiniteSet(members[l] \cup {s})
          /\ Cardinality(members[l] \cup {s}) = Cardinality(members[l]) + 1
      BY <1>4, <3>1, FS_AddElement
    <3> QED
      BY <1>6, <2>2, <3>1, <3>2, <3>3 DEF Capped
  <2> QED
    BY <2>1, <2>2
<1> QED
  BY <1>5, <1>7, <1>8, <1>9 DEF IInv

LEMMA PartyFullInv == ASSUME IInv, NEW s \in Sockets, PartyFull(s) PROVE IInv'
<1>1. Out \in ConnState /\ Out.pc = "out"
  BY DEF Out, ConnState
<1>2. /\ conn' \in [Sockets -> ConnState]
      /\ \A t \in Sockets \ {s} : /\ conn'[t].pc = conn[t].pc
                                  /\ conn'[t].list = conn[t].list
      /\ \A t \in Sockets : Placed(t)'
  BY <1>1, HandlerStep DEF PartyFull
<1>3. \A l \in Lists : s \notin members'[l]
  BY Outside DEF PartyFull
<1> QED
  BY <1>2, <1>3, ShrinkStep DEF PartyFull, IInv, TypeOK

LEMMA ClientClosesInv ==
    ASSUME IInv, NEW s \in Sockets, ClientCloses(s) PROVE IInv'
  BY DEF ClientCloses, IInv, TypeOK, NoGhosts, Placed, Capped

\* A step of a handler that stays connected, or only ends its loop.
LEMMA InsideStep ==
    ASSUME IInv, NEW s \in Sockets, NEW n \in ConnState,
           conn' = [conn EXCEPT ![s] = n],
           n.pc \in {"recv", "bcast", "leave"}, n.list = conn[s].list,
           conn[s].pc # "out", n.pc = "bcast" => n.room \in Lists,
           UNCHANGED <<dict, members, open, joins>>
    PROVE  IInv'
<1>1. n.list \in Lists
  BY DEF IInv, Placed
<1>2. /\ conn' \in [Sockets -> ConnState] /\ conn'[s] = n
      /\ \A t \in Sockets \ {s} : /\ conn'[t].pc = conn[t].pc
                                  /\ conn'[t].list = conn[t].list
      /\ \A t \in Sockets : Placed(t)'
  BY <1>1, HandlerStep
<1> QED
  BY <1>2, ShrinkStep DEF IInv, TypeOK

LEMMA ReceiveInv == ASSUME IInv, NEW s \in Sockets, Receive(s) PROVE IInv'
<1> DEFINE n == [pc |-> "bcast", list |-> conn[s].list, room |-> dict,
                 todo |-> members[dict], dead |-> {}, got |-> {}, valid |-> TRUE]
<1>1. dict \in Lists /\ members[dict] \subseteq Sockets
  BY DEF Receive, IInv, TypeOK
<1>2. conn[s].list \in Lists
  BY DEF Receive, IInv, Placed
<1>3. n \in ConnState
  BY <1>1, <1>2 DEF ConnState
<1> QED
  BY <1>1, <1>3, InsideStep DEF Receive

LEMMA SendInv == ASSUME IInv, NEW s \in Sockets, Send(s) PROVE IInv'
<1>1. PICK t \in conn[s].todo :
         conn' = [conn EXCEPT ![s] =
                    [conn[s] EXCEPT !.todo = @ \ {t},
                       !.got = IF t \in open THEN @ \cup {t} ELSE @,
                       !.dead = IF t \in open THEN @ ELSE @ \cup {t}]]
  BY DEF Send
<1> DEFINE got == IF t \in open THEN conn[s].got \cup {t} ELSE conn[s].got
           dead == IF t \in open THEN conn[s].dead ELSE conn[s].dead \cup {t}
           n == [conn[s] EXCEPT !.todo = conn[s].todo \ {t}, !.got = got, !.dead = dead]
<1>2. conn[s] \in ConnState
  BY DEF IInv, TypeOK
<1>3. t \in Sockets /\ got \subseteq Sockets /\ dead \subseteq Sockets
  BY <1>2 DEF ConnState
<1>4. conn' = [conn EXCEPT ![s] = n]
  BY <1>1, <1>2 DEF ConnState
<1>5. n \in ConnState /\ n.pc = conn[s].pc /\ n.list = conn[s].list /\ n.room = conn[s].room
  <2> HIDE DEF got, dead
  <2> QED
    BY <1>2, <1>3 DEF ConnState
<1>6. conn[s].pc = "bcast" /\ conn[s].room \in Lists
  BY DEF Send, IInv, Placed
<1> HIDE DEF n
<1> QED
  BY <1>4, <1>5, <1>6, InsideStep DEF Send

LEMMA EndLoopInv == ASSUME IInv, NEW s \in Sockets, EndLoop(s) PROVE IInv'
<1> DEFINE n == [Out EXCEPT !.pc = "leave", !.list = conn[s].list]
<1>1. n \in ConnState /\ n.pc = "leave" /\ n.list = conn[s].list
  BY DEF Out, ConnState, IInv, TypeOK
<1>2. conn' = [conn EXCEPT ![s] = n] /\ conn[s].pc # "out"
  BY DEF EndLoop
<1> HIDE DEF n
<1> QED
  BY <1>1, <1>2, InsideStep DEF EndLoop

LEMMA FinishBroadcastInv ==
    ASSUME IInv, NEW s \in Sockets, FinishBroadcast(s) PROVE IInv'
<1> DEFINE l == conn[s].room
           dead == conn[s].dead
           c == IF dead = {} THEN conn ELSE Changed(l)
           n == Broadcasted(s)
<1>1. l \in Lists /\ conn[s].list \in Lists
  BY DEF FinishBroadcast, IInv, Placed
<1>2. n \in ConnState /\ n.pc = "recv" /\ n.list = conn[s].list
  BY <1>1 DEF Broadcasted, Out, ConnState
<1>3. conn' = [c EXCEPT ![s] = n] /\ members' = [members EXCEPT ![l] = @ \ dead]
  BY DEF FinishBroadcast
<1>4. c = conn \/ \E k \in Lists : c = Changed(k)
  BY <1>1
<1> HIDE DEF c, n, dead, l
<1>5. /\ conn' \in [Sockets -> ConnState] /\ conn'[s] = n
      /\ \A t \in Sockets \ {s} : /\ conn'[t].pc = conn[t].pc
                                  /\ conn'[t].list = conn[t].list
      /\ \A t \in Sockets : Placed(t)'
  BY <1>1, <1>2, <1>3, <1>4, HandlerStep
<1>6. /\ members' \in [Lists -> SUBSET Sockets]
      /\ \A k \in Lists : members'[k] \subseteq members[k]
  BY <1>3 DEF IInv, TypeOK
<1> QED
  BY <1>2, <1>5, <1>6, ShrinkStep DEF FinishBroadcast, IInv, TypeOK

LEMMA LeaveInv == ASSUME IInv, NEW s \in Sockets, Leave(s) PROVE IInv'
<1> DEFINE l == conn[s].list
           c == IF s \in members[l] THEN Changed(l) ELSE conn
<1>1. l \in Lists
  BY DEF Leave, IInv, Placed
<1>2. Out \in ConnState /\ Out.pc = "out"
  BY DEF Out, ConnState
<1>3. conn' = [c EXCEPT ![s] = Out] /\ members' = [members EXCEPT ![l] = members[l] \ {s}]
  BY DEF Leave, Remaining
<1>4. c = conn \/ \E k \in Lists : c = Changed(k)
  BY <1>1
<1>5. \A k \in Lists : s \in members[k] => k = l
  BY DEF IInv, NoGhosts
<1> HIDE DEF c, l
<1>6. /\ conn' \in [Sockets -> ConnState]
      /\ \A t \in Sockets \ {s} : /\ conn'[t].pc = conn[t].pc
                                  /\ conn'[t].list = conn[t].list
      /\ \A t \in Sockets : Placed(t)'
  BY <1>2, <1>3, <1>4, HandlerStep
<1>7. /\ members' \in [Lists -> SUBSET Sockets]
      /\ \A k \in Lists : members'[k] \subseteq members[k] /\ s \notin members'[k]
  BY <1>1, <1>3, <1>5 DEF IInv, TypeOK
<1>8. dict' \in Lists \cup {NoList} /\ open' \subseteq Sockets /\ joins' \in Nat
  BY DEF Leave, EntryAfter, IInv, TypeOK
<1> QED
  BY <1>6, <1>7, <1>8, ShrinkStep

LEMMA NextInv == ASSUME IInv, [Next]_vars PROVE IInv'
<1>1. CASE UNCHANGED vars
  BY <1>1 DEF vars, IInv, TypeOK, NoGhosts, Placed, Capped
<1>2. ASSUME NEW s \in Sockets, Step(s) PROVE IInv'
  BY <1>2, JoinInv, AddInv, PartyFullInv, ClientClosesInv, ReceiveInv, SendInv,
     FinishBroadcastInv, EndLoopInv, LeaveInv DEF Step
<1> QED
  BY <1>1, <1>2 DEF Next

LEMMA Invariance == Spec => []IInv
  BY InitInv, NextInv, PTL DEF Spec

-----------------------------------------------------------------------------
\* Whichever handlers race, a list holds only sockets whose handlers are still
\* running and were given that list.
THEOREM NoGhostMembers == Spec => []NoGhosts
<1>1. IInv => NoGhosts
  BY DEF IInv
<1> QED
  BY <1>1, Invariance, PTL

\* No list ever holds more sockets than MaxConnectionsPerParty, although the
\* size is checked for one socket at a time.
THEOREM ListsAreCapped == Spec => []ListCap
<1>1. IInv => ListCap
  BY DEF IInv, ListCap, Capped
<1> QED
  BY <1>1, Invariance, PTL

-----------------------------------------------------------------------------
(* Broadcasts.  As long as its enumerator is valid a broadcast has seen the  *)
(* list as it is; who was found closed stays so, because it is still listed. *)

Underway(s) ==
    conn[s].pc = "bcast" /\ conn[s].valid =>
        /\ members[conn[s].room] \subseteq
              conn[s].todo \cup conn[s].got \cup conn[s].dead
        /\ conn[s].todo \cup conn[s].dead \subseteq members[conn[s].room]
        /\ conn[s].dead \cap open = {}

BInv == IInv /\ \A s \in Sockets : Underway(s)

\* What Send does to its handler, for the socket t that it visits.
SentTo(s, t) ==
    /\ conn'[s].pc = "bcast" /\ conn'[s].room = conn[s].room
    /\ conn'[s].todo = conn[s].todo \ {t}
    /\ conn'[s].got = IF t \in open THEN conn[s].got \cup {t} ELSE conn[s].got
    /\ conn'[s].dead = IF t \in open THEN conn[s].dead ELSE conn[s].dead \cup {t}

LEMMA Sends ==
    ASSUME conn \in [Sockets -> ConnState], NEW s \in Sockets, Send(s)
    PROVE  \E t \in conn[s].todo : SentTo(s, t)
<1>1. PICK t \in conn[s].todo :
         conn' = [conn EXCEPT ![s] =
                    [conn[s] EXCEPT !.todo = conn[s].todo \ {t},
                       !.got = IF t \in open THEN conn[s].got \cup {t} ELSE conn[s].got,
                       !.dead = IF t \in open THEN conn[s].dead
                                ELSE conn[s].dead \cup {t}]]
  BY DEF Send
<1> DEFINE got == IF t \in open THEN conn[s].got \cup {t} ELSE conn[s].got
           dead == IF t \in open THEN conn[s].dead ELSE conn[s].dead \cup {t}
           todo == conn[s].todo \ {t}
           n == [conn[s] EXCEPT !.todo = todo, !.got = got, !.dead = dead]
<1>2. conn'[s] = n
  BY <1>1
<1>3. conn[s].pc = "bcast"
  BY DEF Send
<1>4. n.pc = "bcast" /\ n.room = conn[s].room /\ n.todo = todo /\ n.got = got
      /\ n.dead = dead
  <2> HIDE DEF todo, got, dead
  <2> QED
    BY <1>3 DEF ConnState
<1> QED
  BY <1>2, <1>4 DEF SentTo

\* Where a step takes its handler, and nobody else.
LEMMA Moves ==
    ASSUME IInv, NEW s \in Sockets, Step(s)
    PROVE  /\ \A t \in Sockets \ {s} : conn'[t].pc = conn[t].pc
           /\ Join(s) => conn'[s].pc = "add"
           /\ Add(s) \/ FinishBroadcast(s) => conn'[s].pc = "recv"
           /\ PartyFull(s) \/ Leave(s) => conn'[s].pc = "out"
           /\ EndLoop(s) => conn'[s].pc = "leave"
           /\ Receive(s) \/ Send(s) => conn'[s].pc = "bcast"
<1>1. conn \in [Sockets -> ConnState] /\ Out \in ConnState /\ Out.pc = "out"
  BY DEF IInv, TypeOK, Out, ConnState
<1>2. ASSUME NEW c, NEW n, conn' = [c EXCEPT ![s] = n],
             c = conn \/ \E k : c = Changed(k)
      PROVE  conn'[s] = n /\ \A t \in Sockets \ {s} : conn'[t].pc = conn[t].pc
  BY <1>1, <1>2, ChangedKeeps
<1> DEFINE Others == \A t \in Sockets \ {s} : conn'[t].pc = conn[t].pc
<1>3. ASSUME Join(s) PROVE Others /\ conn'[s].pc = "add"
  BY <1>1, <1>3 DEF Join, Out
<1>4. ASSUME Add(s) PROVE Others /\ conn'[s].pc = "recv"
  <2> DEFINE n == [conn[s] EXCEPT !.pc = "recv"]
  <2>1. conn' = [Changed(conn[s].list) EXCEPT ![s] = n]
    BY <1>4 DEF Add
  <2>2. n.pc = "recv"
    BY <1>1 DEF ConnState
  <2> HIDE DEF n
  <2> QED
    BY <1>2, <2>1, <2>2
<1>5. ASSUME PartyFull(s) PROVE Others /\ conn'[s].pc = "out"
  BY <1>1, <1>5 DEF PartyFull
<1>6. ASSUME EndLoop(s) PROVE Others /\ conn'[s].pc = "leave"
  BY <1>1, <1>6 DEF EndLoop, Out
<1>7. ASSUME ClientCloses(s) PROVE Others
  BY <1>7 DEF ClientCloses
<1>8. ASSUME Receive(s) PROVE Others /\ conn'[s].pc = "bcast"
  BY <1>1, <1>8 DEF Receive
<1>9. ASSUME Send(s) PROVE Others /\ conn'[s].pc = "bcast"
  <2>1. Others
    BY <1>1, <1>9 DEF Send
  <2> QED
    BY <1>1, <1>9, <2>1, Sends DEF SentTo
<1>10. ASSUME FinishBroadcast(s) PROVE Others /\ conn'[s].pc = "recv"
  <2>1. Broadcasted(s).pc = "recv"
    BY DEF Broadcasted, Out
  <2>2. PICK c : /\ conn' = [c EXCEPT ![s] = Broadcasted(s)]
                 /\ c = conn \/ \E k : c = Changed(k)
    BY <1>10 DEF FinishBroadcast
  <2> QED
    BY <1>2, <2>1, <2>2
<1>11. ASSUME Leave(s) PROVE Others /\ conn'[s].pc = "out"
  <2>1. PICK c : /\ conn' = [c EXCEPT ![s] = Out]
                 /\ c = conn \/ \E k : c = Changed(k)
    BY <1>11 DEF Leave
  <2> QED
    BY <1>1, <1>2, <2>1
<1> QED
  BY <1>3, <1>4, <1>5, <1>6, <1>7, <1>8, <1>9, <1>10, <1>11 DEF Step

\* A step of s leaves the broadcast of t as it is, or invalidates it.
LEMMA Elsewhere ==
    ASSUME BInv, IInv', NEW s \in Sockets, Step(s), NEW t \in Sockets \ {s}
    PROVE  Underway(t)'
<1> SUFFICES ASSUME conn'[t].pc = "bcast", conn'[t].valid PROVE Underway(t)'
  BY DEF Underway
<1> DEFINE l == conn[t].room
<1>1. /\ conn \in [Sockets -> ConnState] /\ members \in [Lists -> SUBSET Sockets]
      /\ open \subseteq Sockets
  BY DEF BInv, IInv, TypeOK
<1>2. ASSUME NEW k
      PROVE  \/ Changed(k)[t] = conn[t] /\ conn[t].room # k
             \/ Changed(k)[t] = conn[t] /\ conn[t].pc # "bcast"
             \/ ~Changed(k)[t].valid
  BY <1>1 DEF Changed, ConnState
<1>3. conn'[t] = conn[t]
  <2>1. \/ conn'[t] = conn[t] \/ \E k : conn'[t] = Changed(k)[t]
    <3>1. CASE \E k : Changed(k) \in [Sockets -> ConnState]
                      /\ \E n : conn' = [Changed(k) EXCEPT ![s] = n]
      BY <3>1
    <3>2. CASE \E n : conn' = [conn EXCEPT ![s] = n]
      BY <1>1, <3>2
    <3>3. CASE conn' = conn
      BY <3>3
    <3> QED
      BY <3>1, <3>2, <3>3, ChangedKeeps DEF BInv, Step, Join, Add, PartyFull,
         ClientCloses, Receive, Send, FinishBroadcast, EndLoop, Leave
  <2> QED
    BY <1>2, <2>1
<1>4. conn[t].pc = "bcast" /\ conn[t].valid /\ l \in Lists /\ Underway(t)
  BY <1>3 DEF BInv, IInv, Placed
<1>5. members'[l] = members[l]
  <2>1. ASSUME NEW k \in Lists, conn'[t] = Changed(k)[t] PROVE k # l
    BY <1>1, <1>4, <2>1 DEF Changed, ConnState
  <2>2. CASE Join(s)
    <3>1. PICK k \in Lists :
             /\ k = dict \/ (dict = NoList /\ Fresh(k))
             /\ members' = [members EXCEPT ![k] = IF dict = NoList THEN {} ELSE @]
      BY <2>2 DEF Join
    <3>2. dict = NoList => k # l
      BY <1>4, <3>1, PartyAssumption DEF Fresh
    <3> QED
      BY <1>1, <1>4, <3>1, <3>2
  <2>3. CASE Add(s)
    BY <1>1, <1>4, <2>1, <2>3, ChangedKeeps DEF Add, BInv, IInv, Placed
  <2>4. CASE FinishBroadcast(s)
    <3> DEFINE k == conn[s].room
    <3>1. members' = [members EXCEPT ![k] = @ \ conn[s].dead] /\ k \in Lists
      BY <2>4 DEF FinishBroadcast, BInv, IInv, Placed
    <3>2. CASE conn[s].dead = {}
      BY <1>1, <1>4, <3>1, <3>2
    <3>3. CASE conn[s].dead # {}
      <4>1. conn' = [Changed(k) EXCEPT ![s] = Broadcasted(s)]
        BY <2>4, <3>3 DEF FinishBroadcast
      <4>2. conn'[t] = Changed(k)[t]
        BY <4>1, ChangedKeeps DEF BInv
      <4> QED
        BY <1>1, <1>4, <2>1, <3>1, <4>2
    <3> QED
      BY <3>2, <3>3
  <2>5. CASE Leave(s)
    <3> DEFINE k == conn[s].list
    <3>1. members' = [members EXCEPT ![k] = @ \ {s}] /\ k \in Lists
      BY <1>1, <2>5 DEF Leave, Remaining, BInv, IInv, Placed
    <3>2. CASE s \notin members[k]
      BY <1>1, <1>4, <3>1, <3>2
    <3>3. CASE s \in members[k]
      <4>1. conn' = [Changed(k) EXCEPT ![s] = Out]
        BY <2>5, <3>3 DEF Leave
      <4>2. conn'[t] = Changed(k)[t]
        BY <4>1, ChangedKeeps DEF BInv
      <4> QED
        BY <1>1, <1>4, <2>1, <3>1, <4>2
    <3> QED
      BY <3>2, <3>3
  <2>6. CASE members' = members
    BY <2>6
  <2> QED
    BY <2>2, <2>3, <2>4, <2>5, <2>6
       DEF Step, PartyFull, ClientCloses, Receive, Send, EndLoop
<1>6. conn[t].dead \cap open' = {}
  <2>1. \A u \in conn[t].dead : u \in open' => u \in open
    <3> SUFFICES ASSUME NEW u \in conn[t].dead PROVE u \in open' => u \in open
      OBVIOUS
    <3>1. u \in members[l]
      BY <1>4 DEF Underway
    <3>2. conn[u].pc # "out"
      BY <1>4, <3>1 DEF BInv, IInv, NoGhosts
    <3> QED
      BY <3>2 DEF Step, Join, Add, PartyFull, ClientCloses, Receive, Send,
         FinishBroadcast, EndLoop, Leave
  <2> QED
    BY <1>4, <2>1 DEF Underway
<1> QED
  BY <1>3, <1>4, <1>5, <1>6 DEF Underway

LEMMA BroadcastNext == ASSUME BInv, [Next]_vars PROVE BInv'
<1>1. IInv'
  BY NextInv DEF BInv
<1>2. CASE UNCHANGED vars
  BY <1>1, <1>2 DEF BInv, Underway, vars
<1>3. ASSUME NEW s \in Sockets, Step(s) PROVE BInv'
  <2>1. \A t \in Sockets \ {s} : Underway(t)'
    BY <1>1, <1>3, Elsewhere
  <2>2. conn \in [Sockets -> ConnState] /\ Underway(s)
    BY DEF BInv, IInv, TypeOK
  <2>3. CASE conn'[s].pc # "bcast"
    BY <1>1, <2>1, <2>3 DEF BInv, Underway
  <2>4. CASE Receive(s)
    <3> DEFINE n == [pc |-> "bcast", list |-> conn[s].list, room |-> dict,
                     todo |-> members[dict], dead |-> {}, got |-> {}, valid |-> TRUE]
    <3>1. conn'[s] = n /\ members' = members
      BY <2>2, <2>4 DEF Receive
    <3> QED
      BY <1>1, <2>1, <3>1 DEF BInv, Underway
  <2>5. CASE Send(s)
    <3>1. PICK t \in conn[s].todo : SentTo(s, t)
      BY <2>2, <2>5, Sends
    <3>2. UNCHANGED <<members, open>> /\ conn[s].pc = "bcast" /\ conn[s].valid
      BY <2>5 DEF Send
    <3>3. Underway(s)'
      BY <2>2, <3>1, <3>2 DEF Underway, SentTo
    <3> QED
      BY <1>1, <2>1, <3>3 DEF BInv
  <2>6. CASE ClientCloses(s)
    BY <1>1, <2>1, <2>2, <2>6 DEF ClientCloses, BInv, Underway
  <2>7. CASE ~Receive(s) /\ ~Send(s) /\ ~ClientCloses(s)
    <3>1. conn'[s].pc # "bcast"
      BY <1>3, <2>7, Moves DEF BInv, Step
    <3> QED
      BY <2>3, <3>1
  <2> QED
    BY <2>4, <2>5, <2>6, <2>7
<1> QED
  BY <1>2, <1>3 DEF Next

\* A broadcast that ends normally has been sent to every open socket of its
\* list, for any number of sockets (BroadcastToParty's enumerator throws when
\* the list has changed).
THEOREM BroadcastsReachAll == Spec => BroadcastIsComplete
<1>1. Init => BInv
  BY InitInv DEF Init, BInv, Underway, Out
<1>2. BInv /\ [Next]_vars =>
        \A s \in Sockets : conn[s].pc = "bcast" /\ conn'[s].pc = "recv"
                          => members'[conn[s].room] \cap open \subseteq conn[s].got
  <2> SUFFICES ASSUME BInv, [Next]_vars, NEW s \in Sockets,
                      conn[s].pc = "bcast", conn'[s].pc = "recv"
               PROVE  members'[conn[s].room] \cap open \subseteq conn[s].got
    OBVIOUS
  <2>1. /\ conn \in [Sockets -> ConnState] /\ members \in [Lists -> SUBSET Sockets]
        /\ conn[s].room \in Lists
    BY DEF BInv, IInv, TypeOK, Placed
  <2>2. PICK t \in Sockets : Step(t)
    BY DEF Next, vars
  <2>3. FinishBroadcast(s)
    <3>1. t = s
      BY <2>2, Moves DEF BInv
    <3>2. ~Receive(s) /\ ~Send(s) /\ ~PartyFull(s) /\ ~Leave(s) /\ ~EndLoop(s) /\ ~Join(s)
      BY <2>2, <3>1, Moves DEF BInv
    <3>3. ~Add(s) /\ ~ClientCloses(s)
      BY DEF Add, ClientCloses
    <3> QED
      BY <2>2, <3>1, <3>2, <3>3 DEF Step
  <2> QED
    BY <2>1, <2>3 DEF FinishBroadcast, SentToAll, BInv, Underway
<1>3. BInv /\ [Next]_vars => BInv'
  BY BroadcastNext
<1> QED
  BY <1>1, <1>2, <1>3, PTL DEF Spec, BroadcastIsComplete

-----------------------------------------------------------------------------
(* The room.                                                               *)

\* A step leaves the lists of the other handlers to them.
LEMMA ListsStay ==
    ASSUME IInv, NEW s \in Sockets, Step(s), NEW t \in Sockets \ {s}
    PROVE  conn'[t].list = conn[t].list
<1>1. conn \in [Sockets -> ConnState]
  BY DEF IInv, TypeOK
<1>2. ASSUME NEW c, NEW n, conn' = [c EXCEPT ![s] = n],
             c = conn \/ \E k : c = Changed(k)
      PROVE  conn'[t].list = conn[t].list
  BY <1>1, <1>2, ChangedKeeps
<1>3. CASE Leave(s)
  <2>1. PICK c : /\ conn' = [c EXCEPT ![s] = Out]
                 /\ c = conn \/ \E k : c = Changed(k)
    BY <1>3 DEF Leave
  <2> QED
    BY <1>2, <2>1
<1>4. CASE FinishBroadcast(s)
  <2>1. PICK c : /\ conn' = [c EXCEPT ![s] = Broadcasted(s)]
                 /\ c = conn \/ \E k : c = Changed(k)
    BY <1>4 DEF FinishBroadcast
  <2> QED
    BY <1>2, <2>1
<1>5. CASE Add(s)
  BY <1>2, <1>5 DEF Add
<1>6. CASE Join(s) \/ PartyFull(s) \/ ClientCloses(s) \/ Receive(s) \/ Send(s) \/ EndLoop(s)
  BY <1>1, <1>6 DEF Join, PartyFull, ClientCloses, Receive, Send, EndLoop
<1> QED
  BY <1>3, <1>4, <1>5, <1>6 DEF Step

\* Nobody is in, or about to enter, a party without an entry.
LEMMA NoEntryNobody ==
    ASSUME IInv, OneRoom, dict = NoList, NEW t \in Sockets
    PROVE  conn[t].pc # "add" /\ t \notin Connected \cap open
  BY PartyAssumption DEF IInv, Placed, OneRoom, InOneRoom

LEMMA JoinRoom ==
    ASSUME BInv, OneRoom, NEW s \in Sockets, Join(s)
    PROVE  OneRoom'
<1>1. PICK l \in Lists :
         /\ l = dict \/ (dict = NoList /\ Fresh(l))
         /\ dict' = l
         /\ members' = [members EXCEPT ![l] = IF dict = NoList THEN {} ELSE @]
         /\ conn' = [conn EXCEPT ![s] = [Out EXCEPT !.pc = "add", !.list = l]]
  BY DEF Join
<1>2. /\ conn \in [Sockets -> ConnState] /\ members \in [Lists -> SUBSET Sockets]
      /\ open' = open \cup {s} /\ conn[s].pc = "out" /\ IInv
  BY DEF Join, BInv, IInv, TypeOK
<1>3. /\ conn'[s].pc = "add" /\ conn'[s].list = l
      /\ \A t \in Sockets \ {s} : conn'[t] = conn[t]
  BY <1>1, <1>2 DEF Out
<1>4. l # NoList
  BY PartyAssumption
<1>5. CASE dict = NoList
  BY <1>1, <1>2, <1>3, <1>4, <1>5, NoEntryNobody DEF OneRoom, InOneRoom, Connected
<1>6. CASE dict = l
  <2>1. members' = members
    BY <1>1, <1>2, <1>4, <1>6
  <2> QED
    BY <1>1, <1>2, <1>3, <1>4, <1>6, <2>1 DEF OneRoom, InOneRoom, Connected
<1> QED
  BY <1>1, <1>5, <1>6

LEMMA AddRoom ==
    ASSUME BInv, OneRoom, NEW s \in Sockets, Add(s)
    PROVE  OneRoom'
<1> DEFINE l == conn[s].list
<1>1. /\ members \in [Lists -> SUBSET Sockets] /\ IInv /\ Step(s)
      /\ UNCHANGED <<dict, open>> /\ members' = [members EXCEPT ![l] = @ \cup {s}]
      /\ conn[s].pc = "add" /\ l \in Lists
  BY DEF BInv, IInv, TypeOK, Placed, Add, Step
<1>2. l = dict /\ dict # NoList
  BY <1>1, PartyAssumption DEF OneRoom
<1>3. /\ conn'[s].pc = "recv"
      /\ \A t \in Sockets \ {s} : conn'[t].pc = conn[t].pc /\ conn'[t].list = conn[t].list
  BY <1>1, Moves, ListsStay DEF Step
<1>4. members'[dict] = members[dict] \cup {s}
  BY <1>1, <1>2
<1> QED
  BY <1>1, <1>2, <1>3, <1>4 DEF OneRoom, InOneRoom, Connected

\* Steps of a handler that keep the entry and take nobody open out of its list.
LEMMA StayRoom ==
    ASSUME BInv, OneRoom, NEW s \in Sockets, Step(s), dict' = dict, open' \subseteq open,
           conn'[s].pc # "add",
           conn'[s].pc \in {"recv", "bcast"} => conn[s].pc \in {"recv", "bcast"},
           \A t \in open' : conn'[t].pc \in {"recv", "bcast"} /\ t \in members[dict]
                            => t \in members'[dict]
    PROVE  OneRoom'
<1>1. \A t \in Sockets \ {s} : conn'[t].pc = conn[t].pc /\ conn'[t].list = conn[t].list
  BY Moves, ListsStay DEF BInv
<1> QED
  BY <1>1 DEF OneRoom, InOneRoom, Connected

LEMMA FinishBroadcastRoom ==
    ASSUME BInv, OneRoom, NEW s \in Sockets, FinishBroadcast(s)
    PROVE  OneRoom'
<1> DEFINE l == conn[s].room
<1>1. /\ members \in [Lists -> SUBSET Sockets] /\ l \in Lists
      /\ members' = [members EXCEPT ![l] = @ \ conn[s].dead]
      /\ UNCHANGED <<dict, open>> /\ conn[s].pc = "bcast" /\ conn[s].valid
  BY DEF BInv, IInv, TypeOK, Placed, FinishBroadcast
<1>2. conn[s].dead \cap open = {}
  BY <1>1 DEF BInv, Underway
<1>3. conn'[s].pc = "recv"
  BY Moves DEF BInv, Step
<1>4. CASE dict = l
  <2>1. members'[dict] = members[dict] \ conn[s].dead
    BY <1>1, <1>4
  <2> QED
    BY <1>1, <1>2, <1>3, <2>1, StayRoom DEF Step
<1>5. CASE dict # l
  <2>1. dict \in Lists => members'[dict] = members[dict]
    BY <1>1, <1>5
  <2>2. CASE dict = NoList
    BY <1>1, <1>3, <2>2, NoEntryNobody, StayRoom, Moves DEF BInv, Step, OneRoom, InOneRoom,
       Connected
  <2>3. CASE dict \in Lists
    BY <1>1, <1>3, <2>1, <2>3, StayRoom DEF Step
  <2> QED
    BY <2>2, <2>3 DEF BInv, IInv, TypeOK
<1> QED
  BY <1>4, <1>5

\* Who leaves takes the entry away only if nobody is left.
LEMMA LeaveRoom ==
    ASSUME BInv, OneRoom, CleanExit, NEW s \in Sockets, Leave(s)
    PROVE  OneRoom'
<1> DEFINE l == conn[s].list
<1>1. /\ members \in [Lists -> SUBSET Sockets] /\ l \in Lists /\ IInv /\ Step(s)
      /\ members' = [members EXCEPT ![l] = @ \ {s}]
      /\ open' = open \ {s} /\ conn[s].pc = "leave" /\ dict' = EntryAfter(s)
      /\ dict \in Lists \cup {NoList}
  BY DEF BInv, IInv, TypeOK, Placed, Leave, Remaining, Step
<1>2. /\ conn'[s].pc = "out"
      /\ \A t \in Sockets \ {s} : conn'[t].pc = conn[t].pc /\ conn'[t].list = conn[t].list
  BY <1>1, Moves, ListsStay
<1>3. \A k \in Lists : members'[k] \subseteq members[k] /\ members[k] \ {s} \subseteq members'[k]
  BY <1>1
<1>4. CASE Remaining(s) # {}
  <2>1. dict' = dict
    BY <1>1, <1>4 DEF EntryAfter
  <2> QED
    BY <1>1, <1>2, <1>3, <2>1 DEF OneRoom, InOneRoom, Connected
<1>5. CASE Remaining(s) = {}
  <2>1. /\ \A t \in Sockets : conn[t].pc # "add"
        /\ dict \in {NoList, l}
    BY <1>1, <1>5 DEF CleanExit
  <2>2. ASSUME NEW t \in Sockets \ {s}, t \in Connected \cap open
        PROVE  FALSE
    <3>1. dict = l /\ t \in members[dict]
      BY <2>1, <2>2 DEF OneRoom, InOneRoom
    <3> QED
      BY <1>5, <3>1 DEF Remaining
  <2> QED
    BY <1>1, <1>2, <2>1, <2>2 DEF OneRoom, InOneRoom, Connected
<1> QED
  BY <1>4, <1>5

LEMMA RoomNext == ASSUME BInv, OneRoom, CleanExit, [Next]_vars PROVE OneRoom'
<1>1. CASE UNCHANGED vars
  BY <1>1 DEF OneRoom, InOneRoom, Connected, vars
<1>2. ASSUME NEW s \in Sockets, Step(s) PROVE OneRoom'
  <2>1. CASE PartyFull(s) \/ EndLoop(s)
    <3>1. conn'[s].pc \in {"out", "leave"} /\ dict' = dict /\ open' \subseteq open
          /\ members' = members
      BY <1>2, <2>1, Moves DEF BInv, PartyFull, EndLoop
    <3> QED
      BY <1>2, <3>1, StayRoom
  <2>2. CASE Receive(s) \/ Send(s)
    <3>1. conn'[s].pc = "bcast" /\ conn[s].pc \in {"recv", "bcast"}
          /\ UNCHANGED <<dict, open, members>>
      BY <1>2, <2>2, Moves DEF BInv, Receive, Send
    <3> QED
      BY <1>2, <3>1, StayRoom
  <2>3. CASE ClientCloses(s)
    BY <2>3 DEF ClientCloses, OneRoom, InOneRoom, Connected
  <2> QED
    BY <1>2, <2>1, <2>2, <2>3, JoinRoom, AddRoom, FinishBroadcastRoom, LeaveRoom DEF Step
<1> QED
  BY <1>1, <1>2 DEF Next

LEMMA BroadcastInvariance == Spec => []BInv
<1>1. Init => BInv
  BY InitInv DEF Init, BInv, Underway, Out
<1> QED
  BY <1>1, BroadcastNext, PTL DEF Spec

\* However any number of sockets enter, talk, are pruned and leave, a party
\* that is together is split only by an exit that is not clean.
THEOREM RoomIsKept == Spec => RoomKept
<1> DEFINE Kept1 == OneRoom /\ CleanExit => OneRoom'
<1>1. BInv /\ [Next]_vars => [Kept1]_vars
  BY RoomNext
<1>2. RoomKept <=> [][Kept1]_vars
  BY DEF RoomKept
<1> HIDE DEF Kept1
<1> QED
  BY <1>1, <1>2, BroadcastInvariance, PTL DEF Spec

-----------------------------------------------------------------------------
(* The rate limiters.                                                      *)

\* Admitted calls the window still holds and the limiter does not.
Lost == InWindow \ recorded

\* The history is one of past calls.
History ==
    /\ WindowTypeOK /\ admitted <= MaxCalls
    /\ recorded \subseteq 1..admitted
    /\ \A c \in 1..admitted : at[c] <= now

\* At most one call is lost; and while the address has a list, a later call
\* that is on it outlives the lost one.
LostOnce ==
    /\ limiter = "party" => Lost = {} /\ present
    /\ \A c, d \in Lost : c = d
    /\ present => \A c \in Lost : \E r \in recorded : at[c] <= at[r]

WindowInv ==
    /\ History /\ LostOnce
    /\ IsFiniteSet(recorded) /\ Cardinality(recorded) <= Limit

LEMMA Past ==
    ASSUME WindowInv
    PROVE  /\ admitted \in Nat /\ now \in Nat /\ MaxCalls \in Nat
           /\ at \in [1..MaxCalls -> Nat]
           /\ recorded \subseteq 1..admitted
           /\ \A c \in 1..admitted : at[c] \in Nat /\ at[c] <= now
<1>1. /\ admitted \in Nat /\ now \in Nat /\ MaxCalls \in Nat /\ admitted <= MaxCalls
      /\ at \in [1..MaxCalls -> Nat] /\ recorded \subseteq 1..admitted
      /\ \A c \in 1..admitted : at[c] <= now
  BY LimitAssumption DEF WindowInv, History, WindowTypeOK, Calls
<1>2. \A c \in 1..admitted : c \in 1..MaxCalls
  BY <1>1
<1> QED
  BY <1>1, <1>2

LEMMA WindowInitInv == WindowInit => WindowInv
<1> SUFFICES ASSUME WindowInit PROVE WindowInv
  OBVIOUS
<1>1. History
  <2>1. \A c \in 1..0 : FALSE
    OBVIOUS
  <2>2. WindowTypeOK
    BY LimitAssumption DEF WindowInit, WindowTypeOK, Calls
  <2> QED
    BY <2>1, <2>2, LimitAssumption DEF WindowInit, History
<1>2. LostOnce
  <2>1. \A c \in 1..0 : FALSE
    OBVIOUS
  <2>2. Lost = {}
    BY <2>1 DEF WindowInit, Lost, InWindow
  <2>3. limiter = "party" => present
    BY DEF WindowInit
  <2> QED
    BY <2>2, <2>3 DEF LostOnce
<1> QED
  BY <1>1, <1>2, FS_EmptySet, LimitAssumption DEF WindowInit, WindowInv

\* Dropping what has expired keeps the list within the limit.
LEMMA RecentFits ==
    ASSUME WindowInv
    PROVE  /\ IsFiniteSet(Recent) /\ Cardinality(Recent) \in Nat
           /\ Cardinality(Recent) <= Limit /\ Recent \subseteq recorded
<1>1. Recent \subseteq recorded
  BY DEF Recent
<1>2. IsFiniteSet(Recent) /\ Cardinality(Recent) <= Cardinality(recorded)
  BY <1>1, FS_Subset DEF WindowInv
<1> QED
  BY <1>1, <1>2, FS_CardinalityType, LimitAssumption DEF WindowInv

LEMMA TickInv == ASSUME WindowInv, Tick PROVE WindowInv'
<1>1. History'
  <2>1. \A c \in 1..admitted : at[c] <= now + 1
    BY Past
  <2>2. WindowTypeOK'
    BY Past DEF Tick, WindowInv, History, WindowTypeOK, Calls
  <2> QED
    BY <2>1, <2>2 DEF Tick, WindowInv, History
<1>2. ASSUME NEW c \in InWindow' PROVE c \in InWindow
  <2>1. c \in 1..admitted /\ ~Expired(at[c])'
    BY <1>2 DEF InWindow, Tick
  <2>2. at[c] \in Nat /\ now \in Nat /\ now' = now + 1 /\ at'[c] = at[c]
    BY <2>1, Past DEF Tick
  <2> QED
    BY <2>1, <2>2, LimitAssumption DEF InWindow, Expired
<1>3. LostOnce'
  BY <1>2 DEF Tick, WindowInv, LostOnce, Lost
<1> QED
  BY <1>1, <1>3 DEF WindowInv, Tick

\* What an admitted call does to the history, whatever the limiter keeps.
LEMMA AdmitHistory ==
    ASSUME WindowInv, NEW kept, NEW listed \in BOOLEAN, Admit(kept, listed),
           kept \subseteq 1..(admitted + 1)
    PROVE  /\ History'
           /\ \A c \in 1..admitted : at'[c] = at[c]
           /\ at'[admitted + 1] = now /\ limiter' = limiter
           /\ InWindow' \subseteq InWindow \cup {admitted + 1}
<1>1. /\ admitted \in Nat /\ now \in Nat /\ MaxCalls \in Nat
      /\ at \in [1..MaxCalls -> Nat] /\ admitted < MaxCalls
      /\ at' = [at EXCEPT ![admitted + 1] = now] /\ now' = now
      /\ admitted' = admitted + 1 /\ recorded' = kept /\ present' = listed
      /\ limiter' = limiter /\ limiter \in {"party", "cellar"}
  BY LimitAssumption DEF WindowInv, History, WindowTypeOK, Calls, Admit
<1>2. \A c \in 1..admitted : at'[c] = at[c] /\ c # admitted + 1
  BY <1>1
<1>3. at'[admitted + 1] = now
  BY <1>1
<1>4. 1..admitted' = 1..admitted \cup {admitted + 1}
  BY <1>1
<1>5. History'
  BY <1>1, <1>2, <1>3, <1>4 DEF WindowInv, History, WindowTypeOK, Calls
<1>6. ASSUME NEW c \in InWindow', c # admitted + 1 PROVE c \in InWindow
  BY <1>1, <1>2, <1>4, <1>6 DEF InWindow, Expired
<1> QED
  BY <1>1, <1>2, <1>3, <1>5, <1>6

LEMMA AllowInv == ASSUME WindowInv, Allow PROVE WindowInv'
<1> DEFINE n == admitted + 1
           kept == Recent \cup {n}
<1>1. Admit(kept, TRUE) /\ admitted \in Nat
  BY DEF Allow, WindowInv, History, WindowTypeOK
<1>2. recorded \subseteq 1..admitted /\ kept \subseteq 1..n
  <2>1. 1..n = 1..admitted \cup {n}
    BY <1>1
  <2> QED
    BY <2>1, RecentFits, Past
<1>3. /\ History' /\ \A c \in 1..admitted : at'[c] = at[c]
      /\ at'[n] = now /\ limiter' = limiter /\ InWindow' \subseteq InWindow \cup {n}
  BY <1>1, <1>2, AdmitHistory
<1>4. recorded' = kept /\ present' = TRUE
  BY <1>1 DEF Admit
<1>5. InWindow \cap recorded \subseteq Recent
  BY DEF InWindow, Recent
<1>6. Lost' \subseteq Lost
  BY <1>3, <1>4, <1>5 DEF Lost
<1>7. \A c \in Lost : at'[c] <= at'[n]
  BY <1>3 DEF Lost, InWindow, WindowInv, History
<1>8. limiter = "party" => Lost' = {}
  BY <1>6 DEF WindowInv, LostOnce
<1>9. LostOnce'
  BY <1>3, <1>4, <1>6, <1>7, <1>8 DEF WindowInv, LostOnce
<1>10. n \notin Recent
  BY <1>1, <1>2, RecentFits
<1>11. IsFiniteSet(kept) /\ Cardinality(kept) = Cardinality(Recent) + 1
  BY <1>10, RecentFits, FS_AddElement
<1>12. Cardinality(kept) <= Limit
  BY <1>11, RecentFits, LimitAssumption DEF Allow, HasRoom
<1> QED
  BY <1>3, <1>4, <1>9, <1>11, <1>12 DEF WindowInv

\* The list is emptied only when no admitted call is left in the window.
LEMMA AllowDetachedInv == ASSUME WindowInv, AllowDetached PROVE WindowInv'
<1> DEFINE n == admitted + 1
<1>1. Admit({}, FALSE) /\ present /\ limiter # "party" /\ Recent = {}
  BY DEF AllowDetached, Listed, StillListed
<1>2. History' /\ limiter' = limiter /\ InWindow' \subseteq InWindow \cup {n}
  BY <1>1, AdmitHistory
<1>3. recorded' = {} /\ present' = FALSE
  BY <1>1 DEF Admit
<1>4. ASSUME NEW c \in InWindow PROVE FALSE
  <2>1. c \in 1..admitted /\ ~Expired(at[c])
    BY DEF InWindow
  <2>2. c \in Lost
    BY <1>1, <2>1 DEF Lost, Recent
  <2>3. PICK r \in recorded : at[c] <= at[r]
    BY <1>1, <2>2 DEF WindowInv, LostOnce
  <2>4. at[c] \in Nat /\ at[r] \in Nat /\ now \in Nat
    BY <2>1, <2>3, Past
  <2>5. ~Expired(at[r])
    BY <2>1, <2>3, <2>4, LimitAssumption DEF Expired
  <2> QED
    BY <1>1, <2>3, <2>5 DEF Recent
<1>5. Lost' \subseteq {n}
  BY <1>2, <1>4 DEF Lost
<1>6. LostOnce'
  BY <1>1, <1>2, <1>3, <1>5 DEF LostOnce
<1> QED
  BY <1>2, <1>3, <1>6, FS_EmptySet, LimitAssumption DEF WindowInv

LEMMA RefuseInv == ASSUME WindowInv, Refuse PROVE WindowInv'
<1>1. recorded' = Recent /\ UNCHANGED <<limiter, now, at, admitted, present>>
  BY DEF Refuse
<1>2. History'
  BY <1>1, RecentFits DEF WindowInv, History, WindowTypeOK
<1>3. InWindow' = InWindow
  BY <1>1 DEF InWindow, Expired
<1>4. InWindow \cap recorded \subseteq Recent
  BY DEF InWindow, Recent
<1>5. Lost' = Lost
  BY <1>1, <1>3, <1>4, RecentFits DEF Lost
<1>6. ASSUME present, NEW c \in Lost PROVE \E r \in Recent : at[c] <= at[r]
  <2>1. PICK r \in recorded : at[c] <= at[r]
    BY <1>6 DEF WindowInv, LostOnce
  <2>2. c \in 1..admitted /\ ~Expired(at[c])
    BY DEF Lost, InWindow
  <2>3. at[c] \in Nat /\ at[r] \in Nat /\ now \in Nat
    BY <2>1, <2>2, Past
  <2>4. ~Expired(at[r])
    BY <2>1, <2>2, <2>3, LimitAssumption DEF Expired
  <2> QED
    BY <2>1, <2>4 DEF Recent
<1>7. LostOnce'
  BY <1>1, <1>5, <1>6 DEF WindowInv, LostOnce
<1> QED
  BY <1>1, <1>2, <1>7, RecentFits DEF WindowInv

LEMMA WindowNextInv == ASSUME WindowInv, [WindowNext]_window PROVE WindowInv'
<1>1. CASE UNCHANGED window
  BY <1>1 DEF window, WindowInv, History, WindowTypeOK, LostOnce, Lost, InWindow, Expired
<1> QED
  BY <1>1, TickInv, AllowInv, AllowDetachedInv, RefuseInv DEF WindowNext

LEMMA WindowInvariance == WindowSpec => []WindowInv
  BY WindowInitInv, WindowNextInv, PTL DEF WindowSpec

\* The calls of a window are those on the list and the lost ones.
LEMMA WindowFits ==
    ASSUME WindowInv
    PROVE  /\ Lost = {} => Cardinality(InWindow) <= Limit
           /\ Cardinality(InWindow) <= Limit + 1
<1>1. /\ IsFiniteSet(recorded) /\ Cardinality(recorded) \in Nat
      /\ Cardinality(recorded) <= Limit /\ Limit \in Nat
  BY FS_CardinalityType, LimitAssumption DEF WindowInv
<1>2. CASE Lost = {}
  <2>1. InWindow \subseteq recorded
    BY <1>2 DEF Lost
  <2>2. IsFiniteSet(InWindow) /\ Cardinality(InWindow) <= Cardinality(recorded)
    BY <1>1, <2>1, FS_Subset
  <2>3. Cardinality(InWindow) \in Nat
    BY <2>2, FS_CardinalityType
  <2> QED
    BY <1>1, <2>2, <2>3
<1>3. CASE Lost # {}
  <2>1. PICK c \in Lost : TRUE
    BY <1>3
  <2>2. InWindow \subseteq recorded \cup {c}
    BY <2>1 DEF Lost, WindowInv, LostOnce
  <2>3. /\ IsFiniteSet(recorded \cup {c})
        /\ Cardinality(recorded \cup {c}) = Cardinality(recorded) + 1
    BY <1>1, <2>1, FS_AddElement DEF Lost
  <2>4. /\ IsFiniteSet(InWindow)
        /\ Cardinality(InWindow) <= Cardinality(recorded \cup {c})
    BY <2>2, <2>3, FS_Subset
  <2>5. Cardinality(InWindow) \in Nat
    BY <2>4, FS_CardinalityType
  <2> QED
    BY <1>1, <1>3, <2>3, <2>4, <2>5
<1> QED
  BY <1>2, <1>3

-----------------------------------------------------------------------------
\* For every limit and window, no second holds more messages of a socket than the
\* limit, and five minutes hold at most one license attempt more: one is lost for
\* each emptied list, and never two at a time.
THEOREM LimitersSound == WindowSpec => []WindowBound
<1>1. WindowInv => WindowBound
  BY WindowFits DEF WindowInv, LostOnce, WindowBound
<1> QED
  BY <1>1, WindowInvariance, PTL

\* A call is refused only while the window is full of admitted ones, so refused
\* calls never prolong the wait, for every limit and window.
THEOREM RefusalsAreFull == WindowSpec => RefusedOnlyWhenFull
<1>1. ASSUME WindowInv, Refuse PROVE Cardinality(InWindow) >= Limit
  <2>1. Recent \subseteq InWindow
    BY <1>1, Past DEF Recent, InWindow
  <2>2. IsFiniteSet(InWindow)
    <3>1. IsFiniteSet(1..admitted)
      BY <1>1, FS_Interval DEF WindowInv, History, WindowTypeOK
    <3> QED
      BY <3>1, FS_Subset DEF InWindow
  <2>3. /\ Cardinality(Recent) <= Cardinality(InWindow)
        /\ Cardinality(Recent) \in Nat /\ Cardinality(InWindow) \in Nat
    BY <2>1, <2>2, FS_Subset, FS_CardinalityType
  <2>4. Cardinality(Recent) >= Limit
    BY <1>1 DEF Refuse, Kept
  <2> QED
    BY <2>3, <2>4, LimitAssumption
<1>2. WindowInv => [Refuse => Cardinality(InWindow) >= Limit]_window
  BY <1>1
<1> QED
  BY <1>2, WindowInvariance, PTL DEF RefusedOnlyWhenFull
=============================================================================
