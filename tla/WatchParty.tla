----------------------------- MODULE WatchParty -----------------------------
(***************************************************************************)
(* WatchPartyConnectionManager for one party: the dictionary entry of its  *)
(* code, the list objects it has pointed to, and one handler per socket.   *)
(*                                                                         *)
(* A step is the code between two awaits or around one lock.  Adding to or *)
(* removing from a list invalidates the enumerators that run over it: the  *)
(* next MoveNext of a broadcast throws, and the order in which a valid one *)
(* visits the list does not matter.  Messages are those the rate limiter   *)
(* of SlidingWindow lets through.                                          *)
(***************************************************************************)
EXTENDS Naturals, FiniteSets

CONSTANTS
    Sockets,                 \* the client connections
    Lists,                   \* the list objects the process allocates
    MaxConnectionsPerParty,
    MaxJoins                 \* bound: how often clients connect

NoList == "no list"

ASSUME PartyAssumption ==
    /\ NoList \notin Lists
    /\ MaxConnectionsPerParty \in Nat \ {0} /\ MaxJoins \in Nat

VARIABLES
    dict,      \* _connections[partyCode], or NoList
    members,   \* the sockets each list holds
    open,      \* the sockets whose State is Open
    conn,      \* the local state of each handler
    joins      \* how many connections have been made

vars == <<dict, members, open, conn, joins>>

\* room is the list a broadcast enumerates, which need not be the handler's
\* own; todo, dead and got are the sockets still to visit, found closed, sent.
Out == [pc |-> "out", list |-> NoList, room |-> NoList, todo |-> {},
        dead |-> {}, got |-> {}, valid |-> FALSE]

Connected == {s \in Sockets : conn[s].pc \in {"recv", "bcast"}}

Init ==
    /\ dict = NoList /\ members = [l \in Lists |-> {}] /\ open = {}
    /\ conn = [s \in Sockets |-> Out] /\ joins = 0

\* A change of list l invalidates its enumerators.
Changed(l) ==
    [s \in Sockets |->
       IF conn[s].pc = "bcast" /\ conn[s].room = l
       THEN [conn[s] EXCEPT !.valid = FALSE] ELSE conn[s]]

-----------------------------------------------------------------------------
(* HandleConnection: entering.                                             *)

\* A new list is an object nobody refers to.
Fresh(l) ==
    /\ l # dict
    /\ \A s \in Sockets : conn[s].pc = "out" \/ l \notin {conn[s].list, conn[s].room}

Join(s) ==
    /\ conn[s].pc = "out" /\ joins < MaxJoins
    /\ \E l \in Lists :
          /\ l = dict \/ (dict = NoList /\ Fresh(l))
          /\ dict' = l
          /\ members' = [members EXCEPT ![l] = IF dict = NoList THEN {} ELSE @]
          /\ conn' = [conn EXCEPT ![s] = [Out EXCEPT !.pc = "add", !.list = l]]
    /\ open' = open \cup {s} /\ joins' = joins + 1

Full_OffByOne(l) == Cardinality(members[l]) > MaxConnectionsPerParty
Full(l) == Cardinality(members[l]) >= MaxConnectionsPerParty

Add(s) ==
    LET l == conn[s].list
    IN  /\ conn[s].pc = "add" /\ ~Full(l)
        /\ members' = [members EXCEPT ![l] = @ \cup {s}]
        /\ conn' = [Changed(l) EXCEPT ![s] = [conn[s] EXCEPT !.pc = "recv"]]
        /\ UNCHANGED <<dict, open, joins>>

PartyFull(s) ==
    /\ conn[s].pc = "add" /\ Full(conn[s].list)
    /\ conn' = [conn EXCEPT ![s] = Out] /\ open' = open \ {s}
    /\ UNCHANGED <<dict, members, joins>>

-----------------------------------------------------------------------------
(* ReceiveLoop and BroadcastToParty.                                       *)

\* The client sends a close frame, or its connection breaks.
ClientCloses(s) ==
    /\ conn[s].pc # "out" /\ s \in open
    /\ open' = open \ {s}
    /\ UNCHANGED <<dict, members, conn, joins>>

Receive(s) ==
    /\ conn[s].pc = "recv" /\ s \in open /\ dict # NoList
    /\ conn' = [conn EXCEPT ![s] =
                  [pc |-> "bcast", list |-> conn[s].list, room |-> dict,
                   todo |-> members[dict], dead |-> {}, got |-> {}, valid |-> TRUE]]
    /\ UNCHANGED <<dict, members, open, joins>>

\* SendAsync succeeds on an open socket; the others are noted for removal.
Send(s) ==
    /\ conn[s].pc = "bcast" /\ conn[s].valid
    /\ \E t \in conn[s].todo :
          conn' = [conn EXCEPT ![s] =
                     [conn[s] EXCEPT !.todo = @ \ {t},
                        !.got = IF t \in open THEN @ \cup {t} ELSE @,
                        !.dead = IF t \in open THEN @ ELSE @ \cup {t}]]
    /\ UNCHANGED <<dict, members, open, joins>>

Broadcasted(s) == [Out EXCEPT !.pc = "recv", !.list = conn[s].list]

SentToAll_UntilDead(s) == conn[s].todo = {} \/ conn[s].dead # {}
SentToAll(s) == conn[s].todo = {}

FinishBroadcast(s) ==
    LET l == conn[s].room
        dead == conn[s].dead
    IN  /\ conn[s].pc = "bcast" /\ conn[s].valid /\ SentToAll(s)
        /\ members' = [members EXCEPT ![l] = @ \ dead]
        /\ conn' = [(IF dead = {} THEN conn ELSE Changed(l))
                      EXCEPT ![s] = Broadcasted(s)]
        /\ UNCHANGED <<dict, open, joins>>

\* The loop ends: the socket is closed, or the enumerator threw.
EndLoop(s) ==
    /\ \/ conn[s].pc = "recv" /\ s \notin open
       \/ conn[s].pc = "bcast" /\ ~conn[s].valid
    /\ conn' = [conn EXCEPT ![s] = [Out EXCEPT !.pc = "leave", !.list = conn[s].list]]
    /\ UNCHANGED <<dict, members, open, joins>>

-----------------------------------------------------------------------------
(* HandleConnection: the finally block.  The entry is removed by its code, *)
(* whichever list it points to by now.                                     *)

Remaining_Ghost(s) == members[conn[s].list]
Remaining(s) == members[conn[s].list] \ {s}

EntryAfter_Gone(s) == NoList
EntryAfter(s) == IF Remaining(s) = {} THEN NoList ELSE dict

Leave(s) ==
    LET l == conn[s].list
    IN  /\ conn[s].pc = "leave"
        /\ members' = [members EXCEPT ![l] = Remaining(s)]
        /\ dict' = EntryAfter(s)
        /\ conn' = [(IF s \in members[l] THEN Changed(l) ELSE conn)
                      EXCEPT ![s] = Out]
        /\ open' = open \ {s}
        /\ UNCHANGED joins

Step(s) ==
    \/ Join(s) \/ Add(s) \/ PartyFull(s) \/ ClientCloses(s)
    \/ Receive(s) \/ Send(s) \/ FinishBroadcast(s) \/ EndLoop(s) \/ Leave(s)

Next == \E s \in Sockets : Step(s)

Spec == Init /\ [][Next]_vars

-----------------------------------------------------------------------------
(* What must not happen while the last socket of a list is taken out, for  *)
(* a party to stay together; the lock of one list does not prevent it.     *)

\* Whoever leaves a list empty does so while nobody has looked a list up and
\* is still to enter it, and while the entry is not that of another list.
CleanExit ==
    \A r \in Sockets :
        conn[r].pc = "leave" /\ Remaining(r) = {} =>
            /\ \A s \in Sockets : conn[s].pc # "add"
            /\ dict \in {NoList, conn[r].list}

-----------------------------------------------------------------------------
(* Properties.                                                             *)

ConnState ==
    [pc : {"out", "add", "recv", "bcast", "leave"},
     list : Lists \cup {NoList}, room : Lists \cup {NoList},
     todo : SUBSET Sockets, dead : SUBSET Sockets, got : SUBSET Sockets,
     valid : BOOLEAN]

\* The types of the dictionary entry, the lists and the handlers' state.
TypeOK ==
    /\ dict \in Lists \cup {NoList}
    /\ members \in [Lists -> SUBSET Sockets]
    /\ open \subseteq Sockets /\ conn \in [Sockets -> ConnState]
    /\ joins \in Nat

\* A handler that has returned, or was refused, has its socket in no list:
\* the lists hold connected sockets only, each in the list it was given
\* (HandleConnection's finally block).
NoGhosts ==
    \A l \in Lists : \A s \in members[l] :
        conn[s].pc \in {"recv", "bcast", "leave"} /\ conn[s].list = l

\* However connections race, no list grows beyond MaxConnectionsPerParty.
ListCap == \A l \in Lists : Cardinality(members[l]) <= MaxConnectionsPerParty

\* A broadcast that ends normally has been sent to every open socket that is
\* in its list by then, those that joined meanwhile included: it ends with an
\* exception instead of missing one (BroadcastToParty's enumerator).
BroadcastIsComplete ==
    [][\A s \in Sockets :
         conn[s].pc = "bcast" /\ conn'[s].pc = "recv"
         => members'[conn[s].room] \cap open \subseteq conn[s].got]_vars

\* "Share the party code, friends join with the code, playback syncs": who is
\* connected with the party's code and has not been pruned as closed is in
\* the list that broadcasts go to.
InOneRoom ==
    \A s \in Connected \cap open : dict # NoList /\ s \in members[dict]

\* And who is about to enter has looked up that list.
OneRoom ==
    /\ InOneRoom
    /\ \A s \in Sockets : conn[s].pc = "add" => conn[s].list = dict

\* A party that is together is only ever split by an exit that is not clean,
\* however its sockets enter, talk, are pruned and leave.
RoomKept == [][OneRoom /\ CleanExit => OneRoom']_vars
=============================================================================
