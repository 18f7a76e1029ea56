-------------------------------- MODULE MCParty --------------------------------
(* Small instances of the watch party: the lists of its sockets, and the rate  *)
(* limiter of one socket, which is that of the license endpoints too. They     *)
(* share no state: a behaviour is of one of them, the other rests.             *)
EXTENDS WatchParty, SlidingWindow, TLC

CONSTANT Parts
VARIABLE part

PartyInit ==
    /\ part \in Parts /\ Init /\ WindowInit
    /\ part = "lists" => limiter = "party"

PartyNext ==
    /\ UNCHANGED part
    /\ \/ part = "lists" /\ Next /\ UNCHANGED window
       \/ part = "limiters" /\ WindowNext /\ UNCHANGED vars

PartySpec == PartyInit /\ [][PartyNext]_<<part, vars, window>>

Symmetry == Permutations(Sockets) \cup Permutations(Lists)
================================================================================
