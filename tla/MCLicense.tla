------------------------------ MODULE MCLicense ------------------------------
(***************************************************************************)
(* Instances of License: a serial of each tier.                            *)
(***************************************************************************)
EXTENDS License, TLC

MCSerials == {"s", "p", "u"}
Paid == {"p", "u"}
MCTierOf == [s \in MCSerials |->
               CASE s = "p" -> "pro" [] s = "u" -> "ultra" [] OTHER -> "standard"]
PaidTierOf == [s \in Paid |-> MCTierOf[s]]

Symmetry == Permutations(Requests)
=============================================================================
