----------------------------- MODULE MCAccounts -----------------------------
(***************************************************************************)
(* Instances of Accounts: a has an address of its own, b and c share one.  *)
(* Requests are interchangeable, and so are b and c.                       *)
(***************************************************************************)
EXTENDS Accounts, TLC

CONSTANTS a, b, c    \* the accounts

MCIds == {a, b, c}
MCAddresses == {"own", "shared"}
MCAddressOf == [i \in MCIds |-> IF i = a THEN "own" ELSE "shared"]

Symmetry == Permutations({b, c}) \cup Permutations(Requests)
=============================================================================
