----------------------------- MODULE PatchStore -----------------------------
(***************************************************************************)
(* What the patch pipeline promises about the files of the installation: a *)
(* file changes, in one step, from the bytes it is made of to those of a   *)
(* patch that names it and of which every file was verified before; the    *)
(* files the process has loaded change only while it is not serving.       *)
(* Whether the bytes are all there yet is not part of the promise: that    *)
(* is PatchPipeline's LiveWhole, which two appliers can break.             *)
(***************************************************************************)
EXTENDS Sequences, Naturals

CONSTANTS
    Patches,    \* the patches
    Files,      \* the paths
    Manifest,   \* the files of a patch
    Restarted,  \* the paths that are swapped at boot only
    Shipped     \* the paths the installation comes with

VARIABLES
    content,    \* the patch whose bytes each path is made of
    serving,    \* the host is up
    vouched     \* the patches that were verified as a whole

storeVars == <<content, serving, vouched>>

StoreInit ==
    /\ content = [f \in Files |-> IF f \in Shipped THEN "orig" ELSE "absent"]
    /\ serving = TRUE
    /\ vouched = {}

Vouch(p) ==
    /\ vouched' = vouched \cup {p}
    /\ UNCHANGED <<content, serving>>

Replace(f, p) ==
    /\ p \in vouched
    /\ \E i \in 1..Len(Manifest[p]) : Manifest[p][i] = f
    /\ f \in Restarted => ~serving
    /\ content' = [content EXCEPT ![f] = p]
    /\ UNCHANGED <<serving, vouched>>

StopOrStart ==
    /\ serving' = ~serving
    /\ UNCHANGED <<content, vouched>>

StoreNext ==
    \/ \E p \in Patches : Vouch(p) \/ \E f \in Files : Replace(f, p)
    \/ StopOrStart

StoreSpec == StoreInit /\ [][StoreNext]_storeVars
=============================================================================
