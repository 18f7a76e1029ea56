--------------------------- MODULE MCPatchPipeline ---------------------------
(***************************************************************************)
(* Instances of PatchPipeline.  Patch pw changes a page and a theme of the *)
(* web tree, pb a page and a native library of the data tree, and pa an    *)
(* assembly of the app tree and that library; pa is not signed.            *)
(***************************************************************************)
EXTENDS PatchPipeline

MCPatches == {"pw", "pb", "pa"}
MCFiles == {"page", "theme", "lib", "dll"}
MCTarget == [f \in MCFiles |-> CASE f = "lib" -> "data" [] f = "dll" -> "app"
                                  [] OTHER -> "web"]
MCBinaryExt == {"lib"}
MCManifest == [p \in MCPatches |-> CASE p = "pw" -> <<"page", "theme">>
                                      [] p = "pb" -> <<"page", "lib">>
                                      [] OTHER -> <<"dll", "lib">>]
MCShipped == {"page", "lib", "dll"}

\* Without the unsigned patch.
TwoPatches == {"pw", "pb"}
TwoFiles == {"page", "theme", "lib"}
TwoTarget == [f \in TwoFiles |-> MCTarget[f]]
TwoManifest == [p \in TwoPatches |-> MCManifest[p]]
TwoShipped == {"page", "lib"}

\* One web patch of one file.
OnePatch == {"pw"}
OneFile == {"page"}
OneTarget == [f \in OneFile |-> "web"]
OneManifest == [p \in OnePatch |-> <<"page">>]
=============================================================================
