--------------------------- MODULE MCPatchApproval ---------------------------
(* Two proposals that share a file, and one with a file of its own.        *)
EXTENDS PatchApproval, TLC
CONSTANTS a1, a2, app, readme

MCActions == {a1, a2}
MCFiles == {app, readme}
MCFilesOf == (a1 :> {app}) @@ (a2 :> {app, readme})
=============================================================================
