-------------------------------- MODULE Lsp --------------------------------
(***************************************************************************)
(* The lsp skill as a whole: the talk with language servers (LspClient)    *)
(* and, file by file, the edits of a rename or a code action (LspEdits).   *)
(***************************************************************************)
EXTENDS LspClient, LspEdits

ToolSpec == LspSpec /\ EditsSpec

(***************************************************************************)
(* What the language servers say is told as they say it, and each edit they*)
(* send lands where they meant it.                                         *)
(***************************************************************************)
LspSound == LspHonest /\ EditsLand
=============================================================================
