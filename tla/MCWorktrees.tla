---------------------------- MODULE MCWorktrees -----------------------------
(***************************************************************************)
(* Two waves: one of two workers that can contest a path, and one worker   *)
(* after it, for what a wave leaves to the next.                           *)
(***************************************************************************)
EXTENDS Worktrees

MCWaves == <<{1, 2}, {3}>>
=============================================================================
