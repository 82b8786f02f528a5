------------------------------- MODULE Sinks --------------------------------
(***************************************************************************)
(* The sinks as they are read: line by line, by the stream (EventFeed) and *)
(* by the index (RunIndex), and as a trace, a tree and a time (RunTrace).  *)
(***************************************************************************)
EXTENDS EventFeed, RunIndex, RunTrace

SinksSpec == FeedSpec /\ IndexSpec /\ TraceSpec

(***************************************************************************)
(* What is read of the sinks is what is in them, by the stream and by the  *)
(* index; and what is made of a run's events, a trace, a tree, a time, is  *)
(* what happened.                                                          *)
(***************************************************************************)
SinksReadRight == FeedHolds /\ IndexTrue /\ RunTold
=============================================================================
