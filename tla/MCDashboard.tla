---------------------------- MODULE MCDashboard ----------------------------
(***************************************************************************)
(* The parts around the dashboard, which share no state here: a behaviour  *)
(* is one of any of them, picked in its initial state.  Where an initial   *)
(* state may be one of several, the parts not picked have one.             *)
(***************************************************************************)
EXTENDS Bridge, Sinks, ChatSync, Launcher

VARIABLE part

CONSTANT root

\* Bridge.
MCUpdates == <<"dispatch", "do", "chat">>
MCSessions == {"chat", "dispatch"}
MCStreaming == (DOMAIN MCUpdates) \X (0..MaxCrashes)
MCRequests == MCStreaming \cup (DOMAIN MCUpdates) \X (0..MaxCrashes) \X {"select"}
MCDispatching == {<<m, k>> \in MCStreaming : MCUpdates[m] = "dispatch"}

\* Bound: where the bridge crashes, the last update never comes.
CrashBound == crashes > 0 => \A i \in InLife : i[1] = Len(Updates) => handled[i] = 0

\* EventFeed.
MCLanes == {root}

\* RunTrace.
MCLogs == {root, "worker"}
MCRoleOf == [s \in MCLogs |-> IF s = root THEN "orchestrator" ELSE "implementer"]

Parts == {"bridge", "feed", "index", "trace", "chat", "launch"}

MCInit ==
  /\ part \in Parts
  /\ BridgeInit /\ FeedInit /\ IndexInit /\ TraceInit /\ ChatInit
  /\ LaunchInit /\ (part # "launch" => installed.pi /\ installed.env)

Steps(p) ==
  CASE p = "bridge" -> BridgeNext /\ CrashBound' /\ UNCHANGED <<feedVars, indexVars, traceVars, chatVars, launchVars>>
    [] p = "feed" -> FeedNext /\ UNCHANGED <<bridgeVars, indexVars, traceVars, chatVars, launchVars>>
    [] p = "index" -> IndexNext /\ UNCHANGED <<bridgeVars, feedVars, traceVars, chatVars, launchVars>>
    [] p = "trace" -> TraceNext /\ UNCHANGED <<bridgeVars, feedVars, indexVars, chatVars, launchVars>>
    [] p = "chat" -> ChatNext /\ UNCHANGED <<bridgeVars, feedVars, indexVars, traceVars, launchVars>>
    [] p = "launch" -> LaunchNext /\ UNCHANGED <<bridgeVars, feedVars, indexVars, traceVars, chatVars>>

MCNext == Steps(part) /\ UNCHANGED part

MCSpec ==
  MCInit /\ [][MCNext]_<<part, bridgeVars, feedVars, indexVars, traceVars, chatVars, launchVars>>
=============================================================================
