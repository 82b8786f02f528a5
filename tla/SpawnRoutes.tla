---------------------------- MODULE SpawnRoutes ----------------------------
(***************************************************************************)
(* The routes of the obs server that spawn pi for a client: the streamed   *)
(* ones, /api/chat (obs/obs-chat.ts) and /api/dispatch (obs-dispatch.ts),  *)
(* and the one-shot ones, playground, summarize, select, explain and judge *)
(* (obs-llm.ts).  A request reserves a slot, has one child, and gives the  *)
(* slot back when it settles.  A client that leaves a streamed request, or *)
(* a time-out, has the child's whole process group killed, with SIGKILL    *)
(* five seconds after SIGTERM; a one-shot request outlives its client, and *)
(* its time-out settles it after one SIGTERM to pi alone.                  *)
(***************************************************************************)
EXTENDS Naturals, FiniteSets

CONSTANTS Requests, Sessions,
          NoSession,
          Streaming,           \* the requests to /api/chat and /api/dispatch
          Dispatching,         \* those to /api/dispatch
          MaxLlm, MaxDispatch  \* the slots

ASSUME SpawnRoutesAssumption ==
  /\ Streaming \subseteq Requests /\ Dispatching \subseteq Streaming
  /\ NoSession \notin Sessions
  /\ MaxLlm \in Nat \ {0} /\ MaxDispatch \in Nat \ {0}

VARIABLES
  request,   \* where a request stands
  session,   \* the session its child writes
  client,    \* is its client still there, while it is open
  pi, group, \* does its child run; has pi left a process of its group behind, on its pipes
  kill,      \* has killTree sent SIGTERM, and set its timer
  frame,     \* the terminal frame its client was sent and has not read
  inFlightLlm, inFlightDispatch

routes == <<request, session, client, pi, group, kill, frame, inFlightLlm, inFlightDispatch>>

RoutesTypeOK ==
  /\ request \in [Requests -> {"none", "open", "settled"}]
  /\ session \in [Requests -> Sessions \cup {NoSession}]
  /\ client \in [Requests -> {"none", "there", "gone"}]
  /\ pi \in [Requests -> BOOLEAN] /\ group \in [Requests -> BOOLEAN]
  /\ kill \in [Requests -> BOOLEAN]
  /\ frame \in [Requests -> {"none", "done", "error"}]
  /\ inFlightLlm \in 0..MaxLlm /\ inFlightDispatch \in 0..MaxDispatch

RoutesInit ==
  /\ request = [r \in Requests |-> "none"] /\ session = [r \in Requests |-> NoSession]
  /\ client = [r \in Requests |-> "none"]
  /\ pi = [r \in Requests |-> FALSE] /\ group = [r \in Requests |-> FALSE]
  /\ kill = [r \in Requests |-> FALSE] /\ frame = [r \in Requests |-> "none"]
  /\ inFlightLlm = 0 /\ inFlightDispatch = 0

-----------------------------------------------------------------------------
\* Mutant: a dispatch is measured by the slots of the chats.
BusyAlike(r) == inFlightLlm >= MaxLlm

Busy(r) == IF r \in Dispatching THEN inFlightDispatch >= MaxDispatch ELSE inFlightLlm >= MaxLlm

\* A slot is reserved when the request is accepted, ...
Reserve(r) ==
  IF r \in Dispatching
  THEN inFlightDispatch' = inFlightDispatch + 1 /\ UNCHANGED inFlightLlm
  ELSE inFlightLlm' = inFlightLlm + 1 /\ UNCHANGED inFlightDispatch

\* ... and released when its promise settles.
Release(r) ==
  IF r \in Dispatching
  THEN inFlightDispatch' = inFlightDispatch - 1 /\ UNCHANGED inFlightLlm
  ELSE inFlightLlm' = inFlightLlm - 1 /\ UNCHANGED inFlightDispatch

\* The client has read its answer.
Read(r) ==
  /\ request[r] = "settled" /\ frame' = [frame EXCEPT ![r] = "none"]
  /\ UNCHANGED <<request, session, client, pi, group, kill, inFlightLlm, inFlightDispatch>>

\* Too many, a bad body, an unknown agent, a directory outside the allowed root, a fork or
\* a sandbox that is not there, a child that cannot be started: the client is told, and
\* nothing is left.
Refuse(r) ==
  /\ request[r] = "none" /\ request' = [request EXCEPT ![r] = "settled"]
  /\ frame' = [frame EXCEPT ![r] = "error"]
  /\ UNCHANGED <<session, client, pi, group, kill, inFlightLlm, inFlightDispatch>>

Accept(r, s) ==
  /\ request[r] = "none" /\ ~Busy(r)
  /\ request' = [request EXCEPT ![r] = "open"] /\ session' = [session EXCEPT ![r] = s]
  /\ client' = [client EXCEPT ![r] = "there"]
  /\ pi' = [pi EXCEPT ![r] = TRUE] /\ Reserve(r)
  /\ UNCHANGED <<group, kill, frame>>

-----------------------------------------------------------------------------
\* The child.

\* A process pi has left behind ends.
EndTool(r) ==
  /\ group[r] /\ group' = [group EXCEPT ![r] = FALSE]
  /\ UNCHANGED <<request, session, client, pi, kill, frame, inFlightLlm, inFlightDispatch>>

\* agent_end.
AgentEnd(r) ==
  /\ r \in Streaming /\ pi[r] /\ client[r] = "there" /\ frame[r] = "none"
  /\ frame' = [frame EXCEPT ![r] = "done"]
  /\ UNCHANGED <<request, session, client, pi, group, kill, inFlightLlm, inFlightDispatch>>

\* With tools, pi may leave a process of its group behind that holds its pipes.
Exit(r) ==
  /\ pi[r] /\ pi' = [pi EXCEPT ![r] = FALSE]
  /\ \E left \in IF r \in Streaming THEN BOOLEAN ELSE {FALSE} : group' = [group EXCEPT ![r] = left]
  /\ UNCHANGED <<request, session, client, kill, frame, inFlightLlm, inFlightDispatch>>

\* Mutant: the request settles when pi exits, whoever holds its pipes.
ClosedOnExit(r) == ~pi[r]

\* proc's close event: pi has exited and nobody holds its pipes.
Closed(r) == ~pi[r] /\ ~group[r]

\* The request's promise settles, and its client has its answer.
Settle(r) ==
  /\ request' = [request EXCEPT ![r] = "settled"] /\ Release(r)
  /\ session' = [session EXCEPT ![r] = NoSession] /\ client' = [client EXCEPT ![r] = "none"]

Close(r) ==
  /\ request[r] = "open" /\ Closed(r) /\ Settle(r)
  /\ kill' = [kill EXCEPT ![r] = FALSE]
  /\ \/ UNCHANGED frame
     \/ client[r] = "there" /\ frame[r] = "none" /\ frame' = [frame EXCEPT ![r] = "error"]
  /\ UNCHANGED <<pi, group>>

\* killTree("SIGTERM"), of each of a set: pi and its group may heed it or not.
KillTree(rs) ==
  kill' = [r \in Requests |-> kill[r] \/ r \in rs]

\* Clients leave: the streamed requests are aborted, the others go on.
Leave(rs) ==
  /\ client' = [r \in Requests |-> IF r \in rs THEN "gone" ELSE client[r]]
  /\ frame' = [r \in Requests |-> IF r \in rs THEN "none" ELSE frame[r]]
  /\ KillTree(rs \cap Streaming)
  /\ UNCHANGED <<request, session, pi, group, inFlightLlm, inFlightDispatch>>

Disconnect(r) == request[r] = "open" /\ client[r] = "there" /\ Leave({r})

\* cfg.timeoutMs.
Timeout(r) ==
  /\ request[r] = "open" /\ ~kill[r]
  /\ IF r \in Streaming
     THEN KillTree({r}) /\ UNCHANGED <<request, session, client, frame, inFlightLlm, inFlightDispatch>>
     ELSE /\ Settle(r) /\ UNCHANGED kill
          /\ frame' = [frame EXCEPT ![r] = IF client[r] = "there" THEN "error" ELSE "none"]
  /\ UNCHANGED <<pi, group>>

\* SIGKILL to the group.
Escalate(r) ==
  /\ kill[r] /\ (pi[r] \/ group[r])
  /\ pi' = [pi EXCEPT ![r] = FALSE] /\ group' = [group EXCEPT ![r] = FALSE]
  /\ UNCHANGED <<request, session, client, kill, frame, inFlightLlm, inFlightDispatch>>

ChildStep(r) ==
  EndTool(r) \/ AgentEnd(r) \/ Exit(r)

RoutesStep(r) == ChildStep(r) \/ Close(r) \/ Timeout(r) \/ Escalate(r)

RoutesNext ==
  \E r \in Requests :
    \/ RoutesStep(r) \/ Refuse(r) \/ Read(r) \/ Disconnect(r)
    \/ \E s \in Sessions \cup {NoSession} : Accept(r, s)

RoutesSpec == RoutesInit /\ [][RoutesNext]_routes

-----------------------------------------------------------------------------
\* A one-shot child whose request has timed out.
Outlived(r) == request[r] = "settled" /\ r \notin Streaming

(***************************************************************************)
(* The children of the routes never exceed their slots: a slot is given    *)
(* back when the child and its group are gone, not when the client is.     *)
(* (The child of a one-shot request that timed out is no longer counted.)  *)
(***************************************************************************)
ChildrenBounded ==
  LET Held(s) == {r \in s : ~Outlived(r) /\ (pi[r] \/ group[r])} IN
  /\ Cardinality(Held(Dispatching)) <= MaxDispatch
  /\ Cardinality(Held(Requests \ Dispatching)) <= MaxLlm
=============================================================================
