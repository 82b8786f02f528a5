---------------------------- MODULE LiveControl ----------------------------
(***************************************************************************)
(* Steering a running agent from the dashboard: the agent's control channel*)
(* and lane (extensions/obs-live.ts), the capture that turns its next run  *)
(* into a reply (obs/obs-chat-control.ts), and the server's /chat-live and *)
(* /chat-approve requests (obs/obs-server.ts).                             *)
(*                                                                         *)
(* A client is one /chat-live request with a socket of its own.  A session *)
(* is numbered, and its number is the token of its channel.                *)
(***************************************************************************)
EXTENDS Naturals, FiniteSets, Sequences

CONSTANTS Clients, Calls, None,
          MaxSessions, MaxTurns   \* bounds

ASSUME LiveControlAssumption ==
  /\ None \notin Clients /\ Calls \cap {"done", "error"} = {}
  /\ MaxSessions \in Nat /\ MaxTurns \in Nat

VARIABLES
  proc,      \* the agent's process
  session,   \* the session it is in
  lane,      \* of that session, in the event sink
  ends,      \* history: session_end events of each session
  chan,      \* sidecar and socket on disk, a recent heartbeat, a boot still to come
  pending, active,   \* LiveChatControl
  run, runs, \* pi's agent run, and how many there have been
  call,      \* tool calls
  gated, allowed,    \* history: calls a human was to decide, and allowed
  answer,    \* of the human to a call, on its way from /chat-approve
  conn,      \* the clients' requests
  up, down,  \* frames on their way to the agent, and from it
  shown      \* calls a human was asked about

agent == <<proc, session, lane, ends>>
capture == <<pending, active>>
tools == <<call, gated, allowed>>
wire == <<up, down, shown>>
liveVars == <<agent, chan, capture, run, runs, tools, answer, conn, wire>>

Terminal == {"done", "error"}
Frame == Terminal \cup Calls      \* a call: the request to approve it
Request == [at : {"idle", "connecting", "open", "ended", "gone"},
            approve : BOOLEAN, token : 0..MaxSessions]

LanesType ==
  /\ proc \in {"up", "exited", "killed"} /\ session \in 0..MaxSessions
  /\ lane \in {"none", "open", "ended"} /\ ends \in [1..MaxSessions -> Nat]

ChannelType == chan \in [listed : BOOLEAN, sock : BOOLEAN, fresh : BOOLEAN, boot : BOOLEAN]

RunType ==
  /\ pending \in Clients \cup {None} /\ active \in Clients \cup {None}
  /\ run \in {"idle", "running", "aborted"} /\ runs \in 0..MaxTurns

CallsType ==
  /\ call \in [Calls -> {"none", "asking", "ran", "blocked"}]
  /\ gated \subseteq Calls /\ allowed \subseteq Calls /\ shown \subseteq Calls
  /\ answer \in [Calls -> {"none", "allow", "deny", "given"}]

WireType ==
  /\ conn \in [Clients -> Request]
  /\ up \in [Clients -> Seq({"prompt", "abort"})] /\ down \in [Clients -> Seq(Frame)]

LiveTypeOK == LanesType /\ ChannelType /\ RunType /\ CallsType /\ WireType

NoChannel == [listed |-> FALSE, sock |-> FALSE, fresh |-> FALSE, boot |-> FALSE]

LiveInit ==
  /\ proc = "up" /\ session = 0 /\ lane = "none" /\ ends = [s \in 1..MaxSessions |-> 0]
  /\ chan = NoChannel
  /\ pending = None /\ active = None /\ run = "idle" /\ runs = 0
  /\ call = [k \in Calls |-> "none"] /\ gated = {} /\ allowed = {}
  /\ answer = [k \in Calls |-> "none"]
  /\ conn = [c \in Clients |-> [at |-> "idle", approve |-> FALSE, token |-> 0]]
  /\ up = [c \in Clients |-> <<>>] /\ down = [c \in Clients |-> <<>>] /\ shown = {}

-----------------------------------------------------------------------------
\* LiveChatControl.

Captured == IF active # None THEN active ELSE pending
Busy == Captured # None
WantsApproval == active # None /\ conn[active].approve

\* A frame to c, which is lost if its end of the connection is.
Tell(c, frame) == down' = IF conn[c].at = "open" THEN [down EXCEPT ![c] = Append(@, frame)]
                                                ELSE down

\* control.fail
Fail ==
  /\ pending' = None /\ active' = None
  /\ IF Busy THEN Tell(Captured, "error") ELSE UNCHANGED down

-----------------------------------------------------------------------------
\* The lane and the channel of a session.

\* Mutant: the latch is not set.
EndSessionAgain ==
  /\ lane' = lane
  /\ ends' = IF lane # "none" THEN [ends EXCEPT ![session] = @ + 1] ELSE ends

\* endSession, from session_shutdown and from the exit hook: only the first emits.
EndSession ==
  /\ lane' = IF lane = "open" THEN "ended" ELSE lane
  /\ ends' = IF lane = "open" THEN [ends EXCEPT ![session] = @ + 1] ELSE ends

\* On start, /new, /resume, /fork and /reload.  A capture begun since the last
\* session's channel was torn down is dropped with it, and told nothing.
SessionStart ==
  /\ proc = "up" /\ lane # "open" /\ session < MaxSessions
  /\ session' = session + 1 /\ lane' = "open"
  /\ chan' = [listed |-> TRUE, sock |-> TRUE, fresh |-> TRUE, boot |-> TRUE]
  /\ pending' = None /\ active' = None
  /\ UNCHANGED <<proc, ends, run, runs, tools, answer, conn, wire>>

\* cleanupControl comes with it; the connections already made stay open.
SessionShutdown ==
  /\ proc = "up" /\ lane = "open" /\ run = "idle"
  /\ EndSession /\ Fail
  /\ chan' = NoChannel
  /\ UNCHANGED <<proc, session, run, runs, tools, answer, conn, up, shown>>

\* Mutant: nothing is hooked to the exit.
NoHook == UNCHANGED <<lane, ends, chan>>

\* process.once("exit", ...): endSession, and cleanupControl with it.
ExitHook == EndSession /\ chan' = NoChannel

\* process.exit, in the middle of a run or after a shutdown that was awaited or not.
Exits ==
  /\ proc = "up" /\ proc' = "exited"
  /\ ExitHook
  /\ pending' = None /\ active' = None /\ run' = "idle"
  /\ UNCHANGED <<session, runs, tools, answer, conn, wire>>

Killed ==
  /\ proc = "up" /\ proc' = "killed"
  /\ pending' = None /\ active' = None /\ run' = "idle"
  /\ UNCHANGED <<session, lane, ends, chan, runs, tools, answer, conn, wire>>

\* A heartbeat is late: the process is gone, blocked or suspended.
HeartbeatLate ==
  /\ chan.fresh /\ chan' = [chan EXCEPT !.fresh = FALSE]
  /\ UNCHANGED <<agent, capture, run, runs, tools, answer, conn, wire>>

\* It touches the sidecar, and does not write one that has been pruned.
Heartbeat ==
  /\ proc = "up" /\ lane = "open" /\ chan.listed
  /\ chan' = [chan EXCEPT !.fresh = TRUE]
  /\ UNCHANGED <<agent, capture, run, runs, tools, answer, conn, wire>>

Attachable == chan.listed /\ chan.fresh /\ proc = "up"

\* listLiveSessions: what is dead or stale is unlinked.
ListLiveSessions == chan' =
  IF chan.listed /\ ~Attachable THEN [NoChannel EXCEPT !.boot = chan.boot] ELSE chan

-----------------------------------------------------------------------------
\* The server's side of a prompt.

ChatLive(c, approve) ==
  /\ conn[c].at = "idle"
  /\ ListLiveSessions
  /\ conn' = [conn EXCEPT ![c] = IF Attachable
                THEN [at |-> "connecting", approve |-> approve, token |-> session]
                ELSE [@ EXCEPT !.at = "ended"]]
  /\ UNCHANGED <<agent, capture, run, runs, tools, answer, wire>>

Listening(c) == proc = "up" /\ chan.sock /\ conn[c].token = session

Connect(c) ==
  /\ conn[c].at = "connecting"
  /\ IF Listening(c) THEN /\ conn' = [conn EXCEPT ![c].at = "open"]
                          /\ up' = [up EXCEPT ![c] = <<"prompt">>]
                     ELSE /\ conn' = [conn EXCEPT ![c].at = "ended"]
                          /\ UNCHANGED up
  /\ UNCHANGED <<agent, chan, capture, run, runs, tools, answer, down, shown>>

\* The browser is gone before a terminal frame: the agent is told to abort, after the
\* prompt if the socket still connects in the 50 ms it has left.
Leave(c) ==
  /\ conn' = [conn EXCEPT ![c].at = "gone"] /\ down' = [down EXCEPT ![c] = <<>>]
  /\ \/ conn[c].at = "open" /\ up' = [up EXCEPT ![c] = Append(@, "abort")]
     \/ conn[c].at = "connecting" /\ UNCHANGED up
     \/ conn[c].at = "connecting" /\ Listening(c)
        /\ up' = [up EXCEPT ![c] = <<"prompt", "abort">>]
  /\ UNCHANGED <<agent, chan, capture, run, runs, tools, answer, shown>>

Relay(c) ==
  /\ conn[c].at = "open" /\ down[c] # <<>> /\ down' = [down EXCEPT ![c] = Tail(@)]
  /\ IF Head(down[c]) \in Terminal
     THEN conn' = [conn EXCEPT ![c].at = "ended"] /\ UNCHANGED shown
     ELSE shown' = shown \cup {Head(down[c])} /\ UNCHANGED conn
  /\ UNCHANGED <<agent, chan, capture, run, runs, tools, answer, up>>

\* The agent's end is closed: an error frame of the server's own.
ChannelClosed(c) ==
  /\ conn[c].at = "open" /\ proc # "up" /\ down[c] = <<>>
  /\ conn' = [conn EXCEPT ![c].at = "ended"]
  /\ UNCHANGED <<agent, chan, capture, run, runs, tools, answer, wire>>

\* /chat-approve, for a call the client was shown, at any time after.
ChatApprove(k, decision) ==
  /\ k \in shown /\ answer[k] = "none"
  /\ ListLiveSessions
  /\ answer' = [answer EXCEPT ![k] = IF Attachable THEN decision ELSE "given"]
  /\ UNCHANGED <<agent, capture, run, runs, tools, conn, wire>>

-----------------------------------------------------------------------------
\* The agent's side of a connection.

Receive(c, frame) ==
  /\ proc = "up" /\ up[c] # <<>> /\ Head(up[c]) = frame
  /\ up' = [up EXCEPT ![c] = Tail(@)]

Unauthorized(c) ==
  /\ conn[c].token # session
  /\ \E frame \in {"prompt", "abort"} : Receive(c, frame)
  /\ Tell(c, "error")
  /\ UNCHANGED <<agent, chan, capture, run, runs, tools, answer, conn, shown>>

OnPrompt(c) ==
  /\ conn[c].token = session /\ Receive(c, "prompt")
  /\ IF Busy THEN Tell(c, "error") /\ UNCHANGED pending
             ELSE pending' = c /\ UNCHANGED down
  /\ UNCHANGED <<agent, chan, active, run, runs, tools, answer, conn, shown>>

\* ctx.abort() on whatever runs, and an error to whoever is captured.
OnAbort(c) ==
  /\ conn[c].token = session /\ Receive(c, "abort")
  /\ run' = IF run = "running" THEN "aborted" ELSE run
  /\ Fail
  /\ UNCHANGED <<agent, chan, runs, tools, answer, conn, shown>>

\* Mutant: an answer resolves whichever call is waiting.
AnyWaiting(id) == {k \in Calls : call[k] = "asking"}

\* pendingApprovals.get(toolCallId)
Waiting(id) == {k \in {id} : call[k] = "asking"}

OnDecision(id) ==
  /\ proc = "up" /\ answer[id] \in {"allow", "deny"}
  /\ answer' = [answer EXCEPT ![id] = "given"]
  /\ IF Waiting(id) = {} THEN UNCHANGED <<call, allowed>>
     ELSE \E k \in Waiting(id) :
            /\ call' = [call EXCEPT ![k] = IF answer[id] = "allow" THEN "ran" ELSE "blocked"]
            /\ allowed' = IF answer[id] = "allow" THEN allowed \cup {id} ELSE allowed
  /\ UNCHANGED <<agent, chan, capture, run, runs, gated, conn, wire>>

-----------------------------------------------------------------------------
\* pi's runs, and the hooks of obs-live on them.  A prompt may be taken up by the run
\* under way, which has no start of its own for it.  The first of a session writes the
\* sidecar again, and not the socket, should it have been pruned.

AgentStart ==
  /\ lane = "open" /\ proc = "up" /\ run = "idle" /\ runs < MaxTurns
  /\ run' = "running" /\ runs' = runs + 1
  /\ IF pending # None /\ active = None THEN active' = pending /\ pending' = None
                                        ELSE UNCHANGED capture
  /\ chan' = IF chan.boot THEN [chan EXCEPT !.listed = TRUE, !.fresh = TRUE, !.boot = FALSE]
                          ELSE chan
  /\ UNCHANGED <<agent, tools, answer, conn, wire>>

\* A call of a tool in PI_OBS_CHAT_APPROVE_TOOLS.
ToolCall(k) ==
  /\ run = "running" /\ call[k] = "none"
  /\ IF WantsApproval
     THEN /\ call' = [call EXCEPT ![k] = "asking"] /\ gated' = gated \cup {k}
          /\ Tell(active, k)
     ELSE call' = [call EXCEPT ![k] = "ran"] /\ UNCHANGED <<gated, down>>
  /\ UNCHANGED <<agent, chan, capture, run, runs, allowed, answer, conn, up, shown>>

ApprovalTimeout(k) ==
  /\ proc = "up" /\ call[k] = "asking" /\ call' = [call EXCEPT ![k] = "blocked"]
  /\ UNCHANGED <<agent, chan, capture, run, runs, gated, allowed, answer, conn, wire>>

\* Mutant: the turn's end is not told.
OnAgentEndSilent == active' = None /\ UNCHANGED down

OnAgentEnd ==
  /\ active' = None
  /\ IF active # None THEN Tell(active, "done") ELSE UNCHANGED down

AgentEnd ==
  /\ run \in {"running", "aborted"} /\ run' = "idle"
  /\ \A k \in Calls : call[k] # "asking"
  /\ OnAgentEnd
  /\ UNCHANGED <<agent, chan, pending, runs, tools, answer, conn, up, shown>>

-----------------------------------------------------------------------------
LiveNext ==
  \/ SessionStart \/ SessionShutdown \/ Exits \/ Killed \/ HeartbeatLate \/ Heartbeat
  \/ \E c \in Clients :
       \/ \E approve \in BOOLEAN : ChatLive(c, approve)
       \/ Connect(c) \/ Leave(c) \/ Relay(c) \/ ChannelClosed(c)
       \/ Unauthorized(c) \/ OnPrompt(c) \/ OnAbort(c)
  \/ AgentStart \/ AgentEnd
  \/ \E k \in Calls : \/ ToolCall(k) \/ ApprovalTimeout(k) \/ OnDecision(k)
                       \/ \E decision \in {"allow", "deny"} : ChatApprove(k, decision)

LiveFairness ==
  /\ WF_liveVars(AgentEnd)
  /\ \A k \in Calls : WF_liveVars(ApprovalTimeout(k))
  /\ \A c \in Clients : WF_liveVars(Relay(c)) /\ WF_liveVars(ChannelClosed(c))

LiveSpec == LiveInit /\ [][LiveNext]_liveVars /\ LiveFairness

-----------------------------------------------------------------------------
(***************************************************************************)
(* A risky tool called in a turn that asked for approval runs only if a    *)
(* human allowed that very call: not an answer to another call, one for an *)
(* earlier session or one that comes after the time-out.                   *)
(***************************************************************************)
ApprovedBeforeRun == \A k \in gated : call[k] = "ran" => k \in allowed

(***************************************************************************)
(* A session that emitted session_start emits at most one session_end: one *)
(* by the time the next starts, or its lane is ended, or its process has   *)
(* exited, whether a shutdown came before the exit or not.  Only the lane  *)
(* of a process that was killed stays open.                                *)
(***************************************************************************)
LanesClosed ==
  \A s \in 1..session :
    /\ ends[s] <= 1
    /\ s < session \/ lane = "ended" \/ proc = "exited" => ends[s] = 1

(***************************************************************************)
(* A client whose prompt is bound to a run gets a last frame or has left,  *)
(* though the run may be aborted, by another client too, wait for a human, *)
(* or die with the agent's session or process.                             *)
(***************************************************************************)
BoundIsAnswered == \A c \in Clients : active = c ~> conn[c].at \in {"ended", "gone"}
=============================================================================
