---------------------------- MODULE ServerProofs -----------------------------
(***************************************************************************)
(* Proofs about the obs server. Of LiveControl: its type invariant, that   *)
(* no gated call runs without its own approval, and that every lane is     *)
(* closed once. Of RunScores: that a run is scored and sent once.          *)
(***************************************************************************)
EXTENDS LiveControl, RunScores, WellFoundedInduction, TLAPS

-----------------------------------------------------------------------------
\* Live control.

-----------------------------------------------------------------------------
\* What the parts that several actions share do to the types.

\* A frame told to a client keeps the frames on their way well-typed.
LEMMA TellType ==
  ASSUME WireType, NEW c \in Clients, NEW frame \in Frame, Tell(c, frame)
  PROVE  down' \in [Clients -> Seq(Frame)]
BY DEF WireType, Tell

\* Failing a capture frees it and keeps the frames well-typed.
LEMMA FailType ==
  ASSUME WireType, RunType, Fail
  PROVE  pending' = None /\ active' = None /\ down' \in [Clients -> Seq(Frame)]
<1>1. CASE Busy
  <2>1. Captured \in Clients
    BY <1>1 DEF Busy, Captured, RunType
  <2>2. Tell(Captured, "error") /\ "error" \in Frame
    BY <1>1 DEF Fail, Frame, Terminal
  <2> QED
    BY <2>1, <2>2, TellType DEF Fail
<1>2. CASE ~Busy
  BY <1>2 DEF Fail, WireType
<1> QED
  BY <1>1, <1>2

\* What the agent receives leaves the rest of what was sent.
LEMMA ReceiveType ==
  ASSUME WireType, NEW c \in Clients, NEW frame, Receive(c, frame)
  PROVE  up' \in [Clients -> Seq({"prompt", "abort"})]
<1>1. up[c] \in Seq({"prompt", "abort"}) /\ up[c] # <<>>
  BY DEF WireType, Receive
<1>2. Tail(up[c]) \in Seq({"prompt", "abort"})
  BY <1>1
<1> QED
  BY <1>2 DEF WireType, Receive

\* A request moves on.
LEMMA RequestMoves ==
  ASSUME WireType, NEW c \in Clients, NEW at \in {"idle", "connecting", "open", "ended", "gone"}
  PROVE  [conn EXCEPT ![c].at = at] \in [Clients -> Request]
<1>1. conn[c] \in Request
  BY DEF WireType
<1>2. [conn[c] EXCEPT !.at = at] \in Request
  BY <1>1 DEF Request
<1> QED
  BY <1>2 DEF WireType

\* The end of a session keeps its lane well-typed.
LEMMA EndType ==
  ASSUME LanesType, EndSession
  PROVE  lane' \in {"none", "open", "ended"} /\ ends' \in [1..MaxSessions -> Nat]
<1>1. CASE lane = "open" /\ session \in 1..MaxSessions
  <2>1. ends[session] + 1 \in Nat
    BY <1>1 DEF LanesType
  <2> QED
    BY <1>1, <2>1 DEF LanesType, EndSession
<1>2. CASE lane = "open" /\ session \notin 1..MaxSessions
  BY <1>2 DEF LanesType, EndSession
<1>3. CASE lane # "open"
  BY <1>3 DEF LanesType, EndSession
<1> QED
  BY <1>1, <1>2, <1>3

-----------------------------------------------------------------------------
\* LiveTypeOK.

\* The types hold at first.
THEOREM LiveTypeInit == LiveInit => LiveTypeOK
BY LiveControlAssumption
DEF LiveInit, LiveTypeOK, LanesType, ChannelType, RunType, CallsType, WireType, NoChannel, Request

\* Every step keeps the types.
THEOREM LiveTypeStep == LiveTypeOK /\ [LiveNext]_liveVars => LiveTypeOK'
<1> SUFFICES ASSUME LiveTypeOK, [LiveNext]_liveVars PROVE LiveTypeOK'
  OBVIOUS
<1> USE LiveControlAssumption
    DEF LiveTypeOK, liveVars, agent, capture, tools, wire
<1>1. CASE SessionStart
  BY <1>1 DEF SessionStart, LanesType, ChannelType, RunType, CallsType, WireType
<1>2. CASE SessionShutdown
  BY <1>2, EndType, FailType DEF SessionShutdown, NoChannel, LanesType, ChannelType, RunType, CallsType, WireType
<1>3. CASE Exits
  BY <1>3, EndType DEF Exits, ExitHook, NoChannel, LanesType, ChannelType, RunType, CallsType, WireType
<1>4. CASE Killed
  BY <1>4 DEF Killed, LanesType, ChannelType, RunType, CallsType, WireType
<1>5. CASE HeartbeatLate
  BY <1>5 DEF HeartbeatLate, LanesType, ChannelType, RunType, CallsType, WireType
<1>6. CASE Heartbeat
  BY <1>6 DEF Heartbeat, LanesType, ChannelType, RunType, CallsType, WireType
<1>7. ASSUME NEW c \in Clients, NEW approve \in BOOLEAN, ChatLive(c, approve) PROVE LiveTypeOK'
  <2>1. ChannelType'
    BY <1>7 DEF ChatLive, ListLiveSessions, NoChannel, ChannelType
  <2>2. conn' \in [Clients -> Request]
    <3>1. CASE Attachable
      <4>1. [at |-> "connecting", approve |-> approve, token |-> session] \in Request
        BY DEF Request, LanesType
      <4> QED
        BY <1>7, <3>1, <4>1 DEF ChatLive, WireType
    <3>2. CASE ~Attachable
      <4>1. conn' = [conn EXCEPT ![c].at = "ended"]
        BY <1>7, <3>2 DEF ChatLive
      <4> QED
        BY <4>1, RequestMoves
    <3> QED
      BY <3>1, <3>2
  <2> QED
    BY <1>7, <2>1, <2>2 DEF ChatLive, LanesType, RunType, CallsType, WireType
<1>8. ASSUME NEW c \in Clients, Connect(c) PROVE LiveTypeOK'
  <2>1. conn' \in [Clients -> Request]
    BY <1>8, RequestMoves DEF Connect
  <2>2. <<"prompt">> \in Seq({"prompt", "abort"})
    OBVIOUS
  <2>3. up' \in [Clients -> Seq({"prompt", "abort"})]
    BY <1>8, <2>2 DEF Connect, WireType
  <2> QED
    BY <1>8, <2>1, <2>3 DEF Connect, LanesType, ChannelType, RunType, CallsType, WireType
<1>9. ASSUME NEW c \in Clients, Leave(c) PROVE LiveTypeOK'
  <2>1. conn' \in [Clients -> Request]
    BY <1>9, RequestMoves DEF Leave
  <2>2. /\ <<"prompt", "abort">> \in Seq({"prompt", "abort"})
        /\ Append(up[c], "abort") \in Seq({"prompt", "abort"})
        /\ <<>> \in Seq(Frame)
    BY DEF WireType
  <2>3. up' \in [Clients -> Seq({"prompt", "abort"})] /\ down' \in [Clients -> Seq(Frame)]
    BY <1>9, <2>2 DEF Leave, WireType
  <2> QED
    BY <1>9, <2>1, <2>3 DEF Leave, LanesType, ChannelType, RunType, CallsType, WireType
<1>10. ASSUME NEW c \in Clients, Relay(c) PROVE LiveTypeOK'
  <2>1. down[c] \in Seq(Frame) /\ down[c] # <<>>
    BY <1>10 DEF Relay, WireType
  <2>2. Head(down[c]) \in Frame /\ Tail(down[c]) \in Seq(Frame)
    BY <2>1
  <2>3. conn' \in [Clients -> Request] /\ down' \in [Clients -> Seq(Frame)]
    BY <1>10, <2>2, RequestMoves DEF Relay, WireType
  <2>4. shown' \subseteq Calls
    BY <1>10, <2>2 DEF Relay, Frame, CallsType
  <2> QED
    BY <1>10, <2>3, <2>4 DEF Relay, LanesType, ChannelType, RunType, CallsType, WireType
<1>11. ASSUME NEW c \in Clients, ChannelClosed(c) PROVE LiveTypeOK'
  <2>1. conn' \in [Clients -> Request]
    BY <1>11, RequestMoves DEF ChannelClosed
  <2> QED
    BY <1>11, <2>1 DEF ChannelClosed, LanesType, ChannelType, RunType, CallsType, WireType
<1>12. ASSUME NEW c \in Clients, Unauthorized(c) PROVE LiveTypeOK'
  <2>1. up' \in [Clients -> Seq({"prompt", "abort"})]
    BY <1>12, ReceiveType DEF Unauthorized
  <2>2. down' \in [Clients -> Seq(Frame)]
    BY <1>12, TellType DEF Unauthorized, Frame, Terminal
  <2> QED
    BY <1>12, <2>1, <2>2 DEF Unauthorized, LanesType, ChannelType, RunType, CallsType, WireType
<1>13. ASSUME NEW c \in Clients, OnPrompt(c) PROVE LiveTypeOK'
  <2>1. up' \in [Clients -> Seq({"prompt", "abort"})]
    BY <1>13, ReceiveType DEF OnPrompt
  <2>2. down' \in [Clients -> Seq(Frame)]
    BY <1>13, TellType DEF OnPrompt, Frame, Terminal, WireType
  <2> QED
    BY <1>13, <2>1, <2>2 DEF OnPrompt, LanesType, ChannelType, RunType, CallsType, WireType
<1>14. ASSUME NEW c \in Clients, OnAbort(c) PROVE LiveTypeOK'
  <2>1. up' \in [Clients -> Seq({"prompt", "abort"})]
    BY <1>14, ReceiveType DEF OnAbort
  <2>2. Fail
    BY <1>14 DEF OnAbort
  <2> QED
    BY <1>14, <2>1, <2>2, FailType DEF OnAbort, LanesType, ChannelType, RunType, CallsType, WireType
<1>15. CASE AgentStart
  <2>1. ChannelType'
    BY <1>15 DEF AgentStart, ChannelType
  <2>2. /\ run' \in {"idle", "running", "aborted"} /\ runs' \in 0..MaxTurns
        /\ pending' \in Clients \cup {None} /\ active' \in Clients \cup {None}
    BY <1>15, LiveControlAssumption DEF AgentStart, RunType
  <2> QED
    BY <1>15, <2>1, <2>2 DEF AgentStart, LanesType, RunType, CallsType, WireType
<1>16. CASE AgentEnd
  <2>1. down' \in [Clients -> Seq(Frame)]
    <3>1. CASE active = None
      BY <1>16, <3>1 DEF AgentEnd, OnAgentEnd, WireType
    <3>2. CASE active # None
      <4>1. active \in Clients /\ "done" \in Frame
        BY <3>2 DEF RunType, Frame, Terminal
      <4>2. Tell(active, "done")
        BY <1>16, <3>2 DEF AgentEnd, OnAgentEnd
      <4> QED
        BY <4>1, <4>2, TellType
    <3> QED
      BY <3>1, <3>2
  <2>2. active' = None
    BY <1>16 DEF AgentEnd, OnAgentEnd
  <2> QED
    BY <1>16, <2>1, <2>2 DEF AgentEnd, LanesType, ChannelType, RunType, CallsType, WireType
<1>17. ASSUME NEW k \in Calls, ToolCall(k) PROVE LiveTypeOK'
  <2>1. down' \in [Clients -> Seq(Frame)]
    BY <1>17, TellType DEF ToolCall, WantsApproval, Frame, RunType, WireType
  <2>2. CallsType'
    BY <1>17 DEF ToolCall, CallsType
  <2> QED
    BY <1>17, <2>1, <2>2 DEF ToolCall, LanesType, ChannelType, RunType, WireType
<1>18. ASSUME NEW k \in Calls, ApprovalTimeout(k) PROVE LiveTypeOK'
  BY <1>18 DEF ApprovalTimeout, LanesType, ChannelType, RunType, CallsType, WireType
<1>19. ASSUME NEW k \in Calls, OnDecision(k) PROVE LiveTypeOK'
  <2>1. answer' \in [Calls -> {"none", "allow", "deny", "given"}]
    BY <1>19 DEF OnDecision, CallsType
  <2>2. call' \in [Calls -> {"none", "asking", "ran", "blocked"}] /\ allowed' \subseteq Calls
    BY <1>19 DEF OnDecision, Waiting, CallsType
  <2> QED
    BY <1>19, <2>1, <2>2 DEF OnDecision, LanesType, ChannelType, RunType, CallsType, WireType
<1>20. ASSUME NEW k \in Calls, NEW decision \in {"allow", "deny"}, ChatApprove(k, decision)
       PROVE LiveTypeOK'
  BY <1>20 DEF ChatApprove, ListLiveSessions, NoChannel, LanesType, ChannelType, RunType, CallsType, WireType
<1>21. CASE UNCHANGED liveVars
  BY <1>21 DEF LanesType, ChannelType, RunType, CallsType, WireType
<1> QED
  BY <1>1, <1>2, <1>3, <1>4, <1>5, <1>6, <1>7, <1>8, <1>9, <1>10, <1>11, <1>12, <1>13, <1>14,
     <1>15, <1>16, <1>17, <1>18, <1>19, <1>20, <1>21 DEF LiveNext

\* The type invariant, for any number of clients, calls, sessions and turns.
THEOREM LiveTypeCorrect == LiveSpec => []LiveTypeOK
<1>1. LiveInit => LiveTypeOK
  BY LiveTypeInit
<1>2. LiveTypeOK /\ [LiveNext]_liveVars => LiveTypeOK'
  BY LiveTypeStep
<1> QED
  BY <1>1, <1>2, PTL DEF LiveSpec

-----------------------------------------------------------------------------
(***************************************************************************)
(* A gated call has been asked about, and an allowed one is no longer      *)
(* waiting: both are what keeps a call from being gated, or run, twice.    *)
(***************************************************************************)
GatedAsked == \A k \in gated : call[k] # "none" /\ (call[k] = "ran" => k \in allowed)

\* What a step does to the calls: nothing, or one of the three hooks does it.
LEMMA CallsChange ==
  ASSUME [LiveNext]_liveVars
  PROVE  \/ UNCHANGED <<call, gated, allowed>>
         \/ \E k \in Calls : ToolCall(k) \/ ApprovalTimeout(k) \/ OnDecision(k)
<1>1. CASE \E k \in Calls : ToolCall(k) \/ ApprovalTimeout(k) \/ OnDecision(k)
  BY <1>1
<1>2. CASE ~ \E k \in Calls : ToolCall(k) \/ ApprovalTimeout(k) \/ OnDecision(k)
  BY <1>2 DEF LiveNext, liveVars, agent, capture, tools, wire, SessionStart, SessionShutdown,
     Exits, Killed, HeartbeatLate, Heartbeat, ChatLive, Connect, Leave, Relay, ChannelClosed,
     Unauthorized, OnPrompt, OnAbort, AgentStart, AgentEnd, ChatApprove
<1> QED
  BY <1>1, <1>2

\* Each hook keeps a gated call waiting, blocked, or allowed.
LEMMA GatedAskedStep ==
  ASSUME CallsType, GatedAsked, [LiveNext]_liveVars
  PROVE  GatedAsked'
<1>1. CASE UNCHANGED <<call, gated, allowed>>
  BY <1>1 DEF GatedAsked
<1>2. ASSUME NEW k \in Calls, ToolCall(k)
      PROVE  GatedAsked'
  <2>1. allowed' = allowed /\ call[k] = "none" /\ k \notin gated
    BY <1>2 DEF ToolCall, GatedAsked
  <2>2. \/ gated' = gated \cup {k} /\ call' = [call EXCEPT ![k] = "asking"]
        \/ gated' = gated /\ call' = [call EXCEPT ![k] = "ran"]
    BY <1>2 DEF ToolCall
  <2> QED
    BY <2>1, <2>2 DEF GatedAsked, CallsType
<1>3. ASSUME NEW k \in Calls, ApprovalTimeout(k)
      PROVE  GatedAsked'
  BY <1>3 DEF GatedAsked, ApprovalTimeout, CallsType
<1>4. ASSUME NEW k \in Calls, OnDecision(k)
      PROVE  GatedAsked'
  <2>1. CASE Waiting(k) = {}
    BY <1>4, <2>1 DEF OnDecision, GatedAsked
  <2>2. CASE Waiting(k) # {}
    <3>1. /\ call' = [call EXCEPT ![k] = IF answer[k] = "allow" THEN "ran" ELSE "blocked"]
          /\ allowed' = IF answer[k] = "allow" THEN allowed \cup {k} ELSE allowed
          /\ gated' = gated
      BY <1>4, <2>2 DEF OnDecision, Waiting
    <3> QED
      BY <3>1 DEF GatedAsked, CallsType
  <2> QED
    BY <2>1, <2>2
<1> QED
  BY <1>1, <1>2, <1>3, <1>4, CallsChange

(***************************************************************************)
(* No gated call runs without its own approval, however answers, time-outs,*)
(* aborts and sessions fall.                                               *)
(***************************************************************************)
THEOREM ApprovedOnly == LiveSpec => []ApprovedBeforeRun
<1>1. LiveInit => GatedAsked
  BY DEF LiveInit, GatedAsked
<1>2. LiveTypeOK /\ GatedAsked /\ [LiveNext]_liveVars => GatedAsked'
  BY GatedAskedStep DEF LiveTypeOK
<1>3. GatedAsked => ApprovedBeforeRun
  BY DEF GatedAsked, ApprovedBeforeRun
<1> QED
  BY <1>1, <1>2, <1>3, LiveTypeCorrect, PTL DEF LiveSpec

-----------------------------------------------------------------------------
(***************************************************************************)
(* Where the latch of endSession stands: the sessions before this one have *)
(* emitted their end, those to come have not, and this one has when its    *)
(* lane is ended, as it is in a process that has exited.                   *)
(***************************************************************************)
Latched ==
  /\ lane = "none" <=> session = 0
  /\ proc = "exited" => lane # "open"
  /\ \A s \in 1..MaxSessions :
       ends[s] = IF s < session \/ (s = session /\ lane = "ended") THEN 1 ELSE 0

\* What a step does to the lanes: nothing, a session starts, or one ends.
LEMMA LanesChange ==
  ASSUME [LiveNext]_liveVars
  PROVE  \/ UNCHANGED <<lane, session, ends>> /\ proc' \in {proc, "killed"}
         \/ SessionStart
         \/ EndSession /\ UNCHANGED session
<1>1. CASE SessionShutdown \/ Exits
  BY <1>1 DEF SessionShutdown, Exits, ExitHook
<1>2. CASE ~(SessionStart \/ SessionShutdown \/ Exits)
  BY <1>2 DEF LiveNext, liveVars, agent, Killed, HeartbeatLate, Heartbeat, ChatLive, Connect,
     Leave, Relay, ChannelClosed, Unauthorized, OnPrompt, OnAbort, AgentStart, AgentEnd,
     ChatApprove, ToolCall, ApprovalTimeout, OnDecision
<1> QED
  BY <1>1, <1>2

\* A start finds the last lane ended, and an end happens once.
LEMMA LatchedStep ==
  ASSUME LanesType, Latched, [LiveNext]_liveVars
  PROVE  Latched'
<1>1. CASE UNCHANGED <<lane, session, ends>> /\ proc' \in {proc, "killed"}
  BY <1>1 DEF Latched
<1>2. CASE SessionStart
  BY <1>2, LiveControlAssumption DEF SessionStart, Latched, LanesType
<1>3. CASE EndSession /\ UNCHANGED session
  <2>1. CASE lane = "open"
    <3>1. session \in 1..MaxSessions
      BY <2>1, LiveControlAssumption DEF Latched, LanesType
    <3>2. lane' = "ended" /\ session' = session /\ ends' = [ends EXCEPT ![session] = @ + 1]
      BY <1>3, <2>1 DEF EndSession
    <3> QED
      BY <2>1, <3>1, <3>2, LiveControlAssumption DEF Latched, LanesType
  <2>2. CASE lane # "open"
    BY <1>3, <2>2 DEF EndSession, Latched
  <2> QED
    BY <2>1, <2>2
<1> QED
  BY <1>1, <1>2, <1>3, LanesChange

(***************************************************************************)
(* Every lane is closed by one session_end, through any shutdown and exit, *)
(* and only a kill leaves one open.                                        *)
(***************************************************************************)
THEOREM LanesClosedOnce == LiveSpec => []LanesClosed
<1>1. LiveInit => Latched
  BY LiveControlAssumption DEF LiveInit, Latched
<1>2. LiveTypeOK /\ Latched /\ [LiveNext]_liveVars => Latched'
  BY LatchedStep DEF LiveTypeOK
<1>3. LiveTypeOK /\ Latched => LanesClosed
  BY LiveControlAssumption DEF LiveTypeOK, LanesType, Latched, LanesClosed
<1> QED
  BY <1>1, <1>2, <1>3, LiveTypeCorrect, PTL DEF LiveSpec

-----------------------------------------------------------------------------
\* Scores and traces.

-----------------------------------------------------------------------------
(***************************************************************************)
(* The runs of the sink.  A verdict of the server's is given to a run it   *)
(* picked without one, or one a person opened again since its last; a run  *)
(* is sent by one tick at a time, and no more once it is done.             *)
(***************************************************************************)

\* A set of naturals that is not empty has a least element, and below a bound a greatest.
Below == {ss \in Nat \X Nat : ss[1] < ss[2]}

\* No number is below all of its own.
LEMMA SomeLeast ==
  ASSUME NEW S \in SUBSET Nat, S # {}
  PROVE  \E n \in S : \A m \in S : n <= m
<1>1. IsWellFoundedOn(Below, Nat)
  <2>1. OpToRel(<, Nat) = Below
    BY DEF OpToRel, Below
  <2> QED
    BY <2>1, NatLessThanWellFounded
<1>2. PICK n \in S : \A m \in S : <<m, n>> \notin Below
  BY <1>1, WFMin
<1>3. ASSUME NEW m \in S PROVE n <= m
  <2>1. <<m, n>> \in Nat \X Nat /\ <<m, n>>[1] = m /\ <<m, n>>[2] = n
    OBVIOUS
  <2>2. ~ (m < n)
    BY <1>2, <2>1 DEF Below
  <2> QED
    BY <2>2
<1> QED
  BY <1>3

\* So below a bound it has a greatest.
LEMMA SomeGreatest ==
  ASSUME NEW k \in Nat, NEW S \in SUBSET (0..k), S # {}
  PROVE  Max(S) \in S /\ \A m \in S : Max(S) >= m
<1> DEFINE U == {j \in Nat : k - j \in S}
<1>1. U \in SUBSET Nat /\ U # {}
  <2>1. PICK n \in S : TRUE
    OBVIOUS
  <2>2. k - n \in U
    BY <2>1
  <2> QED
    BY <2>2
<1>2. PICK j \in U : \A i \in U : j <= i
  BY <1>1, SomeLeast
<1>3. ASSUME NEW m \in S PROVE k - j >= m
  <2>1. k - m \in U /\ m \in Nat
    OBVIOUS
  <2> QED
    BY <1>2, <2>1
<1>4. \E x \in S : \A m \in S : x >= m
  BY <1>2, <1>3
<1> QED
  BY <1>4 DEF Max

\* The newest of some runs is one of them.
LEMMA NewestRun ==
  ASSUME NEW S \in SUBSET Runs, S # {}
  PROVE  Max(S) \in S /\ Max(S) \in Runs
<1>1. MaxRuns \in Nat /\ S \in SUBSET (0..MaxRuns)
  BY RunScoresAssumption DEF Runs
<1>2. Max(S) \in S
  BY <1>1, SomeGreatest
<1> QED
  BY <1>2

-----------------------------------------------------------------------------
InFlight(t) == post[t].at # 0

TicksTidy ==
  \A t \in Ticks : IF InFlight(t) THEN post[t].at \in Runs \ post[t].runs ELSE post[t] = Idle

\* Where the server has scored, it owes a person's "open" before it scores again.
ScoresOwed ==
  \A r \in Runs :
    /\ autos[r] <= 1 + reopened[r]
    /\ r \in todo => autos[r] <= reopened[r]
    /\ verdict[r].status = "none" => autos[r] <= reopened[r]
    /\ verdict[r].status = "open" => verdict[r].source # "auto"
    /\ verdict[r].status = "open" /\ verdict[r].source # "workflow" => autos[r] <= reopened[r]

OneTickAtATime ==
  ~overlapped =>
    /\ \A t, u \in Ticks : InFlight(t) /\ InFlight(u) => t = u
    /\ \A t \in Ticks : InFlight(t) => /\ post[t].at \notin done
                                       /\ post[t].attempt = attempts[post[t].at]
    /\ \A r \in Runs :
         /\ pushed[r] <= 1 + stirred[r] /\ attempts[r] <= MaxAttempts
         /\ r \notin done => /\ pushed[r] <= stirred[r]
                             /\ \/ attempts[r] < MaxAttempts
                                \/ \E t \in Ticks : post[t].at = r

\* Only what has begun is forwarded: a run whose trace was taken is quiet, or it stirs.
Forwarded ==
  /\ \A r \in Runs : pushed[r] # 0 => feature = "otlp" /\ Begun(r)
  /\ \A t \in Ticks : InFlight(t) =>
       feature = "otlp" /\ \A r \in post[t].runs \cup {post[t].at} : Begun(r)

ScoresInv == ScoresTypeOK /\ TicksTidy /\ ScoresOwed /\ OneTickAtATime /\ Forwarded

\* Before the first event nothing is scored or sent.
LEMMA ScoresInitInv == ScoresInit => ScoresInv
<1> SUFFICES ASSUME ScoresInit PROVE ScoresInv
  OBVIOUS
<1>1. /\ Idle \in [runs : SUBSET Runs, at : 0..MaxRuns, attempt : Nat] /\ Idle.at = 0
      /\ [ts |-> 0, worked |-> FALSE, age |-> 0] \in [ts : 0..MaxEvents, worked : BOOLEAN, age : 0..2]
      /\ Unscored \in Verdict /\ Unscored.status = "none"
  BY RunScoresAssumption DEF Idle, Unscored, Verdict
<1>2. Zero \in [Runs -> Nat] /\ Zero \in [Runs -> 0..MaxEvents] /\ \A r \in Runs : Zero[r] = 0
  BY RunScoresAssumption DEF Zero
<1>21. feature \in {"verdicts", "otlp"} /\ faults \in 0..MaxFaults
  BY RunScoresAssumption DEF ScoresInit
<1>22. overlapped \in BOOLEAN /\ {} \subseteq Runs
  BY DEF ScoresInit
<1>3. ScoresTypeOK
  BY <1>1, <1>2, <1>21, <1>22 DEF ScoresInit, ScoresTypeOK
<1>4. TicksTidy /\ ScoresOwed
  BY <1>1, <1>2 DEF ScoresInit, TicksTidy, InFlight, ScoresOwed
<1>5. OneTickAtATime
  BY <1>1, <1>2 DEF ScoresInit, OneTickAtATime, InFlight, MaxAttempts
<1>6. Forwarded
  BY <1>1, <1>2 DEF ScoresInit, Forwarded, InFlight
<1> QED
  BY <1>3, <1>4, <1>5, <1>6 DEF ScoresInv

\* An agent writes an event, or falls silent.
LEMMA WritersKeep ==
  ASSUME ScoresInv, NEW r \in Runs, AgentEvent(r) \/ Silence(r)
  PROVE  ScoresInv'
<1>1. held' \in [Runs -> [ts : 0..MaxEvents, worked : BOOLEAN, age : 0..2]]
  <2>1. held[r] \in [ts : 0..MaxEvents, worked : BOOLEAN, age : 0..2]
    BY DEF ScoresInv, ScoresTypeOK
  <2>2. CASE AgentEvent(r)
    <3>1. PICK works \in BOOLEAN : held' = [held EXCEPT ![r] = [ts |-> held[r].ts + 1, age |-> 0, worked |-> held[r].worked \/ works]]
      BY <2>2 DEF AgentEvent
    <3>2. held[r].ts + 1 \in 0..MaxEvents
      BY <2>1, <2>2, RunScoresAssumption DEF AgentEvent
    <3>3. [ts |-> held[r].ts + 1, age |-> 0, worked |-> held[r].worked \/ works]
            \in [ts : 0..MaxEvents, worked : BOOLEAN, age : 0..2]
      BY <2>1, <3>2
    <3> QED
      BY <3>1, <3>3 DEF ScoresInv, ScoresTypeOK
  <2>3. CASE Silence(r)
    <3>1. held[r].age + 1 \in 0..2
      BY <2>1, <2>3 DEF Silence
    <3>2. [held[r] EXCEPT !.age = @ + 1] \in [ts : 0..MaxEvents, worked : BOOLEAN, age : 0..2]
      BY <2>1, <3>1
    <3> QED
      BY <2>3, <3>2 DEF Silence, ScoresInv, ScoresTypeOK
  <2> QED
    BY <2>2, <2>3
<1>2. UNCHANGED <<feature, verdict, faults, scoring, forwarding>>
  BY DEF AgentEvent, Silence
<1>3. \A q \in Runs : Begun(q) => Begun(q)'
  <2>1. held[r].ts \in Nat /\ held \in [Runs -> [ts : 0..MaxEvents, worked : BOOLEAN, age : 0..2]]
    BY DEF ScoresInv, ScoresTypeOK
  <2>2. CASE AgentEvent(r)
    <3>1. PICK works \in BOOLEAN : held' = [held EXCEPT ![r] = [ts |-> held[r].ts + 1, age |-> 0, worked |-> held[r].worked \/ works]]
      BY <2>2 DEF AgentEvent
    <3> QED
      BY <2>1, <3>1 DEF Begun
  <2>3. CASE Silence(r)
    BY <2>1, <2>3 DEF Silence, Begun
  <2> QED
    BY <2>2, <2>3
<1>4. Forwarded'
  BY <1>2, <1>3 DEF forwarding, ScoresInv, ScoresTypeOK, TicksTidy, Forwarded, InFlight
<1> QED
  BY <1>1, <1>2, <1>4 DEF scoring, forwarding, ScoresInv, ScoresTypeOK, TicksTidy, ScoresOwed,
                    OneTickAtATime, InFlight

\* A verdict of a workflow or a person.
LEMMA VerdictsKeep ==
  ASSUME ScoresInv, NEW r \in Runs, WorkflowVerdict(r) \/ ApiScore(r) \/ CliScore(r)
  PROVE  ScoresInv'
<1>0. UNCHANGED <<feature, held, faults, inspected, todo, listed, autos, forwarding>>
  BY DEF WorkflowVerdict, ApiScore, CliScore, scoring
<1>1. /\ UNCHANGED <<feature, held, faults, inspected, todo, listed, autos, forwarding>>
      /\ reopened' \in [Runs -> Nat]
      /\ \A q \in Runs : reopened'[q] >= reopened[q]
  <2>1. reopened \in [Runs -> Nat]
    BY DEF ScoresInv, ScoresTypeOK
  <2>2. reopened' = reopened \/ reopened' = [reopened EXCEPT ![r] = @ + 1]
    BY DEF WorkflowVerdict, ApiScore, CliScore, scoring
  <2> QED
    BY <1>0, <2>1, <2>2
<1>2. PICK status \in Statuses, source \in {"workflow", "person"} :
        /\ Score(r, status, source)
        /\ status = "open" /\ source = "person" => reopened'[r] = reopened[r] + 1
  BY DEF WorkflowVerdict, ApiScore, CliScore, Statuses, ScoresInv, ScoresTypeOK
<1>3. /\ verdict' \in [Runs -> Verdict] /\ verdict'[r].status = status /\ verdict'[r].source = source
      /\ \A q \in Runs \ {r} : verdict'[q] = verdict[q]
  BY <1>2 DEF Score, Verdict, ScoresInv, ScoresTypeOK
<1>4. autos \in [Runs -> Nat] /\ reopened \in [Runs -> Nat]
  BY DEF ScoresInv, ScoresTypeOK
<1>5. ScoresOwed'
  BY <1>1, <1>2, <1>3, <1>4 DEF ScoresInv, ScoresOwed, Statuses
<1> QED
  BY <1>1, <1>3, <1>5 DEF forwarding, ScoresInv, ScoresTypeOK, TicksTidy, OneTickAtATime, Forwarded, Begun, InFlight

\* The loop that scores picks its runs.
LEMMA BackfillTickKeeps ==
  ASSUME ScoresInv, BackfillTick
  PROVE  ScoresInv'
<1>1. /\ UNCHANGED <<feature, held, verdict, faults, inspected, autos, reopened, forwarding>>
      /\ todo' \subseteq Runs /\ \A r \in todo' : Candidate(r)
  BY DEF BackfillTick, sink
<1>2. listed' \in [Runs -> 0..MaxEvents]
  <2>1. \A r \in Runs : held[r].ts \in 0..MaxEvents
    BY DEF ScoresInv, ScoresTypeOK
  <2> QED
    BY <2>1, RunScoresAssumption DEF BackfillTick
<1>3. ScoresOwed'
  BY <1>1 DEF ScoresInv, ScoresOwed, Candidate
<1> QED
  BY <1>1, <1>2, <1>3 DEF forwarding, ScoresInv, ScoresTypeOK, TicksTidy, OneTickAtATime, Forwarded, Begun, InFlight

\* The loop scores one of the runs it picked, if that has no verdict yet.
LEMMA BackfillRunKeeps ==
  ASSUME ScoresInv, BackfillRun
  PROVE  ScoresInv'
<1> DEFINE r == Max(todo)
<1>1. r \in todo /\ r \in Runs
  BY NewestRun DEF BackfillRun, AppendFails, ScoresInv, ScoresTypeOK
<1>2. /\ UNCHANGED <<feature, held, reopened, forwarding>>
      /\ todo' = todo \ {r} /\ listed' = [listed EXCEPT ![r] = 0]
  BY DEF BackfillRun, AppendFails
<1>3. \/ /\ \E n \in {0, listed[r]} : inspected' = [inspected EXCEPT ![r] = n]
         /\ UNCHANGED <<verdict, autos>> /\ faults' \in 0..MaxFaults
      \/ /\ inspected' = [inspected EXCEPT ![r] = listed[r]]
         /\ Score(r, "decided", "auto") /\ autos' = [autos EXCEPT ![r] = @ + 1] /\ UNCHANGED faults
  BY RunScoresAssumption DEF BackfillRun, AppendFails, RunAutoVerdict, ScoresInv, ScoresTypeOK
<1> HIDE DEF r
<1>4. /\ listed' \in [Runs -> 0..MaxEvents] /\ inspected' \in [Runs -> 0..MaxEvents]
      /\ autos \in [Runs -> Nat] /\ reopened \in [Runs -> Nat]
      /\ todo' \subseteq Runs
  BY <1>1, <1>2, <1>3, RunScoresAssumption DEF ScoresInv, ScoresTypeOK
<1>5. CASE UNCHANGED <<verdict, autos>> /\ faults' \in 0..MaxFaults
  <2>1. ScoresOwed'
    BY <1>2, <1>5 DEF ScoresInv, ScoresOwed
  <2> QED
    BY <1>2, <1>4, <1>5, <2>1 DEF forwarding, ScoresInv, ScoresTypeOK, TicksTidy, OneTickAtATime, Forwarded, Begun, InFlight
<1>6. CASE Score(r, "decided", "auto") /\ autos' = [autos EXCEPT ![r] = @ + 1] /\ UNCHANGED faults
  <2>1. /\ verdict' \in [Runs -> Verdict] /\ verdict'[r].status = "decided"
        /\ \A q \in Runs \ {r} : verdict'[q] = verdict[q]
    BY <1>1, <1>6 DEF Score, Verdict, Statuses, ScoresInv, ScoresTypeOK
  <2>2. /\ autos' \in [Runs -> Nat] /\ autos'[r] = autos[r] + 1
        /\ \A q \in Runs \ {r} : autos'[q] = autos[q]
    BY <1>1, <1>4, <1>6
  <2>3. ScoresOwed'
    BY <1>1, <1>2, <1>4, <2>1, <2>2 DEF ScoresInv, ScoresOwed
  <2> QED
    BY <1>2, <1>4, <1>6, <2>1, <2>2, <2>3
       DEF forwarding, ScoresInv, ScoresTypeOK, TicksTidy, OneTickAtATime, Forwarded, Begun, InFlight
<1> QED
  BY <1>3, <1>5, <1>6

\* Where a tick goes on, it takes a run that is left, or it is idle.
GoesOn(t, left) ==
  /\ attempts' \in [Runs -> Nat]
  /\ post' \in [Ticks -> [runs : SUBSET Runs, at : 0..MaxRuns, attempt : Nat]]
  /\ \A u \in Ticks \ {t} : post'[u] = post[u]
  /\ \/ post'[t] = Idle /\ attempts' = attempts
     \/ \E r \in left :
          /\ post'[t].at = r /\ r \notin post'[t].runs /\ post'[t].runs \subseteq left
          /\ post'[t].attempt = attempts'[r]
          /\ attempts'[r] = attempts[r] + 1
          /\ \A q \in Runs \ {r} : attempts'[q] = attempts[q]

\* A tick goes on with a run it has left, or has none.
LEMMA ContinueKeeps ==
  ASSUME ScoresInv, NEW t \in Ticks, NEW due \in SUBSET Runs, NEW finished \in SUBSET Runs,
         Continue(t, due, finished)
  PROVE  GoesOn(t, due \ finished)
<1> DEFINE left == due \ finished
           r == Max(left)
           n == [runs |-> {x \in left : x < r}, at |-> r, attempt |-> attempts[r] + 1]
<1>0. attempts \in [Runs -> Nat] /\ post \in [Ticks -> [runs : SUBSET Runs, at : 0..MaxRuns, attempt : Nat]]
  BY DEF ScoresInv, ScoresTypeOK
<1>1. CASE left = {}
  <2>1. Idle \in [runs : SUBSET Runs, at : 0..MaxRuns, attempt : Nat]
    BY RunScoresAssumption DEF Idle
  <2> QED
    BY <1>0, <1>1, <2>1 DEF Continue, GoesOn
<1>2. CASE left # {}
  <2>1. r \in left /\ r \in Runs
    BY <1>2, NewestRun
  <2>2. attempts' = [attempts EXCEPT ![r] = @ + 1] /\ post' = [post EXCEPT ![t] = n]
    BY <1>2 DEF Continue
  <2>3. /\ n \in [runs : SUBSET Runs, at : 0..MaxRuns, attempt : Nat]
        /\ n.at = r /\ n.attempt = attempts[r] + 1 /\ r \notin n.runs /\ n.runs \subseteq left
    <3>0. r \in Nat /\ r \in 0..MaxRuns /\ left \subseteq Runs
      BY <2>1 DEF Runs
    <3>1. r \in 0..MaxRuns /\ {x \in left : x < r} \subseteq Runs /\ r \notin {x \in left : x < r}
      <4> HIDE DEF r, left
      <4> QED
        BY <3>0
    <3>2. attempts[r] + 1 \in Nat
      BY <1>0, <2>1
    <3> HIDE DEF r, left
    <3> QED
      BY <3>1, <3>2
  <2>4. left = due \ finished
    OBVIOUS
  <2> HIDE DEF r, n, left
  <2> QED
    BY <1>0, <2>1, <2>2, <2>3, <2>4 DEF GoesOn
<1> QED
  BY <1>1, <1>2

\* The loop that forwards starts a tick with the runs that are due.
LEMMA OtlpTickKeeps ==
  ASSUME ScoresInv, NEW t \in Ticks, OtlpTick(t)
  PROVE  ScoresInv'
<1>1. /\ UNCHANGED <<feature, held, verdict, faults, inspected, todo, listed, autos, reopened, done, pushed, stirred>>
      /\ feature = "otlp"
      /\ post[t] = Idle /\ Continue(t, Quiet, done)
      /\ overlapped' = (overlapped \/ \E u \in Ticks : post[u] # Idle)
  BY DEF OtlpTick, sink, scoring
<1>2. Quiet \in SUBSET Runs /\ done \in SUBSET Runs
  BY DEF Quiet, ScoresInv, ScoresTypeOK
<1>3. GoesOn(t, Quiet \ done)
  BY <1>1, <1>2, ContinueKeeps
<1>4. Idle.at = 0 /\ \A r \in Runs : r # 0
  BY DEF Idle, Runs
<1>5. ScoresTypeOK' /\ ScoresOwed'
  BY <1>1, <1>3 DEF GoesOn, ScoresInv, ScoresTypeOK, ScoresOwed
<1>6. TicksTidy'
  BY <1>2, <1>3, <1>4 DEF GoesOn, ScoresInv, TicksTidy, InFlight
<1>7. OneTickAtATime'
  <2> SUFFICES ASSUME ~overlapped' PROVE OneTickAtATime'
    BY DEF OneTickAtATime
  <2>1. ~overlapped /\ \A u \in Ticks : post[u] = Idle
    BY <1>1
  <2>2. /\ \A r \in Runs : pushed[r] <= 1 + stirred[r] /\ attempts[r] <= MaxAttempts
        /\ \A r \in Runs \ done : pushed[r] <= stirred[r] /\ attempts[r] < MaxAttempts
    BY <1>4, <2>1 DEF ScoresInv, OneTickAtATime
  <2>3. attempts \in [Runs -> Nat]
    BY DEF ScoresInv, ScoresTypeOK
  <2>4. CASE post'[t] = Idle /\ attempts' = attempts
    BY <1>1, <1>3, <1>4, <2>1, <2>2, <2>4 DEF GoesOn, OneTickAtATime, InFlight
  <2>5. ASSUME NEW r \in Quiet \ done,
               /\ post'[t].at = r /\ r \notin post'[t].runs /\ post'[t].attempt = attempts'[r]
               /\ attempts'[r] = attempts[r] + 1
               /\ \A q \in Runs \ {r} : attempts'[q] = attempts[q]
        PROVE  OneTickAtATime'
    <3>1. /\ \A u \in Ticks : InFlight(u)' => u = t
          /\ post'[t].at \notin done'
      BY <1>1, <1>3, <1>4, <2>1, <2>5 DEF GoesOn, InFlight
    <3>2. \A q \in Runs : /\ pushed'[q] <= 1 + stirred'[q] /\ attempts'[q] <= MaxAttempts
                          /\ q \notin done' => /\ pushed'[q] <= stirred'[q]
                                               /\ attempts'[q] < MaxAttempts \/ post'[t].at = q
      BY <1>1, <1>2, <2>2, <2>3, <2>5 DEF MaxAttempts
    <3> QED
      BY <2>5, <3>1, <3>2 DEF OneTickAtATime, InFlight
  <2> QED
    BY <1>3, <2>4, <2>5 DEF GoesOn
<1>8. Forwarded'
  <2>1. \A r \in Quiet \ done : Begun(r)
    BY DEF Quiet
  <2> QED
    BY <1>1, <1>3, <1>4, <2>1 DEF GoesOn, ScoresInv, Forwarded, InFlight, Begun
<1> QED
  BY <1>5, <1>6, <1>7, <1>8 DEF ScoresInv

\* The endpoint answers, or does not: the run is done, or has one attempt less.
LEMMA OtlpReplyKeeps ==
  ASSUME ScoresInv, NEW t \in Ticks, NEW ok \in BOOLEAN, OtlpReply(t, ok)
  PROVE  ScoresInv'
<1> DEFINE at == post[t].at
           due == post[t].runs
<1>1. /\ UNCHANGED <<feature, held, verdict, faults, inspected, todo, listed, autos, reopened, overlapped, stirred>>
      /\ at # 0 /\ done' = Settled(t, ok) /\ Continue(t, due, done')
      /\ pushed' = IF ok THEN [pushed EXCEPT ![at] = @ + 1] ELSE pushed
  BY DEF OtlpReply, sink, scoring
<1>2. /\ due \in SUBSET Runs /\ at \in Runs /\ at \notin due
      /\ attempts \in [Runs -> Nat] /\ pushed \in [Runs -> Nat] /\ stirred \in [Runs -> Nat]
      /\ done \subseteq Runs
      /\ post[t].attempt \in Nat
  BY <1>1 DEF ScoresInv, ScoresTypeOK, TicksTidy, InFlight
<1>3. /\ done' \in SUBSET Runs /\ done \subseteq done' /\ done' \subseteq done \cup {at}
      /\ (ok \/ post[t].attempt >= MaxAttempts => at \in done')
  BY <1>1, <1>2 DEF Settled
<1>4. /\ pushed' \in [Runs -> Nat] /\ pushed'[at] = (IF ok THEN pushed[at] + 1 ELSE pushed[at])
      /\ \A q \in Runs \ {at} : pushed'[q] = pushed[q]
  BY <1>1, <1>2
<1>5. GoesOn(t, due \ done')
  <2> HIDE DEF due
  <2> QED
    BY <1>1, <1>2, <1>3, ContinueKeeps
<1>6. Idle.at = 0 /\ \A r \in Runs : r # 0
  BY DEF Idle, Runs
<1>7. ScoresTypeOK' /\ ScoresOwed'
  BY <1>1, <1>3, <1>4, <1>5 DEF GoesOn, ScoresInv, ScoresTypeOK, ScoresOwed
<1>8. TicksTidy'
  BY <1>2, <1>5, <1>6 DEF GoesOn, ScoresInv, TicksTidy, InFlight
<1>9. OneTickAtATime'
  <2> SUFFICES ASSUME ~overlapped' PROVE OneTickAtATime'
    BY DEF OneTickAtATime
  <2>1. /\ \A u \in Ticks : InFlight(u) => u = t
        /\ at \notin done /\ post[t].attempt = attempts[at]
        /\ \A r \in Runs : pushed[r] <= 1 + stirred[r] /\ attempts[r] <= MaxAttempts
        /\ \A r \in Runs \ done : pushed[r] <= stirred[r]
        /\ \A r \in Runs \ (done \cup {at}) : attempts[r] < MaxAttempts
    BY <1>1, <1>2, <1>6 DEF ScoresInv, OneTickAtATime, InFlight
  <2>2. \A u \in Ticks \ {t} : post'[u].at = 0
    BY <1>5, <2>1 DEF GoesOn, InFlight
  <2>3. at \notin done' => attempts[at] < MaxAttempts /\ pushed'[at] <= stirred[at]
    BY <1>2, <1>3, <1>4, <2>1 DEF MaxAttempts
  <2>4. \A r \in Runs : /\ pushed'[r] <= 1 + stirred'[r]
                        /\ r \notin done' => pushed'[r] <= stirred'[r] /\ attempts[r] < MaxAttempts
    BY <1>1, <1>2, <1>3, <1>4, <2>1, <2>3
  <2> HIDE DEF at, due
  <2>5. CASE post'[t] = Idle /\ attempts' = attempts
    BY <1>6, <2>1, <2>2, <2>4, <2>5 DEF OneTickAtATime, InFlight
  <2>6. ASSUME NEW r \in due \ done',
               /\ post'[t].at = r /\ r \notin post'[t].runs /\ post'[t].attempt = attempts'[r]
               /\ attempts'[r] = attempts[r] + 1
               /\ \A q \in Runs \ {r} : attempts'[q] = attempts[q]
        PROVE  OneTickAtATime'
    <3>1. r \in Runs /\ attempts[r] < MaxAttempts
      BY <1>2, <2>4, <2>6
    <3>2. \A q \in Runs : /\ pushed'[q] <= 1 + stirred'[q] /\ attempts'[q] <= MaxAttempts
                          /\ q \notin done' => /\ pushed'[q] <= stirred'[q]
                                               /\ attempts'[q] < MaxAttempts \/ post'[t].at = q
      BY <1>2, <2>1, <2>4, <2>6, <3>1 DEF MaxAttempts
    <3> QED
      BY <2>2, <2>6, <3>2 DEF OneTickAtATime, InFlight
  <2> QED
    BY <1>5, <2>5, <2>6 DEF GoesOn
<1>10. Forwarded'
  <2>1. feature = "otlp" /\ \A r \in due \cup {at} : Begun(r)
    BY <1>1 DEF ScoresInv, Forwarded, InFlight
  <2>2. \A r \in Runs : pushed'[r] # 0 => Begun(r)
    BY <1>2, <1>4, <2>1 DEF ScoresInv, Forwarded
  <2>3. \A u \in Ticks : post'[u].at # 0 => \A r \in post'[u].runs \cup {post'[u].at} : Begun(r)
    <3> HIDE DEF at, due
    <3> QED
      BY <1>5, <1>6, <2>1 DEF GoesOn, ScoresInv, Forwarded, InFlight
  <2> QED
    BY <1>1, <2>1, <2>2, <2>3 DEF Forwarded, InFlight, Begun
<1> QED
  BY <1>7, <1>8, <1>9, <1>10 DEF ScoresInv

\* The server starts again, and remembers only what is in its files.
LEMMA RestartKeeps ==
  ASSUME ScoresInv, Restart
  PROVE  ScoresInv'
<1>1. /\ Idle \in [runs : SUBSET Runs, at : 0..MaxRuns, attempt : Nat] /\ Idle.at = 0
      /\ Zero \in [Runs -> Nat] /\ Zero \in [Runs -> 0..MaxEvents] /\ \A r \in Runs : Zero[r] = 0
  BY RunScoresAssumption DEF Idle, Zero
<1>2. /\ UNCHANGED <<feature, held, verdict, autos, reopened, pushed, overlapped>> /\ faults' \in 0..MaxFaults
      /\ inspected' = Zero /\ todo' = {} /\ listed' = Zero /\ done' \subseteq Runs
      /\ attempts' = Zero /\ post' = [t \in Ticks |-> Idle]
      /\ stirred' = [r \in Runs |-> IF Stirring(r) THEN stirred[r] + 1 ELSE stirred[r]]
  BY RunScoresAssumption DEF Restart, sink, Seeded, Quiet, ScoresInv, ScoresTypeOK
<1>21. /\ stirred' \in [Runs -> Nat]
       /\ \A r \in Runs : stirred'[r] = IF Stirring(r) THEN stirred[r] + 1 ELSE stirred[r]
       /\ pushed \in [Runs -> Nat] /\ stirred \in [Runs -> Nat]
  BY <1>2 DEF ScoresInv, ScoresTypeOK
<1>3. ScoresTypeOK' /\ TicksTidy' /\ ScoresOwed' /\ Forwarded'
  BY <1>1, <1>2, <1>21 DEF ScoresInv, ScoresTypeOK, TicksTidy, InFlight, ScoresOwed, Forwarded, Begun
<1>4. OneTickAtATime'
  <2> SUFFICES ASSUME ~overlapped, NEW r \in Runs
               PROVE  pushed[r] <= 1 + stirred'[r] /\ (r \notin done' => pushed[r] <= stirred'[r])
    BY <1>1, <1>2 DEF OneTickAtATime, InFlight, MaxAttempts
  <2>1. pushed[r] <= 1 + stirred[r]
    BY DEF ScoresInv, OneTickAtATime
  <2>2. CASE pushed[r] = 0
    BY <1>21, <2>2
  <2>3. CASE pushed[r] # 0
    <3>1. r \in done' \/ Stirring(r)
      BY <2>3 DEF ScoresInv, Forwarded, Restart, Seeded, Stirring
    <3> QED
      BY <1>21, <2>1, <3>1
  <2> QED
    BY <2>2, <2>3
<1> QED
  BY <1>3, <1>4 DEF ScoresInv

\* One step of any kind keeps the invariant.
LEMMA ScoresStepInv == ScoresInv /\ [ScoresNext]_scoreVars => ScoresInv'
<1> SUFFICES ASSUME ScoresInv, [ScoresNext]_scoreVars PROVE ScoresInv'
  OBVIOUS
<1>1. CASE UNCHANGED scoreVars
  BY <1>1 DEF scoreVars, sink, scoring, forwarding, ScoresInv, ScoresTypeOK, TicksTidy, InFlight,
              ScoresOwed, OneTickAtATime, Forwarded, Begun
<1> QED
  BY <1>1, WritersKeep, VerdictsKeep, BackfillTickKeeps, BackfillRunKeeps, OtlpTickKeeps,
     OtlpReplyKeeps, RestartKeeps DEF ScoresNext

(***************************************************************************)
(* However ticks, replies, restarts, failed appends and other people's     *)
(* verdicts come between each other: the server scores a run once and once *)
(* more for each time it is opened again, and, with no two ticks           *)
(* overlapping, has the endpoint take its trace once and once more for     *)
(* each start that finds the run stirring, in three attempts a life.       *)
(***************************************************************************)
THEOREM ScoredAndPushedOnce == ScoresSpec => []OncePerRun
<1>1. ScoresInv => OncePerRun
  BY DEF ScoresInv, ScoresOwed, OneTickAtATime, OncePerRun, ScoredOnce, PushedOnce
<1> QED
  BY <1>1, ScoresInitInv, ScoresStepInv, PTL DEF ScoresSpec
=============================================================================
