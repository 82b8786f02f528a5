---------------------------- MODULE BridgeProofs -----------------------------
(***************************************************************************)
(* Proofs about the processes around the obs server. Of Bridge, for any    *)
(* requests and timing: a child that runs has its slot, and what is told   *)
(* of it is its own. Of Launcher, for any terminals and bridges: one       *)
(* server at a time is the dashboard's, and one bridge runs.               *)
(***************************************************************************)
EXTENDS Bridge, Launcher, FiniteSetTheorems, SequenceTheorems, WellFoundedInduction, TLAPS

-----------------------------------------------------------------------------
\* The routes that spawn children, and the bridge.

OpenOf(s) == {r \in s : request[r] = "open"}
Others == Requests \ Dispatching

\* The slots count the open requests, and a child that runs is of one, or was outlived by
\* a one-shot request.
RoutesInv ==
  /\ RoutesTypeOK
  /\ IsFiniteSet(OpenOf(Dispatching)) /\ Cardinality(OpenOf(Dispatching)) = inFlightDispatch
  /\ IsFiniteSet(OpenOf(Others)) /\ Cardinality(OpenOf(Others)) = inFlightLlm
  /\ \A r \in Requests : pi[r] \/ group[r] => request[r] = "open" \/ Outlived(r)
  /\ \A r \in Requests : client[r] # "none" <=> request[r] = "open"
  /\ \A r \in Requests : group[r] => r \in Streaming

\* Before the first request every slot is free.
LEMMA RoutesInvInit == RoutesInit => RoutesInv
<1> SUFFICES ASSUME RoutesInit PROVE RoutesInv
  OBVIOUS
<1>1. OpenOf(Dispatching) = {} /\ OpenOf(Others) = {}
  BY SpawnRoutesAssumption DEF OpenOf, Others, RoutesInit
<1>2. RoutesTypeOK
  BY SpawnRoutesAssumption DEF RoutesInit, RoutesTypeOK
<1> QED
  BY <1>1, <1>2, FS_EmptySet DEF RoutesInv, RoutesInit

\* A request's slot is taken ...
LEMMA SlotTaken ==
  ASSUME RoutesInv, NEW r \in Requests, request[r] = "none", ~Busy(r),
         request' = [request EXCEPT ![r] = "open"], Reserve(r)
  PROVE  /\ IsFiniteSet(OpenOf(Dispatching)') /\ Cardinality(OpenOf(Dispatching)') = inFlightDispatch'
         /\ IsFiniteSet(OpenOf(Others)') /\ Cardinality(OpenOf(Others)') = inFlightLlm'
         /\ inFlightLlm' \in 0..MaxLlm /\ inFlightDispatch' \in 0..MaxDispatch
<1> USE DEF RoutesInv, RoutesTypeOK
<1>1. CASE r \in Dispatching
  <2>1. OpenOf(Dispatching)' = OpenOf(Dispatching) \cup {r} /\ r \notin OpenOf(Dispatching)
    BY <1>1, SpawnRoutesAssumption DEF OpenOf
  <2>2. OpenOf(Others)' = OpenOf(Others)
    BY <1>1 DEF OpenOf, Others
  <2>3. IsFiniteSet(OpenOf(Dispatching)') /\ Cardinality(OpenOf(Dispatching)') = inFlightDispatch + 1
    BY <2>1, FS_AddElement
  <2>4. inFlightDispatch < MaxDispatch /\ inFlightDispatch' = inFlightDispatch + 1 /\ inFlightLlm' = inFlightLlm
    BY <1>1, SpawnRoutesAssumption DEF Busy, Reserve
  <2> QED
    BY <2>2, <2>3, <2>4, SpawnRoutesAssumption
<1>2. CASE r \notin Dispatching
  <2>1. OpenOf(Others)' = OpenOf(Others) \cup {r} /\ r \notin OpenOf(Others)
    BY <1>2 DEF OpenOf, Others
  <2>2. OpenOf(Dispatching)' = OpenOf(Dispatching)
    BY <1>2, SpawnRoutesAssumption DEF OpenOf
  <2>0. IsFiniteSet(OpenOf(Others)) /\ Cardinality(OpenOf(Others)) = inFlightLlm
    OBVIOUS
  <2> HIDE DEF RoutesInv, RoutesTypeOK
  <2>3. IsFiniteSet(OpenOf(Others)') /\ Cardinality(OpenOf(Others)') = inFlightLlm + 1
    BY <2>0, <2>1, FS_AddElement
  <2> USE DEF RoutesInv, RoutesTypeOK
  <2>4. inFlightLlm < MaxLlm /\ inFlightLlm' = inFlightLlm + 1 /\ inFlightDispatch' = inFlightDispatch
    BY <1>2, SpawnRoutesAssumption DEF Busy, Reserve
  <2> QED
    BY <2>2, <2>3, <2>4, SpawnRoutesAssumption
<1> QED
  BY <1>1, <1>2

\* ... and given back.
LEMMA SlotFreed ==
  ASSUME RoutesInv, NEW r \in Requests, request[r] = "open",
         request' = [request EXCEPT ![r] = "settled"], Release(r)
  PROVE  /\ IsFiniteSet(OpenOf(Dispatching)') /\ Cardinality(OpenOf(Dispatching)') = inFlightDispatch'
         /\ IsFiniteSet(OpenOf(Others)') /\ Cardinality(OpenOf(Others)') = inFlightLlm'
         /\ inFlightLlm' \in 0..MaxLlm /\ inFlightDispatch' \in 0..MaxDispatch
<1> USE DEF RoutesInv, RoutesTypeOK
<1>1. CASE r \in Dispatching
  <2>1. OpenOf(Dispatching)' = OpenOf(Dispatching) \ {r} /\ r \in OpenOf(Dispatching)
    BY <1>1, SpawnRoutesAssumption DEF OpenOf
  <2>2. OpenOf(Others)' = OpenOf(Others)
    BY <1>1 DEF OpenOf, Others
  <2>3. IsFiniteSet(OpenOf(Dispatching)') /\ Cardinality(OpenOf(Dispatching)') = inFlightDispatch - 1
    BY <2>1, FS_RemoveElement
  <2>4. inFlightDispatch' = inFlightDispatch - 1 /\ inFlightLlm' = inFlightLlm
    BY <1>1 DEF Release
  <2>5. Cardinality(OpenOf(Dispatching)') \in Nat
    BY <2>3, FS_CardinalityType
  <2> QED
    BY <2>2, <2>3, <2>4, <2>5, SpawnRoutesAssumption
<1>2. CASE r \notin Dispatching
  <2>1. OpenOf(Others)' = OpenOf(Others) \ {r} /\ r \in OpenOf(Others)
    BY <1>2 DEF OpenOf, Others
  <2>2. OpenOf(Dispatching)' = OpenOf(Dispatching)
    BY <1>2, SpawnRoutesAssumption DEF OpenOf
  <2>3. IsFiniteSet(OpenOf(Others)') /\ Cardinality(OpenOf(Others)') = inFlightLlm - 1
    BY <2>1, FS_RemoveElement
  <2>4. inFlightLlm' = inFlightLlm - 1 /\ inFlightDispatch' = inFlightDispatch
    BY <1>2 DEF Release
  <2>5. Cardinality(OpenOf(Others)') \in Nat
    BY <2>3, FS_CardinalityType
  <2> QED
    BY <2>2, <2>3, <2>4, <2>5, SpawnRoutesAssumption
<1> QED
  BY <1>1, <1>2

\* No request opens or settles: the slots count what they counted.
LEMMA SlotsStay ==
  ASSUME RoutesInv, UNCHANGED <<inFlightLlm, inFlightDispatch>>,
         \A r \in Requests : request'[r] = "open" <=> request[r] = "open"
  PROVE  /\ IsFiniteSet(OpenOf(Dispatching)') /\ Cardinality(OpenOf(Dispatching)') = inFlightDispatch'
         /\ IsFiniteSet(OpenOf(Others)') /\ Cardinality(OpenOf(Others)') = inFlightLlm'
         /\ inFlightLlm' \in 0..MaxLlm /\ inFlightDispatch' \in 0..MaxDispatch
<1>1. OpenOf(Dispatching)' = OpenOf(Dispatching) /\ OpenOf(Others)' = OpenOf(Others)
  BY SpawnRoutesAssumption DEF OpenOf, Others
<1> QED
  BY <1>1 DEF RoutesInv, RoutesTypeOK

-----------------------------------------------------------------------------
\* What clients do.
LEMMA AcceptKeeps ==
  ASSUME RoutesInv, NEW r \in Requests, NEW s \in Sessions \cup {NoSession}, Accept(r, s)
  PROVE  RoutesInv'
<1>1. /\ IsFiniteSet(OpenOf(Dispatching)') /\ Cardinality(OpenOf(Dispatching)') = inFlightDispatch'
      /\ IsFiniteSet(OpenOf(Others)') /\ Cardinality(OpenOf(Others)') = inFlightLlm'
      /\ inFlightLlm' \in 0..MaxLlm /\ inFlightDispatch' \in 0..MaxDispatch
  BY SlotTaken DEF Accept
<1>2. RoutesTypeOK'
  BY <1>1 DEF RoutesInv, RoutesTypeOK, Accept
<1> QED
  BY <1>1, <1>2 DEF RoutesInv, RoutesTypeOK, Accept, Outlived

\* A request that finds no slot, or is not let in, takes none.
LEMMA RefuseKeeps ==
  ASSUME RoutesInv, NEW r \in Requests, Refuse(r)
  PROVE  RoutesInv'
<1>1. \A x \in Requests : request'[x] = "open" <=> request[x] = "open"
  BY DEF RoutesInv, RoutesTypeOK, Refuse
<1>2. RoutesTypeOK'
  BY DEF RoutesInv, RoutesTypeOK, Refuse
<1>3. ~pi[r] /\ ~group[r]
  BY DEF RoutesInv, Refuse, Outlived
<1> QED
  BY <1>1, <1>2, <1>3, SlotsStay DEF RoutesInv, RoutesTypeOK, Refuse, Outlived

\* A client that was answered has read its answer: nothing is freed by it.
LEMMA ReadKeeps ==
  ASSUME RoutesInv, NEW r \in Requests, Read(r)
  PROVE  RoutesInv'
<1>1. RoutesTypeOK'
  BY DEF RoutesInv, RoutesTypeOK, Read
<1> QED
  BY <1>1, SlotsStay DEF RoutesInv, RoutesTypeOK, Read, Outlived

\* Clients hang up: their requests stay open until the server has settled them.
LEMMA LeaveKeeps ==
  ASSUME RoutesInv, NEW rs \in SUBSET Requests, \A r \in rs : request[r] = "open", Leave(rs)
  PROVE  RoutesInv'
<1>1. kill' \in [Requests -> BOOLEAN]
  BY DEF RoutesInv, RoutesTypeOK, Leave, KillTree
<1>2. RoutesTypeOK'
  BY <1>1 DEF RoutesInv, RoutesTypeOK, Leave
<1>3. \A r \in Requests : client'[r] # "none" <=> request[r] = "open"
  BY DEF RoutesInv, RoutesTypeOK, Leave
<1> QED
  BY <1>2, <1>3, SlotsStay DEF RoutesInv, RoutesTypeOK, Leave, Outlived

\* A step of the server keeps the slots, and gives nobody a client.
LEMMA StepKeeps ==
  ASSUME RoutesInv, NEW r \in Requests, RoutesStep(r)
  PROVE  /\ RoutesInv'
         /\ \A x \in Requests : client'[x] = client[x] \/ client'[x] = "none"
<1>1. CASE EndTool(r)
  <2>1. RoutesTypeOK'
    BY <1>1 DEF RoutesInv, RoutesTypeOK, EndTool
  <2> QED
    BY <1>1, <2>1, SlotsStay DEF RoutesInv, RoutesTypeOK, EndTool, Outlived
<1>2. CASE AgentEnd(r)
  <2>1. RoutesTypeOK'
    BY <1>2 DEF RoutesInv, RoutesTypeOK, AgentEnd
  <2> QED
    BY <1>2, <2>1, SlotsStay DEF RoutesInv, RoutesTypeOK, AgentEnd, Outlived
<1>3. CASE Exit(r)
  <2>1. PICK left \in (IF r \in Streaming THEN BOOLEAN ELSE {FALSE}) : group' = [group EXCEPT ![r] = left]
    BY <1>3 DEF Exit
  <2>2. left \in BOOLEAN /\ (left => r \in Streaming)
    BY <2>1
  <2>3. RoutesTypeOK'
    BY <1>3, <2>1, <2>2 DEF RoutesInv, RoutesTypeOK, Exit
  <2>4. request[r] = "open" \/ Outlived(r)
    BY <1>3 DEF RoutesInv, Exit
  <2>5. \A x \in Requests : pi'[x] \/ group'[x] => request[x] = "open" \/ Outlived(x)
    BY <1>3, <2>1, <2>4 DEF RoutesInv, RoutesTypeOK, Exit
  <2>6. \A x \in Requests : group'[x] => x \in Streaming
    BY <2>1, <2>2 DEF RoutesInv, RoutesTypeOK
  <2> QED
    BY <1>3, <2>3, <2>5, <2>6, SlotsStay DEF RoutesInv, RoutesTypeOK, Exit, Outlived
<1>4. CASE Close(r)
  <2>1. /\ IsFiniteSet(OpenOf(Dispatching)') /\ Cardinality(OpenOf(Dispatching)') = inFlightDispatch'
        /\ IsFiniteSet(OpenOf(Others)') /\ Cardinality(OpenOf(Others)') = inFlightLlm'
        /\ inFlightLlm' \in 0..MaxLlm /\ inFlightDispatch' \in 0..MaxDispatch
    BY <1>4, SlotFreed DEF Close, Settle
  <2>2. frame' \in [Requests -> {"none", "done", "error"}]
    BY <1>4 DEF RoutesInv, RoutesTypeOK, Close
  <2>3. RoutesTypeOK'
    BY <1>4, <2>1, <2>2 DEF RoutesInv, RoutesTypeOK, Close, Settle
  <2> QED
    BY <1>4, <2>1, <2>3 DEF RoutesInv, RoutesTypeOK, Close, Closed, Settle, Outlived
<1>5. CASE Timeout(r) /\ r \in Streaming
  <2>1. kill' \in [Requests -> BOOLEAN]
    <3>1. kill' = [x \in Requests |-> kill[x] \/ x \in {r}]
      BY <1>5 DEF Timeout, KillTree
    <3>2. \A x \in Requests : (kill[x] \/ x \in {r}) \in BOOLEAN
      OBVIOUS
    <3> QED
      BY <3>1, <3>2
  <2>2. RoutesTypeOK'
    BY <1>5, <2>1 DEF RoutesInv, RoutesTypeOK, Timeout
  <2> QED
    BY <1>5, <2>2, SlotsStay DEF RoutesInv, RoutesTypeOK, Timeout, Outlived
<1>6. CASE Timeout(r) /\ r \notin Streaming
  <2>1. /\ IsFiniteSet(OpenOf(Dispatching)') /\ Cardinality(OpenOf(Dispatching)') = inFlightDispatch'
        /\ IsFiniteSet(OpenOf(Others)') /\ Cardinality(OpenOf(Others)') = inFlightLlm'
        /\ inFlightLlm' \in 0..MaxLlm /\ inFlightDispatch' \in 0..MaxDispatch
    BY <1>6, SlotFreed DEF Timeout, Settle
  <2>2. RoutesTypeOK'
    BY <1>6, <2>1 DEF RoutesInv, RoutesTypeOK, Timeout, Settle
  <2> QED
    BY <1>6, <2>1, <2>2 DEF RoutesInv, RoutesTypeOK, Timeout, Settle, Outlived
<1>7. CASE Escalate(r)
  <2>1. RoutesTypeOK'
    BY <1>7 DEF RoutesInv, RoutesTypeOK, Escalate
  <2> QED
    BY <1>7, <2>1, SlotsStay DEF RoutesInv, RoutesTypeOK, Escalate, Outlived
<1> QED
  BY <1>1, <1>2, <1>3, <1>4, <1>5, <1>6, <1>7 DEF RoutesStep, ChildStep

\* Nor do steps elsewhere.
LEMMA RoutesUnchanged == RoutesInv /\ UNCHANGED routes => RoutesInv'
BY DEF RoutesInv, RoutesTypeOK, routes, OpenOf, Outlived

\* The children fit the slots.
LEMMA SlotsBound == RoutesInv => ChildrenBounded
<1> SUFFICES ASSUME RoutesInv PROVE ChildrenBounded
  OBVIOUS
<1> DEFINE Held(s) == {r \in s : ~Outlived(r) /\ (pi[r] \/ group[r])}
<1>1. Held(Dispatching) \subseteq OpenOf(Dispatching) /\ Held(Others) \subseteq OpenOf(Others)
  BY SpawnRoutesAssumption DEF RoutesInv, OpenOf, Others
<1>2. /\ Cardinality(Held(Dispatching)) <= Cardinality(OpenOf(Dispatching))
      /\ Cardinality(Held(Others)) <= Cardinality(OpenOf(Others))
  BY <1>1, FS_Subset DEF RoutesInv
<1>3. Cardinality(Held(Dispatching)) \in Nat /\ Cardinality(Held(Others)) \in Nat
  BY <1>1, FS_Subset, FS_CardinalityType DEF RoutesInv
<1> HIDE DEF Held
<1>4. Cardinality(Held(Dispatching)) <= MaxDispatch /\ Cardinality(Held(Others)) <= MaxLlm
  BY <1>2, <1>3, SpawnRoutesAssumption DEF RoutesInv, RoutesTypeOK
<1> QED
  BY <1>4 DEF ChildrenBounded, Held, Others

-----------------------------------------------------------------------------
\* The bridge.

AtWork == {"placing", "opening", "streaming", "finishing"}

\* An update not had yet has no turn.
Ahead == \A m \in Ids : m >= offset => turn[m].at = "none"

\* One turn is at work at a time, and no other is free to begin.
OneTurn ==
  \A m \in Ids : turn[m].at \in AtWork => busy /\ \A n \in Ids : turn[n].at \in AtWork => n = m

\* The client that is there is the turn that streams.
Streams ==
  \A r \in Streaming : client[r] = "there" => r[2] = crashes /\ turn[r[1]].at = "streaming"

\* Where the message stands: what was sent last is shown or on its way, and a turn that
\* finishes has the whole body sent or an edit ahead of it.
Message(t) ==
  /\ t.at \notin {"streaming", "finishing"} =>
       t.edits = 0 /\ t.flying = NoBody /\ t.lastSent = Placeholder /\ t.body = Placeholder
  /\ t.at = "opening" => t.shown = Placeholder
  /\ t.at = "streaming" => t.edits <= 1
  /\ t.flying # NoBody => t.edits > 0 /\ t.flying = t.lastSent
  /\ t.at \in {"opening", "streaming", "finishing"} /\ ~t.lost /\ t.flying = NoBody => t.shown = t.lastSent
  /\ t.at = "finishing" => t.lastSent = t.body \/ t.edits > (IF t.flying = NoBody THEN 0 ELSE 1)

\* An update was handled once in a life of the bridge, up to the offset in the present one.
Counted ==
  /\ confirmed <= offset
  /\ \A m \in Ids, k \in 0..MaxCrashes :
       handled[<<m, k>>] <= (IF k < crashes \/ (k = crashes /\ m < offset) THEN 1 ELSE 0)

BridgeInv ==
  /\ BridgeTypeOK /\ RoutesInv /\ Ahead /\ OneTurn /\ Streams /\ Counted
  /\ \A m \in Ids : Message(turn[m])

\* What the assumption says of updates: the requests each makes in a life of the bridge are its
\* own.
LEMMA RequestsOf ==
  /\ \A m \in Ids : m \in Nat /\ SessionOf(m) \in Sessions
  /\ crashes \in 0..MaxCrashes =>
       \A m \in Ids : /\ Req(m) \in Streaming /\ Req(m) \in Requests
                     /\ Select(m) \in Requests /\ Select(m) \notin Streaming
                     /\ Req(m)[1] = m /\ Req(m)[2] = crashes
  /\ \A r \in Streaming : r[1] \in Ids /\ r = <<r[1], r[2]>>
<1>1. /\ Updates \in Seq({"chat", "dispatch", "do"})
      /\ Streaming = Ids \X (0..MaxCrashes) /\ Requests \ Streaming = Ids \X (0..MaxCrashes) \X {"select"}
      /\ Streaming \subseteq Requests /\ Sessions = {"chat", "dispatch"}
  BY BridgeAssumption, SpawnRoutesAssumption DEF Ids
<1>2. \A m \in Ids : m \in Nat /\ SessionOf(m) \in Sessions
  BY <1>1 DEF Ids, SessionOf
<1>3. ASSUME crashes \in 0..MaxCrashes, NEW m \in Ids
      PROVE  /\ Req(m) \in Streaming /\ Req(m) \in Requests
             /\ Select(m) \in Requests /\ Select(m) \notin Streaming
             /\ Req(m)[1] = m /\ Req(m)[2] = crashes
  BY <1>1, <1>3 DEF Req, Select
<1> QED
  BY <1>1, <1>2, <1>3

\* A turn that begins, and what it shows, are of the types.
LEMMA NewTurns == NewTurn \in Turns /\ Placeholder \in Bodies /\ NoBody \notin Bodies
<1>1. MaxTokens \in Nat
  BY BridgeAssumption
<1>2. Placeholder \in Bodies /\ NoBody \notin Bodies
  BY <1>1 DEF Placeholder, NoBody, Bodies
<1> QED
  BY <1>2 DEF NewTurn, Turns

\* Before the first update there is no turn.
LEMMA BridgeInvInit == BridgeInit => BridgeInv
<1> SUFFICES ASSUME BridgeInit PROVE BridgeInv
  OBVIOUS
<1> USE DEF BridgeInit
<1>0. /\ Updates \in Seq({"chat", "dispatch", "do"}) /\ MaxCrashes \in Nat
      /\ \A m \in Ids : turn[m] = NewTurn
      /\ \A m \in Ids, k \in 0..MaxCrashes : handled[<<m, k>>] = 0
  BY BridgeAssumption DEF InLife
<1>1. RoutesInv
  BY RoutesInvInit
<1>2. BridgeTypeOK
  <2>1. Len(Updates) \in Nat
    BY <1>0
  <2>2. 1 \in 1..Len(Updates) + 1 /\ 0 \in 0..MaxCrashes
    BY <1>0, <2>1
  <2>3. turn \in [Ids -> Turns] /\ handled \in [InLife -> Nat]
    BY NewTurns
  <2> QED
    BY <1>1, <2>2, <2>3 DEF RoutesInv, BridgeTypeOK
<1>3. Ahead /\ OneTurn
  BY <1>0 DEF Ahead, OneTurn, AtWork, NewTurn
<1>4. Streams
  BY SpawnRoutesAssumption DEF Streams, RoutesInit
<1>5. Counted
  BY <1>0, RequestsOf DEF Counted
<1>6. \A m \in Ids : Message(turn[m])
  BY <1>0 DEF Message, NewTurn
<1> QED
  BY <1>1, <1>2, <1>3, <1>4, <1>5, <1>6 DEF BridgeInv

\* A turn goes on, ends or begins; what the poller has is left alone.
LEMMA TurnChanges ==
  ASSUME BridgeInv, NEW m \in Ids, NEW t \in Turns, turn' = [turn EXCEPT ![m] = t], Message(t),
         turn[m].at # "none", UNCHANGED poller,
         \/ (t.at \in AtWork <=> turn[m].at \in AtWork) /\ UNCHANGED busy
         \/ turn[m].at \in AtWork /\ t.at \notin AtWork /\ busy' = FALSE
         \/ t.at \in AtWork /\ ~busy /\ busy' = TRUE
  PROVE  /\ offset' \in 1..Len(Updates) + 1 /\ confirmed' \in 1..Len(Updates) + 1
         /\ handled' \in [InLife -> Nat] /\ crashes' \in 0..MaxCrashes
         /\ busy' \in BOOLEAN /\ turn' \in [Ids -> Turns]
         /\ Ahead' /\ OneTurn' /\ Counted' /\ \A n \in Ids : Message(turn'[n])
<1> USE DEF BridgeInv, poller
<1>1. /\ offset' \in 1..Len(Updates) + 1 /\ confirmed' \in 1..Len(Updates) + 1
      /\ handled' \in [InLife -> Nat] /\ crashes' \in 0..MaxCrashes
      /\ busy' \in BOOLEAN /\ turn' \in [Ids -> Turns] /\ turn \in [Ids -> Turns]
  BY DEF BridgeTypeOK
<1>2. turn'[m] = t /\ \A n \in Ids : n # m => turn'[n] = turn[n]
  BY <1>1
<1>3. Ahead'
  BY <1>2 DEF Ahead
<1>4. OneTurn'
  BY <1>2 DEF OneTurn
<1>5. Counted'
  BY DEF Counted
<1>6. \A n \in Ids : Message(turn'[n])
  BY <1>2
<1> QED
  BY <1>1, <1>3, <1>4, <1>5, <1>6

\* The same, with what becomes of the request.
LEMMA TurnStepKeeps ==
  ASSUME BridgeInv, NEW m \in Ids, NEW t \in Turns, turn' = [turn EXCEPT ![m] = t], Message(t),
         turn[m].at # "none", UNCHANGED poller, RoutesInv',
         \/ (t.at \in AtWork <=> turn[m].at \in AtWork) /\ UNCHANGED busy
         \/ turn[m].at \in AtWork /\ t.at \notin AtWork /\ busy' = FALSE
         \/ t.at \in AtWork /\ ~busy /\ busy' = TRUE,
         \A r \in Streaming : client'[r] = "there" => client[r] = "there" \/ r = Req(m),
         t.at = "streaming" \/ client'[Req(m)] # "there"
  PROVE  BridgeInv'
<1>1. crashes \in 0..MaxCrashes /\ turn \in [Ids -> Turns] /\ UNCHANGED crashes
  BY DEF BridgeInv, BridgeTypeOK, poller
<1>2. ASSUME NEW r \in Streaming, client'[r] = "there"
      PROVE  r[2] = crashes /\ turn'[r[1]].at = "streaming"
  <2>1. r[1] \in Ids /\ r = <<r[1], r[2]>>
    BY RequestsOf
  <2>2. CASE r = Req(m)
    <3>1. r[1] = m /\ r[2] = crashes
      BY <1>1, <2>2, RequestsOf
    <3>2. t.at = "streaming"
      BY <1>2, <2>2
    <3> QED
      BY <1>1, <3>1, <3>2
  <2>3. CASE r # Req(m)
    <3>1. r[2] = crashes /\ turn[r[1]].at = "streaming"
      BY <1>2, <2>3 DEF BridgeInv, Streams
    <3>2. r[1] # m
      BY <2>1, <2>3, <3>1 DEF Req
    <3> QED
      BY <1>1, <2>1, <3>1, <3>2
  <2> QED
    BY <2>2, <2>3
<1>3. Streams'
  BY <1>1, <1>2 DEF Streams
<1>4. /\ offset' \in 1..Len(Updates) + 1 /\ confirmed' \in 1..Len(Updates) + 1
      /\ handled' \in [InLife -> Nat] /\ crashes' \in 0..MaxCrashes
      /\ busy' \in BOOLEAN /\ turn' \in [Ids -> Turns]
      /\ Ahead' /\ OneTurn' /\ Counted' /\ \A n \in Ids : Message(turn'[n])
  BY TurnChanges
<1>5. RoutesTypeOK'
  BY DEF RoutesInv
<1> QED
  BY <1>3, <1>4, <1>5 DEF BridgeInv, BridgeTypeOK

\* A turn with other fields is a turn.
LEMMA TurnFields ==
  ASSUME BridgeInv, NEW m \in Ids
  PROVE  /\ turn \in [Ids -> Turns] /\ turn[m] \in Turns /\ Message(turn[m]) /\ crashes \in 0..MaxCrashes
         /\ RoutesInv /\ busy \in BOOLEAN
         /\ Req(m) \in Streaming /\ Req(m) \in Requests
         /\ Select(m) \in Requests /\ Select(m) \notin Streaming /\ SessionOf(m) \in Sessions
BY RequestsOf DEF BridgeInv, BridgeTypeOK

\* Only the turn that streams has a client there.
LEMMA NotThere ==
  ASSUME BridgeInv, NEW m \in Ids, turn[m].at # "streaming"
  PROVE  client[Req(m)] # "there"
<1>1. Req(m) \in Streaming /\ Req(m)[1] = m
  BY TurnFields, RequestsOf
<1> QED
  BY <1>1 DEF BridgeInv, Streams

\* Before its message is placed a turn has done nothing but move.
LEMMA TurnMoves ==
  ASSUME BridgeInv, NEW m \in Ids, turn[m].at \in {"asking", "routing"},
         NEW place \in {"routing", "failed", "placing"}, turn' = [turn EXCEPT ![m].at = place],
         UNCHANGED poller, RoutesInv', \A r \in Streaming : client'[r] = client[r],
         IF place = "placing" THEN ~busy /\ busy' = TRUE ELSE UNCHANGED busy
  PROVE  BridgeInv'
<1> DEFINE t == [turn[m] EXCEPT !.at = place]
<1>1. turn[m] \in Turns /\ Message(turn[m]) /\ Req(m) \in Streaming
  BY TurnFields
<1>2. t \in Turns /\ turn' = [turn EXCEPT ![m] = t]
  BY <1>1 DEF Turns
<1>3. Message(t)
  BY <1>1 DEF Message, Turns
<1>4. t.at = place
  BY <1>1 DEF Turns
<1>5. client'[Req(m)] # "there"
  BY <1>1, NotThere
<1>6. t.at \in AtWork <=> place = "placing"
  BY <1>4 DEF AtWork
<1>7. turn[m].at \notin AtWork /\ turn[m].at # "none"
  BY DEF AtWork
<1> HIDE DEF t
<1> QED
  BY <1>2, <1>3, <1>5, <1>6, <1>7, TurnStepKeeps

\* The bridge asks which agent is to answer, is told or waits in vain.
LEMMA RouteKeeps ==
  ASSUME BridgeInv, NEW m \in Ids, AskRoute(m) \/ Routed(m) \/ RouteTimesOut(m)
  PROVE  BridgeInv'
<1>0. /\ RoutesInv /\ Select(m) \in Requests /\ Select(m) \notin Streaming /\ busy \in BOOLEAN
  BY TurnFields
<1>1. CASE AskRoute(m)
  <2>1. RoutesInv'
    BY <1>0, <1>1, AcceptKeeps, RefuseKeeps DEF AskRoute
  <2>2. \A r \in Streaming : client'[r] = client[r]
    BY <1>0, <1>1, SpawnRoutesAssumption DEF AskRoute, Accept, Refuse, RoutesInv, RoutesTypeOK
  <2> QED
    BY <1>1, <2>1, <2>2, TurnMoves DEF AskRoute, At
<1>2. CASE Routed(m)
  <2>1. RoutesInv' /\ UNCHANGED client
    BY <1>0, <1>2, ReadKeeps DEF Routed, Read
  <2>2. CASE frame[Select(m)] = "error"
    BY <1>2, <2>1, <2>2, TurnMoves DEF Routed, At
  <2>3. CASE frame[Select(m)] # "error" /\ busy
    BY <1>2, <2>1, <2>3, TurnMoves DEF Routed, At, BeginTurn, Free
  <2>4. CASE frame[Select(m)] # "error" /\ ~busy
    BY <1>2, <2>1, <2>4, TurnMoves DEF Routed, At, BeginTurn, Free
  <2> QED
    BY <2>2, <2>3, <2>4
<1>3. CASE RouteTimesOut(m)
  <2>1. request[Select(m)] = "open" /\ Leave({Select(m)})
    BY <1>3 DEF RouteTimesOut, Disconnect
  <2>2. RoutesInv'
    BY <1>0, <2>1, LeaveKeeps
  <2>3. \A r \in Streaming : client'[r] = client[r]
    BY <1>0, <2>1, SpawnRoutesAssumption DEF Leave
  <2> QED
    BY <1>3, <2>2, <2>3, TurnMoves DEF RouteTimesOut, At
<1> QED
  BY <1>1, <1>2, <1>3

\* The end of a turn.
LEMMA TurnEndsKeeps ==
  ASSUME BridgeInv, NEW m \in Ids, turn[m].at \in AtWork, NEW end \in {"over", "failed"}, TurnEnds(m, end),
         UNCHANGED poller, RoutesInv', \A r \in Streaming : client'[r] = client[r] \/ client'[r] # "there",
         client'[Req(m)] # "there"
  PROVE  BridgeInv'
<1> DEFINE t == [NewTurn EXCEPT !.at = end]
<1>1. t \in Turns /\ t.at = end /\ Message(t)
  BY NewTurns DEF NewTurn, Turns, Message
<1>2. turn' = [turn EXCEPT ![m] = t] /\ busy' = FALSE
  BY DEF TurnEnds
<1> HIDE DEF t
<1> QED
  BY <1>1, <1>2, TurnStepKeeps DEF AtWork

\* The placeholder is sent, or is not.
LEMMA PlaceKeeps ==
  ASSUME BridgeInv, NEW m \in Ids, Place(m)
  PROVE  BridgeInv'
<1>1. /\ turn[m].at = "placing" /\ UNCHANGED <<routes, poller>> /\ RoutesInv'
      /\ UNCHANGED client
  BY RoutesUnchanged DEF Place, At, BridgeInv, routes
<1>2. client'[Req(m)] # "there"
  BY <1>1, NotThere
<1>3. CASE TurnEnds(m, "failed")
  BY <1>1, <1>2, <1>3, TurnEndsKeeps DEF AtWork
<1>4. CASE turn' = [turn EXCEPT ![m].at = "opening", ![m].shown = Placeholder] /\ UNCHANGED busy
  <2> DEFINE t == [turn[m] EXCEPT !.at = "opening", !.shown = Placeholder]
  <2>1. turn[m] \in Turns /\ Message(turn[m]) /\ turn \in [Ids -> Turns]
    BY TurnFields
  <2>2. turn' = [turn EXCEPT ![m] = t]
    BY <1>4, <2>1
  <2>3. t \in Turns /\ t.at = "opening"
    BY <2>1, NewTurns DEF Turns
  <2>4. Message(t)
    BY <1>1, <2>1 DEF Message, Turns
  <2> HIDE DEF t
  <2> QED
    BY <1>1, <1>2, <1>4, <2>2, <2>3, <2>4, TurnStepKeeps DEF AtWork
<1> QED
  BY <1>3, <1>4 DEF Place

\* The stream is opened, or refused.
LEMMA OpenStreamKeeps ==
  ASSUME BridgeInv, NEW m \in Ids, OpenStream(m)
  PROVE  BridgeInv'
<1> DEFINE t == [turn[m] EXCEPT !.at = "streaming"]
<1>1. /\ turn[m] \in Turns /\ Message(turn[m]) /\ turn \in [Ids -> Turns] /\ RoutesInv
      /\ Req(m) \in Requests /\ SessionOf(m) \in Sessions
  BY TurnFields
<1>2. /\ turn[m].at = "opening" /\ turn' = [turn EXCEPT ![m] = t] /\ UNCHANGED <<poller, busy>>
      /\ Accept(Req(m), SessionOf(m)) \/ Refuse(Req(m))
  BY <1>1 DEF OpenStream, At
<1>3. RoutesInv'
  BY <1>1, <1>2, AcceptKeeps, RefuseKeeps
<1>4. \A r \in Streaming : client'[r] = "there" => client[r] = "there" \/ r = Req(m)
  BY <1>1, <1>2, SpawnRoutesAssumption DEF Accept, Refuse, RoutesInv, RoutesTypeOK
<1>5. t \in Turns /\ t.at = "streaming"
  BY <1>1 DEF Turns
<1>6. Message(t)
  BY <1>1, <1>2 DEF Message, Turns
<1> HIDE DEF t
<1> QED
  BY <1>2, <1>3, <1>4, <1>5, <1>6, TurnStepKeeps DEF AtWork

\* A token comes.
LEMMA TokenKeeps ==
  ASSUME BridgeInv, NEW m \in Ids, Token(m)
  PROVE  BridgeInv'
<1>1. turn[m] \in Turns /\ Message(turn[m]) /\ turn \in [Ids -> Turns] /\ MaxTokens \in Nat
  BY TurnFields, BridgeAssumption
<1>2. /\ turn[m].at = "streaming" /\ turn[m].body.text < MaxTokens
      /\ UNCHANGED <<poller, busy>> /\ RoutesInv' /\ UNCHANGED client
  BY RoutesUnchanged DEF Token, At, BridgeInv, routes
<1>3. PICK edit \in (IF turn[m].edits = 0 THEN {0, 1} ELSE {0}) :
        turn' = [turn EXCEPT ![m].body.text = @ + 1, ![m].edits = @ + edit]
  BY DEF Token
<1> DEFINE body == [turn[m].body EXCEPT !.text = @ + 1]
           t == [turn[m] EXCEPT !.body = body, !.edits = @ + edit]
<1>4. turn' = [turn EXCEPT ![m] = t]
  BY <1>1, <1>3
<1>5. turn[m].edits + edit \in 0..1 /\ turn[m].edits + edit >= turn[m].edits
  BY <1>1, <1>2, <1>3 DEF Turns, Message
<1>6. body \in Bodies
  BY <1>1, <1>2 DEF Turns, Bodies
<1> HIDE DEF body
<1>7. t \in Turns /\ t.at = "streaming"
  <2>1. turn[m].edits + edit \in 0..2
    BY <1>5
  <2> QED
    BY <1>1, <1>2, <1>6, <2>1 DEF Turns
<1>8. Message(t)
  BY <1>1, <1>2, <1>5 DEF Message, Turns
<1> HIDE DEF t
<1> QED
  BY <1>2, <1>4, <1>7, <1>8, TurnStepKeeps DEF AtWork

\* The stream is over, and the rest of its text is shown.
LEMMA StreamEndsKeeps ==
  ASSUME BridgeInv, NEW m \in Ids, StreamEnds(m)
  PROVE  BridgeInv'
<1>1. /\ turn[m] \in Turns /\ Message(turn[m]) /\ turn \in [Ids -> Turns] /\ RoutesInv
      /\ Req(m) \in Requests
  BY TurnFields
<1>2. turn[m].at = "streaming" /\ Read(Req(m)) /\ UNCHANGED <<poller, busy>>
  BY DEF StreamEnds, At
<1>3. RoutesInv' /\ UNCHANGED client
  BY <1>1, <1>2, ReadKeeps DEF Read
<1>4. client'[Req(m)] # "there"
  BY <1>1, <1>2, <1>3 DEF Read, RoutesInv
<1>5. PICK ending \in BOOLEAN :
        turn' = [turn EXCEPT ![m].at = "finishing", ![m].body.ending = ending, ![m].edits = @ + 1]
  BY DEF StreamEnds, LastEdit
<1> DEFINE body == [turn[m].body EXCEPT !.ending = ending]
           t == [turn[m] EXCEPT !.at = "finishing", !.body = body, !.edits = @ + 1]
<1>6. turn' = [turn EXCEPT ![m] = t]
  BY <1>1, <1>5
<1>7. turn[m].edits + 1 \in 1..2 /\ turn[m].edits \in Nat
  BY <1>1, <1>2 DEF Turns, Message
<1>8. body \in Bodies
  BY <1>1, <1>2 DEF Turns, Bodies
<1> HIDE DEF body
<1>9. t \in Turns /\ t.at = "finishing"
  <2>1. turn[m].edits + 1 \in 0..2
    BY <1>7
  <2> QED
    BY <1>1, <1>8, <2>1 DEF Turns
<1>10. Message(t)
  BY <1>1, <1>2, <1>7 DEF Message, Turns
<1> HIDE DEF t
<1> QED
  BY <1>2, <1>3, <1>4, <1>6, <1>9, <1>10, TurnStepKeeps DEF AtWork

\* The stream breaks, and the turn with it.
LEMMA StreamBreaksKeeps ==
  ASSUME BridgeInv, NEW m \in Ids, StreamBreaks(m)
  PROVE  BridgeInv'
<1>1. RoutesInv /\ Req(m) \in Requests
  BY TurnFields
<1>2. /\ turn[m].at = "streaming" /\ request[Req(m)] = "open" /\ Leave({Req(m)})
      /\ TurnEnds(m, "failed") /\ UNCHANGED poller
  BY DEF StreamBreaks, At, Disconnect
<1>3. RoutesInv'
  BY <1>1, <1>2, LeaveKeeps
<1>4. \A r \in Requests : client'[r] = IF r = Req(m) THEN "gone" ELSE client[r]
  BY <1>2 DEF Leave
<1> QED
  BY <1>1, <1>2, <1>3, <1>4, SpawnRoutesAssumption, TurnEndsKeeps DEF AtWork

\* The bridge edits the message, if an edit is due.
LEMMA EditKeeps ==
  ASSUME BridgeInv, NEW m \in Ids, Edit(m)
  PROVE  BridgeInv'
<1>1. turn[m] \in Turns /\ Message(turn[m]) /\ turn \in [Ids -> Turns]
  BY TurnFields
<1>2. /\ turn[m].edits > 0 /\ turn[m].flying = NoBody
      /\ UNCHANGED <<poller, busy>> /\ RoutesInv' /\ UNCHANGED client
  BY RoutesUnchanged DEF Edit, BridgeInv, routes
<1>3. turn[m].at \in {"streaming", "finishing"}
  BY <1>1, <1>2 DEF Message
<1>4. turn[m].at = "streaming" \/ client'[Req(m)] # "there"
  BY <1>2, <1>3, NotThere
<1>5. CASE turn[m].body = turn[m].lastSent
  <2> DEFINE t == [turn[m] EXCEPT !.edits = @ - 1]
  <2>1. turn' = [turn EXCEPT ![m] = t]
    BY <1>1, <1>5 DEF Edit
  <2>2. turn[m].edits - 1 \in 0..2
    BY <1>1, <1>2 DEF Turns
  <2>3. t \in Turns /\ t.at = turn[m].at
    BY <1>1, <2>2 DEF Turns
  <2>4. Message(t)
    BY <1>1, <1>2, <1>3, <1>5, <2>2 DEF Message, Turns
  <2> HIDE DEF t
  <2> QED
    BY <1>2, <1>3, <1>4, <2>1, <2>3, <2>4, TurnStepKeeps DEF AtWork
<1>6. CASE turn[m].body # turn[m].lastSent
  <2> DEFINE t == [turn[m] EXCEPT !.flying = turn[m].body, !.lastSent = turn[m].body]
  <2>1. turn' = [turn EXCEPT ![m] = t]
    BY <1>1, <1>6 DEF Edit
  <2>2. t \in Turns /\ t.at = turn[m].at
    BY <1>1 DEF Turns
  <2>3. Message(t)
    BY <1>1, <1>2, <1>3, NewTurns DEF Message, Turns
  <2> HIDE DEF t
  <2> QED
    BY <1>2, <1>3, <1>4, <2>1, <2>2, <2>3, TurnStepKeeps DEF AtWork
<1> QED
  BY <1>5, <1>6

\* An edit comes through, or is refused.
LEMMA EditLandsKeeps ==
  ASSUME BridgeInv, NEW m \in Ids, EditLands(m)
  PROVE  BridgeInv'
<1>1. turn[m] \in Turns /\ Message(turn[m]) /\ turn \in [Ids -> Turns]
  BY TurnFields
<1>2. /\ turn[m].flying # NoBody
      /\ UNCHANGED <<poller, busy>> /\ RoutesInv' /\ UNCHANGED client
  BY RoutesUnchanged DEF EditLands, BridgeInv, routes
<1>3. turn[m].at \in {"streaming", "finishing"} /\ turn[m].edits > 0 /\ turn[m].flying = turn[m].lastSent
  BY <1>1, <1>2 DEF Message
<1>4. turn[m].at = "streaming" \/ client'[Req(m)] # "there"
  BY <1>2, <1>3, NotThere
<1>5. turn[m].edits - 1 \in 0..2
  BY <1>1, <1>3 DEF Turns
<1> DEFINE landed == [turn EXCEPT ![m].flying = NoBody, ![m].edits = @ - 1]
           u == [turn[m] EXCEPT !.flying = NoBody, !.edits = @ - 1]
           s == [u EXCEPT !.shown = turn[m].flying]
           l == [u EXCEPT !.lost = TRUE]
<1>6. landed = [turn EXCEPT ![m] = u]
  BY <1>1
<1>7. turn' = [turn EXCEPT ![m] = s] \/ turn' = [turn EXCEPT ![m] = l]
  <2>1. turn' = [landed EXCEPT ![m].shown = turn[m].flying] \/ turn' = [landed EXCEPT ![m].lost = TRUE]
    BY DEF EditLands
  <2> HIDE DEF u, landed
  <2> QED
    BY <1>1, <1>6, <2>1
<1>8. s \in Turns /\ l \in Turns /\ s.at = turn[m].at /\ l.at = turn[m].at
  BY <1>1, <1>2, <1>5 DEF Turns
<1>9. Message(s)
  BY <1>1, <1>2, <1>3, <1>5 DEF Message, Turns
<1>10. Message(l)
  BY <1>1, <1>2, <1>3, <1>5 DEF Message, Turns
<1> HIDE DEF s, l
<1> QED
  BY <1>2, <1>3, <1>4, <1>7, <1>8, <1>9, <1>10, TurnStepKeeps DEF AtWork

\* With no edit left to make the turn is over.
LEMMA FinishKeeps ==
  ASSUME BridgeInv, NEW m \in Ids, Finish(m)
  PROVE  BridgeInv'
<1>1. /\ turn[m].at = "finishing" /\ TurnEnds(m, "over") /\ UNCHANGED <<routes, poller>>
      /\ RoutesInv' /\ UNCHANGED client
  BY RoutesUnchanged DEF Finish, At, BridgeInv, routes
<1>2. client'[Req(m)] # "there"
  BY <1>1, NotThere
<1> QED
  BY <1>1, <1>2, TurnEndsKeeps DEF AtWork

-----------------------------------------------------------------------------
\* The poller.
LEMMA AskKeeps ==
  ASSUME BridgeInv, Ask
  PROVE  BridgeInv'
<1>1. RoutesInv'
  BY RoutesUnchanged DEF BridgeInv, Ask
<1>2. BridgeTypeOK'
  BY <1>1 DEF BridgeInv, RoutesInv, BridgeTypeOK, Ask
<1> QED
  BY <1>1, <1>2 DEF BridgeInv, Ask, Ahead, OneTurn, Streams, Counted, BridgeTypeOK, routes

\* The next update is handled, up to its first await.
LEMMA ReceiveKeeps ==
  ASSUME BridgeInv, Receive
  PROVE  BridgeInv'
<1>1. /\ offset \in Ids /\ offset' = offset + 1
      /\ handled' = [handled EXCEPT ![<<offset, crashes>>] = @ + 1]
      /\ RoutesInv' /\ UNCHANGED <<confirmed, crashes>> /\ UNCHANGED client
  BY RoutesUnchanged DEF BridgeInv, Receive, NextOffset, routes
<1>2. /\ turn \in [Ids -> Turns] /\ turn[offset] \in Turns /\ Message(turn[offset])
      /\ turn[offset].at = "none"
  <2>1. offset >= offset
    BY <1>1, RequestsOf
  <2> QED
    BY <1>1, <2>1, TurnFields DEF BridgeInv, Ahead
<1>3. PICK place \in {"asking", "placing", "failed"} :
        /\ turn' = [turn EXCEPT ![offset].at = place]
        /\ IF place = "placing" THEN ~busy /\ busy' = TRUE ELSE UNCHANGED busy
  BY DEF Receive, HandleMessage, BeginTurn, Free
<1> DEFINE t == [turn[offset] EXCEPT !.at = place]
<1>4. turn' = [turn EXCEPT ![offset] = t] /\ t \in Turns /\ t.at = place
  BY <1>2, <1>3 DEF Turns
<1>5. Message(t)
  BY <1>2 DEF Message, Turns
<1> HIDE DEF t
<1>6. turn' \in [Ids -> Turns] /\ turn'[offset] = t /\ \A n \in Ids : n # offset => turn'[n] = turn[n]
  BY <1>1, <1>2, <1>4
<1>7. Len(Updates) \in Nat /\ Ids = 1..Len(Updates) /\ offset \in Nat
  BY <1>1, BridgeAssumption DEF Ids
<1>8. BridgeTypeOK'
  <2>1. offset' \in 1..Len(Updates) + 1
    BY <1>1, <1>7
  <2>2. handled' \in [InLife -> Nat] /\ busy' \in BOOLEAN
    <3>1. handled \in [InLife -> Nat] /\ busy \in BOOLEAN /\ <<offset, crashes>> \in InLife
      BY <1>1 DEF BridgeInv, BridgeTypeOK, InLife
    <3>2. handled[<<offset, crashes>>] + 1 \in Nat
      BY <3>1
    <3>3. handled' \in [InLife -> Nat]
      BY <1>1, <3>1, <3>2
    <3>4. busy' \in BOOLEAN
      BY <1>3, <3>1
    <3> QED
      BY <3>3, <3>4
  <2> QED
    BY <1>1, <1>6, <2>1, <2>2 DEF BridgeInv, RoutesInv, BridgeTypeOK
<1>9. Ahead'
  <2> SUFFICES ASSUME NEW m \in Ids, m >= offset' PROVE turn'[m].at = "none"
    BY DEF Ahead
  <2>1. m # offset /\ m >= offset
    BY <1>1, <1>7
  <2> QED
    BY <1>6, <2>1 DEF BridgeInv, Ahead
<1>10. OneTurn'
  BY <1>1, <1>3, <1>4, <1>6 DEF BridgeInv, OneTurn, AtWork
<1>11. Streams'
  <2> SUFFICES ASSUME NEW r \in Streaming, client[r] = "there"
               PROVE  r[2] = crashes /\ turn'[r[1]].at = "streaming"
    BY <1>1 DEF Streams
  <2>1. r[2] = crashes /\ turn[r[1]].at = "streaming" /\ r[1] \in Ids
    BY RequestsOf DEF BridgeInv, Streams
  <2> QED
    BY <1>2, <1>6, <2>1
<1>12. Counted'
  <2>1. confirmed' <= offset'
    BY <1>1, <1>7 DEF BridgeInv, Counted, BridgeTypeOK
  <2>2. ASSUME NEW m \in Ids, NEW k \in 0..MaxCrashes
        PROVE  handled'[<<m, k>>] <= (IF k < crashes \/ (k = crashes /\ m < offset') THEN 1 ELSE 0)
    <3>1. /\ handled[<<m, k>>] <= (IF k < crashes \/ (k = crashes /\ m < offset) THEN 1 ELSE 0)
          /\ handled[<<m, k>>] \in Nat /\ crashes \in Nat /\ k \in Nat
      BY BridgeAssumption DEF BridgeInv, Counted, BridgeTypeOK, InLife
    <3>2. m = offset /\ k = crashes => handled'[<<m, k>>] = handled[<<m, k>>] + 1
      BY <1>1 DEF BridgeInv, BridgeTypeOK, InLife
    <3>3. m # offset \/ k # crashes => handled'[<<m, k>>] = handled[<<m, k>>]
      BY <1>1 DEF BridgeInv, BridgeTypeOK, InLife
    <3>4. CASE m = offset /\ k = crashes
      BY <1>1, <1>7, <3>1, <3>2, <3>4
    <3>5. CASE m # offset \/ k # crashes
      BY <1>1, <1>7, <3>1, <3>3, <3>5
    <3> QED
      BY <3>4, <3>5
  <2> QED
    BY <1>1, <2>1, <2>2 DEF Counted
<1>13. \A n \in Ids : Message(turn'[n])
  BY <1>5, <1>6 DEF BridgeInv
<1> QED
  BY <1>1, <1>8, <1>9, <1>10, <1>11, <1>12, <1>13 DEF BridgeInv

\* The bridge dies and starts again at the offset that was confirmed.
LEMMA CrashKeeps ==
  ASSUME BridgeInv, Crash
  PROVE  BridgeInv'
<1>1. /\ crashes < MaxCrashes /\ crashes' = crashes + 1 /\ offset' = confirmed /\ busy' = FALSE
      /\ turn' = [m \in Ids |-> NewTurn] /\ UNCHANGED <<confirmed, handled>>
      /\ Leave({r \in Requests : request[r] = "open"})
  BY DEF Crash
<1>2. RoutesInv'
  BY <1>1, LeaveKeeps DEF BridgeInv
<1>3. \A r \in Requests : client'[r] # "there"
  BY <1>1 DEF Leave, BridgeInv, RoutesInv
<1>4. Streams'
  BY <1>3, SpawnRoutesAssumption DEF Streams
<1>5. crashes \in Nat /\ MaxCrashes \in Nat
  BY BridgeAssumption DEF BridgeInv, BridgeTypeOK
<1>6. BridgeTypeOK'
  <2>1. crashes' \in 0..MaxCrashes /\ turn' \in [Ids -> Turns]
    BY <1>1, <1>5, NewTurns
  <2> QED
    BY <1>1, <1>2, <2>1 DEF BridgeInv, RoutesInv, BridgeTypeOK
<1>7. \A m \in Ids : turn'[m] = NewTurn
  BY <1>1
<1>8. Ahead' /\ OneTurn' /\ \A m \in Ids : Message(turn'[m])
  BY <1>7 DEF Ahead, OneTurn, AtWork, NewTurn, Message
<1>9. Counted'
  <2>1. ASSUME NEW m \in Ids, NEW k \in 0..MaxCrashes
        PROVE  handled[<<m, k>>] <= (IF k < crashes + 1 \/ (k = crashes + 1 /\ m < confirmed) THEN 1 ELSE 0)
    <3>1. /\ handled[<<m, k>>] <= (IF k < crashes \/ (k = crashes /\ m < offset) THEN 1 ELSE 0)
          /\ handled[<<m, k>>] \in Nat /\ k \in Nat
      BY BridgeAssumption DEF BridgeInv, Counted, BridgeTypeOK, InLife
    <3> QED
      BY <1>5, <3>1
  <2>2. confirmed <= confirmed
    BY DEF BridgeInv, BridgeTypeOK
  <2> QED
    BY <1>1, <2>1, <2>2 DEF Counted
<1> QED
  BY <1>2, <1>4, <1>6, <1>8, <1>9 DEF BridgeInv

\* What the server does for anybody changes no turn.
LEMMA ServerKeeps ==
  ASSUME BridgeInv, NEW r \in Requests, Server(RoutesStep(r))
  PROVE  BridgeInv'
<1>1. RoutesStep(r) /\ UNCHANGED <<poller, busy, turn>>
  BY DEF Server
<1>2. RoutesInv' /\ \A x \in Requests : client'[x] = client[x] \/ client'[x] = "none"
  BY <1>1, StepKeeps DEF BridgeInv
<1>3. Streams'
  BY <1>1, <1>2, SpawnRoutesAssumption DEF BridgeInv, Streams, poller
<1>4. BridgeTypeOK'
  BY <1>1, <1>2 DEF BridgeInv, RoutesInv, BridgeTypeOK, poller
<1> QED
  BY <1>1, <1>2, <1>3, <1>4 DEF BridgeInv, Ahead, OneTurn, Counted, poller

\* One step of any kind keeps the invariant.
LEMMA BridgeInvStep == BridgeInv /\ [BridgeNext]_bridgeVars => BridgeInv'
<1> SUFFICES ASSUME BridgeInv, [BridgeNext]_bridgeVars PROVE BridgeInv'
  OBVIOUS
<1>1. CASE Ask \/ Receive \/ Crash
  BY <1>1, AskKeeps, ReceiveKeeps, CrashKeeps
<1>2. ASSUME NEW m \in Ids, TurnStep(m) PROVE BridgeInv'
  BY <1>2, RouteKeeps, PlaceKeeps, OpenStreamKeeps, TokenKeeps, StreamEndsKeeps, StreamBreaksKeeps,
     EditKeeps, EditLandsKeeps, FinishKeeps DEF TurnStep
<1>3. ASSUME NEW r \in Requests, Server(RoutesStep(r)) PROVE BridgeInv'
  BY <1>3, ServerKeeps
<1>4. CASE UNCHANGED bridgeVars
  <2>1. RoutesInv'
    BY <1>4, RoutesUnchanged DEF BridgeInv, bridgeVars
  <2>2. BridgeTypeOK'
    BY <1>4, <2>1 DEF BridgeInv, RoutesInv, BridgeTypeOK, bridgeVars, poller
  <2> QED
    BY <1>4, <2>1, <2>2 DEF BridgeInv, Ahead, OneTurn, Streams, Counted, bridgeVars, poller, routes
<1> QED
  BY <1>1, <1>2, <1>3, <1>4 DEF BridgeNext

\* For any updates, tokens, crashes and slots: children fit their slots, two never write
\* one session unless the bridge gave the older up, an update is handled once per life
\* of the bridge, and a reply that came through is shown whole (the spawning routes of
\* obs-server.ts, streamReply and the poll loop of obs-bridge-telegram.ts).
THEOREM RoutesAreKept == BridgeSpec => RoutesHold
<1>1. BridgeSpec => []BridgeInv
  BY BridgeInvInit, BridgeInvStep, PTL DEF BridgeSpec
<1>2. BridgeInv => BridgeTypeOK /\ ChildrenBounded
  BY SlotsBound DEF BridgeInv
<1>3. BridgeInv => OneWriter
  <2> SUFFICES ASSUME BridgeInv, NEW r \in Streaming, NEW q \in Streaming,
                      pi[r], pi[q], client[r] # "gone", client[q] # "gone"
               PROVE  r = q
    BY DEF OneWriter
  <2>1. \A x \in Streaming : x[1] \in Ids /\ x = <<x[1], x[2]>>
    BY RequestsOf
  <2>2. request[r] = "open" /\ request[q] = "open"
    BY SpawnRoutesAssumption DEF BridgeInv, RoutesInv, Outlived
  <2>3. client[r] = "there" /\ client[q] = "there"
    <3>1. client \in [Requests -> {"none", "there", "gone"}]
      BY DEF BridgeInv, RoutesInv, RoutesTypeOK
    <3>2. client[r] # "none" /\ client[q] # "none"
      BY <2>2, SpawnRoutesAssumption DEF BridgeInv, RoutesInv
    <3> QED
      BY <3>1, <3>2, SpawnRoutesAssumption
  <2>4. /\ r[2] = crashes /\ q[2] = crashes
        /\ turn[r[1]].at \in AtWork /\ turn[q[1]].at \in AtWork
    BY <2>3 DEF BridgeInv, Streams, AtWork
  <2>5. r[1] = q[1]
    BY <2>1, <2>4 DEF BridgeInv, OneTurn
  <2> QED
    BY <2>1, <2>4, <2>5
<1>4. BridgeInv => \A i \in InLife : handled[i] <= 1
  <2> SUFFICES ASSUME BridgeInv, NEW i \in InLife PROVE handled[i] <= 1
    OBVIOUS
  <2>1. PICK m \in Ids, k \in 0..MaxCrashes : i = <<m, k>>
    BY DEF InLife
  <2>2. /\ handled[i] <= (IF k < crashes \/ (k = crashes /\ m < offset) THEN 1 ELSE 0)
        /\ handled[i] \in Nat
    BY <2>1 DEF BridgeInv, Counted, BridgeTypeOK
  <2> QED
    BY <2>2
<1>6. BridgeInit => confirmed <= offset
  BY DEF BridgeInit
<1>7. BridgeInv /\ confirmed <= offset /\ [BridgeNext]_bridgeVars => (confirmed <= offset)'
  <2> SUFFICES ASSUME BridgeInv, confirmed <= offset, [BridgeNext]_bridgeVars
               PROVE  confirmed' <= offset'
    OBVIOUS
  <2>0. confirmed \in Int /\ offset \in Int
    BY DEF BridgeInv, BridgeTypeOK
  <2>1. CASE Receive
    BY <2>0, <2>1 DEF Receive, NextOffset
  <2>2. CASE Ask
    BY <2>0, <2>2 DEF Ask
  <2>3. CASE Crash
    BY <2>0, <2>3 DEF Crash
  <2>4. CASE \E n \in Ids : TurnStep(n)
    BY <2>4 DEF TurnStep, AskRoute, Routed, RouteTimesOut, Place, OpenStream, Token, StreamEnds,
                StreamBreaks, Edit, EditLands, Finish, poller
  <2>5. CASE \E r \in Requests : Server(RoutesStep(r))
    BY <2>5 DEF Server, poller
  <2>6. CASE UNCHANGED bridgeVars
    BY <2>6 DEF bridgeVars, poller
  <2> QED
    BY <2>1, <2>2, <2>3, <2>4, <2>5, <2>6 DEF BridgeNext
<1>8. BridgeInv /\ confirmed <= offset /\ [BridgeNext]_bridgeVars =>
        [\A i \in InLife : i[1] < confirmed => handled'[i] = handled[i]]_bridgeVars
  <2> SUFFICES ASSUME BridgeInv, confirmed <= offset, BridgeNext, NEW i \in InLife, i[1] < confirmed
               PROVE  handled'[i] = handled[i]
    OBVIOUS
  <2>1. CASE Receive
    <3>1. confirmed \in Int /\ offset \in Int /\ i[1] \in Int
      BY RequestsOf DEF BridgeInv, BridgeTypeOK, InLife
    <3>2. i # <<offset, crashes>>
      BY <3>1
    <3> QED
      BY <2>1, <3>2 DEF Receive, BridgeInv, BridgeTypeOK
  <2>2. CASE Ask
    BY <2>2 DEF Ask
  <2>3. CASE Crash
    BY <2>3 DEF Crash
  <2>4. CASE \E n \in Ids : TurnStep(n)
    BY <2>4 DEF TurnStep, AskRoute, Routed, RouteTimesOut, Place, OpenStream, Token, StreamEnds,
                StreamBreaks, Edit, EditLands, Finish, poller
  <2>5. CASE \E r \in Requests : Server(RoutesStep(r))
    BY <2>5 DEF Server, poller
  <2> QED
    BY <2>1, <2>2, <2>3, <2>4, <2>5 DEF BridgeNext
<1>5. BridgeInv => [\A m \in Ids : Finish(m) /\ ~turn[m].lost => turn[m].shown = turn[m].body]_bridgeVars
  <2> SUFFICES ASSUME BridgeInv, NEW m \in Ids, Finish(m), ~turn[m].lost
               PROVE  turn[m].shown = turn[m].body
    OBVIOUS
  <2>1. Message(turn[m]) /\ turn[m] \in Turns
    BY TurnFields
  <2>2. turn[m].at = "finishing" /\ turn[m].edits = 0
    BY DEF Finish, At
  <2> QED
    BY <2>1, <2>2 DEF Message
<1> QED
  BY <1>1, <1>2, <1>3, <1>4, <1>5, <1>6, <1>7, <1>8, PTL DEF RoutesHold, HandledOnce, ReplyWhole, BridgeSpec

-----------------------------------------------------------------------------
\* The launcher and the lock.

Places == {"unborn", "create", "read", "match", "unlink", "runs", "signalled", "gone"}

LaunchTypeOK ==
  /\ installed \in [pi : BOOLEAN, deps : BOOLEAN, env : BOOLEAN, done : BOOLEAN]
  /\ term \in [Terminals -> [at : {"idle", "pi", "free"}, pid : Nat]]
  /\ started \in Nat /\ disturbed \in BOOLEAN
  /\ servers \subseteq [pid : 1..started, owner : Terminals \cup {Detached}, bound : BOOLEAN]
  /\ bridge \in [Bridges -> [at : Places, read : Bridges \cup {"nobody"}, tries : Nat]]
  /\ pidfile \in Bridges \cup {"nobody"}

\* A terminal that runs pi knows the pid of the one server it owns, and no other's.
OwnersKnown ==
  /\ \A t \in Terminals : term[t].pid <= started /\ (term[t].at # "pi" => term[t].pid = 0)
  /\ \A s \in servers, t \in Terminals : s.owner = t <=> term[t].pid = s.pid

\* While nobody interferes and nobody gives up, the pid file names the bridge that runs,
\* and none is ever found dead.
LockTells ==
  ~disturbed /\ ~GaveUpOnLock =>
    /\ RunningBridges = {pidfile} \cap Bridges
    /\ \A b \in Bridges : bridge[b].at \in {"unborn", "create", "read", "runs", "gone"}

LaunchInv == LaunchTypeOK /\ ReadyToLaunch /\ OwnersKnown /\ LockTells

-----------------------------------------------------------------------------
\* Before install.sh nothing runs.
LEMMA LaunchInvInit == LaunchInit => LaunchInv
<1> SUFFICES ASSUME LaunchInit PROVE LaunchInv
  OBVIOUS
<1> USE DEF LaunchInit, AtPrompt, Unborn, Detached
<1>1. LaunchTypeOK
  BY DEF LaunchTypeOK, Places
<1>2. ReadyToLaunch
  BY DEF ReadyToLaunch
<1>3. OwnersKnown
  BY DEF OwnersKnown
<1>4. LockTells
  BY LauncherAssumption DEF LockTells, RunningBridges
<1> QED
  BY <1>1, <1>2, <1>3, <1>4 DEF LaunchInv

\* What an installation finds and leaves.
LEMMA InstallKeeps ==
  ASSUME LaunchInv, NEW ok \in [pi : BOOLEAN, deps : BOOLEAN], Install(ok)
  PROVE  LaunchInv'
<1> USE DEF LaunchInv
<1>1. LaunchTypeOK'
  BY DEF LaunchTypeOK, Install
<1>2. ReadyToLaunch'
  BY DEF LaunchTypeOK, ReadyToLaunch, Install
<1>3. OwnersKnown'
  BY DEF OwnersKnown, Install
<1>4. LockTells'
  BY DEF LockTells, RunningBridges, GaveUpOnLock, Install
<1> QED
  BY <1>1, <1>2, <1>3, <1>4

\* A step of the servers leaves the bridges' lock alone.
LEMMA ServersApart ==
  ASSUME LaunchInv, UNCHANGED <<installed, bridge, pidfile, disturbed>>
  PROVE  ReadyToLaunch' /\ LockTells'
BY DEF LaunchInv, ReadyToLaunch, LockTells, RunningBridges, GaveUpOnLock

\* The process that starts a server for t, or for nobody.
LEMMA ServerStarts ==
  ASSUME LaunchInv, NEW owner \in Terminals \cup {Detached}, StartServer(owner),
         UNCHANGED <<installed, pidfile, disturbed>>,
         bridge' \in [Bridges -> [at : Places, read : Bridges \cup {"nobody"}, tries : Nat]],
         \/ owner = Detached /\ UNCHANGED term
         \/ \E t \in Terminals :
              /\ owner = Detached /\ term[t].at = "free"
              /\ term' = [term EXCEPT ![t] = AtPrompt]
         \/ /\ owner \in Terminals /\ term[owner].at = "idle"
            /\ term' = [term EXCEPT ![owner] = [at |-> "pi", pid |-> started + 1]]
  PROVE  LaunchTypeOK' /\ OwnersKnown'
<1> USE DEF LaunchInv, AtPrompt
<1>0. started \in Nat /\ started' = started + 1
  BY DEF LaunchTypeOK, StartServer
<1>1. LaunchTypeOK'
  <2>1. term' \in [Terminals -> [at : {"idle", "pi", "free"}, pid : Nat]]
    BY <1>0 DEF LaunchTypeOK
  <2>2. servers' \subseteq [pid : 1..started', owner : Terminals \cup {Detached}, bound : BOOLEAN]
    <3>1. 1..started \subseteq 1..started' /\ started + 1 \in 1..started'
      BY <1>0
    <3>2. servers' = servers \cup {[pid |-> started + 1, owner |-> owner, bound |-> FALSE]}
      BY DEF StartServer
    <3>3. ASSUME NEW s \in servers
          PROVE  s \in [pid : 1..started', owner : Terminals \cup {Detached}, bound : BOOLEAN]
      BY <3>1 DEF LaunchTypeOK
    <3>4. [pid |-> started + 1, owner |-> owner, bound |-> FALSE]
             \in [pid : 1..started', owner : Terminals \cup {Detached}, bound : BOOLEAN]
      BY <3>1
    <3> QED
      BY <3>2, <3>3, <3>4
  <2> QED
    BY <1>0, <2>1, <2>2 DEF LaunchTypeOK
<1>2. OwnersKnown'
  <2>1. ASSUME NEW t \in Terminals
        PROVE  term'[t].pid <= started' /\ (term'[t].at # "pi" => term'[t].pid = 0)
    BY <1>0 DEF LaunchTypeOK, OwnersKnown
  <2>2. ASSUME NEW s \in servers', NEW t \in Terminals PROVE s.owner = t <=> term'[t].pid = s.pid
    <3>1. CASE s \in servers
      <4>1. s.pid \in 1..started /\ term[t].pid <= started /\ term[t].pid \in Nat
        BY <3>1 DEF LaunchTypeOK, OwnersKnown
      <4>2. s.owner = t <=> term[t].pid = s.pid
        BY <3>1 DEF OwnersKnown
      <4>3. CASE term'[t] = term[t]
        BY <4>2, <4>3
      <4>4. CASE term'[t] = AtPrompt /\ term[t].at = "free"
        BY <4>1, <4>2, <4>4 DEF OwnersKnown
      <4>5. CASE term'[t] = [at |-> "pi", pid |-> started + 1] /\ term[t].at = "idle"
        BY <1>0, <4>1, <4>2, <4>5 DEF OwnersKnown
      <4> QED
        BY <4>3, <4>4, <4>5 DEF LaunchTypeOK
    <3>2. CASE s = [pid |-> started + 1, owner |-> owner, bound |-> FALSE]
      <4>1. term[t].pid <= started /\ term[t].pid \in Nat
        BY DEF LaunchTypeOK, OwnersKnown
      <4>2. CASE owner = Detached
        BY <1>0, <3>2, <4>1, <4>2, LauncherAssumption DEF LaunchTypeOK, Detached
      <4>3. CASE owner \in Terminals
        BY <1>0, <3>2, <4>1, <4>3, LauncherAssumption DEF LaunchTypeOK, Detached
      <4> QED
        BY <4>2, <4>3
    <3> QED
      BY <3>1, <3>2 DEF StartServer
  <2> QED
    BY <2>1, <2>2 DEF OwnersKnown
<1> QED
  BY <1>1, <1>2

\* A terminal changes hands or a server ends, and none is started.
LEMMA ServersEnd ==
  ASSUME LaunchInv, UNCHANGED <<installed, started, pidfile, disturbed, bridge>>,
         term' \in [Terminals -> [at : {"idle", "pi", "free"}, pid : Nat]],
         \A s \in servers' : \E o \in servers : o.pid = s.pid /\ o.owner = s.owner
                                                /\ s = [o EXCEPT !.bound = s.bound] /\ s.bound \in BOOLEAN,
         \A t \in Terminals :
           \/ term'[t].pid = term[t].pid /\ (term'[t].at # "pi" => term[t].at # "pi")
           \/ term'[t] = AtPrompt /\ \A s \in servers' : s.pid # term[t].pid
  PROVE  LaunchTypeOK' /\ OwnersKnown'
<1> USE DEF LaunchInv
<1>1. servers' \subseteq [pid : 1..started, owner : Terminals \cup {Detached}, bound : BOOLEAN]
  BY DEF LaunchTypeOK
<1>2. LaunchTypeOK'
  BY <1>1 DEF LaunchTypeOK
<1>3. ASSUME NEW t \in Terminals
      PROVE  term'[t].pid <= started /\ (term'[t].at # "pi" => term'[t].pid = 0)
  BY DEF LaunchTypeOK, OwnersKnown, AtPrompt
<1>4. ASSUME NEW s \in servers', NEW t \in Terminals PROVE s.owner = t <=> term'[t].pid = s.pid
  <2>1. PICK o \in servers : o.pid = s.pid /\ o.owner = s.owner
    OBVIOUS
  <2>2. s.owner = t <=> term[t].pid = s.pid
    BY <2>1 DEF OwnersKnown
  <2>3. s.pid > 0
    BY <1>1 DEF LaunchTypeOK
  <2> QED
    BY <2>2, <2>3 DEF AtPrompt
<1> QED
  BY <1>2, <1>3, <1>4 DEF OwnersKnown

\* The terminals' and the servers' own steps.
LEMMA ServerStepsKeep ==
  ASSUME LaunchInv,
         \/ \E s \in servers : Bind(s)
         \/ \E t \in Terminals :
              \/ \E obs \in BOOLEAN : RunPi(t, obs)
              \/ PiEnds(t) \/ ServerOnly(t) \/ Background(t)
              \/ \E again \in BOOLEAN : StopServer(t, again)
              \/ RestartServer(t)
  PROVE  LaunchInv'
<1> USE DEF LaunchInv
<1>0. bridge \in [Bridges -> [at : Places, read : Bridges \cup {"nobody"}, tries : Nat]]
  BY DEF LaunchTypeOK
<1>1. ASSUME NEW s \in servers, Bind(s) PROVE LaunchTypeOK' /\ OwnersKnown'
  <2>1. ASSUME NEW x \in servers'
        PROVE  \E o \in servers : o.pid = x.pid /\ o.owner = x.owner
                                  /\ x = [o EXCEPT !.bound = x.bound] /\ x.bound \in BOOLEAN
    <3>1. CASE x \in servers
      BY <3>1 DEF LaunchTypeOK
    <3>2. CASE x = [s EXCEPT !.bound = TRUE]
      BY <3>2 DEF LaunchTypeOK
    <3> QED
      BY <1>1, <3>1, <3>2 DEF Bind
  <2> QED
    BY <1>1, <2>1, ServersEnd DEF Bind, LaunchTypeOK
<1>2. ASSUME NEW t \in Terminals, NEW obs \in BOOLEAN, RunPi(t, obs) PROVE LaunchTypeOK' /\ OwnersKnown'
  <2>1. CASE obs /\ installed.deps
    BY <1>0, <1>2, <2>1, ServerStarts DEF RunPi
  <2>2. CASE ~ (obs /\ installed.deps)
    <3>1. term' = [term EXCEPT ![t] = [at |-> "pi", pid |-> 0]] /\ term[t].at = "idle" /\ servers' = servers
      BY <1>2, <2>2 DEF RunPi, NoServer
    <3>2. \A u \in Terminals : term'[u].pid = term[u].pid /\ (term'[u].at # "pi" => term[u].at # "pi")
      BY <3>1 DEF LaunchTypeOK, OwnersKnown
    <3>3. \A x \in servers' : x = [x EXCEPT !.bound = x.bound] /\ x.bound \in BOOLEAN
      BY <3>1 DEF LaunchTypeOK
    <3>4. term' \in [Terminals -> [at : {"idle", "pi", "free"}, pid : Nat]]
      BY <3>1 DEF LaunchTypeOK
    <3> QED
      BY <1>2, <2>2, <3>1, <3>2, <3>3, <3>4, ServersEnd DEF RunPi, NoServer
  <2> QED
    BY <2>1, <2>2
<1>3. ASSUME NEW t \in Terminals, PiEnds(t) PROVE LaunchTypeOK' /\ OwnersKnown'
  <2>1. \A x \in servers' : x \in servers /\ x = [x EXCEPT !.bound = x.bound] /\ x.bound \in BOOLEAN
    BY <1>3 DEF PiEnds, LaunchTypeOK
  <2>2. term' \in [Terminals -> [at : {"idle", "pi", "free"}, pid : Nat]]
    BY <1>3 DEF PiEnds, LaunchTypeOK, AtPrompt
  <2>3. ASSUME NEW u \in Terminals
        PROVE  \/ term'[u].pid = term[u].pid /\ (term'[u].at # "pi" => term[u].at # "pi")
               \/ term'[u] = AtPrompt /\ \A s \in servers' : s.pid # term[u].pid
    BY <1>3 DEF PiEnds, LaunchTypeOK
  <2> QED
    BY <1>3, <2>1, <2>2, <2>3, ServersEnd DEF PiEnds
<1>4. ASSUME NEW t \in Terminals, ServerOnly(t) \/ Background(t) PROVE LaunchTypeOK' /\ OwnersKnown'
  BY <1>0, <1>4, ServerStarts DEF ServerOnly, Background
<1>5. ASSUME NEW t \in Terminals, NEW again \in BOOLEAN, StopServer(t, again)
      PROVE  LaunchTypeOK' /\ OwnersKnown'
  <2>1. term' \in [Terminals -> [at : {"idle", "pi", "free"}, pid : Nat]]
    BY <1>5 DEF StopServer, LaunchTypeOK
  <2>2. ASSUME NEW u \in Terminals
        PROVE  term'[u].pid = term[u].pid /\ (term'[u].at # "pi" => term[u].at # "pi")
    BY <1>5 DEF StopServer, LaunchTypeOK
  <2>3. servers' = {}
    BY <1>5 DEF StopServer
  <2> QED
    BY <1>5, <2>1, <2>2, <2>3, ServersEnd DEF StopServer
<1>6. ASSUME NEW t \in Terminals, RestartServer(t) PROVE LaunchTypeOK' /\ OwnersKnown'
  <2>1. CASE installed.deps
    BY <1>0, <1>6, <2>1, ServerStarts DEF RestartServer
  <2>2. CASE ~installed.deps
    <3>1. term' = [term EXCEPT ![t] = AtPrompt] /\ term[t].at = "free" /\ servers' = servers
      BY <1>6, <2>2 DEF RestartServer, NoServer
    <3>2. \A u \in Terminals : term'[u].pid = term[u].pid /\ (term'[u].at # "pi" => term[u].at # "pi")
      BY <3>1 DEF LaunchTypeOK, OwnersKnown, AtPrompt
    <3>3. \A x \in servers' : x = [x EXCEPT !.bound = x.bound] /\ x.bound \in BOOLEAN
      BY <3>1 DEF LaunchTypeOK
    <3>4. term' \in [Terminals -> [at : {"idle", "pi", "free"}, pid : Nat]]
      BY <3>1 DEF LaunchTypeOK, AtPrompt
    <3> QED
      BY <1>6, <2>2, <3>1, <3>2, <3>3, <3>4, ServersEnd DEF RestartServer, NoServer
  <2> QED
    BY <2>1, <2>2
<1>7. UNCHANGED <<installed, bridge, pidfile, disturbed>>
  BY DEF Bind, RunPi, PiEnds, ServerOnly, Background, StopServer, RestartServer
<1> QED
  BY <1>1, <1>2, <1>3, <1>4, <1>5, <1>6, <1>7, ServersApart

-----------------------------------------------------------------------------
\* The bridges.  Only one that starts can touch the servers.
LEMMA BridgesApart ==
  ASSUME LaunchInv, OthersStay, disturbed' \in BOOLEAN, pidfile' \in Bridges \cup {"nobody"},
         bridge' \in [Bridges -> [at : Places, read : Bridges \cup {"nobody"}, tries : Nat]],
         NoServer \/ (StartServer(Detached) /\ UNCHANGED <<pidfile, disturbed>>)
  PROVE  LaunchTypeOK' /\ ReadyToLaunch' /\ OwnersKnown'
<1> USE DEF LaunchInv
<1>1. ReadyToLaunch'
  BY DEF ReadyToLaunch, OthersStay
<1>2. CASE NoServer
  <2>1. LaunchTypeOK'
    BY <1>2 DEF LaunchTypeOK, OthersStay, NoServer
  <2>2. OwnersKnown'
    BY <1>2 DEF OwnersKnown, OthersStay, NoServer
  <2> QED
    BY <1>1, <2>1, <2>2
<1>3. CASE StartServer(Detached) /\ UNCHANGED <<pidfile, disturbed>>
  BY <1>1, <1>3, ServerStarts DEF OthersStay
<1> QED
  BY <1>2, <1>3

\* A step of one bridge before the lock is its own or somebody else's.
LEMMA LockSteps ==
  ASSUME LaunchInv, NEW b \in Bridges,
         StartBridge(b) \/ Create(b) \/ ReadHolder(b) \/ Match(b) \/ Unlink(b)
         \/ BridgeExits(b) \/ BridgeKilled(b) \/ StopBridge
  PROVE  LaunchInv'
<1> USE DEF LaunchInv
<1> DEFINE Bridge == [at : Places, read : Bridges \cup {"nobody"}, tries : Nat]
<1>0. bridge \in [Bridges -> Bridge] /\ pidfile \in Bridges \cup {"nobody"} /\ disturbed \in BOOLEAN
  BY DEF LaunchTypeOK
<1>1. /\ bridge' \in [Bridges -> Bridge] /\ pidfile' \in Bridges \cup {"nobody"} /\ disturbed' \in BOOLEAN
      /\ OthersStay /\ (NoServer \/ (StartServer(Detached) /\ UNCHANGED <<pidfile, disturbed>>))
  <2>0. Again(b) \in Bridge
    <3>1. bridge[b] \in Bridge /\ bridge[b].tries + 1 \in Nat
      BY <1>0
    <3> QED
      BY <3>1 DEF Places, Again
  <2>1. CASE StartBridge(b)
    BY <1>0, <2>1 DEF StartBridge, Places
  <2>2. CASE Create(b)
    BY <1>0, <2>2 DEF Create, Places
  <2>3. CASE ReadHolder(b)
    <3> DEFINE new == bridge'[b]
    <3>1. new \in Bridge
      BY <1>0, <2>0, <2>3 DEF ReadHolder, Places
    <3>2. bridge' = [bridge EXCEPT ![b] = new]
      BY <1>0, <2>3 DEF ReadHolder
    <3> HIDE DEF new
    <3> QED
      BY <1>0, <2>3, <3>1, <3>2 DEF ReadHolder
  <2>4. CASE Match(b)
    BY <1>0, <2>0, <2>4 DEF Match, Places
  <2>5. CASE Unlink(b)
    BY <1>0, <2>0, <2>5 DEF Unlink, Places
  <2>6. CASE BridgeExits(b)
    BY <1>0, <2>6 DEF BridgeExits, Places
  <2>7. CASE BridgeKilled(b)
    BY <1>0, <2>7 DEF BridgeKilled, Places
  <2>8. CASE StopBridge
    <3>1. ASSUME NEW x \in Bridges PROVE bridge'[x] \in Bridge
      BY <1>0, <2>8 DEF StopBridge, Places
    <3>2. bridge' = [x \in Bridges |-> bridge'[x]]
      BY <2>8 DEF StopBridge
    <3> QED
      BY <1>0, <2>8, <3>1, <3>2 DEF StopBridge
  <2> QED
    BY <2>1, <2>2, <2>3, <2>4, <2>5, <2>6, <2>7, <2>8
<1>2. LaunchTypeOK' /\ ReadyToLaunch' /\ OwnersKnown'
  BY <1>1, BridgesApart
<1>3. LockTells'
  <2> SUFFICES ASSUME ~disturbed', ~GaveUpOnLock'
               PROVE  /\ RunningBridges' = {pidfile'} \cap Bridges
                      /\ \A x \in Bridges : bridge'[x].at \in {"unborn", "create", "read", "runs", "gone"}
    BY DEF LockTells
  <2> HIDE DEF Bridge
  <2>0. \A x \in Bridges : bridge[x].tries \in Nat /\ bridge'[x].tries \in Nat
    BY <1>0, <1>1 DEF Bridge
  <2>1. ~disturbed
    BY DEF StartBridge, Create, ReadHolder, Match, Unlink, BridgeExits, BridgeKilled, StopBridge
  <2>2. ~BridgeKilled(b) /\ ~StopBridge
    BY DEF BridgeKilled, StopBridge
  <2>3. ~GaveUpOnLock
    <3>0. Again(b).tries = bridge[b].tries + 1
      BY <1>0 DEF Bridge, Again
    <3>1. ASSUME NEW x \in Bridges PROVE bridge[x].tries <= bridge'[x].tries
      <4>1. bridge[b] \in Bridge
        BY <1>0
      <4>2. bridge'[b].tries = bridge[b].tries \/ bridge'[b].tries = bridge[b].tries + 1
        <5>1. CASE ReadHolder(b)
          BY <1>0, <3>0, <4>1, <5>1 DEF Bridge, ReadHolder
        <5>2. CASE Match(b)
          BY <1>0, <3>0, <4>1, <5>2 DEF Bridge, Match
        <5>3. CASE Unlink(b)
          BY <1>0, <3>0, <4>1, <5>3 DEF Bridge, Unlink
        <5> QED
          BY <1>0, <2>2, <5>1, <5>2, <5>3 DEF Bridge, StartBridge, Create, BridgeExits
      <4>3. x # b => bridge'[x] = bridge[x]
        BY <1>0, <2>2 DEF StartBridge, Create, ReadHolder, Match, Unlink, BridgeExits
      <4> QED
        BY <2>0, <4>2, <4>3
    <3> QED
      BY <2>0, <3>1 DEF GaveUpOnLock
  <2>4. /\ RunningBridges = {pidfile} \cap Bridges
        /\ \A x \in Bridges : bridge[x].at \in {"unborn", "create", "read", "runs", "gone"}
    BY <2>1, <2>3 DEF LockTells
  <2>5. CASE StartBridge(b)
    BY <1>0, <2>4, <2>5 DEF StartBridge, RunningBridges, Bridge
  <2>6. CASE Create(b)
    <3>1. CASE pidfile = "nobody"
      BY <1>0, <2>4, <2>6, <3>1, LauncherAssumption DEF Create, RunningBridges, Bridge
    <3>2. CASE pidfile # "nobody"
      BY <1>0, <2>4, <2>6, <3>2 DEF Create, RunningBridges, Bridge
    <3> QED
      BY <3>1, <3>2
  <2>7. CASE ReadHolder(b)
    <3>1. CASE pidfile = "nobody"
      <4>1. bridge' = [bridge EXCEPT ![b] = Again(b)]
        BY <2>7, <3>1 DEF ReadHolder
      <4>2. bridge'[b].tries = bridge[b].tries + 1
        BY <1>0, <4>1 DEF Bridge, Again
      <4>3. bridge[b].tries # 2
        BY <2>0, <4>2 DEF GaveUpOnLock
      <4>4. Again(b).at = "create"
        BY <1>0, <4>3 DEF Again, Bridge
      <4>5. bridge[b].at = "read" /\ bridge'[b].at = "create" /\ UNCHANGED pidfile
        BY <1>0, <2>7, <4>1, <4>4 DEF ReadHolder
      <4>6. \A x \in Bridges : x # b => bridge'[x] = bridge[x]
        BY <1>0, <4>1
      <4> QED
        BY <2>4, <4>5, <4>6 DEF RunningBridges
    <3>2. CASE pidfile # "nobody"
      <4>1. pidfile \in RunningBridges /\ pidfile # b
        BY <1>0, <2>4, <2>7, <3>2 DEF ReadHolder, RunningBridges
      <4>2. Alive(pidfile)
        BY <4>1 DEF Alive, RunningBridges
      <4>3. bridge' = [bridge EXCEPT ![b] = [@ EXCEPT !.at = "gone"]]
        BY <2>7, <3>2, <4>1, <4>2 DEF ReadHolder
      <4>4. bridge[b].at = "read" /\ bridge'[b].at = "gone" /\ UNCHANGED pidfile
        <5>1. bridge'[b] = [bridge[b] EXCEPT !.at = "gone"]
          BY <1>0, <4>3
        <5>2. bridge[b] \in Bridge
          BY <1>0
        <5>3. bridge'[b].at = "gone"
          BY <5>1, <5>2 DEF Bridge
        <5> QED
          BY <2>7, <5>3 DEF ReadHolder
      <4>5. \A x \in Bridges : x # b => bridge'[x] = bridge[x]
        BY <1>0, <4>3
      <4> QED
        BY <2>4, <4>4, <4>5 DEF RunningBridges
    <3> QED
      BY <3>1, <3>2
  <2>8. CASE Match(b) \/ Unlink(b)
    BY <2>4, <2>8 DEF Match, Unlink
  <2>9. CASE BridgeExits(b)
    <3>1. b \in RunningBridges
      BY <2>4, <2>9 DEF BridgeExits, RunningBridges
    <3>2. RunningBridges = {b}
      BY <2>4, <3>1
    <3>3. pidfile' = "nobody" /\ bridge' = [bridge EXCEPT ![b].at = "gone"]
      BY <2>9 DEF BridgeExits
    <3>4. ASSUME NEW x \in Bridges PROVE bridge'[x].at # "runs"
      BY <1>0, <3>2, <3>3 DEF RunningBridges, Bridge
    <3> QED
      BY <1>0, <2>4, <3>3, <3>4, LauncherAssumption DEF RunningBridges, Bridge
  <2> QED
    BY <2>2, <2>5, <2>6, <2>7, <2>8, <2>9
<1> QED
  BY <1>2, <1>3

\* One step of any kind keeps the invariant.
LEMMA LaunchInvStep == LaunchInv /\ [LaunchNext]_launchVars => LaunchInv'
<1> SUFFICES ASSUME LaunchInv, [LaunchNext]_launchVars PROVE LaunchInv'
  OBVIOUS
<1>1. CASE \E ok \in [pi : BOOLEAN, deps : BOOLEAN] : Install(ok)
  BY <1>1, InstallKeeps
<1>2. CASE \/ \E s \in servers : Bind(s)
           \/ \E t \in Terminals :
                \/ \E obs \in BOOLEAN : RunPi(t, obs)
                \/ PiEnds(t) \/ ServerOnly(t) \/ Background(t)
                \/ \E again \in BOOLEAN : StopServer(t, again)
                \/ RestartServer(t)
  BY <1>2, ServerStepsKeep
<1>3. CASE \E b \in Bridges :
             StartBridge(b) \/ Create(b) \/ ReadHolder(b) \/ Match(b) \/ Unlink(b)
             \/ BridgeExits(b) \/ BridgeKilled(b)
  BY <1>3, LockSteps
<1>4. CASE StopBridge
  BY <1>4, LockSteps DEF StopBridge
<1>5. CASE UNCHANGED launchVars
  BY <1>5 DEF launchVars, LaunchInv, LaunchTypeOK, ReadyToLaunch, OwnersKnown, LockTells, RunningBridges,
              GaveUpOnLock
<1> QED
  BY <1>1, <1>2, <1>3, <1>4, <1>5 DEF LaunchNext

\* For any terminals, bridges and servers: what a launch needs is there once install.sh
\* has completed, a session's server ends with it and nobody else's does, and one bridge
\* runs (run.sh, install.sh, acquireBridgeLock).
THEOREM LaunchesHold == LaunchSpec => LaunchHolds
<1>1. LaunchSpec => []LaunchInv
  BY LaunchInvInit, LaunchInvStep, PTL DEF LaunchSpec
<1>2. LaunchInv => ReadyToLaunch /\ OwnServerEnds /\ OneBridge
  <2> SUFFICES ASSUME LaunchInv PROVE ReadyToLaunch /\ OwnServerEnds /\ OneBridge
    OBVIOUS
  <2>1. ReadyToLaunch /\ OwnServerEnds
    BY DEF LaunchInv, OwnersKnown, OwnServerEnds
  <2>2. ASSUME ~disturbed, ~GaveUpOnLock PROVE Cardinality(RunningBridges) <= 1
    <3>1. RunningBridges = {pidfile} \/ RunningBridges = {}
      BY <2>2 DEF LaunchInv, LockTells
    <3>2. Cardinality({pidfile}) = 1 /\ Cardinality({}) = 0
      BY FS_Singleton, FS_EmptySet
    <3> QED
      BY <3>1, <3>2
  <2> QED
    BY <2>1, <2>2 DEF OneBridge
<1>3. LaunchInv /\ [LaunchNext]_launchVars =>
        [\A s \in servers, t \in Terminals :
           s.bound /\ s.owner # t /\ term[t].at = "pi" /\ term'[t].at = "idle" => s \in servers']_launchVars
  <2> SUFFICES ASSUME LaunchInv, LaunchNext, NEW s \in servers, NEW t \in Terminals,
                      s.bound, s.owner # t, term[t].at = "pi", term'[t].at = "idle"
               PROVE  s \in servers'
    BY DEF launchVars
  <2>0. term \in [Terminals -> [at : {"idle", "pi", "free"}, pid : Nat]]
    BY DEF LaunchInv, LaunchTypeOK
  <2>1. term' # term
    OBVIOUS
  <2>2. PICK u \in Terminals :
           \/ \E obs \in BOOLEAN : RunPi(u, obs)
           \/ PiEnds(u)
           \/ \E again \in BOOLEAN : StopServer(u, again)
           \/ RestartServer(u)
    BY <2>1 DEF LaunchNext, Install, Bind, ServerOnly, Background, StartBridge, Create, ReadHolder, Match,
                Unlink, BridgeExits, BridgeKilled, StopBridge, OthersStay
  <2>3. u = t
    BY <2>0, <2>2 DEF RunPi, PiEnds, StopServer, RestartServer
  <2>4. PiEnds(t)
    BY <2>0, <2>2, <2>3 DEF RunPi, StopServer, RestartServer
  <2>5. s.pid # term[t].pid
    BY DEF LaunchInv, OwnersKnown
  <2> QED
    BY <2>4, <2>5 DEF PiEnds
<1> QED
  BY <1>1, <1>2, <1>3, PTL DEF LaunchSpec, LaunchHolds, OthersServersStay
=============================================================================
