------------------------------- MODULE Bridge -------------------------------
(***************************************************************************)
(* The Telegram bridge (obs/obs-bridge-telegram.ts, obs-bridge-core.ts)    *)
(* before the routes of the obs server: it polls for updates, handles each *)
(* without waiting for the last, and streams the reply of /api/chat or     *)
(* /api/dispatch into one message by editing it; /do asks /api/select      *)
(* first.  One person's chat; the commands that only read, /reset and      *)
(* /attach are not modelled, and /do always ends in a chat.                *)
(***************************************************************************)
EXTENDS SpawnRoutes, Integers, Sequences

CONSTANTS Updates,               \* a sequence of "chat", "dispatch" and "do"
          MaxTokens, MaxCrashes  \* bounds

ASSUME BridgeAssumption ==
  /\ Updates \in Seq({"chat", "dispatch", "do"}) /\ MaxTokens \in Nat /\ MaxCrashes \in Nat
  /\ Streaming = (DOMAIN Updates) \X (0..MaxCrashes)
  /\ Requests \ Streaming = (DOMAIN Updates) \X (0..MaxCrashes) \X {"select"}
  /\ Dispatching = {r \in Streaming : Updates[r[1]] = "dispatch"}
  /\ Sessions = {"chat", "dispatch"}

VARIABLES
  offset,      \* the bridge's offset: the first update it has not had
  confirmed,   \* Telegram's: those before it are not delivered again
  handled,     \* history: how often an update was handled in each life of the bridge
  crashes,
  busy, turn   \* is a turn in flight; the turn of each update

poller == <<offset, confirmed, handled, crashes>>
bridgeVars == <<routes, poller, busy, turn>>

Ids == DOMAIN Updates
InLife == Ids \X (0..MaxCrashes)

\* renderStream: a cost, an error or an empty reply make the last body another one.
Bodies == [text : 0..MaxTokens, ending : BOOLEAN]
NoBody == [text |-> -1, ending |-> FALSE]
Placeholder == [text |-> 0, ending |-> FALSE]

\* body: what the reply is so far.  edits: how many are queued on the chain.  flying: the
\* body of the one under way.  lastSent, shown: the body last handed to Telegram, and the
\* one it shows.  lost: history, an edit failed.
Turns ==
  [at : {"none", "asking", "routing", "placing", "opening", "streaming", "finishing", "over", "failed"},
   body : Bodies, edits : 0..2, flying : Bodies \cup {NoBody}, lastSent : Bodies,
   shown : Bodies \cup {NoBody}, lost : BOOLEAN]

NewTurn ==
  [at |-> "none", body |-> Placeholder, edits |-> 0, flying |-> NoBody,
   lastSent |-> Placeholder, shown |-> NoBody, lost |-> FALSE]

BridgeTypeOK ==
  /\ RoutesTypeOK
  /\ offset \in 1..Len(Updates) + 1 /\ confirmed \in 1..Len(Updates) + 1
  /\ handled \in [InLife -> Nat] /\ crashes \in 0..MaxCrashes
  /\ busy \in BOOLEAN /\ turn \in [Ids -> Turns]

BridgeInit ==
  /\ RoutesInit
  /\ offset = 1 /\ confirmed = 1 /\ handled = [i \in InLife |-> 0] /\ crashes = 0
  /\ busy = FALSE /\ turn = [m \in Ids |-> NewTurn]

\* The requests of an update's handler, in this life of the bridge.
Req(m) == <<m, crashes>>
Select(m) == <<m, crashes, "select">>

SessionOf(m) == IF Updates[m] = "dispatch" THEN "dispatch" ELSE "chat"

At(m, place) == turn[m].at = place

-----------------------------------------------------------------------------
\* The poll loop.

\* getUpdates: asking from an offset confirms what lies before it.
Ask ==
  /\ confirmed # offset /\ confirmed' = offset
  /\ UNCHANGED <<routes, offset, handled, crashes, busy, turn>>

\* Mutant: the offset is the update's own number.
OffsetStays(m) == m

NextOffset(m) == m + 1

\* Mutant: a turn does not ask whether another is in flight.
Unguarded == TRUE

Free == ~busy

\* streamReply begins, or answers "one at a time".
BeginTurn(m) ==
  IF Free
  THEN busy' = TRUE /\ turn' = [turn EXCEPT ![m].at = "placing"]
  ELSE turn' = [turn EXCEPT ![m].at = "failed"] /\ UNCHANGED busy

\* Its handler, up to its first await: /do asks for a route, the others are a turn.
HandleMessage(m) ==
  IF Updates[m] = "do"
  THEN turn' = [turn EXCEPT ![m].at = "asking"] /\ UNCHANGED busy
  ELSE BeginTurn(m)

\* An update of the answer.
Receive ==
  /\ offset \in Ids
  /\ offset' = NextOffset(offset) /\ handled' = [handled EXCEPT ![<<offset, crashes>>] = @ + 1]
  /\ HandleMessage(offset)
  /\ UNCHANGED <<routes, confirmed, crashes>>

\* runDo: the request to /api/select, ...
AskRoute(m) ==
  /\ At(m, "asking")
  /\ \/ Accept(Select(m), NoSession) /\ turn' = [turn EXCEPT ![m].at = "routing"]
     \/ Refuse(Select(m)) /\ turn' = [turn EXCEPT ![m].at = "failed"]
  /\ UNCHANGED <<poller, busy>>

\* ... its answer, ...
Routed(m) ==
  /\ At(m, "routing") /\ Read(Select(m))
  /\ IF frame[Select(m)] = "error"
     THEN turn' = [turn EXCEPT ![m].at = "failed"] /\ UNCHANGED busy
     ELSE BeginTurn(m)
  /\ UNCHANGED poller

\* ... or 20 s without one.
RouteTimesOut(m) ==
  /\ At(m, "routing") /\ Disconnect(Select(m))
  /\ turn' = [turn EXCEPT ![m].at = "failed"]
  /\ UNCHANGED <<poller, busy>>

-----------------------------------------------------------------------------
\* streamReply.

\* finally: the chat is free, and what the turn kept is forgotten.
TurnEnds(m, end) == turn' = [turn EXCEPT ![m] = [NewTurn EXCEPT !.at = end]] /\ busy' = FALSE

\* The placeholder is sent, or could not be.
Place(m) ==
  /\ At(m, "placing")
  /\ \/ turn' = [turn EXCEPT ![m].at = "opening", ![m].shown = Placeholder] /\ UNCHANGED busy
     \/ TurnEnds(m, "failed")
  /\ UNCHANGED <<routes, poller>>

\* The server takes the request or refuses it.
OpenStream(m) ==
  /\ At(m, "opening") /\ turn' = [turn EXCEPT ![m].at = "streaming"]
  /\ Accept(Req(m), SessionOf(m)) \/ Refuse(Req(m))
  /\ UNCHANGED <<poller, busy>>

\* A token, and an edit (enqueueEdit) when the throttle lets it pass.
Token(m) ==
  /\ At(m, "streaming") /\ pi[Req(m)] /\ frame[Req(m)] = "none"
  /\ turn[m].body.text < MaxTokens
  /\ \E edit \in IF turn[m].edits = 0 THEN {0, 1} ELSE {0} :
       turn' = [turn EXCEPT ![m].body.text = @ + 1, ![m].edits = @ + edit]
  /\ UNCHANGED <<routes, poller, busy>>

\* Mutant: the last edit may fall to the throttle too.
LastEditThrottled == {0, 1}

LastEdit == {1}

\* The request has settled.
StreamEnds(m) ==
  /\ At(m, "streaming") /\ Read(Req(m))
  /\ \E ending \in CASE frame[Req(m)] = "error" -> {TRUE}
                     [] frame[Req(m)] = "none" -> {FALSE}
                     [] OTHER -> IF turn[m].body.text = 0 THEN {TRUE} ELSE BOOLEAN :
     \E edit \in LastEdit :
       turn' = [turn EXCEPT ![m].at = "finishing", ![m].body.ending = ending, ![m].edits = @ + edit]
  /\ UNCHANGED <<poller, busy>>

\* A reset, or 300 s without a byte: the turn fails, and the server sees its client leave.
StreamBreaks(m) ==
  /\ At(m, "streaming") /\ request[Req(m)] = "open"
  /\ Disconnect(Req(m)) /\ TurnEnds(m, "failed") /\ UNCHANGED poller

\* The next edit of the chain; one that would change nothing is left out.
Edit(m) ==
  /\ turn[m].edits > 0 /\ turn[m].flying = NoBody
  /\ turn' = IF turn[m].body = turn[m].lastSent
             THEN [turn EXCEPT ![m].edits = @ - 1]
             ELSE [turn EXCEPT ![m].flying = turn[m].body, ![m].lastSent = turn[m].body]
  /\ UNCHANGED <<routes, poller, busy>>

\* Telegram's answer; a failed edit is not repeated.
EditLands(m) ==
  /\ turn[m].flying # NoBody
  /\ LET landed == [turn EXCEPT ![m].flying = NoBody, ![m].edits = @ - 1]
     IN \/ turn' = [landed EXCEPT ![m].shown = turn[m].flying]
        \/ turn' = [landed EXCEPT ![m].lost = TRUE]
  /\ UNCHANGED <<routes, poller, busy>>

Finish(m) ==
  /\ At(m, "finishing") /\ turn[m].edits = 0
  /\ TurnEnds(m, "over") /\ UNCHANGED <<routes, poller>>

\* The bridge dies and is started again: it asks from 0 and is given what is not confirmed.
Crash ==
  /\ crashes < MaxCrashes /\ crashes' = crashes + 1
  /\ offset' = confirmed /\ busy' = FALSE /\ turn' = [m \in Ids |-> NewTurn]
  /\ Leave({r \in Requests : request[r] = "open"})
  /\ UNCHANGED <<confirmed, handled>>

-----------------------------------------------------------------------------
TurnStep(m) ==
  AskRoute(m) \/ Routed(m) \/ RouteTimesOut(m)
  \/ Place(m) \/ OpenStream(m) \/ Token(m) \/ StreamEnds(m) \/ StreamBreaks(m)
  \/ Edit(m) \/ EditLands(m) \/ Finish(m)

Server(step) == step /\ UNCHANGED <<poller, busy, turn>>

BridgeNext ==
  \/ Ask \/ Receive \/ Crash \/ \E m \in Ids : TurnStep(m)
  \/ \E r \in Requests : Server(RoutesStep(r))

BridgeSpec == BridgeInit /\ [][BridgeNext]_bridgeVars

-----------------------------------------------------------------------------
(***************************************************************************)
(* Two children never write one pi session, but for those whose client has *)
(* left them: the server has room for both and does not look, so all       *)
(* depends on the bridge's one turn at a time.                             *)
(***************************************************************************)
OneWriter ==
  \A r, q \in {c \in Streaming : pi[c] /\ client[c] # "gone"} : session[r] = session[q] => r = q

(***************************************************************************)
(* A reply that came through is shown whole, whatever edits were queued or *)
(* throttled, unless Telegram refused one of them.                         *)
(***************************************************************************)
ReplyWhole ==
  [][\A m \in Ids : Finish(m) /\ ~turn[m].lost => turn[m].shown = turn[m].body]_bridgeVars

(***************************************************************************)
(* In one life of the bridge an update is handled once; in a later one     *)
(* again, unless Telegram was told of it.                                  *)
(***************************************************************************)
HandledOnce ==
  /\ [](\A i \in InLife : handled[i] <= 1)
  /\ [][\A i \in InLife : i[1] < confirmed => handled'[i] = handled[i]]_bridgeVars

(***************************************************************************)
(* Children, their sessions, and the updates that ask for them.            *)
(***************************************************************************)
RoutesHold == [](BridgeTypeOK /\ ChildrenBounded /\ OneWriter) /\ HandledOnce /\ ReplyWhole
=============================================================================
