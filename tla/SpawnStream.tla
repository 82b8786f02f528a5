---------------------------- MODULE SpawnStream ----------------------------
(***************************************************************************)
(* What a spawned agent leaves behind (workflow-core.ts): the JSON events  *)
(* of its standard output, read in chunks that end anywhere and folded     *)
(* into an answer, an error and what is billed; and its session file,      *)
(* which the next attempt repairs and resumes.  A line of output is two    *)
(* halves and a line break, so that a chunk, or the death of the child,    *)
(* can cut it; the session's lines have lengths, and the last may be cut.  *)
(* Times, kills and retries are AgentRun's; here an attempt ends somehow.  *)
(***************************************************************************)
EXTENDS Integers, Sequences, FiniteSets, SequencesExt

CONSTANTS MaxEvents,    \* bound: events of all attempts
          MaxSpawns,    \* bound: attempts
          Lengths,      \* the lengths of a session's lines
          Window,       \* the tail of the session that is looked at: 8192 bytes
          MaxSize       \* a longer session is deleted: 10 MB

ASSUME StreamAssumption ==
  {MaxEvents, MaxSpawns, Window, MaxSize} \cup Lengths \subseteq Nat \ {0}

VARIABLES
  child,     \* spawns and events so far, is it alive, and the events it wrote in full
  pipe,      \* its output, not read yet
  got,       \* the fold: the line begun, answer, error, tools, cost, lines dropped
  result,    \* what the last spawn returned
  session    \* the session file: lines [len, whole]

streamVars == <<child, pipe, got, result, session>>

\* A streamed text, a tool call, a turn that ended well or in an error, and agent_end, which
\* repeats the last turn; and a line that is no JSON.
Kinds == {"text", "tool", "turn", "error", "recap", "noise"}

Break == [of |-> 0, half |-> 0, kind |-> "break"]
LineOf(n, kind) == <<[of |-> n, half |-> 1, kind |-> kind], [of |-> n, half |-> 2, kind |-> kind], Break>>

Empty == [line |-> <<>>, answer |-> <<>>, error |-> FALSE, tools |-> 0, cost |-> 0, dropped |-> 0]

-----------------------------------------------------------------------------
\* The fold.

\* Mutant: an error stays.
HandleStickyError(g, e) ==
  CASE e.kind = "text"  -> [g EXCEPT !.answer = Append(@, e.of)]
    [] e.kind = "tool"  -> [g EXCEPT !.tools = @ + 1]
    [] e.kind = "turn"  -> [g EXCEPT !.cost = @ + 1]
    [] e.kind = "error" -> [g EXCEPT !.error = TRUE, !.cost = @ + 1]
    [] OTHER -> g

\* handleSpawnEvent.
HandleEvent(g, e) ==
  CASE e.kind = "text"  -> [g EXCEPT !.answer = Append(@, e.of)]
    [] e.kind = "tool"  -> [g EXCEPT !.tools = @ + 1]
    [] e.kind = "turn"  -> [g EXCEPT !.error = FALSE, !.cost = @ + 1]
    [] e.kind = "error" -> [g EXCEPT !.error = TRUE, !.cost = @ + 1]
    [] OTHER -> g

\* handleSpawnLine.
HandleLine(g, l) ==
  CASE l = <<>> -> g
    [] Len(l) = 2 /\ l[1].of = l[2].of /\ l[1].kind # "noise" -> HandleEvent(g, l[1])
    [] OTHER -> [g EXCEPT !.dropped = @ + 1]

\* A chunk, by its pieces: a line break ends the line begun.
HandlePiece(g, f) ==
  IF f = Break THEN [HandleLine(g, g.line) EXCEPT !.line = <<>>] ELSE [g EXCEPT !.line = Append(@, f)]

\* The fold after each of a chunk's pieces.
Handled(g, chunk) ==
  LET upTo[n \in 0..Len(chunk)] == IF n = 0 THEN g ELSE HandlePiece(upTo[n - 1], chunk[n]) IN upTo

\* Mutant: what a chunk ends with is not kept for the next.
HandleChunkAlone(g, chunk) == Handled([g EXCEPT !.line = <<>>], chunk)[Len(chunk)]

HandleChunk(g, chunk) == Handled(g, chunk)[Len(chunk)]

\* computeSpawnResult: an error nobody recovered from fails a child that exits with 0.
Succeeds(g, code) == code = 0 /\ ~g.error

-----------------------------------------------------------------------------
\* The session.

\* The size of the first n lines.
Sizes(s) == LET upTo[n \in 0..Len(s)] == IF n = 0 THEN 0 ELSE upTo[n - 1] + s[n].len IN upTo
Size(s) == Sizes(s)[Len(s)]

\* The whole lines within the last Window bytes.
InWindow(s) == {i \in DOMAIN s : s[i].whole /\ Size(s) - Sizes(s)[i - 1] <= Window}

\* Mutant: back to the first whole line.
CutShort(s) ==
  IF s = <<>> \/ Size(s) > MaxSize \/ ~s[1].whole THEN <<>>
  ELSE IF Last(s).whole \/ InWindow(s) = {} THEN s
  ELSE SubSeq(s, 1, Min(InWindow(s)))

\* sanitizeSessionFile.
Sanitized(s) ==
  IF s = <<>> \/ Size(s) > MaxSize \/ ~s[1].whole THEN <<>>
  ELSE IF Last(s).whole \/ InWindow(s) = {} THEN s
  ELSE SubSeq(s, 1, Max(InWindow(s)))

\* pi appends an entry (external); after a cut line, to that line.
Recorded(s, len) ==
  IF s = <<>> \/ Last(s).whole THEN Append(s, [len |-> len, whole |-> TRUE])
  ELSE [s EXCEPT ![Len(s)].len = @ + len]

\* pi dies while it writes its last entry (external).
Cut(s) == {s} \cup (IF s = <<>> THEN {} ELSE {[s EXCEPT ![Len(s)].whole = FALSE]})

-----------------------------------------------------------------------------
StreamInit ==
  /\ child = [spawns |-> 0, events |-> 0, alive |-> FALSE, wrote |-> <<>>]
  /\ pipe = <<>> /\ got = Empty
  /\ result = [ok |-> TRUE, code |-> 0, of |-> 0] /\ session = <<>>

\* An attempt: the first one, or a retry of one that failed.
Spawn ==
  /\ ~child.alive /\ child.spawns < MaxSpawns /\ result.of = child.spawns
  /\ child.spawns > 0 => ~result.ok
  /\ child' = [child EXCEPT !.spawns = @ + 1, !.alive = TRUE, !.wrote = <<>>]
  /\ got' = Empty
  /\ session' = Recorded(Sanitized(session), 1)
  /\ UNCHANGED <<pipe, result>>

\* The child writes an event, and enters tool results and turns into its session (external).
Emit(kind) ==
  /\ child.alive /\ child.events < MaxEvents
  /\ LET n == Len(child.wrote) + 1 IN
     /\ child' = [child EXCEPT !.events = @ + 1, !.wrote = Append(@, [of |-> n, kind |-> kind])]
     /\ pipe' = pipe \o LineOf(n, kind)
  /\ IF kind \in {"tool", "turn"} THEN \E len \in Lengths : session' = Recorded(session, len)
     ELSE UNCHANGED session
  /\ UNCHANGED <<got, result>>

\* stdout "data".
Data(n) ==
  /\ n \in 1..Len(pipe)
  /\ got' = HandleChunk(got, SubSeq(pipe, 1, n))
  /\ pipe' = SubSeq(pipe, n + 1, Len(pipe))
  /\ UNCHANGED <<child, result, session>>

\* The child ends, of itself or killed, in the middle of a line perhaps.
Die(cut) ==
  /\ child.alive /\ cut \in 0..2 /\ cut <= Len(pipe)
  /\ pipe' = SubSeq(pipe, 1, Len(pipe) - cut)
  /\ child' = [child EXCEPT !.alive = FALSE,
                            !.wrote = IF cut = 2 THEN Front(@) ELSE @]
  /\ \E code \in IF cut = 0 THEN {0, 1} ELSE {1} : result' = [result EXCEPT !.code = code]
  /\ session' \in IF result'.code = 0 THEN {session} ELSE Cut(session)
  /\ UNCHANGED got

\* "close": the rest of the output is a line.
Close ==
  /\ ~child.alive /\ pipe = <<>> /\ result.of < child.spawns
  /\ got' = [HandleLine(got, got.line) EXCEPT !.line = <<>>]
  /\ result' = [ok |-> Succeeds(got', result.code), code |-> result.code, of |-> child.spawns]
  /\ UNCHANGED <<child, pipe, session>>

StreamNext ==
  \/ Spawn \/ Close
  \/ \E kind \in Kinds : Emit(kind)
  \/ \E n \in 1..3 * MaxEvents : Data(n)
  \/ \E cut \in 0..2 : Die(cut)

StreamSpec == StreamInit /\ [][StreamNext]_streamVars

-----------------------------------------------------------------------------
Closed == child.spawns > 0 /\ result.of = child.spawns

Wrote(kinds) == {n \in DOMAIN child.wrote : child.wrote[n].kind \in kinds}

(***************************************************************************)
(* However its output was cut into chunks, a closed spawn's answer is what *)
(* the child streamed, in order and once; each tool call and each turn is  *)
(* counted once; and only what was no whole event is dropped.              *)
(***************************************************************************)
AnswerWhole ==
  Closed =>
    /\ ToSet(got.answer) = Wrote({"text"}) /\ \A i, j \in DOMAIN got.answer : i < j => got.answer[i] < got.answer[j]
    /\ got.tools = Cardinality(Wrote({"tool"})) /\ got.cost = Cardinality(Wrote({"turn", "error"}))

(***************************************************************************)
(* A spawn succeeds exactly if its process did and its last turn was no    *)
(* error: an error pi recovered from does not fail it, and one it did not  *)
(* recover from is not hidden by an exit code of 0.                        *)
(***************************************************************************)
ResultTells ==
  Closed =>
    LET turns == Wrote({"turn", "error"}) IN
    result.ok <=> result.code = 0 /\ (turns # {} => Max(turns) \in Wrote({"turn"}))

(***************************************************************************)
(* A repair loses no whole line of a session that it keeps, and leaves a   *)
(* cut line only where the last whole one is out of the window.            *)
(***************************************************************************)
SessionRepaired ==
  [][Spawn /\ Sanitized(session) # <<>> =>
       LET kept == Sanitized(session) IN
       /\ IsPrefix(kept, session)
       /\ \A i \in Len(kept) + 1..Len(session) : ~session[i].whole
       /\ Last(kept).whole \/ (kept = session
            /\ \E i \in DOMAIN session : session[i].len + Last(session).len > Window)]_streamVars

(***************************************************************************)
(* What is read from a child's stream, and what is left of its file.       *)
(***************************************************************************)
StreamKept == [](AnswerWhole /\ ResultTells) /\ SessionRepaired
=============================================================================
