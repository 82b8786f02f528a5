----------------------------- MODULE EventFeed -----------------------------
(***************************************************************************)
(* An event on its way from an agent to a dashboard: the sink file the     *)
(* agents append to and `obs-cli reap` closes orphaned lanes in            *)
(* (obs/obs-reap.ts), the server that tails it into a bounded store and    *)
(* broadcasts what is new (obs/obs-server.ts, obs-server-core.ts), the     *)
(* page's stream (obs/ui/src/data/stream.ts), which reconnects and drops   *)
(* replays, and the page's copy of a run (live.ts), filled by the stream   *)
(* and by a poll.                                                          *)
(*                                                                         *)
(* A file is a sequence of lines and an offset counts lines.  One run, one *)
(* sink, one page.                                                         *)
(***************************************************************************)
EXTENDS Naturals, Integers, Sequences, FiniteSets, SequencesExt

CONSTANTS Lanes,
          Steerable,   \* the sessions that published a control channel
          Cap,         \* events in the store
          PrimeTail,   \* lines a server reads at its start
          MaxSeq, MaxRotations, MaxRestarts   \* bounds

ASSUME EventFeedAssumption ==
  /\ Steerable \subseteq Lanes
  /\ Cap \in Nat \ {0} /\ PrimeTail \in Nat
  /\ MaxSeq \in Nat /\ MaxRotations \in Nat /\ MaxRestarts \in Nat

VARIABLES
  proc, next,        \* a session's process and the seq its next event has
  file, rotations,       \* the sink
  cursor, store,     \* the server's cursor and its store
  missed, restarts,  \* history: lines passed over; restarts
  conn, wire,        \* the page's event source, and frames on their way to it
  mark, got,         \* openStream's high-water marks; history: what it passed on
  cache, hw, seeded, \* the page's copy, its marks, and are they of this very copy
  poll               \* a poll on its way

agents == <<proc, next>>
sink == <<file, rotations>>
server == <<cursor, store, missed, restarts>>
stream == <<conn, wire, mark, got>>
copy == <<cache, hw, seeded>>
feedVars == <<agents, sink, server, stream, copy, poll>>

Event == [session : Lanes, seq : Nat, end : BOOLEAN]
None == <<>>
Key(ev) == <<ev.session, ev.seq>>
Lines == Seq(Event)

FeedTypeOK ==
  /\ proc \in [Lanes -> {"alive", "ended", "killed"}] /\ next \in [Lanes -> Nat]
  /\ file \in Lines /\ rotations \in 0..MaxRotations
  /\ cursor \in Nat /\ store \in Lines /\ Len(store) <= Cap
  /\ missed \in {"no", "emptied", "yes"} /\ restarts \in 0..MaxRestarts
  /\ conn \in {"open", "closed"} /\ wire \in Lines
  /\ mark \in [Lanes -> Nat \cup {-1}] /\ got \subseteq Lanes \X Nat
  /\ cache \in Lines /\ hw \in [Lanes -> Nat \cup {-1}] /\ seeded \in BOOLEAN
  /\ \/ poll = None
     \/ \E lines \in {SubSeq(file, 1, k) : k \in 0..Len(file)} \cup {poll[1]} : poll = <<lines>>

Unseen == [s \in Lanes |-> -1]

FeedInit ==
  /\ proc = [s \in Lanes |-> "alive"] /\ next = [s \in Lanes |-> 0]
  /\ file = <<>> /\ rotations = 0
  /\ cursor = 0 /\ store = <<>> /\ missed = "no" /\ restarts = 0
  /\ conn = "closed" /\ wire = <<>> /\ mark = Unseen /\ got = {}
  /\ cache = <<>> /\ hw = Unseen /\ seeded = FALSE /\ poll = None

-----------------------------------------------------------------------------
\* Writers of the sink.

AppendLine(s, seq, end) ==
  file' = Append(file, [session |-> s, seq |-> seq, end |-> end])

Emit(s) ==
  /\ proc[s] = "alive" /\ next[s] < MaxSeq
  /\ AppendLine(s, next[s], FALSE) /\ next' = [next EXCEPT ![s] = @ + 1]
  /\ UNCHANGED <<proc, rotations, server, stream, copy, poll>>

EndSession(s) ==
  /\ proc[s] = "alive" /\ proc' = [proc EXCEPT ![s] = "ended"]
  /\ AppendLine(s, next[s], TRUE) /\ next' = [next EXCEPT ![s] = @ + 1]
  /\ UNCHANGED <<rotations, server, stream, copy, poll>>

KillAgent(s) ==
  /\ proc[s] = "alive" /\ proc' = [proc EXCEPT ![s] = "killed"]
  /\ UNCHANGED <<next, sink, server, stream, copy, poll>>

Lane(s) == {ev \in ToSet(file) : ev.session = s}

\* planReap: started, not ended, not in the list of live sessions, and silent for long
\* enough, which a session that runs can be too.
Orphan(s) ==
  /\ \E ev \in Lane(s) : ev.seq = 0
  /\ ~\E ev \in Lane(s) : ev.end
  /\ ~(proc[s] = "alive" /\ s \in Steerable)

\* The end continues the lane's numbers.
Reap(s) ==
  /\ Orphan(s)
  /\ LET last == CHOOSE n \in {ev.seq : ev \in Lane(s)} : \A ev \in Lane(s) : ev.seq <= n
     IN AppendLine(s, last + 1, TRUE)
  /\ UNCHANGED <<agents, rotations, server, stream, copy, poll>>

\* The file is emptied, or moved away.
Rotate ==
  /\ file # <<>> /\ rotations < MaxRotations /\ rotations' = rotations + 1 /\ file' = <<>>
  /\ missed' = IF missed = "no" THEN "emptied" ELSE missed
  /\ UNCHANGED <<agents, cursor, store, restarts, stream, copy, poll>>

-----------------------------------------------------------------------------
\* The server.

\* EventStore.add: a new event goes out, and the oldest makes room for it.
Added(acc, ev) ==
  IF \E old \in ToSet(acc.store) : Key(old) = Key(ev) THEN acc
  ELSE [store |-> Append(IF Len(acc.store) = Cap THEN Tail(acc.store) ELSE acc.store, ev),
        new |-> Append(acc.new, ev)]

\* What the store holds and what is new after each line.
AddedAll(st, lines) ==
  LET upTo[n \in 0..Len(lines)] ==
        IF n = 0 THEN [store |-> st, new |-> <<>>] ELSE Added(upTo[n - 1], lines[n])
  IN upTo

Stored(st, lines) == AddedAll(st, lines)[Len(lines)]

\* A file that has become shorter is read from its start.
ReadFrom == IF Len(file) < cursor THEN 0 ELSE cursor

ReadDelta ==
  /\ Len(file) # cursor
  /\ LET read == Stored(store, SubSeq(file, ReadFrom + 1, Len(file))) IN
     /\ store' = read.store
     /\ wire' = IF conn = "open" THEN wire \o read.new ELSE wire
  /\ cursor' = Len(file)
  /\ missed' = IF missed = "emptied" THEN IF Len(file) < cursor THEN "no" ELSE "yes" ELSE missed
  /\ UNCHANGED <<agents, sink, restarts, conn, mark, got, copy, poll>>

\* It primes its store from the tail of the file; connections and requests are lost.
Restart ==
  /\ restarts < MaxRestarts /\ restarts' = restarts + 1
  /\ LET skip == IF Len(file) > PrimeTail THEN Len(file) - PrimeTail ELSE 0
     IN store' = Stored(<<>>, SubSeq(file, skip + 1, Len(file))).store
  /\ cursor' = Len(file)
  /\ missed' = IF missed = "emptied" /\ Len(file) >= cursor THEN "yes"
               ELSE IF missed = "emptied" THEN "no" ELSE missed
  /\ conn' = "closed" /\ wire' = <<>> /\ poll' = None
  /\ UNCHANGED <<agents, sink, mark, got, copy>>

\* Mutant: a new client gets what is new.
NoReplay == <<>>

Replay == store

\* /stream: the store first, and whatever is broadcast after.
Connect ==
  /\ conn = "closed" /\ conn' = "open" /\ wire' = Replay
  /\ UNCHANGED <<agents, sink, server, mark, got, copy, poll>>

\* The network, or a client whose backlog is over SSE_BACKPRESSURE_MAX.
StreamDrops ==
  /\ conn = "open" /\ conn' = "closed" /\ wire' = <<>>
  /\ UNCHANGED <<agents, sink, server, mark, got, copy, poll>>

-----------------------------------------------------------------------------
\* The page.

SeedHighWater(events) ==
  [s \in Lanes |->
     LET seqs == {ev.seq : ev \in {e \in ToSet(events) : e.session = s}}
     IN IF seqs = {} THEN -1 ELSE CHOOSE n \in seqs : \A m \in seqs : m <= n]

\* Mutant: the marks are kept when a poll has replaced the copy.
MarksKept == hw

Marks == IF seeded THEN hw ELSE SeedHighWater(cache)

\* useLiveEvents' onEvent.
Merge(ev) ==
  /\ seeded' = TRUE
  /\ IF ev.seq <= Marks[ev.session]
     THEN hw' = Marks /\ UNCHANGED cache
     ELSE hw' = [Marks EXCEPT ![ev.session] = ev.seq] /\ cache' = Append(cache, ev)

Deliver ==
  /\ wire # <<>> /\ wire' = Tail(wire)
  /\ LET ev == Head(wire) IN
     IF ev.seq <= mark[ev.session]
     THEN UNCHANGED <<mark, got, copy>>
     ELSE /\ mark' = [mark EXCEPT ![ev.session] = ev.seq] /\ got' = got \cup {Key(ev)}
          /\ Merge(ev)
  /\ UNCHANGED <<agents, sink, server, conn, poll>>

\* The poll's answer is what the file holds when the server reads it.
PollStart ==
  /\ poll = None /\ poll' = <<file>>
  /\ UNCHANGED <<agents, sink, server, stream, copy>>

PollReply ==
  /\ poll # None /\ poll' = None /\ cache' = poll[1] /\ seeded' = FALSE
  /\ UNCHANGED <<agents, sink, server, stream, hw>>

FeedNext ==
  \/ \E s \in Lanes : Emit(s) \/ EndSession(s) \/ KillAgent(s) \/ Reap(s)
  \/ Rotate \/ ReadDelta \/ Restart \/ Connect \/ StreamDrops
  \/ Deliver \/ PollStart \/ PollReply

FeedSpec == FeedInit /\ [][FeedNext]_feedVars

-----------------------------------------------------------------------------
\* Lines were passed over: the file was emptied and grew past the offset between two reads.
PassedOver == missed = "yes"

(***************************************************************************)
(* A page that is connected and has no frame on its way has been given     *)
(* every event the store holds, through whatever lost connections,         *)
(* restarts of the server and rotations of the file.                       *)
(***************************************************************************)
StreamCatchesUp ==
  conn = "open" /\ wire = <<>> /\ ~PassedOver =>
    \A ev \in ToSet(store) : Key(ev) \in got

(***************************************************************************)
(* The page's copy has the events of an agent in their order and none      *)
(* twice, though a poll overtakes the stream, is overtaken by it, or is    *)
(* followed by a replay.                                                   *)
(***************************************************************************)
CopyInOrder ==
  \A i, j \in 1..Len(cache) :
    i < j /\ cache[i].session = cache[j].session => cache[i].seq < cache[j].seq

(***************************************************************************)
(* The stream and the copy, together: of sessions that each published a    *)
(* channel, for obs-cli reap would close the lane of another while it runs *)
(* and number its last event as one to come.                               *)
(***************************************************************************)
FeedHolds == FeedTypeOK /\ StreamCatchesUp /\ CopyInOrder
=============================================================================
