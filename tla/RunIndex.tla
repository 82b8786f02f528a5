------------------------------ MODULE RunIndex ------------------------------
(***************************************************************************)
(* The server's index of the runs in its sink files (obs-run-index.ts, and *)
(* ensureRunIndex, readRunEvents and searchSink of obs-server.ts): it      *)
(* reads on, in chunks, from where it stopped in each file, which pi       *)
(* processes append to meanwhile and a user may empty.                     *)
(*                                                                         *)
(* A line has two halves, which say of what event they are, and a newline, *)
(* each a byte.  An event's time is its place among all.                   *)
(***************************************************************************)
EXTENDS Naturals, Sequences, FiniteSets, SequencesExt, FiniteSetsExt

CONSTANTS Sinks, Runs,
          Chunk,                \* SCAN_CHUNK
          MaxLines, MaxEmptied  \* bounds

ASSUME RunIndexAssumption == Chunk \in Nat \ {0} /\ MaxLines \in Nat /\ MaxEmptied \in Nat

VARIABLES
  bytes,   \* the files
  written, \* how many events were written
  idx,     \* the server's index of each file
  merged,  \* and of all: per run, the file to read it from and the verdict
  emptied, \* how often a file was emptied
  blind,   \* history: files emptied that had grown again before the server looked
  looked   \* history: has nothing changed since the server looked

indexVars == <<bytes, written, idx, merged, emptied, blind, looked>>

Kinds == {"event", "verdict", "agent verdict", "torn"}
ObsEvent == [ts : Nat \ {0}, run : Runs, kind : Kinds]

Half(h, ev) == [half |-> h, of |-> ev]
Newline == [half |-> 0]
NoIndex == [base |-> 0, left |-> <<>>, runs |-> <<>>]

IndexInit ==
  /\ bytes = [s \in Sinks |-> <<>>] /\ written = 0 /\ idx = [s \in Sinks |-> NoIndex]
  /\ merged = <<>> /\ emptied = [s \in Sinks |-> 0] /\ blind = {} /\ looked = FALSE

-----------------------------------------------------------------------------
\* RunIndexer.

IsEvent(line) == Len(line) = 2 /\ line[1].of = line[2].of /\ line[1].half = 1 /\ line[2].half = 2

NewRun(ev, start) == [events |-> 0, last |-> ev.ts, verdict |-> 0, start |-> start, end |-> 0]

\* Mutant: an agent's verdict is taken for the run's.
AnyVerdict(ev) == ev.kind \in {"verdict", "agent verdict"}

RunVerdict(ev) == ev.kind = "verdict"

\* line: a verdict counts as an event, and is not activity of the run.
OnLine(runs, line, start, end) ==
  IF ~IsEvent(line) THEN runs
  ELSE LET ev == line[1].of
           old == IF ev.run \in DOMAIN runs THEN runs[ev.run] ELSE NewRun(ev, start)
           new == [old EXCEPT !.events = @ + 1, !.end = end,
                              !.verdict = IF RunVerdict(ev) THEN ev.ts ELSE @,
                              !.last = IF ev.kind = "event" THEN ev.ts ELSE @]
       IN [q \in DOMAIN runs \cup {ev.run} |-> IF q = ev.run THEN new ELSE runs[q]]

Offset(sc) == sc.base + Len(sc.left)

Byte(sc, b) ==
  IF b # Newline THEN [sc EXCEPT !.left = Append(@, b)]
  ELSE LET end == Offset(sc) + 1
       IN [base |-> end, left |-> <<>>, runs |-> OnLine(sc.runs, sc.left, sc.base, end)]

\* What has been made of each part of a chunk.
Pushed(sc, chunk) ==
  LET after[n \in 0..Len(chunk)] == IF n = 0 THEN sc ELSE Byte(after[n - 1], chunk[n]) IN after

\* Mutant: what the last chunk left over is dropped.
PushAlone(sc, chunk) == Pushed([sc EXCEPT !.left = <<>>, !.base = Offset(sc)], chunk)[Len(chunk)]

Push(sc, chunk) == Pushed(sc, chunk)[Len(chunk)]

\* The next chunk of what a file has.
FeedOne(sc, file) ==
  IF Offset(sc) >= Len(file) THEN sc
  ELSE Push(sc, SubSeq(file, Offset(sc) + 1, Min({Offset(sc) + Chunk, Len(file)})))

\* All of them; there are no more than bytes.
Fed(sc, file) ==
  LET after[n \in 0..Len(file)] == IF n = 0 THEN sc ELSE FeedOne(after[n - 1], file) IN after

Feed(sc, file) == Fed(sc, file)[Len(file)]

\* A file shorter than what was read of it is read anew.
Indexed(s) ==
  Feed(IF Len(bytes[s]) < Offset(idx[s]) THEN NoIndex ELSE idx[s], bytes[s])

-----------------------------------------------------------------------------
\* Of several files that hold a run, the one with most of its events.

Holders(ix, r) == {s \in Sinks : r \in DOMAIN ix[s].runs}

\* Mutant: the verdict of the file that is read.
MainVerdict(ix, r, main) == ix[main].runs[r].verdict

LaterVerdict(ix, r, main) == Max({ix[s].runs[r].verdict : s \in Holders(ix, r)})

Merged(ix) ==
  [r \in {q \in Runs : Holders(ix, q) # {}} |->
     LET main == CHOOSE s \in Holders(ix, r) :
                   \A t \in Holders(ix, r) : ix[t].runs[r].events <= ix[s].runs[r].events
     IN [sink |-> main, verdict |-> LaterVerdict(ix, r, main)]]

EnsureRunIndex ==
  /\ idx' = [s \in Sinks |-> Indexed(s)] /\ merged' = Merged(idx') /\ looked' = TRUE
  /\ UNCHANGED <<bytes, written, emptied, blind>>

\* readRunEvents: the run's range of the file, less the lines of others.
\* Mutant: the range ends where the last line begins.
ByteRangeCut(run) == <<run.start, run.end - 1>>

ByteRange(run) == <<run.start, run.end>>

ScanLine(acc, b) ==
  IF b # Newline THEN [acc EXCEPT !.left = Append(@, b)]
  ELSE [left |-> <<>>, found |-> IF IsEvent(acc.left) THEN Append(acc.found, acc.left[1].of) ELSE acc.found]

Scanned(part) ==
  LET after[n \in 0..Len(part)] ==
        IF n = 0 THEN [left |-> <<>>, found |-> <<>>] ELSE ScanLine(after[n - 1], part[n])
  IN after

EventsIn(part) == Scanned(part)[Len(part)].found

\* Of the events that were found, those of a run.
Filtered(r, evs) ==
  LET upTo[n \in 0..Len(evs)] ==
        IF n = 0 THEN <<>>
        ELSE IF evs[n].run = r THEN Append(upTo[n - 1], evs[n]) ELSE upTo[n - 1]
  IN upTo

OfRun(r, evs) == Filtered(r, evs)[Len(evs)]

ReadRunEvents(r) ==
  LET s == merged[r].sink
      range == ByteRange(idx[s].runs[r])
  IN OfRun(r, EventsIn(SubSeq(bytes[s], range[1] + 1, range[2])))

-----------------------------------------------------------------------------
\* The rest of the world.

\* A process that is killed while it appends leaves a part of its line.
AppendTo(s) ==
  /\ written < MaxLines /\ written' = written + 1
  /\ looked' = FALSE
  /\ \E r \in Runs, k \in Kinds :
       LET ev == [ts |-> written + 1, run |-> r, kind |-> k]
       IN /\ bytes' = [bytes EXCEPT ![s] = @ \o IF k = "torn" THEN << Half(1, ev) >>
                                                   ELSE << Half(1, ev), Half(2, ev), Newline >>]
          /\ blind' = IF emptied[s] > 0 /\ Len(bytes[s]) < Offset(idx[s]) /\ Offset(idx[s]) <= Len(bytes'[s])
                      THEN blind \cup {s} ELSE blind
  /\ UNCHANGED <<idx, merged, emptied>>

Empty(s) ==
  /\ bytes[s] # <<>> /\ emptied[s] < MaxEmptied
  /\ bytes' = [bytes EXCEPT ![s] = <<>>] /\ emptied' = [emptied EXCEPT ![s] = @ + 1]
  /\ looked' = FALSE
  /\ UNCHANGED <<written, idx, merged, blind>>

ForgetIndex ==
  /\ idx' = [s \in Sinks |-> NoIndex] /\ merged' = <<>> /\ blind' = {} /\ looked' = FALSE
  /\ UNCHANGED <<bytes, written, emptied>>

IndexNext == EnsureRunIndex \/ ForgetIndex \/ \E s \in Sinks : AppendTo(s) \/ Empty(s)

IndexSpec == IndexInit /\ [][IndexNext]_indexVars

-----------------------------------------------------------------------------
(***************************************************************************)
(* What the server knows of a run after any number of partial looks, at a  *)
(* file that may have been torn, emptied or written on at the time, is what*)
(* the file says now: how many events, when the last was, which verdict;   *)
(* and reading the run's range gives exactly its events.  The verdict is   *)
(* the latest of all files.  (A file emptied and grown again to the old    *)
(* length between two looks is passed over.)                               *)
(***************************************************************************)
All(s) == EventsIn(bytes[s])

Times(evs) == {ev.ts : ev \in evs}

Known(s, r) ==
  LET own == OfRun(r, All(s))
      run == idx[s].runs[r]
  IN /\ run.events = Len(own)
     /\ run.last = Max({own[1].ts} \cup Times({ev \in ToSet(own) : ev.kind = "event"}))
     /\ run.verdict = Max({0} \cup Times({ev \in ToSet(own) : ev.kind = "verdict"}))

Fresh ==
  /\ \A s \in Sinks : DOMAIN idx[s].runs = {ev.run : ev \in ToSet(All(s))}
  /\ \A s \in Sinks : \A r \in DOMAIN idx[s].runs : Known(s, r)
  /\ \A r \in DOMAIN merged :
       /\ ReadRunEvents(r) = OfRun(r, All(merged[r].sink))
       /\ merged[r].verdict =
            Max({0} \cup Times({ev \in UNION {ToSet(All(s)) : s \in Sinks} : ev.run = r /\ ev.kind = "verdict"}))

IndexTrue == looked /\ blind = {} => Fresh
=============================================================================
