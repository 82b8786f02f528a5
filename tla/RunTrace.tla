------------------------------ MODULE RunTrace ------------------------------
(***************************************************************************)
(* What is made of a run's events: the spans sent to a tracing service     *)
(* (obs-otel.ts), the trace tab's tree (derive/trace.ts) and the time in   *)
(* which work was done (obs-run-index.ts, obs-explain.ts).  The events     *)
(* come from sessions that turn, call tools, several at a time and by      *)
(* scripts, and dispatch each other (obs-live.ts); a page may have only    *)
(* the last of them.                                                       *)
(*                                                                         *)
(* An event's time is its place in the run.                                *)
(***************************************************************************)
EXTENDS Integers, Sequences, FiniteSets, SequencesExt, FiniteSetsExt

CONSTANTS Logs, RoleOf,  \* sessions and their agents
          Terminal,           \* the session at the terminal, the only one prompted again
          MaxHappened, MaxCallIds   \* bounds

ASSUME RunTraceAssumption ==
  IsFiniteSet(Logs) /\ Terminal \in Logs /\ MaxHappened \in Nat /\ MaxCallIds \in Nat

VARIABLES
  events,  \* the run's
  lane     \* what each session is at

traceVars == <<events, lane>>

NewLane == [at |-> "new", by |-> <<>>, turn |-> -1, next |-> 0, calls |-> <<>>, open |-> {}, prompted |-> FALSE]

TraceInit == events = <<>> /\ lane = [s \in Logs |-> NewLane]

-----------------------------------------------------------------------------
\* obs-live.ts.

\* nested: the call whose script made this one; wrapper: does it dispatch.
Said(s, type, key, nested, wrapper) ==
  /\ Len(events) < MaxHappened
  /\ events' = Append(events, [s |-> s, type |-> type, key |-> key, nested |-> nested,
                               wrapper |-> wrapper, parent |-> lane'[s].by])

DispatchOpen(s, c) == c \in lane[s].open /\ lane[s].calls[c].wrapper
Occupied(s, c) == \E t \in Logs : lane[t].by = <<s, c>> /\ lane[t].at \in {"idle", "prompt"}

SessionStart(s) ==
  /\ lane[s].at = "new"
  /\ \E by \in IF s = Terminal THEN {<<>>} ELSE {d \in Logs \X (1..MaxCallIds) : DispatchOpen(d[1], d[2])} :
       lane' = [lane EXCEPT ![s].at = "idle", ![s].by = by]
  /\ Said(s, <<"session", "start">>, 0, 0, FALSE)

\* pi counts the turns of a prompt from 0.
Prompt(s) ==
  /\ lane[s].at = "idle" /\ (s = Terminal \/ ~lane[s].prompted)
  /\ lane' = [lane EXCEPT ![s].at = "prompt", ![s].next = 0, ![s].prompted = TRUE] /\ UNCHANGED events

TurnStart(s) ==
  /\ lane[s].at = "prompt" /\ lane[s].turn = -1
  /\ lane' = [lane EXCEPT ![s].turn = lane[s].next, ![s].next = @ + 1]
  /\ Said(s, <<"turn", "start">>, lane[s].next, 0, FALSE)

TurnEnd(s) ==
  /\ lane[s].turn >= 0 /\ lane[s].open = {}
  /\ \E at \in {"prompt", "idle"} : lane' = [lane EXCEPT ![s].turn = -1, ![s].at = at]
  /\ Said(s, <<"turn", "end">>, lane[s].turn, 0, FALSE)

ToolStart(s) ==
  /\ lane[s].turn >= 0 /\ Len(lane[s].calls) < MaxCallIds
  /\ \E nested \in {0} \cup {c \in lane[s].open : ~lane[s].calls[c].wrapper}, wrapper \in BOOLEAN :
       LET c == Len(lane[s].calls) + 1 IN
       /\ nested # 0 => ~wrapper
       /\ lane' = [lane EXCEPT ![s].calls = Append(@, [nested |-> nested, wrapper |-> wrapper]),
                               ![s].open = @ \cup {c}]
       /\ Said(s, <<"tool", "start">>, c, nested, wrapper)

ToolEnd(s, c) ==
  /\ c \in lane[s].open /\ ~Occupied(s, c)
  /\ \A d \in lane[s].open : lane[s].calls[d].nested # c
  /\ lane' = [lane EXCEPT ![s].open = @ \ {c}]
  /\ Said(s, <<"tool", "end">>, c, lane[s].calls[c].nested, lane[s].calls[c].wrapper)

SessionEnd(s) ==
  /\ lane[s].at = "idle" /\ lane' = [lane EXCEPT ![s].at = "over"]
  /\ Said(s, <<"session", "end">>, 0, 0, FALSE)

KillLane(s) ==
  /\ s # Terminal /\ lane[s].at \in {"idle", "prompt"}
  /\ lane' = [lane EXCEPT ![s].at = "over", ![s].turn = -1, ![s].open = {}] /\ UNCHANGED events

TraceNext == \E s \in Logs :
  \/ SessionStart(s) \/ Prompt(s) \/ TurnStart(s) \/ TurnEnd(s) \/ SessionEnd(s) \/ KillLane(s)
  \/ ToolStart(s) \/ \E c \in 1..MaxCallIds : ToolEnd(s, c)

TraceSpec == TraceInit /\ [][TraceNext]_traceVars

-----------------------------------------------------------------------------
\* The events a reader has are those from one of them on.

From(first) == {n \in DOMAIN events : n >= first}
OfType(seen, s, type) == {n \in seen : events[n].s = s /\ events[n].type = type}
Shown(seen) == {events[n].s : n \in seen}
FirstOf(seen, s) == Min({n \in seen : events[n].s = s})

\* Both trees look for the parent by its agent's name, and take the first session.
Named(seen, s) == {t \in Shown(seen) : lane[s].by # <<>> /\ RoleOf[t] = RoleOf[lane[s].by[1]]}
ParentLane(seen, s) ==
  IF Named(seen, s) = {} THEN {}
  ELSE {CHOOSE t \in Named(seen, s) : \A u \in Named(seen, s) : FirstOf(seen, t) <= FirstOf(seen, u)}

-----------------------------------------------------------------------------
\* spansForRun, of the whole run.

Seen == DOMAIN events
Latest(ns) == IF ns = {} THEN 0 ELSE Max(ns)

\* pairBy: the last start and the last end of a key; 0: none.
PairsBy(s, start, end) ==
  {<<k, Latest({n \in OfType(Seen, s, start) : events[n].key = k}),
        Latest({n \in OfType(Seen, s, end) : events[n].key = k})>> :
     k \in {events[n].key : n \in OfType(Seen, s, start) \cup OfType(Seen, s, end)}}

Span(id, parent, from, to) == [id |-> id, parent |-> parent, from |-> from, to |-> to]

AgentSpans ==
  {Span(<<"agent", s>>, {<<"agent", p>> : p \in ParentLane(Seen, s)},
        FirstOf(Seen, s), Max({n \in Seen : events[n].s = s})) : s \in Shown(Seen)}

ChatSpans(s) ==
  {Span(<<"chat", s, t[1]>>, {<<"agent", s>>},
        IF t[2] # 0 THEN t[2] ELSE t[3], IF t[3] # 0 THEN t[3] ELSE t[2]) :
     t \in PairsBy(s, <<"turn", "start">>, <<"turn", "end">>)}

\* Mutant: the call's own id, which two sessions may share.
CallSpanIdAlone(s, c) == <<"tool", c>>

CallSpanId(s, c) == <<"tool", s, c>>

Nesting(s, c) == (CHOOSE e \in ToSet(events) : e.s = s /\ e.key = c /\ e.type = <<"tool", "start">>).nested

CallSpans(s) ==
  {Span(CallSpanId(s, t[1]), {IF Nesting(s, t[1]) = 0 THEN <<"agent", s>> ELSE CallSpanId(s, Nesting(s, t[1]))},
        t[2], IF t[3] # 0 THEN t[3] ELSE t[2]) :
     t \in PairsBy(s, <<"tool", "start">>, <<"tool", "end">>)}

SpansForRun == AgentSpans \cup UNION {ChatSpans(s) \cup CallSpans(s) : s \in Shown(Seen)}

-----------------------------------------------------------------------------
\* buildTrace: a span begins where the event that opened it is.

KeyOf(n) == <<events[n].s, events[n].type[1], events[n].key>>

\* Mutant: anybody's.
OpenAny(open, n) == {m \in open : KeyOf(m)[2] = KeyOf(n)[2]}

\* Without its own opening, an end takes another of its session.
OpenHere(open, n) == {m \in open : KeyOf(m)[1] = KeyOf(n)[1] /\ KeyOf(m)[2] = KeyOf(n)[2]}

Opening(open, n) ==
  LET own == {m \in open : KeyOf(m) = KeyOf(n)} IN
  IF own # {} THEN own
  ELSE IF OpenHere(open, n) = {} THEN {} ELSE {Max(OpenHere(open, n))}

Built(acc, n) ==
  CASE events[n].type \in {<<"turn", "start">>, <<"tool", "start">>} ->
         [acc EXCEPT !.open = {m \in @ : KeyOf(m) # KeyOf(n)} \cup {n}]
    [] events[n].type \in {<<"turn", "end">>, <<"tool", "end">>} ->
         LET from == Opening(acc.open, n)
         IN [open |-> acc.open \ from, spans |-> acc.spans \cup {<<Max(from \cup {0}), n>>}]
    [] OTHER -> acc

BuildTrace(first) ==
  LET built[n \in 0..Len(events)] ==
        IF n < first THEN [open |-> {}, spans |-> {}] ELSE Built(built[n - 1], n)
  IN built[Len(events)].spans

\* walk: from the sessions without a parent down.
Kids(seen, s) == {t \in Shown(seen) : ParentLane(seen, t) = {s} /\ t # s}
TreeRoots(seen) == {t \in Shown(seen) : ParentLane(seen, t) \subseteq {t}}
Down(seen) ==
  LET below[k \in 0..Cardinality(Logs)] ==
        IF k = 0 THEN TreeRoots(seen) ELSE below[k - 1] \cup UNION {Kids(seen, s) : s \in below[k - 1]}
  IN below[Cardinality(Logs)]

-----------------------------------------------------------------------------
\* Active time: the union of the spans of leaf work.

Started(n) ==
  Max({m \in 1..n - 1 : KeyOf(m) = KeyOf(n) /\ events[m].type \in {<<"turn", "start">>, <<"tool", "start">>}})

\* Mutant: the last end is taken for the end.
JoinLast(acc, from, to) ==
  IF from > acc.end THEN [total |-> acc.total + acc.end - acc.start, start |-> from, end |-> to]
  ELSE [acc EXCEPT !.end = to]

JoinSpan(acc, from, to) ==
  IF from > acc.end THEN [total |-> acc.total + acc.end - acc.start, start |-> from, end |-> to]
  ELSE IF to > acc.end THEN [acc EXCEPT !.end = to] ELSE acc

\* intervalUnionMs: one span after the other, sorted by their starts.
IntervalUnion(work) ==
  LET Ending(m) == {n \in work : Started(n) = m}
      joined[m \in 0..Len(events)] ==
        IF m = 0 THEN [total |-> 0, start |-> 0, end |-> 0]
        ELSE IF Ending(m) = {} THEN joined[m - 1] ELSE JoinSpan(joined[m - 1], m, Max(Ending(m)))
      last == joined[Len(events)]
  IN last.total + last.end - last.start

ToolSpans == {n \in Seen : events[n].type = <<"tool", "end">> /\ ~events[n].wrapper}

\* Mutant: nobody is taken for an orchestrator.
Nobody(n) == {}

\* The agents that have dispatched by event n.
Orchestrators(n) ==
  {RoleOf[events[m].s] : m \in {k \in 1..n : events[k].type = <<"tool", "end">> /\ events[k].wrapper}}

\* RunIndexer goes by what it has read; buildRunDigest by the whole run.
Leaf(n, known) == events[n].type = <<"turn", "end">> /\ RoleOf[events[n].s] \notin known
IndexedWork == ToolSpans \cup {n \in Seen : Leaf(n, Orchestrators(n))}
DigestedWork == ToolSpans \cup {n \in Seen : Leaf(n, Orchestrators(Len(events)))}

-----------------------------------------------------------------------------
(***************************************************************************)
(* The trace that is sent is one tree: no id twice, no parent that is not  *)
(* in it, every call of a tool once, within the call that made it; and     *)
(* unless a second prompt has counted its turns from 0 again, every turn   *)
(* once, from its start to its end.  (A second prompt's turns replace the  *)
(* first's.)                                                               *)
(***************************************************************************)
CountedAgain(s) == \E m, n \in OfType(Seen, s, <<"turn", "start">>) : m # n /\ events[m].key = events[n].key

SpansTrue ==
  LET ids == {sp.id : sp \in SpansForRun} IN
  /\ Cardinality(ids) = Cardinality(SpansForRun)
  /\ \A sp \in SpansForRun : sp.parent \subseteq ids /\ sp.id \notin sp.parent
  /\ \A s \in Shown(Seen) :
       /\ Cardinality(CallSpans(s)) = Cardinality(OfType(Seen, s, <<"tool", "start">>))
       /\ \A sp \in CallSpans(s) : sp.from <= sp.to
       /\ \A sp, out \in CallSpans(s) : sp.parent = {out.id} => out.from < sp.from
       /\ ~CountedAgain(s) =>
            /\ Cardinality(ChatSpans(s)) = Cardinality(OfType(Seen, s, <<"turn", "start">>))
            /\ \A sp \in ChatSpans(s) : sp.from <= sp.to

(***************************************************************************)
(* However much of the run a page has, every session of it is in the tree, *)
(* every turn and call that ended is one span of its own session, and all  *)
(* turns, and with the whole run all calls, begin at their own start, also *)
(* when prompts count their turns from 0 again and calls overlap.          *)
(*                                                                         *)
(* Where two agents dispatch each other (not in one chain: see Dispatch) a *)
(* page without their first sessions may take each for the other's parent. *)
(***************************************************************************)
Ordered(seen) ==
  \E rank \in [Shown(seen) -> 1..Cardinality(Logs)] :
    \A s \in Shown(seen) : \A t \in Named(seen, s) : rank[t] < rank[s]

TreeTrue ==
  \A first \in 1..Len(events) + 1 :
    LET seen == From(first)
        spans == BuildTrace(first)
        ends == {n \in seen : events[n].type \in {<<"turn", "end">>, <<"tool", "end">>}}
    IN /\ first = 1 \/ Ordered(seen) => Down(seen) = Shown(seen)
       /\ {sp[2] : sp \in spans} = ends /\ Cardinality(spans) = Cardinality(ends)
       /\ \A sp \in spans :
            /\ sp[1] # 0 => events[sp[1]].s = events[sp[2]].s
            /\ first = 1 \/ events[sp[2]].type = <<"turn", "end">> =>
                 sp[1] = IF Started(sp[2]) >= first THEN Started(sp[2]) ELSE 0

(***************************************************************************)
(* The active time counts every moment once and only those in which some-  *)
(* body worked: not the wait of an agent for those it has dispatched.      *)
(***************************************************************************)
Moments(n) == Started(n)..n - 1
Waits(n) ==
  LET dispatches == {k \in Seen : /\ events[k].type = <<"tool", "end">> /\ events[k].wrapper
                                  /\ events[k].s = events[n].s}
  IN UNION {Moments(m) : m \in dispatches}

WorkTrue ==
  \A work \in {IndexedWork, DigestedWork} :
    /\ IntervalUnion(work) = Cardinality(UNION {Moments(n) : n \in work})
    /\ \A n \in work : events[n].type = <<"turn", "end">> => Moments(n) \cap Waits(n) = {}

RunTold == SpansTrue /\ TreeTrue /\ WorkTrue
=============================================================================
