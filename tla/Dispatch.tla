------------------------------ MODULE Dispatch ------------------------------
(***************************************************************************)
(* Free dispatch: dispatch_agent, dispatch_parallel and select_agents of   *)
(* extensions/dispatch.ts over orchestrator-core.ts, in the session the    *)
(* user types in and in every sub-agent that has the dispatch tools.       *)
(*                                                                         *)
(* Every agent is a pi process of its own with a state of its own (cards,  *)
(* counters).  What binds the tree together is the environment each child  *)
(* is started with, and one file in the shared working directory: the      *)
(* lessons the agents stage, which every process commits and clears.       *)
(*                                                                         *)
(* A process is named by the path of card numbers that leads to it: <<>>   *)
(* is the user's session, <<2, 1>> is the dispatch in card 1 of the agent  *)
(* in its card 2, and <<0>> the agent of the phase a pipeline is in (the   *)
(* pipeline itself is Pipeline's; how one agent is run is AgentRun's).     *)
(***************************************************************************)
EXTENDS Naturals, FiniteSets, SequencesExt

CONSTANTS
  Agents,       \* the agents loaded, by their canonical names
  Dispatchers,  \* those with dispatch tools in their frontmatter
  MaxPerTurn,   \* maxDispatchesPerTurn
  Ceilings,     \* values PI_DISPATCH_MAX_DEPTH may have in the session
  Requests,     \* bound: what the user asks for
  Lessons,      \* bound: lessons in the staging file
  Processes     \* bound: live processes

ASSUME DispatchAssumption ==
  /\ Dispatchers \subseteq Agents
  /\ MaxPerTurn \in Nat \ {0} /\ Ceilings \subseteq Nat
  /\ Requests \in Nat /\ Lessons \in Nat /\ Processes \in Nat

VARIABLES
  tree,      \* the live processes, and the state of each
  workflow,  \* a pipeline is running in the session
  staged,    \* .agent/learnings.jsonl
  kept,      \* the lessons the last commit wrote to the agents' memories
  asked      \* requests so far

vars == <<tree, workflow, staged, kept, asked>>

Session == <<>>
PhaseAgent == <<0>>

\* A card that is over shows "done" or "error", which decides nothing here.  `call`
\* names the call a running card belongs to.
Card == [agent : Agents, status : {"pending", "running", "over"}, call : Nat]

\* A call of a dispatch tool that has not returned: how many items it has, how
\* many are still running, whether one came back with a result.
Call == [id : Nat, size : Nat, left : Nat, ok : BOOLEAN]

Process ==
  [chain : Seq(Agents),     \* PI_DISPATCH_ANCESTRY; its length is PI_DISPATCH_DEPTH
   max : Nat,               \* PI_DISPATCH_MAX_DEPTH
   fresh : BOOLEAN,         \* freshDispatchSession
   spent : Nat,             \* dispatchesThisTurn
   cards : Seq(Card),       \* phases
   open : SUBSET Call,
   active : Nat,            \* activeDispatches
   good : BOOLEAN]          \* dispatchLearningsPassed

\* `by`: the process that staged it.  `proven` is a history flag: the dispatch it
\* was staged in came back with a result, to a caller still at work.
Lesson == [by : Seq(Nat), proven : BOOLEAN]

TypeOK ==
  /\ DOMAIN tree \subseteq Seq(Nat)
  /\ \A p \in DOMAIN tree : tree[p] \in Process
  /\ workflow \in BOOLEAN
  /\ staged \subseteq Lesson /\ kept \subseteq Lesson
  /\ asked \in 0..Requests

Started(chain, max) ==
  [chain |-> chain, max |-> max, fresh |-> TRUE, spent |-> 0, cards |-> <<>>,
   open |-> {}, active |-> 0, good |-> FALSE]

Init ==
  /\ \E max \in Ceilings : tree = [p \in {Session} |-> Started(<<>>, max)]
  /\ workflow = FALSE /\ staged = {} /\ kept = {} /\ asked = 0

Busy(p) == tree[p].active > 0

-----------------------------------------------------------------------------
\* An agent with dispatch tools is given a ceiling they can work under, unless
\* dispatch is switched off with 0.
CeilingAlwaysRaised(a, depth, max) ==
  IF a \in Dispatchers /\ max <= depth THEN depth + 1 ELSE max

DispatchCeilingFor(a, depth, max) ==
  IF a \in Dispatchers /\ max # 0 /\ max <= depth THEN depth + 1 ELSE max

SubagentEnv(p, a) ==
  LET chain == Append(tree[p].chain, a)
  IN  Started(chain, DispatchCeilingFor(a, Len(chain), tree[p].max))

Below(p) == {q \in DOMAIN tree \ {Session} : IsPrefix(p, q)}

\* A child ends, or is killed with everything it has started.
Without(q) == [r \in DOMAIN tree \ Below(q) |-> tree[r]]

HasDispatchTools(p) ==
  p = Session \/ (tree[p].chain # <<>> /\ Last(tree[p].chain) \in Dispatchers)

\* The user's session sees the pipeline it runs; a sub-agent is another process.
WorkflowIsRunning(p) == p = Session /\ workflow

MayDispatch(p) ==
  /\ HasDispatchTools(p)
  /\ ~WorkflowIsRunning(p)
  /\ Len(tree[p].chain) < tree[p].max

AncestorByAlias(p, a) == FALSE
Ancestor(p, a) == Contains(tree[p].chain, a)

\* The cards a call starts from: none on the first one of a request.
Cards(p) == IF tree[p].fresh THEN <<>> ELSE tree[p].cards

With(cards, a, status) == {i \in DOMAIN cards : cards[i].agent = a /\ cards[i].status = status}

Of(cards, a) == {i \in DOMAIN cards : cards[i].agent = a}

FreshOne(cards) == Len(cards) + 1

CardForAny(cards, a) ==
  IF Of(cards, a) # {} THEN Min(Of(cards, a)) ELSE FreshOne(cards)

\* dispatch_agent takes the queued card of the agent; a card at work is left
\* alone; one that is over is used again.
CardFor(cards, a) ==
  CASE With(cards, a, "pending") # {} -> Min(With(cards, a, "pending"))
    [] With(cards, a, "pending") = {} /\ With(cards, a, "running") = {}
       /\ Of(cards, a) # {} -> Min(Of(cards, a))
    [] OTHER -> FreshOne(cards)

\* dispatch_parallel takes queued cards only: every item the first one of its
\* agent that no item before it took, or else a new card at the end.
NoClaims(cards, items) == {[k \in DOMAIN items |-> Len(cards) + k]}
Claims(cards, items) ==
  LET last == Len(cards) + Len(items)
      queued(k) == With(cards, items[k], "pending")
  IN  {at \in [DOMAIN items -> 1..last] :
         /\ \A k \in DOMAIN items : at[k] \in queued(k) \/ at[k] > Len(cards)
         /\ \A k \in DOMAIN items : \A j \in 1..(k - 1) :
              items[j] = items[k] \/ (at[j] > Len(cards) /\ at[k] > Len(cards))
                => at[j] < at[k]
         /\ \A k \in DOMAIN items : \A i \in 1..(at[k] - 1) :
              i > Len(cards) \/ i \in queued(k) => i \in Range(at)}

-----------------------------------------------------------------------------
\* `work` gives the agents of a call by their cards.  They are counted, and their
\* processes started, in one stretch up to the call's first await.
Launch(p, work) ==
  LET n == Cardinality(DOMAIN work)
      started == {Append(p, i) : i \in DOMAIN work}
      call == [id |-> tree[p].spent, size |-> n, left |-> n, ok |-> FALSE]
      cards == [i \in DOMAIN Cards(p) \cup DOMAIN work |->
                  IF i \in DOMAIN work
                  THEN [agent |-> work[i], status |-> "running", call |-> call.id]
                  ELSE Cards(p)[i]]
      me == [tree[p] EXCEPT !.cards = cards, !.fresh = FALSE, !.spent = @ + n,
                            !.open = @ \cup {call}, !.active = @ + n]
  IN  /\ Cardinality(DOMAIN tree) + n <= Processes
      /\ tree' = [q \in DOMAIN tree \cup started |->
                     IF q = p THEN me
                     ELSE IF q \in DOMAIN tree THEN tree[q]
                     ELSE SubagentEnv(p, work[CHOOSE i \in DOMAIN work : q = Append(p, i)])]
      /\ UNCHANGED <<workflow, staged, kept, asked>>

\* Refusals (and the inline floor's, which may refuse phase-implementer) change
\* nothing and are no steps.
DispatchAgent(p, a) ==
  /\ MayDispatch(p)
  /\ tree[p].spent < MaxPerTurn
  /\ ~Ancestor(p, a)
  /\ Launch(p, [i \in {CardFor(Cards(p), a)} |-> a])

\* `items` are what is left of the batch without the unknown, the ancestors and
\* those the inline floor refuses.
DispatchParallel(p, items) ==
  /\ MayDispatch(p)
  /\ \A k \in DOMAIN items : ~Ancestor(p, items[k])
  /\ tree[p].spent + Len(items) <= MaxPerTurn
  /\ \E at \in Claims(Cards(p), items) :
       Launch(p, [i \in Range(at) |-> items[CHOOSE k \in DOMAIN items : at[k] = i]])

\* The same agents, all still queued: the call only says so.
AlreadyQueued(p, names) ==
  /\ Cards(p) # <<>> /\ Len(Cards(p)) = Cardinality(ToSet(names))
  /\ \A i \in DOMAIN Cards(p) :
       Cards(p)[i].status = "pending" /\ Cards(p)[i].agent \in ToSet(names)

\* A card for every name; the last card an agent has is kept, once.
Selected(p, names) ==
  [k \in DOMAIN names |->
     LET old == Of(Cards(p), names[k])
     IN  IF old # {} /\ \A j \in 1..(k - 1) : names[j] # names[k]
         THEN Cards(p)[Max(old)]
         ELSE [agent |-> names[k], status |-> "pending", call |-> 0]]

\* pi runs the calls of a batch one after the other as soon as one of them is a
\* dispatch (executionMode "sequential"), so a selection finds none in flight.  No
\* agent has select_agents among its tools: only the session selects.
SelectAgents(names) ==
  /\ ~workflow /\ ~Busy(Session)
  /\ names # <<>> /\ ~AlreadyQueued(Session, names)
  /\ tree' = [tree EXCEPT ![Session].cards = Selected(Session, names), ![Session].fresh = FALSE]
  /\ UNCHANGED <<workflow, staged, kept, asked>>

\* before_agent_start and agent_start; the first does not count a run that an
\* extension triggers as a request.
AgentStart(custom) ==
  /\ asked < Requests /\ ~Busy(Session)
  /\ asked' = asked + 1
  /\ tree' = [tree EXCEPT ![Session].spent = 0, ![Session].fresh = @ \/ ~custom]
  /\ UNCHANGED <<workflow, staged, kept>>

-----------------------------------------------------------------------------
\* The lessons staged are read and cleared; they are kept on a verdict of success.
CommitStagedLearnings(lessons, passed) ==
  /\ staged' = {}
  /\ kept' = IF passed THEN lessons ELSE {}

Proven(q, ok) ==
  {[l EXCEPT !.proven = IF IsStrictPrefix(q, l.by) THEN FALSE ELSE @ \/ (ok /\ l.by = q)] :
     l \in staged}

LastVerdict(me, call) == call.ok
Verdict(me, call) == me.good \/ call.ok

\* The last item of a call has landed: its result joins those of the calls in
\* flight beside it, and the last of them commits.
FinishDispatchLearnings(me, call, lessons) ==
  IF me.active = call.size
  THEN CommitStagedLearnings(lessons, Verdict(me, call))
  ELSE staged' = lessons /\ UNCHANGED kept

FinishedOne(me, call) ==
  [me EXCEPT !.active = @ - 1, !.good = Verdict(me, call) /\ me.active # 1]

Finished(me, call) ==
  [me EXCEPT !.active = @ - call.size, !.good = Verdict(me, call) /\ me.active # call.size]

OpenCall(p, i) == CHOOSE c \in tree[p].open : c.id = tree[p].cards[i].call

CallAfter(p, i, ok) == [OpenCall(p, i) EXCEPT !.left = @ - 1, !.ok = @ \/ ok]

\* The state of the process whose dispatch has come back.
Landed(p, i, ok) ==
  LET call == CallAfter(p, i, ok)
      others == tree[p].open \ {OpenCall(p, i)}
      card == [tree[p].cards[i] EXCEPT !.status = "over", !.call = 0]
      me == [tree[p] EXCEPT !.cards = [@ EXCEPT ![i] = card],
                            !.open = IF call.left = 0 THEN others ELSE others \cup {call}]
  IN  IF call.left = 0 THEN Finished(me, call) ELSE me

\* A dispatch comes back: with a result, or with none (it failed, was killed, could
\* not be started, or came back empty twice).  One that ends by itself has
\* waited for its own calls.
Land(p, i, ok) ==
  /\ p \in DOMAIN tree /\ Append(p, i) \in DOMAIN tree
  /\ i \in DOMAIN tree[p].cards
  /\ ok => ~Busy(Append(p, i))
  /\ tree' = [Without(Append(p, i)) EXCEPT ![p] = Landed(p, i, ok)]
  /\ LET lessons == Proven(Append(p, i), ok)
     IN  IF CallAfter(p, i, ok).left = 0
         THEN FinishDispatchLearnings(tree[p], CallAfter(p, i, ok), lessons)
         ELSE staged' = lessons /\ UNCHANGED kept
  /\ UNCHANGED <<workflow, asked>>

\* The dispatch is tried once more (it came back empty, failed for a passing reason,
\* or its model did): a new process in the same environment, on the same card.
Retry(p, i) ==
  LET q == Append(p, i)
  IN  /\ q \in DOMAIN tree /\ q # PhaseAgent
      /\ tree' = [r \in DOMAIN Without(q) \cup {q} |->
                    IF r = q THEN Started(tree[q].chain, tree[q].max) ELSE tree[r]]
      /\ staged' = Proven(q, FALSE)
      /\ UNCHANGED <<workflow, kept, asked>>

\* The remember tool, in any agent at work.
Remember(q) ==
  /\ q # Session
  /\ Cardinality(staged) < Lessons
  /\ staged' = staged \cup {[by |-> q, proven |-> FALSE]}
  /\ UNCHANGED <<tree, workflow, kept, asked>>

-----------------------------------------------------------------------------
\* The pipeline of the session.  It asks whether one is running, not whether a
\* dispatch is, and starts from an empty staging file.
StartWorkflow ==
  /\ ~workflow /\ workflow' = TRUE /\ staged' = {}
  /\ UNCHANGED <<tree, kept, asked>>

RunPhase(a) ==
  /\ workflow /\ PhaseAgent \notin DOMAIN tree
  /\ Cardinality(DOMAIN tree) < Processes
  /\ tree' = [q \in DOMAIN tree \cup {PhaseAgent} |->
                IF q = PhaseAgent THEN SubagentEnv(Session, a) ELSE tree[q]]
  /\ UNCHANGED <<workflow, staged, kept, asked>>

EndPhase ==
  /\ PhaseAgent \in DOMAIN tree
  /\ tree' = Without(PhaseAgent)
  /\ staged' = Proven(PhaseAgent, FALSE)
  /\ UNCHANGED <<workflow, kept, asked>>

\* A cancelled run returns before the commit.
EndWorkflow(status) ==
  /\ workflow /\ PhaseAgent \notin DOMAIN tree
  /\ workflow' = FALSE
  /\ IF status = "aborted" THEN UNCHANGED <<staged, kept>>
     ELSE CommitStagedLearnings(staged, status = "passed")
  /\ UNCHANGED <<tree, asked>>

Next ==
  \/ \E p \in DOMAIN tree :
       \/ \E a \in Agents : DispatchAgent(p, a)
       \/ \E a, b \in Agents : DispatchParallel(p, <<a>>) \/ DispatchParallel(p, <<a, b>>)
       \/ \E i \in DOMAIN tree[p].cards, ok \in BOOLEAN : Land(p, i, ok)
       \/ \E i \in DOMAIN tree[p].cards : Retry(p, i)
       \/ Remember(p)
  \/ \E a, b \in Agents : SelectAgents(<<a, b>>) \/ SelectAgents(<<a>>)
  \/ \E custom \in BOOLEAN : AgentStart(custom)
  \/ StartWorkflow
  \/ \E a \in Agents : RunPhase(a)
  \/ EndPhase
  \/ \E status \in {"passed", "failed", "aborted"} : EndWorkflow(status)

Spec == Init /\ [][Next]_vars

-----------------------------------------------------------------------------
\* dispatchAgentCore's guards keep the tree from turning in circles: no agent is
\* at work on behalf of itself.
NoCycle ==
  \A p \in DOMAIN tree : LET chain == tree[p].chain
                         IN  \A i, j \in DOMAIN chain : chain[i] = chain[j] => i = j

\* PI_DISPATCH_MAX_DEPTH=0 switches dispatch off all the way down, although the
\* ceiling is raised for children; and it is raised to what a child needs at most.
CeilingHolds ==
  \A p \in DOMAIN tree :
    /\ tree[Session].max = 0 => p \in {Session, PhaseAgent}
    /\ tree[p].max > tree[Session].max => tree[p].max <= Len(tree[p].chain) + 1

\* What the dashboard shows as running is running, nothing else is, and the
\* count that decides who commits the lessons is above zero exactly meanwhile.
InFlightTold ==
  \A p \in DOMAIN tree :
    LET running == {i \in DOMAIN tree[p].cards : tree[p].cards[i].status = "running"}
        alive == {q \in DOMAIN tree : Len(q) = Len(p) + 1 /\ IsPrefix(p, q)}
    IN  /\ alive \ {PhaseAgent} = {Append(p, i) : i \in running}
        /\ Busy(p) <=> running # {}

\* The processes a step leaves in place; one that is retried starts from scratch.
Stay == {p \in DOMAIN tree \cap DOMAIN tree' : tree'[p] # Started(tree[p].chain, tree[p].max)}

\* Two dispatches in flight never share a card: a card at work stays with its
\* call until that lands.
RunningCardKept ==
  [][\A p \in Stay : \A i \in DOMAIN tree[p].cards :
       tree[p].cards[i].status = "running" =>
         /\ i \in DOMAIN tree'[p].cards
         /\ tree'[p].cards[i] = tree[p].cards[i] \/ tree'[p].cards[i].status = "over"]_vars

\* A card says what its dispatch does, for as long as that takes.
CardsTrue == []InFlightTold /\ RunningCardKept

\* A card is added for an agent at work only when none was queued for it: what
\* select_agents announced is what the dispatches serve.
QueueIsServed ==
  [][\A p \in Stay : \A i \in DOMAIN tree'[p].cards :
       (i > Len(Cards(p)) /\ tree'[p].cards[i].status = "running") =>
         With(tree'[p].cards, tree'[p].cards[i].agent, "pending") = {}]_vars

\* The cards of the dispatches tell what they are at, and all that queue are served.
QueueSound == CardsTrue /\ QueueIsServed

\* A lesson of a dispatch that brought a result is not dropped because a sibling
\* failed: when the process that dispatched it closes the group, it is kept.
ProvenLessonsKept ==
  [][\A l \in staged \ staged' :
       LET p == Front(l.by)
       IN  (/\ l.proven /\ p \in Stay
            /\ Busy(p) /\ tree'[p].active = 0) => l \in kept']_vars

\* utils/workflow/memory.ts:5: what the agents of a run stage is committed when the
\* run is finalized, not before.
LessonsWaitForVerdict ==
  [][\A l \in (staged \ staged') \cap kept' : IsPrefix(PhaseAgent, l.by) => workflow /\ ~workflow']_vars
=============================================================================
