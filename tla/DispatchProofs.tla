--------------------------- MODULE DispatchProofs ---------------------------
(***************************************************************************)
(* The tree of dispatched agents, for any agents, ceilings and bounds: it  *)
(* never turns in a circle, switching dispatch off holds for all of it,    *)
(* its cards show what is at work, and earned lessons are kept.            *)
(*                                                                         *)
(* What a child is started with depends on its parent's environment only,  *)
(* so one invariant about the environments (Environments) carries the      *)
(* first two.  The others rest on QueueInv: the tree has no gaps, the      *)
(* children of a process are its running cards (Manned), every running     *)
(* card has an open call that counts it and every open call has its slots  *)
(* in the count of the process (Desk), and a lesson that was earned is     *)
(* owed a verdict by a process that is still busy (Owed).                  *)
(***************************************************************************)
EXTENDS Dispatch, TLAPS, FiniteSetTheorems, SequenceTheorems, WellFoundedInduction

-----------------------------------------------------------------------------
\* The environments of the processes.

NoRepeat(chain) == \A i, j \in DOMAIN chain : chain[i] = chain[j] => i = j

Environment(p) ==
  /\ {"chain", "max"} \subseteq DOMAIN tree[p]
  /\ tree[p].chain \in Seq(Agents) /\ tree[p].max \in Nat
  /\ NoRepeat(tree[p].chain)

Allowed(p) ==
  /\ tree[Session].max = 0 => p \in {Session, PhaseAgent} /\ tree[p].max = 0
  /\ tree[p].max > tree[Session].max => tree[p].max <= Len(tree[p].chain) + 1

Environments ==
  /\ Session \in DOMAIN tree /\ tree[Session].chain = <<>>
  /\ \A p \in DOMAIN tree : Environment(p) /\ Allowed(p)

\* A step that starts nothing keeps what the processes were started with.
SameEnvironments ==
  /\ Session \in DOMAIN tree' /\ DOMAIN tree' \subseteq DOMAIN tree
  /\ \A p \in DOMAIN tree' :
       /\ {"chain", "max"} \subseteq DOMAIN tree'[p]
       /\ tree'[p].chain = tree[p].chain /\ tree'[p].max = tree[p].max

\* What a child of p may be started with.
Fits(p, c) ==
  /\ {"chain", "max"} \subseteq DOMAIN c
  /\ c.chain \in Seq(Agents) /\ c.max \in Nat
  /\ NoRepeat(c.chain)
  /\ tree[p].max = 0 => c.max = 0
  /\ c.max > tree[Session].max => c.max <= Len(c.chain) + 1

\* A child started for an agent that is not among its ancestors fits in.
LEMMA ChildFits ==
  ASSUME NEW p \in DOMAIN tree, NEW a \in Agents, Environments, ~Ancestor(p, a)
  PROVE  Fits(p, SubagentEnv(p, a))
<1> DEFINE old == tree[p].chain
           new == Append(old, a)
           c == SubagentEnv(p, a)
<1>1. /\ old \in Seq(Agents) /\ NoRepeat(old) /\ tree[p].max \in Nat
      /\ tree[p].max > tree[Session].max => tree[p].max <= Len(old) + 1
      /\ tree[Session].max \in Nat
  BY DEF Environments, Environment, Allowed
<1>2. /\ new \in Seq(Agents) /\ Len(new) = Len(old) + 1 /\ Len(old) \in Nat
      /\ new[Len(old) + 1] = a /\ \A i \in 1..Len(old) : new[i] = old[i]
  BY <1>1
<1>3. \A i \in DOMAIN old : old[i] # a
  BY DEF Ancestor, Contains
<1>4. NoRepeat(new)
  <2> SUFFICES ASSUME NEW i \in DOMAIN new, NEW j \in DOMAIN new, new[i] = new[j] PROVE i = j
    BY DEF NoRepeat
  <2>1. DOMAIN new = 1..(Len(old) + 1) /\ DOMAIN old = 1..Len(old)
    BY <1>1, <1>2
  <2>2. CASE i \in DOMAIN old /\ j \in DOMAIN old
    BY <1>1, <1>2, <2>1, <2>2 DEF NoRepeat
  <2>3. CASE i \notin DOMAIN old \/ j \notin DOMAIN old
    BY <1>2, <1>3, <2>1, <2>3
  <2>4. QED BY <2>2, <2>3
<1>5. /\ {"chain", "max"} \subseteq DOMAIN c /\ c.chain = new
      /\ c.max = DispatchCeilingFor(a, Len(new), tree[p].max)
  BY DEF SubagentEnv, Started
<1>6. /\ c.max \in Nat
      /\ tree[p].max = 0 => c.max = 0
      /\ c.max = tree[p].max \/ c.max = Len(new) + 1
  BY <1>1, <1>2, <1>5 DEF DispatchCeilingFor
<1>7. c.max > tree[Session].max => c.max <= Len(c.chain) + 1
  BY <1>1, <1>2, <1>5, <1>6
<1> QED BY <1>2, <1>4, <1>5, <1>6, <1>7 DEF Fits

\* A step that starts nothing keeps the invariant.
LEMMA SameStep ==
  ASSUME Environments, SameEnvironments
  PROVE  Environments'
<1>1. /\ tree'[Session].max = tree[Session].max
      /\ Session \in DOMAIN tree' /\ tree'[Session].chain = <<>>
  BY DEF SameEnvironments, Environments
<1> SUFFICES ASSUME NEW p \in DOMAIN tree' PROVE Environment(p)' /\ Allowed(p)'
  BY <1>1 DEF Environments
<1>2. p \in DOMAIN tree /\ Environment(p) /\ Allowed(p)
  BY DEF SameEnvironments, Environments
<1>3. /\ {"chain", "max"} \subseteq DOMAIN tree'[p]
      /\ tree'[p].chain = tree[p].chain /\ tree'[p].max = tree[p].max
  BY DEF SameEnvironments
<1>4. Environment(p)'
  BY <1>2, <1>3 DEF Environment
<1>5. Allowed(p)'
  BY <1>1, <1>2, <1>3 DEF Allowed, Session, PhaseAgent
<1> QED BY <1>4, <1>5

\* Children that fit in keep it.
LEMMA LaunchStep ==
  ASSUME Environments, NEW p \in DOMAIN tree, NEW work, MayDispatch(p), Launch(p, work),
         \A i \in DOMAIN work : work[i] \in Agents /\ ~Ancestor(p, work[i])
  PROVE  Environments'
<1> DEFINE started == {Append(p, i) : i \in DOMAIN work}
           agent(q) == work[CHOOSE i \in DOMAIN work : q = Append(p, i)]
<1>1. /\ DOMAIN tree' = DOMAIN tree \cup started
      /\ \A q \in DOMAIN tree \ {p} : tree'[q] = tree[q]
      /\ \A q \in started \ DOMAIN tree : tree'[q] = SubagentEnv(p, agent(q))
  BY DEF Launch
<1>a. /\ DOMAIN tree'[p] = DOMAIN tree[p]
      /\ "chain" \in DOMAIN tree[p] => tree'[p].chain = tree[p].chain
      /\ "max" \in DOMAIN tree[p] => tree'[p].max = tree[p].max
  BY DEF Launch
<1>2. tree[Session].max # 0
  <2>1. tree[p].chain \in Seq(Agents) /\ tree[p].max \in Nat /\ Len(tree[p].chain) < tree[p].max
    BY DEF Environments, Environment, MayDispatch
  <2>2. tree[p].max # 0
    BY <2>1
  <2> QED BY <2>2 DEF Environments, Allowed
<1>3. \A q \in DOMAIN tree : /\ {"chain", "max"} \subseteq DOMAIN tree'[q]
                             /\ tree'[q].chain = tree[q].chain /\ tree'[q].max = tree[q].max
  BY <1>1, <1>a DEF Environments, Environment
<1>4. /\ Session \in DOMAIN tree' /\ tree'[Session].chain = <<>>
      /\ tree'[Session].max = tree[Session].max
  BY <1>1, <1>3 DEF Environments
<1> SUFFICES ASSUME NEW q \in DOMAIN tree' PROVE Environment(q)' /\ Allowed(q)'
  BY <1>4 DEF Environments
<1>5. CASE q \in DOMAIN tree
  <2>1. Environment(q) /\ Allowed(q)
    BY <1>5 DEF Environments
  <2>2. Environment(q)'
    BY <1>3, <1>5, <2>1 DEF Environment
  <2>3. Allowed(q)'
    BY <1>2, <1>3, <1>4, <1>5, <2>1 DEF Allowed
  <2> QED BY <2>2, <2>3
<1>6. CASE q \notin DOMAIN tree
  <2>1. q \in started /\ q # p /\ tree'[q] = SubagentEnv(p, agent(q))
    BY <1>1, <1>6
  <2>2. PICK i \in DOMAIN work : agent(q) = work[i]
    BY <2>1
  <2>3. agent(q) \in Agents /\ ~Ancestor(p, agent(q))
    BY <2>2
  <2>4. Fits(p, SubagentEnv(p, agent(q)))
    BY <2>3, ChildFits
  <2>5. Environment(q)'
    BY <2>1, <2>4 DEF Fits, Environment
  <2>6. Allowed(q)'
    BY <1>2, <1>4, <2>1, <2>4 DEF Fits, Allowed
  <2> QED BY <2>5, <2>6
<1> QED BY <1>5, <1>6

\* dispatch_agent starts one child, of no ancestor's agent.
LEMMA DispatchAgentStep ==
  ASSUME Environments, NEW p \in DOMAIN tree, NEW a \in Agents, DispatchAgent(p, a)
  PROVE  Environments'
<1> DEFINE work == [i \in {CardFor(Cards(p), a)} |-> a]
<1>1. MayDispatch(p) /\ Launch(p, work) /\ ~Ancestor(p, a)
  BY DEF DispatchAgent
<1>2. \A i \in DOMAIN work : work[i] \in Agents /\ ~Ancestor(p, work[i])
  BY <1>1
<1> HIDE DEF work
<1> QED BY <1>1, <1>2, LaunchStep

\* dispatch_parallel starts those of its items that pass the checks.
LEMMA DispatchParallelStep ==
  ASSUME Environments, NEW p \in DOMAIN tree, NEW items, DispatchParallel(p, items),
         \A k \in DOMAIN items : items[k] \in Agents
  PROVE  Environments'
<1>1. PICK at \in Claims(Cards(p), items) :
        Launch(p, [i \in Range(at) |-> items[CHOOSE k \in DOMAIN items : at[k] = i]])
  BY DEF DispatchParallel
<1> DEFINE work == [i \in Range(at) |-> items[CHOOSE k \in DOMAIN items : at[k] = i]]
<1>2. MayDispatch(p) /\ \A k \in DOMAIN items : ~Ancestor(p, items[k])
  BY DEF DispatchParallel
<1>3. \A i \in DOMAIN work : work[i] \in Agents /\ ~Ancestor(p, work[i])
  <2> SUFFICES ASSUME NEW i \in Range(at)
               PROVE  work[i] \in Agents /\ ~Ancestor(p, work[i])
    OBVIOUS
  <2>1. DOMAIN at = DOMAIN items
    BY DEF Claims
  <2>2. PICK k \in DOMAIN items : at[k] = i
    BY <2>1 DEF Range
  <2>3. (CHOOSE j \in DOMAIN items : at[j] = i) \in DOMAIN items
    BY <2>2
  <2> QED BY <1>2, <2>3
<1> HIDE DEF work
<1> QED BY <1>1, <1>2, <1>3, LaunchStep DEF work

\* A child that returns leaves the tree with those below it.
LEMMA LandStep ==
  ASSUME Environments, NEW p, NEW i, NEW ok, Land(p, i, ok)
  PROVE  SameEnvironments
<1>1. /\ "chain" \in DOMAIN tree[p] => /\ "chain" \in DOMAIN Landed(p, i, ok)
                                      /\ Landed(p, i, ok).chain = tree[p].chain
      /\ "max" \in DOMAIN tree[p] => /\ "max" \in DOMAIN Landed(p, i, ok)
                                    /\ Landed(p, i, ok).max = tree[p].max
  BY DEF Landed, Finished
<1>2. p \in DOMAIN tree /\ tree' = [Without(Append(p, i)) EXCEPT ![p] = Landed(p, i, ok)]
  BY DEF Land
<1>3. /\ DOMAIN tree' \subseteq DOMAIN tree /\ Session \in DOMAIN tree'
      /\ \A q \in DOMAIN tree' : tree'[q] = IF q = p THEN Landed(p, i, ok) ELSE tree[q]
  BY <1>2 DEF Without, Below, Environments
<1> QED BY <1>1, <1>2, <1>3 DEF SameEnvironments, Environments, Environment

\* A phase of the pipeline starts an agent of its own.
LEMMA RunPhaseStep ==
  ASSUME Environments, NEW a \in Agents, RunPhase(a)
  PROVE  Environments'
<1> DEFINE c == SubagentEnv(Session, a)
<1>1. /\ DOMAIN tree' = DOMAIN tree \cup {PhaseAgent} /\ PhaseAgent \notin DOMAIN tree
      /\ tree'[PhaseAgent] = c
      /\ \A q \in DOMAIN tree : tree'[q] = tree[q]
  BY DEF RunPhase
<1>2. Session \in DOMAIN tree /\ ~Ancestor(Session, a)
  BY DEF Environments, Ancestor, Contains
<1>3. Fits(Session, c)
  BY <1>2, ChildFits
<1> HIDE DEF c
<1> SUFFICES ASSUME NEW p \in DOMAIN tree' PROVE Environment(p)' /\ Allowed(p)'
  BY <1>1, <1>2 DEF Environments
<1>4. CASE p \in DOMAIN tree
  BY <1>1, <1>2, <1>4 DEF Environments, Environment, Allowed
<1>5. CASE p = PhaseAgent
  BY <1>1, <1>2, <1>3, <1>5 DEF Fits, Environment, Allowed
<1> QED BY <1>1, <1>4, <1>5

\* At first there is the session alone.
LEMMA InitEnvironments ==
  ASSUME Init
  PROVE  Environments
<1>1. PICK max \in Ceilings : tree = [p \in {Session} |-> Started(<<>>, max)]
  BY DEF Init
<1>2. /\ DOMAIN tree = {Session} /\ max \in Nat
      /\ {"chain", "max"} \subseteq DOMAIN tree[Session]
      /\ tree[Session].chain = <<>> /\ tree[Session].max = max
  BY <1>1, DispatchAssumption DEF Started
<1>3. NoRepeat(<<>>)
  BY DEF NoRepeat
<1>4. Environment(Session)
  BY <1>2, <1>3 DEF Environment
<1>5. Allowed(Session)
  BY <1>2 DEF Allowed
<1> QED BY <1>2, <1>4, <1>5 DEF Environments

\* One step of any kind keeps the invariant.
LEMMA StepEnvironments ==
  ASSUME Environments, [Next]_vars
  PROVE  Environments'
<1>1. ASSUME NEW p \in DOMAIN tree, NEW a \in Agents, DispatchAgent(p, a) PROVE Environments'
  BY <1>1, DispatchAgentStep
<1>2. ASSUME NEW p \in DOMAIN tree, NEW a \in Agents, NEW b \in Agents,
             DispatchParallel(p, <<a>>) \/ DispatchParallel(p, <<a, b>>)
      PROVE Environments'
  <2>1. CASE DispatchParallel(p, <<a>>)
    <3>1. \A k \in DOMAIN <<a>> : <<a>>[k] \in Agents
      OBVIOUS
    <3> QED BY <2>1, <3>1, DispatchParallelStep
  <2>2. CASE DispatchParallel(p, <<a, b>>)
    <3>1. \A k \in DOMAIN <<a, b>> : <<a, b>>[k] \in Agents
      OBVIOUS
    <3> QED BY <2>2, <3>1, DispatchParallelStep
  <2> QED BY <1>2, <2>1, <2>2
<1>3. ASSUME NEW p \in DOMAIN tree, NEW i, NEW ok, Land(p, i, ok) PROVE Environments'
  BY <1>3, LandStep, SameStep
<1>r. ASSUME NEW p \in DOMAIN tree, NEW i, Retry(p, i) PROVE Environments'
  <2>1. SameEnvironments
    BY <1>r DEF Retry, Started, Without, Below, SameEnvironments, Environments, Environment
  <2> QED BY <2>1, SameStep
<1>4. ASSUME NEW p, Remember(p) PROVE Environments'
  <2>1. SameEnvironments
    BY <1>4 DEF Remember, SameEnvironments, Environments, Environment
  <2> QED BY <2>1, SameStep
<1>5. ASSUME NEW names, SelectAgents(names) PROVE Environments'
  <2>1. SameEnvironments
    BY <1>5 DEF SelectAgents, SameEnvironments, Environments, Environment
  <2> QED BY <2>1, SameStep
<1>6. ASSUME NEW custom, AgentStart(custom) PROVE Environments'
  <2>1. SameEnvironments
    BY <1>6 DEF AgentStart, SameEnvironments, Environments, Environment
  <2> QED BY <2>1, SameStep
<1>7. ASSUME NEW a \in Agents, RunPhase(a) PROVE Environments'
  BY <1>7, RunPhaseStep
<1>8. CASE EndPhase
  <2>1. SameEnvironments
    BY <1>8 DEF EndPhase, Without, Below, SameEnvironments, Environments, Environment
  <2> QED BY <2>1, SameStep
<1>9. CASE StartWorkflow \/ (\E status \in {"passed", "failed", "aborted"} : EndWorkflow(status)) \/ UNCHANGED vars
  <2>1. UNCHANGED tree
    BY <1>9 DEF StartWorkflow, EndWorkflow, vars
  <2>2. SameEnvironments
    BY <2>1 DEF SameEnvironments, Environments, Environment
  <2> QED BY <2>2, SameStep
<1> QED BY <1>1, <1>2, <1>3, <1>r, <1>4, <1>5, <1>6, <1>7, <1>8, <1>9 DEF Next

\* Every process of the tree was started with an environment that fits its place.
THEOREM EnvironmentsHold == Spec => []Environments
BY InitEnvironments, StepEnvironments, PTL DEF Spec

\* No agent is ever started on behalf of itself, however deep dispatches nest
\* (the ancestry check of dispatchAgentCore and dispatchParallelCore).
THEOREM ChainsHaveNoCycle == Spec => []NoCycle
<1>1. Environments => NoCycle
  BY DEF Environments, Environment, NoRepeat, NoCycle
<1> QED BY <1>1, EnvironmentsHold, PTL

\* PI_DISPATCH_MAX_DEPTH=0 keeps every sub-agent of a pipeline from dispatching,
\* and dispatchCeilingFor raises the ceiling by what a child needs and no more.
THEOREM CeilingIsKept == Spec => []CeilingHolds
<1>1. Environments => CeilingHolds
  BY DEF Environments, Allowed, CeilingHolds
<1> QED BY <1>1, EnvironmentsHold, PTL

-----------------------------------------------------------------------------
\* Where a process is in the tree: paths.

\* A path is under another when it is as long and agrees with it so far.
LEMMA PrefixIs ==
  ASSUME NEW s \in Seq(Nat), NEW t \in Seq(Nat)
  PROVE  IsPrefix(s, t) <=> Len(s) <= Len(t) /\ \A k \in 1..Len(s) : s[k] = t[k]
<1>1. CASE Len(s) <= Len(t)
  <2>1. /\ SubSeq(s, 1, Len(s)) \in Seq(Nat) /\ Len(SubSeq(s, 1, Len(s))) = Len(s)
        /\ \A k \in 1..Len(s) : SubSeq(s, 1, Len(s))[k] = s[k]
    OBVIOUS
  <2>2. /\ SubSeq(t, 1, Len(s)) \in Seq(Nat) /\ Len(SubSeq(t, 1, Len(s))) = Len(s)
        /\ \A k \in 1..Len(s) : SubSeq(t, 1, Len(s))[k] = t[k]
    BY <1>1
  <2>3. ASSUME \A k \in 1..Len(s) : s[k] = t[k] PROVE SubSeq(s, 1, Len(s)) = SubSeq(t, 1, Len(s))
    <3>1. \A k \in 1..Len(s) : SubSeq(s, 1, Len(s))[k] = SubSeq(t, 1, Len(s))[k]
      BY <2>1, <2>2, <2>3
    <3> QED BY <2>1, <2>2, <3>1, SeqEqual
  <2>4. ASSUME SubSeq(s, 1, Len(s)) = SubSeq(t, 1, Len(s)) PROVE \A k \in 1..Len(s) : s[k] = t[k]
    BY <2>1, <2>2, <2>4
  <2> QED BY <1>1, <2>3, <2>4 DEF IsPrefix
<1>2. CASE ~ (Len(s) <= Len(t))
  BY <1>2 DEF IsPrefix
<1> QED BY <1>1, <1>2

\* The path of a card: one longer, and its front is the process the card is in.
LEMMA ChildPath ==
  ASSUME NEW p \in Seq(Nat), NEW i \in Nat
  PROVE  /\ Append(p, i) \in Seq(Nat) /\ Append(p, i) # Session
         /\ Len(Append(p, i)) = Len(p) + 1 /\ Len(p) \in Nat
         /\ Append(p, i)[Len(p) + 1] = i /\ \A k \in 1..Len(p) : Append(p, i)[k] = p[k]
         /\ Front(Append(p, i)) = p
<1>1. /\ Append(p, i) \in Seq(Nat) /\ Append(p, i) # Session
      /\ Len(Append(p, i)) = Len(p) + 1 /\ Len(p) \in Nat
      /\ Append(p, i)[Len(p) + 1] = i /\ \A k \in 1..Len(p) : Append(p, i)[k] = p[k]
  BY DEF Session
<1>2. /\ SubSeq(Append(p, i), 1, Len(p)) \in Seq(Nat)
      /\ Len(SubSeq(Append(p, i), 1, Len(p))) = Len(p)
      /\ \A k \in 1..Len(p) : SubSeq(Append(p, i), 1, Len(p))[k] = p[k]
  BY <1>1
<1>3. SubSeq(Append(p, i), 1, Len(p)) = p
  BY <1>2, SeqEqual
<1>4. Len(Append(p, i)) - 1 = Len(p)
  BY <1>1
<1>5. Front(Append(p, i)) = p
  BY <1>3, <1>4 DEF Front
<1> QED BY <1>1, <1>5

\* Paths of cards are told apart by the process and by the card.
LEMMA ChildrenDiffer ==
  ASSUME NEW p \in Seq(Nat), NEW q \in Seq(Nat), NEW i \in Nat, NEW j \in Nat,
         Append(p, i) = Append(q, j)
  PROVE  p = q /\ i = j
<1>1. p = q
  <2>1. Front(Append(p, i)) = p
    BY ChildPath
  <2>2. Front(Append(q, j)) = q
    BY ChildPath
  <2> QED BY <2>1, <2>2
<1>2. Append(p, i)[Len(p) + 1] = i /\ Append(q, j)[Len(q) + 1] = j
  BY ChildPath
<1> QED BY <1>1, <1>2

\* A path that is not the session's is the path of a card.
LEMMA FrontPath ==
  ASSUME NEW p \in Seq(Nat), p # Session
  PROVE  /\ Front(p) \in Seq(Nat) /\ Last(p) \in Nat
         /\ p = Append(Front(p), Last(p))
<1>1. Len(p) \in Nat /\ Len(p) >= 1 /\ \A k \in 1..Len(p) : p[k] \in Nat
  BY DEF Session
<1>2. /\ Front(p) \in Seq(Nat) /\ Len(Front(p)) = Len(p) - 1
      /\ \A k \in 1..(Len(p) - 1) : Front(p)[k] = p[k]
  <2>0. Len(p) - 1 \in Nat /\ Len(p) - 1 <= Len(p)
    BY <1>1
  <2>1. PICK n \in Nat : n = Len(p) - 1 /\ n <= Len(p)
    BY <2>0
  <2>2. /\ SubSeq(p, 1, n) \in Seq(Nat) /\ Len(SubSeq(p, 1, n)) = n
        /\ \A k \in 1..n : SubSeq(p, 1, n)[k] = p[k]
    BY <1>1, <2>1
  <2>3. Front(p) = SubSeq(p, 1, n)
    BY <2>1 DEF Front
  <2> QED BY <2>1, <2>2, <2>3
<1>3. Last(p) = p[Len(p)] /\ Last(p) \in Nat
  BY <1>1 DEF Last
<1>4. /\ Append(Front(p), Last(p)) \in Seq(Nat)
      /\ Len(Append(Front(p), Last(p))) = Len(p)
  BY <1>1, <1>2, <1>3
<1>5. \A k \in 1..Len(p) : Append(Front(p), Last(p))[k] = p[k]
  BY <1>1, <1>2, <1>3
<1>6. Append(Front(p), Last(p)) = p
  BY <1>4, <1>5, SeqEqual
<1> QED BY <1>2, <1>3, <1>6

\* What is under q and is no child of the process above q is under q by its front.
LEMMA UnderByFront ==
  ASSUME NEW q \in Seq(Nat), NEW r \in Seq(Nat), NEW i \in Nat
  PROVE  /\ IsPrefix(q, Append(r, i)) <=> IsPrefix(q, r) \/ q = Append(r, i)
         /\ IsPrefix(q, q)
         /\ IsPrefix(q, r) => q # Append(r, i)
<1> DEFINE s == Append(r, i)
<1>1. /\ s \in Seq(Nat) /\ Len(s) = Len(r) + 1 /\ Len(r) \in Nat /\ Len(q) \in Nat
      /\ \A k \in 1..Len(r) : s[k] = r[k]
  BY ChildPath
<1> HIDE DEF s
<1>2. IsPrefix(q, q)
  BY PrefixIs
<1>3. ASSUME IsPrefix(q, r) PROVE IsPrefix(q, s) /\ q # s
  <2>1. Len(q) <= Len(r) /\ \A k \in 1..Len(q) : q[k] = r[k]
    BY <1>3, PrefixIs
  <2>2. Len(q) <= Len(s) /\ \A k \in 1..Len(q) : q[k] = s[k]
    BY <1>1, <2>1
  <2>3. Len(q) # Len(s)
    BY <1>1, <2>1
  <2> QED BY <1>1, <2>2, <2>3, PrefixIs
<1>4. ASSUME IsPrefix(q, s), q # s PROVE IsPrefix(q, r)
  <2>1. Len(q) <= Len(s) /\ \A k \in 1..Len(q) : q[k] = s[k]
    BY <1>1, <1>4, PrefixIs
  <2>2. Len(q) # Len(s)
    BY <1>1, <1>4, <2>1, SeqEqual
  <2>3. Len(q) <= Len(r) /\ \A k \in 1..Len(q) : q[k] = r[k]
    BY <1>1, <2>1, <2>2
  <2> QED BY <2>3, PrefixIs
<1> QED BY <1>2, <1>3, <1>4 DEF s

-----------------------------------------------------------------------------
\* What a process keeps of its dispatches.

At(cards) == {i \in DOMAIN cards : cards[i].status = "running"}
Running(me) == At(me.cards)
OfCall(me, id) == {i \in Running(me) : me.cards[i].call = id}
Block(c) == {c.id} \X (1..c.size)
Slots(open) == UNION {Block(c) : c \in open}

\* The count of a call, its cards and its slot in the count of the process agree.
Desk(me) ==
  /\ me \in Process
  /\ me.fresh => Running(me) = {}
  /\ \A c \in me.open : /\ c.id < me.spent /\ c.size >= 1 /\ c.left >= 1
                        /\ c.left = Cardinality(OfCall(me, c.id))
  /\ \A c, d \in me.open : c.id = d.id => c = d
  /\ \A i \in Running(me) : \E c \in me.open : c.id = me.cards[i].call
  /\ IsFiniteSet(Slots(me.open)) /\ me.active = Cardinality(Slots(me.open))

\* A call of n items takes n of the slots the process counts.
LEMMA BlockSize ==
  ASSUME NEW c \in Call
  PROVE  IsFiniteSet(Block(c)) /\ Cardinality(Block(c)) = c.size
<1>1. c.size \in Nat
  BY DEF Call
<1>2. IsFiniteSet(1..c.size) /\ Cardinality(1..c.size) = c.size
  <2>1. 0 \in Int /\ 1 \in Int /\ c.size \in Int
    BY <1>1
  <2> QED BY <1>1, <2>1, FS_Interval
<1>3. IsFiniteSet({c.id}) /\ Cardinality({c.id}) = 1
  BY FS_Singleton
<1>4. /\ IsFiniteSet({c.id} \X (1..c.size))
      /\ Cardinality({c.id} \X (1..c.size)) = Cardinality({c.id}) * Cardinality(1..c.size)
  BY <1>2, <1>3, FS_Product
<1> QED BY <1>1, <1>2, <1>3, <1>4 DEF Block

\* The fields of a process and of its calls.
LEMMA DeskTypes ==
  ASSUME NEW me, Desk(me)
  PROVE  /\ me.cards \in Seq(Card) /\ me.active \in Nat /\ me.spent \in Nat
         /\ me.fresh \in BOOLEAN /\ me.good \in BOOLEAN
         /\ \A c \in me.open : c \in Call /\ c.id \in Nat /\ c.size \in Nat /\ c.left \in Nat /\ c.ok \in BOOLEAN
         /\ DOMAIN me.cards = 1..Len(me.cards) /\ Len(me.cards) \in Nat
         /\ IsFiniteSet(Running(me)) /\ Running(me) \subseteq 1..Len(me.cards)
<1>1. /\ me.cards \in Seq(Card) /\ me.active \in Nat /\ me.spent \in Nat
      /\ me.fresh \in BOOLEAN /\ me.good \in BOOLEAN /\ me.open \subseteq Call
  BY DEF Desk, Process
<1>2. DOMAIN me.cards = 1..Len(me.cards) /\ Len(me.cards) \in Nat
  BY <1>1
<1>3. Running(me) \subseteq 1..Len(me.cards)
  BY <1>2 DEF Running, At
<1>4. IsFiniteSet(1..Len(me.cards))
  BY <1>2, FS_Interval
<1>5. IsFiniteSet(Running(me))
  BY <1>3, <1>4, FS_Subset
<1>6. \A c \in me.open : c \in Call /\ c.id \in Nat /\ c.size \in Nat /\ c.left \in Nat /\ c.ok \in BOOLEAN
  BY <1>1 DEF Call
<1> QED BY <1>1, <1>2, <1>3, <1>5, <1>6

\* A process counts dispatches in flight exactly while a card of it is at work.
LEMMA DeskIdle ==
  ASSUME NEW me, Desk(me)
  PROVE  /\ me.active > 0 <=> Running(me) # {}
         /\ Running(me) = {} => me.open = {}
<1>1. ASSUME Running(me) = {} PROVE me.open = {}
  <2> SUFFICES ASSUME NEW c \in me.open PROVE FALSE
    OBVIOUS
  <2>1. OfCall(me, c.id) = {}
    BY <1>1 DEF OfCall
  <2>2. Cardinality(OfCall(me, c.id)) = 0
    BY <2>1, FS_EmptySet
  <2>3. c.left = Cardinality(OfCall(me, c.id)) /\ c.left >= 1
    BY DEF Desk
  <2> QED BY <2>2, <2>3
<1>2. ASSUME me.open = {} PROVE me.active = 0
  <2>1. Slots(me.open) = {}
    BY <1>2 DEF Slots
  <2> QED BY <2>1, FS_EmptySet DEF Desk
<1>3. ASSUME NEW c \in me.open PROVE me.active > 0
  <2>1. c \in Call /\ c.size \in Nat /\ c.size >= 1
    BY DeskTypes DEF Desk
  <2>2. Block(c) \in SUBSET Slots(me.open)
    BY DEF Slots
  <2>3. Cardinality(Block(c)) <= Cardinality(Slots(me.open))
    BY <2>2, FS_Subset DEF Desk
  <2>4. Cardinality(Block(c)) = c.size
    BY <2>1, BlockSize
  <2>5. me.active = Cardinality(Slots(me.open)) /\ me.active \in Nat
    BY DeskTypes DEF Desk
  <2> QED BY <2>1, <2>3, <2>4, <2>5
<1>4. ASSUME Running(me) # {} PROVE me.open # {}
  BY <1>4 DEF Desk
<1>5. me.active \in Nat
  BY DeskTypes
<1> QED BY <1>1, <1>2, <1>3, <1>4, <1>5

Base(me) == IF me.fresh THEN <<>> ELSE me.cards

NewCall(me, work) ==
  [id |-> me.spent, size |-> Cardinality(DOMAIN work), left |-> Cardinality(DOMAIN work), ok |-> FALSE]

CardsWith(me, work) ==
  [i \in DOMAIN Base(me) \cup DOMAIN work |->
     IF i \in DOMAIN work
     THEN [agent |-> work[i], status |-> "running", call |-> me.spent]
     ELSE Base(me)[i]]

Launched(me, work) ==
  [me EXCEPT !.cards = CardsWith(me, work), !.fresh = FALSE,
             !.spent = @ + Cardinality(DOMAIN work),
             !.open = @ \cup {NewCall(me, work)},
             !.active = @ + Cardinality(DOMAIN work)]

\* Cards a launch may take: none of them is at work, and they leave no gap.
Takes(me, work) ==
  /\ IsFiniteSet(DOMAIN work) /\ DOMAIN work # {}
  /\ \A i \in DOMAIN work : work[i] \in Agents
  /\ DOMAIN work \cap At(Base(me)) = {}
  /\ \E m \in Nat : DOMAIN Base(me) \cup DOMAIN work = 1..m

\* The cards after a launch: those taken are at work, the others are as before.
LEMMA LaunchedCards ==
  ASSUME NEW me, Desk(me), NEW work, Takes(me, work)
  PROVE  /\ CardsWith(me, work) \in Seq(Card)
         /\ At(CardsWith(me, work)) = Running(me) \cup DOMAIN work
         /\ \A i \in Running(me) : i \notin DOMAIN work /\ CardsWith(me, work)[i] = me.cards[i]
         /\ \A i \in DOMAIN work : CardsWith(me, work)[i].call = me.spent
<1> DEFINE cs == CardsWith(me, work)
<1>1. me.cards \in Seq(Card) /\ me.spent \in Nat /\ me.fresh \in BOOLEAN
  BY DeskTypes
<1>2. Base(me) \in Seq(Card)
  BY <1>1 DEF Base
<1>3. At(Base(me)) = Running(me)
  BY <1>1 DEF Base, Running, At, Desk
<1>4. PICK m \in Nat : DOMAIN Base(me) \cup DOMAIN work = 1..m
  BY DEF Takes
<1>5. ASSUME NEW i \in DOMAIN work
      PROVE  /\ [agent |-> work[i], status |-> "running", call |-> me.spent] \in Card
             /\ cs[i] = [agent |-> work[i], status |-> "running", call |-> me.spent]
             /\ cs[i].status = "running" /\ cs[i].call = me.spent
  BY <1>1, <1>5 DEF Card, Takes, CardsWith
<1>6. ASSUME NEW i \in DOMAIN Base(me), i \notin DOMAIN work
      PROVE  cs[i] \in Card /\ cs[i] = Base(me)[i]
  BY <1>2, <1>6 DEF CardsWith
<1>7. DOMAIN cs = 1..m /\ cs = [i \in 1..m |-> cs[i]]
  BY <1>4 DEF CardsWith
<1>8. cs \in [1..m -> Card]
  BY <1>4, <1>5, <1>6, <1>7
<1>9. cs \in Seq(Card)
  BY <1>8
<1>10. At(cs) = At(Base(me)) \cup DOMAIN work
  <2>1. DOMAIN work \subseteq At(cs)
    BY <1>4, <1>5, <1>7 DEF At
  <2>2. ASSUME NEW i \in At(Base(me)) PROVE i \in At(cs)
    BY <1>4, <1>6, <1>7 DEF At, Takes
  <2>3. ASSUME NEW i \in At(cs), i \notin DOMAIN work PROVE i \in At(Base(me))
    BY <1>4, <1>6, <1>7, <2>3 DEF At
  <2> QED BY <2>1, <2>2, <2>3
<1>11. ASSUME NEW i \in Running(me) PROVE i \notin DOMAIN work /\ cs[i] = me.cards[i]
  <2>1. i \notin DOMAIN work /\ i \in DOMAIN Base(me)
    BY <1>3 DEF Takes, At
  <2>2. Base(me) = me.cards
    BY <1>1 DEF Base, Desk
  <2> QED BY <1>6, <2>1, <2>2
<1>12. \A i \in DOMAIN work : cs[i].call = me.spent
  BY <1>5
<1> HIDE DEF cs
<1> QED BY <1>3, <1>9, <1>10, <1>11, <1>12 DEF cs

\* A launch leaves the desk in order, with the cards it took at work.
LEMMA LaunchDesk ==
  ASSUME NEW me, Desk(me), NEW work, Takes(me, work)
  PROVE  /\ Desk(Launched(me, work))
         /\ Running(Launched(me, work)) = Running(me) \cup DOMAIN work
<1> DEFINE n == Cardinality(DOMAIN work)
           new == NewCall(me, work)
           cs == CardsWith(me, work)
           you == Launched(me, work)
<1>1. /\ me.cards \in Seq(Card) /\ me.active \in Nat /\ me.spent \in Nat /\ me.open \subseteq Call
      /\ me.chain \in Seq(Agents) /\ me.max \in Nat /\ me.good \in BOOLEAN /\ me \in Process
  BY DEF Desk, Process
<1>2. n \in Nat /\ n >= 1
  <2>1. n \in Nat
    BY FS_CardinalityType DEF Takes
  <2>2. n # 0
    BY FS_EmptySet DEF Takes
  <2> QED BY <2>1, <2>2
<1>3. /\ new \in Call /\ new.id = me.spent /\ new.size = n /\ new.left = n
  BY <1>1, <1>2 DEF NewCall, Call
<1>4. /\ cs \in Seq(Card)
      /\ At(cs) = Running(me) \cup DOMAIN work
      /\ \A i \in Running(me) : i \notin DOMAIN work /\ cs[i] = me.cards[i]
      /\ \A i \in DOMAIN work : cs[i].call = me.spent
  BY LaunchedCards
<1>5. /\ you.cards = cs /\ you.fresh = FALSE /\ you.spent = me.spent + n
      /\ you.open = me.open \cup {new} /\ you.active = me.active + n
  BY <1>1 DEF Launched, Process
<1>6. you \in Process
  <2>1. me.spent + n \in Nat /\ me.active + n \in Nat /\ me.open \cup {new} \subseteq Call
    BY <1>1, <1>2, <1>3
  <2> HIDE DEF n, new, cs
  <2>2. you = [me EXCEPT !.cards = cs, !.fresh = FALSE, !.spent = @ + n,
                         !.open = @ \cup {new}, !.active = @ + n]
    BY DEF Launched, n, new, cs
  <2> HIDE DEF you
  <2> QED BY <1>1, <1>4, <2>1, <2>2 DEF Process
<1>7. Running(you) = Running(me) \cup DOMAIN work
  BY <1>4, <1>5 DEF Running
<1> HIDE DEF n, new, cs, you
<1>8. OfCall(you, new.id) = DOMAIN work
  <2>1. ASSUME NEW i \in Running(me) PROVE cs[i].call # new.id
    <3>1. PICK c \in me.open : c.id = me.cards[i].call
      BY DEF Desk
    <3>2. c.id < me.spent /\ c.id \in Nat
      BY DeskTypes DEF Desk
    <3> QED BY <1>1, <1>3, <1>4, <3>1, <3>2
  <2> QED BY <1>3, <1>4, <1>5, <1>7, <2>1 DEF OfCall
<1>9. ASSUME NEW c \in me.open PROVE OfCall(you, c.id) = OfCall(me, c.id)
  <2>1. c.id < me.spent /\ c.id \in Nat
    BY DeskTypes DEF Desk
  <2>2. \A i \in DOMAIN work : cs[i].call # c.id
    BY <1>1, <1>4, <2>1
  <2> QED BY <1>4, <1>5, <1>7, <2>2 DEF OfCall
<1>10. ASSUME NEW c \in you.open
       PROVE  /\ c.id < you.spent /\ c.size >= 1 /\ c.left >= 1
              /\ c.left = Cardinality(OfCall(you, c.id))
  <2>1. CASE c = new
    BY <1>1, <1>2, <1>3, <1>5, <1>8, <2>1 DEF n
  <2>2. CASE c \in me.open
    <3>1. /\ c.id < me.spent /\ c.size >= 1 /\ c.left >= 1 /\ c.id \in Nat
          /\ c.left = Cardinality(OfCall(me, c.id))
      BY <2>2, DeskTypes DEF Desk
    <3> QED BY <1>1, <1>2, <1>5, <1>9, <2>2, <3>1
  <2> QED BY <1>5, <2>1, <2>2
<1>11. \A c \in me.open : c.id # new.id
  <2> SUFFICES ASSUME NEW c \in me.open PROVE c.id # new.id
    OBVIOUS
  <2>1. c.id < me.spent /\ c.id \in Nat
    BY DeskTypes DEF Desk
  <2> QED BY <1>1, <1>3, <2>1
<1>12. \A c, d \in you.open : c.id = d.id => c = d
  BY <1>5, <1>11 DEF Desk
<1>13. \A i \in Running(you) : \E c \in you.open : c.id = you.cards[i].call
  <2>1. ASSUME NEW i \in DOMAIN work PROVE \E c \in you.open : c.id = you.cards[i].call
    BY <1>3, <1>4, <1>5
  <2>2. ASSUME NEW i \in Running(me) PROVE \E c \in you.open : c.id = you.cards[i].call
    BY <1>4, <1>5 DEF Desk
  <2> QED BY <1>7, <2>1, <2>2
<1>14. IsFiniteSet(Slots(you.open)) /\ you.active = Cardinality(Slots(you.open))
  <2>1. Slots(you.open) = Slots(me.open) \cup Block(new)
    BY <1>5 DEF Slots
  <2>2. IsFiniteSet(Block(new)) /\ Cardinality(Block(new)) = n
    BY <1>3, BlockSize
  <2>3. Slots(me.open) \cap Block(new) = {}
    BY <1>11 DEF Slots, Block
  <2>4. Cardinality(Slots(me.open) \cap Block(new)) = 0
    BY <2>3, FS_EmptySet
  <2>5. IsFiniteSet(Slots(me.open)) /\ me.active = Cardinality(Slots(me.open))
    BY DEF Desk
  <2>6. /\ IsFiniteSet(Slots(me.open) \cup Block(new))
        /\ Cardinality(Slots(me.open) \cup Block(new))
             = Cardinality(Slots(me.open)) + Cardinality(Block(new)) - Cardinality(Slots(me.open) \cap Block(new))
    BY <2>2, <2>5, FS_Union
  <2>7. Cardinality(Slots(me.open) \cup Block(new)) = me.active + n
    BY <1>1, <1>2, <2>2, <2>4, <2>5, <2>6
  <2> QED BY <1>5, <2>1, <2>6, <2>7
<1>15. Desk(you)
  BY <1>5, <1>6, <1>10, <1>12, <1>13, <1>14 DEF Desk
<1> QED BY <1>7, <1>15 DEF you

\* The call a card at work belongs to, and what is left of it once the card lands.
LEMMA CallOfCard ==
  ASSUME NEW p, Desk(tree[p]), NEW i \in Running(tree[p]), NEW ok \in BOOLEAN
  PROVE  LET c == OpenCall(p, i)
             call == CallAfter(p, i, ok)
             me == tree[p]
         IN  /\ c \in me.open /\ c.id = me.cards[i].call
             /\ call \in Call /\ call.id = c.id /\ call.size = c.size
             /\ call.left = c.left - 1 /\ (call.ok <=> c.ok \/ ok)
             /\ c.size <= me.active /\ c.size \in Nat /\ c.size >= 1
             /\ me.active = c.size => me.open = {c}
<1> DEFINE c == OpenCall(p, i)
           call == CallAfter(p, i, ok)
           me == tree[p]
<1>1. c \in me.open /\ c.id = me.cards[i].call
  <2>1. \E d \in me.open : d.id = me.cards[i].call
    BY DEF Desk
  <2> QED BY <2>1 DEF OpenCall
<1>2. /\ c \in Call /\ c.id \in Nat /\ c.size \in Nat /\ c.left \in Nat /\ c.ok \in BOOLEAN
      /\ c.size >= 1 /\ c.left >= 1 /\ c.id < me.spent
  BY <1>1, DeskTypes DEF Desk
<1> HIDE DEF c
<1>3. call = [c EXCEPT !.left = @ - 1, !.ok = @ \/ ok]
  BY DEF CallAfter, c
<1>4. c.left - 1 \in Nat /\ (c.ok \/ ok) \in BOOLEAN
  BY <1>2
<1> HIDE DEF call
<1>5. /\ call \in Call /\ call.id = c.id /\ call.size = c.size
      /\ call.left = c.left - 1 /\ (call.ok <=> c.ok \/ ok)
  BY <1>2, <1>3, <1>4 DEF Call
<1>6. IsFiniteSet(Block(c)) /\ Cardinality(Block(c)) = c.size
  BY <1>2, BlockSize
<1>7. Block(c) \in SUBSET Slots(me.open)
  BY <1>1 DEF Slots
<1>8. IsFiniteSet(Slots(me.open)) /\ me.active = Cardinality(Slots(me.open))
  BY DEF Desk
<1> HIDE DEF me
<1>9. /\ Cardinality(Block(c)) <= Cardinality(Slots(me.open))
      /\ Cardinality(Slots(me.open)) = Cardinality(Block(c)) => Slots(me.open) = Block(c)
  BY <1>7, <1>8, FS_Subset
<1>10. ASSUME me.active = c.size PROVE me.open = {c}
  <2>1. Slots(me.open) = Block(c)
    BY <1>6, <1>8, <1>9, <1>10
  <2>2. ASSUME NEW d \in me.open PROVE d = c
    <3>1. d.size \in Nat /\ d.size >= 1
      BY DeskTypes DEF Desk, me
    <3>2. <<d.id, 1>> \in Block(d)
      BY <3>1 DEF Block
    <3>3. <<d.id, 1>> \in Block(c)
      BY <2>1, <3>2 DEF Slots
    <3>4. d.id = c.id
      BY <3>3 DEF Block
    <3> QED BY <1>1, <3>4 DEF Desk, me
  <2> QED BY <1>1, <2>2
<1>11. c.size <= me.active
  BY <1>6, <1>8, <1>9
<1> QED BY <1>1, <1>2, <1>5, <1>10, <1>11 DEF c, call, me

\* The fields of a process one of whose dispatches has come back.
LandedFields(me, you, i, c, call) ==
  /\ DOMAIN you.cards = DOMAIN me.cards /\ you.cards[i].status = "over"
  /\ \A j \in DOMAIN me.cards \ {i} : you.cards[j] = me.cards[j]
  /\ you.chain = me.chain /\ you.max = me.max /\ you.fresh = me.fresh /\ you.spent = me.spent
  /\ you.open = IF call.left = 0 THEN me.open \ {c} ELSE (me.open \ {c}) \cup {call}
  /\ you.active = IF call.left = 0 THEN me.active - call.size ELSE me.active
  /\ you.good = IF call.left = 0 THEN (me.good \/ call.ok) /\ me.active # call.size ELSE me.good

\* They are as FinishDispatchLearnings and updateCard leave them.
LEMMA LandedIs ==
  ASSUME NEW p, Desk(tree[p]), NEW i \in Running(tree[p]), NEW ok \in BOOLEAN
  PROVE  /\ LandedFields(tree[p], Landed(p, i, ok), i, OpenCall(p, i), CallAfter(p, i, ok))
         /\ Landed(p, i, ok) \in Process
<1> DEFINE c == OpenCall(p, i)
           call == CallAfter(p, i, ok)
           me == tree[p]
           card == [me.cards[i] EXCEPT !.status = "over", !.call = 0]
           cs == [me.cards EXCEPT ![i] = card]
           rest == IF call.left = 0 THEN me.open \ {c} ELSE (me.open \ {c}) \cup {call}
           mid == [me EXCEPT !.cards = cs, !.open = rest]
           you == Landed(p, i, ok)
<1>1. /\ me.chain \in Seq(Agents) /\ me.max \in Nat /\ me.fresh \in BOOLEAN /\ me.spent \in Nat
      /\ me.cards \in Seq(Card) /\ me.open \subseteq Call /\ me.active \in Nat /\ me.good \in BOOLEAN
      /\ me \in Process
  BY DEF Desk, Process
<1>2. /\ c \in me.open /\ call \in Call /\ call.size = c.size /\ c.size <= me.active /\ c.size \in Nat
      /\ call.ok \in BOOLEAN
  BY CallOfCard DEF Call
<1>3. you = IF call.left = 0 THEN Finished(mid, call) ELSE mid
  BY DEF Landed
<1> HIDE DEF c, call, you
<1>4. i \in DOMAIN me.cards /\ DOMAIN me.cards = 1..Len(me.cards) /\ Len(me.cards) \in Nat
  BY <1>1 DEF Running, At
<1>5. /\ DOMAIN cs = DOMAIN me.cards /\ cs[i].status = "over"
      /\ \A j \in DOMAIN me.cards \ {i} : cs[j] = me.cards[j]
      /\ cs[i] \in Card
  <2>1. me.cards[i] \in Card
    BY <1>1, <1>4
  <2>2. card \in Card /\ card.status = "over"
    BY <2>1 DEF Card
  <2> HIDE DEF card
  <2> QED BY <1>1, <1>4, <2>2
<1> HIDE DEF card
<1>6. cs \in Seq(Card)
  <2>1. \A j \in 1..Len(me.cards) : cs[j] \in Card
    BY <1>1, <1>4, <1>5
  <2>2. cs \in [1..Len(me.cards) -> Card]
    BY <1>4, <1>5, <2>1
  <2>3. PICK m \in Nat : m = Len(me.cards)
    BY <1>4
  <2>4. cs \in [1..m -> Card]
    BY <2>2, <2>3
  <2> HIDE DEF cs
  <2> QED BY <2>4
<1>7. rest \subseteq Call
  BY <1>1, <1>2
<1> HIDE DEF cs, rest
<1>8. /\ mid \in Process /\ mid.cards = cs /\ mid.open = rest
      /\ mid.chain = me.chain /\ mid.max = me.max /\ mid.fresh = me.fresh /\ mid.spent = me.spent
      /\ mid.active = me.active /\ mid.good = me.good
  BY <1>1, <1>6, <1>7 DEF Process
<1> HIDE DEF mid
<1>9. CASE call.left # 0
  BY <1>3, <1>5, <1>8, <1>9 DEF LandedFields, rest, c, call, me, you
<1>10. CASE call.left = 0
  <2>1. you = [mid EXCEPT !.active = @ - call.size, !.good = (mid.good \/ call.ok) /\ mid.active # call.size]
    BY <1>3, <1>10 DEF Finished, Verdict
  <2>2. me.active - call.size \in Nat /\ ((mid.good \/ call.ok) /\ mid.active # call.size) \in BOOLEAN
    BY <1>1, <1>2
  <2>3. /\ you \in Process /\ you.cards = cs /\ you.open = rest
        /\ you.chain = me.chain /\ you.max = me.max /\ you.fresh = me.fresh /\ you.spent = me.spent
        /\ you.active = me.active - call.size
        /\ you.good = ((me.good \/ call.ok) /\ me.active # call.size)
    BY <1>8, <2>1, <2>2 DEF Process
  <2> QED BY <1>5, <1>10, <2>3 DEF LandedFields, rest, c, call, me, you
<1> QED BY <1>9, <1>10

\* A landing leaves the desk in order, with one card less at work.
LEMMA LandDesk ==
  ASSUME NEW p, Desk(tree[p]), NEW i \in Running(tree[p]), NEW ok \in BOOLEAN
  PROVE  Desk(Landed(p, i, ok)) /\ Running(Landed(p, i, ok)) = Running(tree[p]) \ {i}
<1> DEFINE c == OpenCall(p, i)
           call == CallAfter(p, i, ok)
           me == tree[p]
           you == Landed(p, i, ok)
<1>1. LandedFields(me, you, i, c, call) /\ you \in Process
  BY LandedIs
<1>2. /\ c \in me.open /\ c.id = me.cards[i].call
      /\ call \in Call /\ call.id = c.id /\ call.size = c.size
      /\ call.left = c.left - 1
      /\ c.size <= me.active /\ c.size \in Nat /\ c.size >= 1
  BY CallOfCard
<1>3. Desk(me) /\ i \in Running(me)
  OBVIOUS
<1> HIDE DEF c, call, me, you
<1>4. /\ me.cards \in Seq(Card) /\ me.active \in Nat /\ me.spent \in Nat
      /\ \A d \in me.open : d \in Call /\ d.id \in Nat /\ d.size \in Nat /\ d.left \in Nat
      /\ IsFiniteSet(Running(me))
  BY <1>3, DeskTypes
<1>5. Running(you) = Running(me) \ {i}
  <2>1. i \notin Running(you)
    BY <1>1 DEF LandedFields, Running, At
  <2>2. ASSUME NEW j \in Running(me), j # i PROVE j \in Running(you)
    BY <1>1, <2>2 DEF LandedFields, Running, At
  <2>3. ASSUME NEW j \in Running(you) PROVE j \in Running(me)
    BY <1>1, <2>1 DEF LandedFields, Running, At
  <2> QED BY <2>1, <2>2, <2>3
<1>6. \A j \in Running(you) : you.cards[j] = me.cards[j]
  BY <1>1, <1>5 DEF LandedFields, Running, At
<1>7. ASSUME NEW id PROVE OfCall(you, id) = OfCall(me, id) \ {i}
  BY <1>5, <1>6 DEF OfCall
<1>8. ASSUME NEW id PROVE IsFiniteSet(OfCall(me, id))
  <2>1. OfCall(me, id) \in SUBSET Running(me)
    BY DEF OfCall
  <2> QED BY <1>4, <2>1, FS_Subset
<1>9. ASSUME NEW d \in me.open, d # c PROVE OfCall(you, d.id) = OfCall(me, d.id)
  <2>1. d.id # c.id
    BY <1>2, <1>3, <1>9 DEF Desk
  <2>2. i \notin OfCall(me, d.id)
    BY <1>2, <2>1 DEF OfCall
  <2> QED BY <1>7, <2>2
<1>10. Cardinality(OfCall(you, c.id)) = c.left - 1 /\ IsFiniteSet(OfCall(you, c.id))
  <2>1. i \in OfCall(me, c.id)
    BY <1>2, <1>3 DEF OfCall
  <2>2. /\ IsFiniteSet(OfCall(me, c.id) \ {i})
        /\ Cardinality(OfCall(me, c.id) \ {i}) = Cardinality(OfCall(me, c.id)) - 1
    BY <1>8, <2>1, FS_RemoveElement
  <2>3. c.left = Cardinality(OfCall(me, c.id))
    BY <1>2, <1>3 DEF Desk
  <2> QED BY <1>7, <2>2, <2>3
<1>11. IsFiniteSet(Slots(me.open)) /\ me.active = Cardinality(Slots(me.open))
  BY <1>3 DEF Desk
<1>12. \A d \in me.open : d.id = c.id => d = c
  BY <1>2, <1>3 DEF Desk
<1>13. /\ you.spent = me.spent /\ you.fresh = me.fresh
       /\ me.fresh => Running(you) = {}
  BY <1>1, <1>3, <1>5 DEF LandedFields, Desk
<1>14. CASE call.left = 0
  <2>1. you.open = me.open \ {c} /\ you.active = me.active - c.size
    BY <1>1, <1>2, <1>14 DEF LandedFields
  <2>2. ASSUME NEW d \in you.open
        PROVE  /\ d.id < you.spent /\ d.size >= 1 /\ d.left >= 1
               /\ d.left = Cardinality(OfCall(you, d.id))
    <3>1. d \in me.open /\ d # c
      BY <2>1
    <3>2. OfCall(you, d.id) = OfCall(me, d.id)
      BY <1>9, <3>1
    <3> QED BY <1>3, <1>13, <3>1, <3>2 DEF Desk
  <2>3. OfCall(you, c.id) = {}
    BY <1>2, <1>10, <1>14, FS_EmptySet
  <2>4. ASSUME NEW j \in Running(you) PROVE \E d \in you.open : d.id = you.cards[j].call
    <3>1. PICK d \in me.open : d.id = me.cards[j].call
      BY <1>3, <1>5 DEF Desk
    <3>2. you.cards[j] = me.cards[j]
      BY <1>6
    <3>3. j \notin OfCall(you, c.id)
      BY <2>3
    <3>4. d # c
      BY <3>1, <3>2, <3>3 DEF OfCall
    <3> QED BY <2>1, <3>1, <3>2, <3>4
  <2>5. Slots(you.open) = Slots(me.open) \ Block(c)
    BY <1>2, <1>12, <2>1 DEF Slots, Block
  <2>6. IsFiniteSet(Block(c)) /\ Cardinality(Block(c)) = c.size
    BY <1>2, <1>4, BlockSize
  <2>7. Slots(me.open) \cap Block(c) = Block(c)
    BY <1>2 DEF Slots
  <2>8. /\ IsFiniteSet(Slots(me.open) \ Block(c))
        /\ Cardinality(Slots(me.open) \ Block(c)) = me.active - c.size
    <3>1. /\ IsFiniteSet(Slots(me.open) \ Block(c))
          /\ Cardinality(Slots(me.open) \ Block(c))
               = Cardinality(Slots(me.open)) - Cardinality(Slots(me.open) \cap Block(c))
      BY <1>11, FS_Difference
    <3> QED BY <1>11, <2>6, <2>7, <3>1
  <2>9. \A d, e \in you.open : d.id = e.id => d = e
    BY <1>3, <2>1 DEF Desk
  <2>10. Desk(you)
    BY <1>1, <1>13, <2>1, <2>2, <2>4, <2>5, <2>8, <2>9 DEF Desk
  <2> QED BY <1>5, <2>10 DEF you, me
<1>15. CASE call.left # 0
  <2>1. you.open = (me.open \ {c}) \cup {call} /\ you.active = me.active
    BY <1>1, <1>15 DEF LandedFields
  <2>2. ASSUME NEW d \in you.open
        PROVE  /\ d.id < you.spent /\ d.size >= 1 /\ d.left >= 1
               /\ d.left = Cardinality(OfCall(you, d.id))
    <3>1. CASE d = call
      <4>1. c.left \in Nat /\ c.left >= 1 /\ c.id < me.spent
        BY <1>2, <1>3, <1>4 DEF Desk
      <4> QED BY <1>2, <1>10, <1>13, <1>15, <3>1, <4>1
    <3>2. CASE d \in me.open /\ d # c
      <4>1. OfCall(you, d.id) = OfCall(me, d.id)
        BY <1>9, <3>2
      <4> QED BY <1>3, <1>13, <3>2, <4>1 DEF Desk
    <3> QED BY <2>1, <3>1, <3>2
  <2>3. ASSUME NEW j \in Running(you) PROVE \E d \in you.open : d.id = you.cards[j].call
    <3>1. PICK d \in me.open : d.id = me.cards[j].call
      BY <1>3, <1>5 DEF Desk
    <3>2. you.cards[j] = me.cards[j]
      BY <1>6
    <3> QED BY <1>2, <2>1, <3>1, <3>2
  <2>4. Block(call) = Block(c)
    BY <1>2 DEF Block
  <2>5. Slots(you.open) = Slots(me.open)
    BY <1>2, <2>1, <2>4 DEF Slots
  <2>6. \A d, e \in you.open : d.id = e.id => d = e
    <3>1. \A d, e \in me.open : d.id = e.id => d = e
      BY <1>3 DEF Desk
    <3> QED BY <1>2, <1>12, <2>1, <3>1
  <2>7. Desk(you)
    BY <1>1, <1>11, <1>13, <2>1, <2>2, <2>3, <2>5, <2>6 DEF Desk
  <2> QED BY <1>5, <2>7 DEF you, me
<1> QED BY <1>14, <1>15

-----------------------------------------------------------------------------
\* The tree, the desks of its processes, and what the lessons are owed.

\* The cards of a process whose dispatches are alive.
Kids(p) == {i \in Nat : Append(p, i) \in DOMAIN tree \ {PhaseAgent}}

Rooted ==
  /\ Session \in DOMAIN tree /\ DOMAIN tree \subseteq Seq(Nat)
  /\ \A p \in DOMAIN tree \ {Session} : Front(p) \in DOMAIN tree

Manned(p) == Desk(tree[p]) /\ Kids(p) = Running(tree[p])

\* A lesson of a dispatch that brought a result has the process it was made for
\* still at it, with a verdict of success noted.
Owed ==
  /\ staged \subseteq Lesson
  /\ \A l \in staged :
       /\ l.by # Session
       /\ l.proven => /\ Front(l.by) \in DOMAIN tree /\ Busy(Front(l.by))
                      /\ tree[Front(l.by)].good \/ \E c \in tree[Front(l.by)].open : c.ok

QueueInv == Rooted /\ Owed /\ \A p \in DOMAIN tree : Manned(p)

\* A card is numbered from 1, so the phase agent is no dispatch in a card.
LEMMA PhaseIsNoCard ==
  ASSUME NEW p \in Seq(Nat), NEW i \in Nat \ {0}
  PROVE  Append(p, i) # PhaseAgent
<1>1. PhaseAgent = Append(Session, 0) /\ Session \in Seq(Nat)
  BY DEF PhaseAgent, Session
<1> QED BY <1>1, ChildrenDiffer

\* What is left of the tree once q and all under it have gone.
LEMMA WithoutIs ==
  ASSUME Rooted, NEW q \in DOMAIN tree, q # Session, NEW new, DOMAIN new = DOMAIN tree \ Below(q)
  PROVE  /\ Session \in DOMAIN new /\ DOMAIN new \subseteq DOMAIN tree
         /\ \A r \in DOMAIN new : r # q /\ (r # Session => Front(r) \in DOMAIN new)
         /\ Front(q) \in DOMAIN new
         /\ \A r \in DOMAIN new : \A i \in Nat :
              Append(r, i) \in DOMAIN new <=> Append(r, i) \in DOMAIN tree /\ Append(r, i) # q
<1>1. /\ q \in Seq(Nat) /\ DOMAIN tree \subseteq Seq(Nat) /\ Session \in DOMAIN tree
      /\ \A r \in DOMAIN tree \ {Session} : Front(r) \in DOMAIN tree
  BY DEF Rooted
<1>2. \A r \in DOMAIN tree : r \in DOMAIN new <=> r = Session \/ ~IsPrefix(q, r)
  BY DEF Below
<1>3. ~ IsPrefix(q, Session)
  <2>1. Len(q) >= 1 /\ Len(Session) = 0
    BY <1>1 DEF Session
  <2> QED BY <2>1 DEF IsPrefix
<1>4. \A r \in DOMAIN tree : r \in DOMAIN new <=> ~IsPrefix(q, r)
  BY <1>2, <1>3
<1>5. IsPrefix(q, q)
  BY <1>1, UnderByFront, 0 \in Nat
<1>6. ASSUME NEW r \in DOMAIN new PROVE r # q /\ (r # Session => Front(r) \in DOMAIN new)
  <2>1. r # q /\ r \in DOMAIN tree /\ ~IsPrefix(q, r)
    BY <1>4, <1>5
  <2>2. ASSUME r # Session PROVE Front(r) \in DOMAIN new
    <3>1. /\ Front(r) \in Seq(Nat) /\ Last(r) \in Nat /\ r = Append(Front(r), Last(r))
          /\ Front(r) \in DOMAIN tree
      BY <1>1, <2>1, <2>2, FrontPath
    <3>2. IsPrefix(q, Append(Front(r), Last(r))) <=> IsPrefix(q, Front(r)) \/ q = Append(Front(r), Last(r))
      BY <1>1, <3>1, UnderByFront
    <3> QED BY <1>4, <2>1, <3>1, <3>2
  <2> QED BY <2>1, <2>2
<1>7. ASSUME NEW r \in DOMAIN new, NEW i \in Nat
      PROVE Append(r, i) \in DOMAIN new <=> Append(r, i) \in DOMAIN tree /\ Append(r, i) # q
  <2>1. r \in DOMAIN tree /\ r \in Seq(Nat) /\ ~IsPrefix(q, r)
    BY <1>1, <1>4
  <2>2. IsPrefix(q, Append(r, i)) <=> IsPrefix(q, r) \/ q = Append(r, i)
    BY <1>1, <2>1, UnderByFront
  <2> QED BY <1>4, <2>1, <2>2
<1>8. Front(q) \in DOMAIN new
  <2>1. /\ Front(q) \in Seq(Nat) /\ Last(q) \in Nat /\ q = Append(Front(q), Last(q))
        /\ Front(q) \in DOMAIN tree
    BY <1>1, FrontPath
  <2>2. ~ IsPrefix(q, Front(q))
    BY <1>1, <2>1, UnderByFront
  <2> QED BY <1>4, <2>1, <2>2
<1> QED BY <1>1, <1>3, <1>4, <1>6, <1>7, <1>8

\* The two halves of what a step may not do to the cards of a process.
CardKept(me, you) ==
  \A i \in DOMAIN me.cards :
    me.cards[i].status = "running" =>
      i \in DOMAIN you.cards /\ (you.cards[i] = me.cards[i] \/ you.cards[i].status = "over")

Served(me, you) ==
  \A i \in DOMAIN you.cards :
    (i > Len(Base(me)) /\ you.cards[i].status = "running") =>
       With(you.cards, you.cards[i].agent, "pending") = {}

CardsHold == \A p \in Stay : CardKept(tree[p], tree'[p]) /\ Served(tree[p], tree'[p])

\* A process that has just been started has no card.
LEMMA StartDesk ==
  ASSUME NEW chain \in Seq(Agents), NEW max \in Nat
  PROVE  Desk(Started(chain, max)) /\ Running(Started(chain, max)) = {}
<1> DEFINE me == Started(chain, max)
<1>1. /\ me \in Process /\ me.cards = <<>> /\ me.open = {} /\ me.active = 0
  BY DEF Started, Process
<1> HIDE DEF me
<1>2. Running(me) = {}
  BY <1>1 DEF Running, At
<1>3. Slots(me.open) = {}
  BY <1>1 DEF Slots
<1>4. Desk(me)
  BY <1>1, <1>2, <1>3, FS_EmptySet DEF Desk
<1> QED BY <1>2, <1>4 DEF me

\* So has a child of a process at work.
LEMMA ChildDesk ==
  ASSUME NEW p, tree[p] \in Process, NEW a \in Agents
  PROVE  Desk(SubagentEnv(p, a)) /\ Running(SubagentEnv(p, a)) = {}
<1> DEFINE chain == Append(tree[p].chain, a)
           max == DispatchCeilingFor(a, Len(chain), tree[p].max)
<1>1. chain \in Seq(Agents) /\ tree[p].max \in Nat
  BY DEF Process
<1>2. max \in Nat
  <2>1. Len(chain) \in Nat
    BY <1>1
  <2> HIDE DEF chain
  <2> QED BY <1>1, <2>1 DEF DispatchCeilingFor
<1>3. SubagentEnv(p, a) = Started(chain, max)
  BY DEF SubagentEnv
<1> HIDE DEF chain, max
<1> QED BY <1>1, <1>2, <1>3, StartDesk

\* A process that launches nothing and keeps its cards serves its queue.
LEMMA SameCards ==
  ASSUME NEW me, Desk(me), NEW you, you.cards = me.cards
  PROVE  CardKept(me, you) /\ Served(me, you)
<1>1. me.fresh \in BOOLEAN /\ DOMAIN me.cards = 1..Len(me.cards) /\ Len(me.cards) \in Nat
  BY DeskTypes
<1>2. CardKept(me, you)
  BY DEF CardKept
<1>3. ASSUME NEW i \in DOMAIN you.cards, i > Len(Base(me)), you.cards[i].status = "running" PROVE FALSE
  <2>1. i \in Running(me)
    BY <1>3 DEF Running, At
  <2>2. Base(me) = me.cards
    BY <1>1, <2>1 DEF Desk, Base
  <2> QED BY <1>1, <1>3, <2>2
<1> QED BY <1>2, <1>3 DEF Served

\* A call that takes cards it may take, and adds one for an agent only when none is
\* queued for it, keeps the tree and the cards in step.
LEMMA LaunchKeeps ==
  ASSUME QueueInv, NEW p \in DOMAIN tree, NEW work, Launch(p, work), Takes(tree[p], work),
         \A i \in DOMAIN work : i > Len(Base(tree[p])) =>
            With(CardsWith(tree[p], work), work[i], "pending") = {}
  PROVE  QueueInv' /\ CardsHold
<1> DEFINE me == tree[p]
           started == {Append(p, i) : i \in DOMAIN work}
           agent(q) == work[CHOOSE i \in DOMAIN work : q = Append(p, i)]
<1>1. /\ DOMAIN tree' = DOMAIN tree \cup started
      /\ tree'[p] = Launched(me, work)
      /\ \A q \in DOMAIN tree \ {p} : tree'[q] = tree[q]
      /\ \A q \in started \ DOMAIN tree : tree'[q] = SubagentEnv(p, agent(q))
      /\ staged' = staged
  BY DEF Launch, Launched, CardsWith, NewCall, Cards, Base
<1>2. /\ Rooted /\ Owed /\ \A q \in DOMAIN tree : Desk(tree[q]) /\ Kids(q) = Running(tree[q])
      /\ DOMAIN tree \subseteq Seq(Nat) /\ p \in Seq(Nat)
  BY DEF QueueInv, Manned, Rooted
<1>3. DOMAIN work \subseteq Nat \ {0}
  BY DEF Takes
<1>4. /\ Desk(Launched(me, work)) /\ Running(Launched(me, work)) = Running(me) \cup DOMAIN work
  BY <1>2, LaunchDesk
<1>5. \A i \in Running(me) : i \notin DOMAIN work
  BY <1>2, LaunchedCards
<1>6. \A q \in started : q \in Seq(Nat) /\ q \notin DOMAIN tree /\ q # PhaseAgent /\ q # Session /\ Front(q) = p
  <2> SUFFICES ASSUME NEW i \in DOMAIN work
               PROVE  /\ Append(p, i) \in Seq(Nat) /\ Append(p, i) \notin DOMAIN tree /\ Append(p, i) # PhaseAgent
                      /\ Append(p, i) # Session /\ Front(Append(p, i)) = p
    OBVIOUS
  <2>1. i \in Nat /\ i \in Nat \ {0}
    BY <1>3
  <2>2. Append(p, i) \in Seq(Nat) /\ Append(p, i) # Session /\ Front(Append(p, i)) = p
    BY <1>2, <2>1, ChildPath
  <2>3. Append(p, i) # PhaseAgent
    BY <1>2, <2>1, PhaseIsNoCard
  <2>4. i \notin Kids(p)
    BY <1>2, <1>5
  <2> QED BY <2>1, <2>2, <2>3, <2>4 DEF Kids
<1> HIDE DEF me, started
<1>7. Rooted'
  <2>1. DOMAIN tree' \subseteq Seq(Nat) /\ Session \in DOMAIN tree'
    BY <1>1, <1>2, <1>6 DEF Rooted
  <2>2. \A q \in DOMAIN tree' \ {Session} : Front(q) \in DOMAIN tree'
    BY <1>1, <1>2, <1>6 DEF Rooted
  <2> QED BY <2>1, <2>2 DEF Rooted
<1>8. ASSUME NEW q \in DOMAIN tree' PROVE Manned(q)'
  <2>1. q \in Seq(Nat)
    BY <1>1, <1>2, <1>6
  <2>2. ASSUME NEW i \in Nat, Append(q, i) \in started PROVE q = p
    <3>1. Front(Append(q, i)) = q
      BY <2>1, ChildPath
    <3> QED BY <1>6, <2>2, <3>1
  <2>3. CASE q \in DOMAIN tree /\ q # p
    <3>1. Kids(q)' = Kids(q)
      BY <1>1, <2>2, <2>3 DEF Kids
    <3> QED BY <1>1, <1>2, <2>3, <3>1 DEF Manned
  <2>4. CASE q = p
    <3>1. ASSUME NEW i \in Nat PROVE Append(p, i) \in started <=> i \in DOMAIN work
      <4>1. ASSUME NEW j \in DOMAIN work, Append(p, i) = Append(p, j) PROVE i = j
        BY <1>2, <1>3, <4>1, ChildrenDiffer
      <4> QED BY <4>1 DEF started
    <3>2. Kids(p)' = Kids(p) \cup DOMAIN work
      <4>1. ASSUME NEW i \in Nat
            PROVE  Append(p, i) \in DOMAIN tree' \ {PhaseAgent}
                     <=> Append(p, i) \in DOMAIN tree \ {PhaseAgent} \/ i \in DOMAIN work
        BY <1>1, <1>6, <3>1
      <4> QED BY <1>3, <4>1 DEF Kids
    <3> QED BY <1>1, <1>2, <1>4, <2>4, <3>2 DEF Manned, me
  <2>5. CASE q \notin DOMAIN tree
    <3>1. q \in started /\ tree'[q] = SubagentEnv(p, agent(q))
      BY <1>1, <2>5
    <3>2. agent(q) \in Agents
      BY <3>1 DEF Takes, started
    <3>3. Desk(tree'[q]) /\ Running(tree'[q]) = {}
      <4>1. tree[p] \in Process
        BY <1>2 DEF Desk
      <4> HIDE DEF agent
      <4>2. Desk(SubagentEnv(p, agent(q))) /\ Running(SubagentEnv(p, agent(q))) = {}
        BY <3>2, <4>1, ChildDesk
      <4> QED BY <3>1, <4>2
    <3>4. Kids(q)' = {}
      <4> SUFFICES ASSUME NEW i \in Nat, Append(q, i) \in DOMAIN tree' PROVE FALSE
        BY DEF Kids
      <4>1. Append(q, i) \notin started
        BY <2>2, <2>5
      <4>2. Append(q, i) \in DOMAIN tree \ {Session} /\ Front(Append(q, i)) = q
        BY <1>1, <2>1, <4>1, ChildPath
      <4> QED BY <1>2, <2>5, <4>2 DEF Rooted
    <3> QED BY <3>3, <3>4 DEF Manned
  <2> QED BY <2>3, <2>4, <2>5
<1>9. Owed'
  <2>1. /\ me.active \in Nat /\ Cardinality(DOMAIN work) \in Nat /\ me \in Process
    BY <1>2, DeskTypes, FS_CardinalityType DEF Takes, Desk, me
  <2>2. /\ Launched(me, work).good = me.good /\ me.open \subseteq Launched(me, work).open
        /\ me.active > 0 => Launched(me, work).active > 0
    BY <2>1 DEF Launched, Process
  <2>3. ASSUME NEW l \in staged, l.proven
        PROVE  /\ Front(l.by) \in DOMAIN tree' /\ Busy(Front(l.by))'
               /\ tree'[Front(l.by)].good \/ \E c \in tree'[Front(l.by)].open : c.ok
    <3>1. /\ Front(l.by) \in DOMAIN tree /\ Busy(Front(l.by))
          /\ tree[Front(l.by)].good \/ \E c \in tree[Front(l.by)].open : c.ok
      BY <1>2, <2>3 DEF Owed
    <3> QED BY <1>1, <2>2, <3>1 DEF Busy, me
  <2> QED BY <1>1, <1>2, <2>3 DEF Owed
<1>10. ASSUME NEW q \in Stay PROVE CardKept(tree[q], tree'[q]) /\ Served(tree[q], tree'[q])
  <2>1. q \in DOMAIN tree
    BY DEF Stay
  <2>2. CASE q # p
    <3>1. tree'[q].cards = tree[q].cards
      BY <1>1, <2>1, <2>2
    <3> QED BY <1>2, <2>1, <3>1, SameCards
  <2>3. CASE q = p
    <3>1. tree'[p].cards = CardsWith(me, work)
      BY <1>1, <1>2 DEF Launched, Desk, Process, me
    <3>2. CardKept(me, tree'[p])
      <4>1. \A i \in Running(me) : CardsWith(me, work)[i] = me.cards[i]
        BY <1>2, LaunchedCards DEF me
      <4>2. Running(me) \subseteq DOMAIN CardsWith(me, work)
        BY <1>2, LaunchedCards DEF me, At
      <4> QED BY <3>1, <4>1, <4>2 DEF CardKept, Running, At
    <3>3. Served(me, tree'[p])
      <4>1. ASSUME NEW i \in DOMAIN CardsWith(me, work), i > Len(Base(me))
            PROVE i \in DOMAIN work /\ CardsWith(me, work)[i].agent = work[i]
        <5>1. Base(me) \in Seq(Card)
          BY <1>2, DeskTypes DEF Base, me
        <5>2. i \notin DOMAIN Base(me)
          BY <4>1, <5>1
        <5> QED BY <4>1, <5>2 DEF CardsWith
      <4> QED BY <3>1, <4>1 DEF Served, me
    <3> QED BY <2>3, <3>2, <3>3 DEF me
  <2> QED BY <2>2, <2>3
<1> QED BY <1>7, <1>8, <1>9, <1>10 DEF QueueInv, CardsHold

ProvenHolds ==
  \A l \in staged \ staged' :
    (/\ l.proven /\ Front(l.by) \in Stay
     /\ Busy(Front(l.by)) /\ tree'[Front(l.by)].active = 0) => l \in kept'

\* What becomes of the lessons when a process goes.
LEMMA ProvenIs ==
  ASSUME staged \subseteq Lesson, NEW q, NEW ok \in BOOLEAN
  PROVE  /\ Proven(q, ok) \subseteq Lesson
         /\ \A m \in Proven(q, ok) : \E l \in staged :
              /\ m.by = l.by
              /\ m.proven => ~IsStrictPrefix(q, l.by) /\ (l.proven \/ (ok /\ l.by = q))
         /\ \A l \in staged : (l.proven /\ ~IsStrictPrefix(q, l.by)) => l \in Proven(q, ok)
<1> DEFINE now(l) == IF IsStrictPrefix(q, l.by) THEN FALSE ELSE l.proven \/ (ok /\ l.by = q)
           after(l) == [l EXCEPT !.proven = now(l)]
<1>1. Proven(q, ok) = {after(l) : l \in staged}
  BY DEF Proven
<1>2. ASSUME NEW l \in staged PROVE after(l) \in Lesson /\ after(l).by = l.by /\ after(l).proven = now(l)
  <2>1. l \in Lesson /\ l.proven \in BOOLEAN
    BY DEF Lesson
  <2>2. now(l) \in BOOLEAN
    BY <2>1
  <2> HIDE DEF now
  <2> QED BY <2>1, <2>2 DEF Lesson
<1>3. ASSUME NEW l \in staged, l.proven, ~IsStrictPrefix(q, l.by) PROVE after(l) = l
  <2>1. l \in Lesson /\ l.proven = TRUE
    BY <1>3 DEF Lesson
  <2>2. now(l) = TRUE
    BY <1>3
  <2>3. l = [by |-> l.by, proven |-> TRUE]
    BY <2>1 DEF Lesson
  <2>4. after(l) \in Lesson /\ after(l).by = l.by /\ after(l).proven = TRUE
    BY <1>2, <2>2
  <2> HIDE DEF now, after
  <2>5. after(l) = [by |-> l.by, proven |-> TRUE]
    BY <2>4 DEF Lesson
  <2> QED BY <2>3, <2>5
<1>4. ASSUME NEW m \in Proven(q, ok)
      PROVE  /\ m \in Lesson
             /\ \E l \in staged :
                  /\ m.by = l.by
                  /\ m.proven => ~IsStrictPrefix(q, l.by) /\ (l.proven \/ (ok /\ l.by = q))
  <2>1. PICK l \in staged : m = after(l)
    BY <1>1
  <2>2. m \in Lesson /\ m.by = l.by /\ m.proven = now(l)
    BY <1>2, <2>1
  <2> QED BY <2>2
<1>5. ASSUME NEW l \in staged, l.proven, ~IsStrictPrefix(q, l.by) PROVE l \in Proven(q, ok)
  <2>1. after(l) = l
    BY <1>3, <1>5
  <2> QED BY <1>1, <2>1
<1> HIDE DEF now, after
<1>6. Proven(q, ok) \subseteq Lesson
  BY <1>4
<1>7. \A m \in Proven(q, ok) : \E l \in staged :
        /\ m.by = l.by
        /\ m.proven => ~IsStrictPrefix(q, l.by) /\ (l.proven \/ (ok /\ l.by = q))
  BY <1>4, Zenon
<1>8. \A l \in staged : (l.proven /\ ~IsStrictPrefix(q, l.by)) => l \in Proven(q, ok)
  BY <1>5, Zenon
<1> QED BY <1>6, <1>7, <1>8, Zenon

\* A lesson made for a process under q is one made under q.
LEMMA LessonUnder ==
  ASSUME NEW q \in Seq(Nat), NEW l \in Lesson, l.by # Session, IsPrefix(q, Front(l.by))
  PROVE  IsStrictPrefix(q, l.by)
<1>1. l.by \in Seq(Nat)
  BY DEF Lesson
<1>2. /\ Front(l.by) \in Seq(Nat) /\ Last(l.by) \in Nat
      /\ l.by = Append(Front(l.by), Last(l.by))
  BY <1>1, FrontPath
<1>3. /\ IsPrefix(q, Append(Front(l.by), Last(l.by)))
      /\ q # Append(Front(l.by), Last(l.by))
  BY <1>2, UnderByFront
<1> QED BY <1>2, <1>3 DEF IsStrictPrefix

\* A process ends with all under it, and of those that stay only p, which it was
\* made for, may have changed: the tree and the desks stay in step.
LEMMA EndsKeeps ==
  ASSUME QueueInv, NEW q \in DOMAIN tree, q # Session, NEW you,
         tree' = [Without(q) EXCEPT ![Front(q)] = you], Desk(you),
         \A i \in Nat : i \in Running(you) <=>
           i \in Running(tree[Front(q)]) /\ ~ (q = Append(Front(q), i) /\ q # PhaseAgent)
  PROVE  Rooted' /\ \A r \in DOMAIN tree' : Manned(r)'
<1> DEFINE p == Front(q)
<1>1. /\ Rooted /\ DOMAIN tree \subseteq Seq(Nat)
      /\ \A r \in DOMAIN tree : Desk(tree[r]) /\ Kids(r) = Running(tree[r])
  BY DEF QueueInv, Manned, Rooted
<1>2. DOMAIN tree' = DOMAIN tree \ Below(q)
  BY DEF Without
<1>3. /\ Session \in DOMAIN tree' /\ DOMAIN tree' \subseteq DOMAIN tree
      /\ \A r \in DOMAIN tree' : r # q /\ (r # Session => Front(r) \in DOMAIN tree')
      /\ p \in DOMAIN tree'
      /\ \A r \in DOMAIN tree' : \A i \in Nat :
           Append(r, i) \in DOMAIN tree' <=> Append(r, i) \in DOMAIN tree /\ Append(r, i) # q
  BY <1>1, <1>2, WithoutIs
<1>4. tree'[p] = you /\ \A r \in DOMAIN tree' \ {p} : tree'[r] = tree[r]
  BY <1>3 DEF Without
<1>5. Rooted'
  BY <1>1, <1>3 DEF Rooted
<1>6. ASSUME NEW r \in DOMAIN tree' PROVE Manned(r)'
  <2>1. r \in DOMAIN tree /\ r \in Seq(Nat)
    BY <1>1, <1>3
  <2>2. ASSUME NEW i \in Nat
        PROVE  i \in Kids(r)' <=> i \in Kids(r) /\ Append(r, i) # q
    BY <1>3 DEF Kids
  <2>3. CASE r # p
    <3>1. \A i \in Nat : Append(r, i) # q
      BY <2>1, <2>3, ChildPath
    <3>2. Kids(r)' = Kids(r)
      BY <2>2, <3>1 DEF Kids
    <3> QED BY <1>1, <1>4, <2>1, <2>3, <3>2 DEF Manned
  <2>4. CASE r = p
    <3>1. \A i \in Nat : i \in Kids(p) => Append(p, i) # PhaseAgent
      BY DEF Kids
    <3>2. Kids(p) = Running(tree[p]) /\ Desk(tree[p])
      BY <1>1, <2>1, <2>4
    <3>3. Kids(p)' = Running(you)
      <4>1. Kids(p)' \subseteq Nat
        BY DEF Kids
      <4>2. Running(you) \subseteq Nat
        BY DeskTypes
      <4>3. ASSUME NEW i \in Nat PROVE i \in Kids(p)' <=> i \in Running(you)
        BY <2>2, <2>4, <3>1, <3>2
      <4> QED BY <4>1, <4>2, <4>3
    <3> QED BY <1>4, <2>4, <3>3 DEF Manned
  <2> QED BY <2>3, <2>4
<1> QED BY <1>5, <1>6

\* dispatchOne returns: the child leaves with all under it, its card and its call
\* are settled, and of the lessons none is dropped that was earned.
LEMMA LandKeeps ==
  ASSUME QueueInv, NEW p, NEW i \in DOMAIN tree[p].cards, NEW ok \in BOOLEAN, Land(p, i, ok)
  PROVE  QueueInv' /\ CardsHold /\ ProvenHolds
<1> DEFINE q == Append(p, i)
           c == OpenCall(p, i)
           call == CallAfter(p, i, ok)
           you == Landed(p, i, ok)
           lessons == Proven(q, ok)
           final == call.left = 0 /\ tree[p].active = call.size
<1>1. /\ p \in DOMAIN tree /\ q \in DOMAIN tree
      /\ tree' = [Without(q) EXCEPT ![p] = you]
      /\ final => staged' = {} /\ kept' = IF Verdict(tree[p], call) THEN lessons ELSE {}
      /\ ~final => staged' = lessons
  BY DEF Land, FinishDispatchLearnings, CommitStagedLearnings
<1>2. /\ Rooted /\ Owed /\ DOMAIN tree \subseteq Seq(Nat)
      /\ \A r \in DOMAIN tree : Desk(tree[r]) /\ Kids(r) = Running(tree[r])
  BY DEF QueueInv, Manned, Rooted
<1>3. p \in Seq(Nat) /\ i \in Nat \ {0} /\ i \in Nat
  <2>1. DOMAIN tree[p].cards = 1..Len(tree[p].cards) /\ Len(tree[p].cards) \in Nat
    BY <1>1, <1>2, DeskTypes
  <2> QED BY <1>1, <1>2, <2>1
<1>4. q \in Seq(Nat) /\ q # Session /\ Front(q) = p /\ Len(q) = Len(p) + 1 /\ Len(p) \in Nat
  BY <1>3, ChildPath
<1>5. q # PhaseAgent
  BY <1>3, PhaseIsNoCard
<1>6. i \in Running(tree[p]) /\ Desk(tree[p])
  <2>1. i \in Kids(p)
    BY <1>1, <1>3, <1>5 DEF Kids
  <2> QED BY <1>1, <1>2, <2>1
<1>7. Desk(you) /\ Running(you) = Running(tree[p]) \ {i}
  BY <1>6, LandDesk
<1>8. LandedFields(tree[p], you, i, c, call)
  BY <1>6, LandedIs
<1>9. /\ c \in tree[p].open /\ call \in Call /\ (call.ok <=> c.ok \/ ok)
      /\ call.size <= tree[p].active /\ call.size \in Nat /\ tree[p].active \in Nat
      /\ tree[p].active = call.size => tree[p].open = {c}
  <2>1. /\ c \in tree[p].open /\ call \in Call /\ call.size = c.size /\ (call.ok <=> c.ok \/ ok)
        /\ c.size <= tree[p].active /\ c.size \in Nat
        /\ tree[p].active = c.size => tree[p].open = {c}
    BY <1>6, CallOfCard
  <2>2. tree[p].active \in Nat
    BY <1>6, DeskTypes
  <2> QED BY <2>1, <2>2
<1> HIDE DEF c, call, you
<1>10. Rooted' /\ \A r \in DOMAIN tree' : Manned(r)'
  <2>1. \A j \in Nat : j \in Running(you) <=> j \in Running(tree[p]) /\ ~ (q = Append(p, j) /\ q # PhaseAgent)
    BY <1>3, <1>5, <1>7, ChildrenDiffer
  <2> HIDE DEF q
  <2> QED BY <1>1, <1>4, <1>7, <2>1, EndsKeeps
<1>11. /\ DOMAIN tree' = DOMAIN tree \ Below(q) /\ p \in DOMAIN tree'
       /\ tree'[p] = you /\ \A r \in DOMAIN tree' \ {p} : tree'[r] = tree[r]
  <2>1. DOMAIN tree' = DOMAIN tree \ Below(q)
    BY <1>1 DEF Without
  <2>2. Front(q) \in DOMAIN tree'
    BY <1>1, <1>2, <1>4, <2>1, WithoutIs
  <2> QED BY <1>1, <1>4, <2>1, <2>2 DEF Without
<1> HIDE DEF q
<1>12. staged \subseteq Lesson /\ \A l \in staged : l.by # Session
  BY <1>2 DEF Owed
<1>13. /\ lessons \subseteq Lesson
       /\ \A m \in lessons : \E l \in staged :
            /\ m.by = l.by
            /\ m.proven => ~IsStrictPrefix(q, l.by) /\ (l.proven \/ (ok /\ l.by = q))
       /\ \A l \in staged : (l.proven /\ ~IsStrictPrefix(q, l.by)) => l \in lessons
  BY <1>12, ProvenIs
<1> HIDE DEF lessons
<1>14. Owed'
  <2>1. CASE final
    BY <1>1, <2>1 DEF Owed
  <2>2. CASE ~final
    <3>1. you.active > 0
      <4>1. tree[p].active > 0
        BY <1>6, DeskIdle
      <4> QED BY <1>8, <1>9, <2>2, <4>1 DEF LandedFields
    <3>2. tree[p].good \/ call.ok \/ (\E d \in tree[p].open : d.ok)
            => you.good \/ \E d \in you.open : d.ok
      BY <1>8, <1>9, <2>2 DEF LandedFields
    <3>3. ASSUME NEW m \in lessons
          PROVE  /\ m.by # Session
                 /\ m.proven => /\ Front(m.by) \in DOMAIN tree' /\ Busy(Front(m.by))'
                                /\ tree'[Front(m.by)].good \/ \E d \in tree'[Front(m.by)].open : d.ok
      <4>1. PICK l \in staged :
              /\ m.by = l.by
              /\ m.proven => ~IsStrictPrefix(q, l.by) /\ (l.proven \/ (ok /\ l.by = q))
        BY <1>13
      <4>2. m.by # Session /\ l \in Lesson /\ l.by # Session
        BY <1>12, <4>1
      <4>3. CASE m.proven /\ l.proven
        <5>1. /\ Front(l.by) \in DOMAIN tree /\ Busy(Front(l.by))
              /\ tree[Front(l.by)].good \/ \E d \in tree[Front(l.by)].open : d.ok
          BY <1>2, <4>3 DEF Owed
        <5>2. ~IsPrefix(q, Front(l.by))
          BY <1>4, <4>1, <4>2, <4>3, LessonUnder
        <5>3. Front(l.by) \in DOMAIN tree'
          BY <1>11, <5>1, <5>2 DEF Below
        <5>4. CASE Front(l.by) = p
          BY <1>11, <3>1, <3>2, <4>1, <4>2, <5>1, <5>3, <5>4 DEF Busy
        <5>5. CASE Front(l.by) # p
          <6>1. tree'[Front(l.by)] = tree[Front(l.by)]
            BY <1>11, <5>3, <5>5
          <6> QED BY <4>1, <4>2, <5>1, <5>3, <6>1 DEF Busy
        <5> QED BY <5>4, <5>5
      <4>4. CASE m.proven /\ ok /\ l.by = q
        <5>1. Front(m.by) = p /\ call.ok
          BY <1>4, <1>9, <4>1, <4>4
        <5> QED BY <1>11, <3>1, <3>2, <4>2, <5>1 DEF Busy
      <4> QED BY <4>1, <4>2, <4>3, <4>4
    <3> QED BY <1>1, <1>13, <2>2, <3>3 DEF Owed
  <2> QED BY <2>1, <2>2
<1>15. CardsHold
  <2> SUFFICES ASSUME NEW r \in Stay PROVE CardKept(tree[r], tree'[r]) /\ Served(tree[r], tree'[r])
    BY DEF CardsHold
  <2>1. r \in DOMAIN tree /\ r \in DOMAIN tree'
    BY DEF Stay
  <2>2. CASE r # p
    BY <1>2, <1>11, <2>1, <2>2, SameCards
  <2>3. CASE r = p
    <3>1. CardKept(tree[p], you)
      BY <1>8 DEF LandedFields, CardKept
    <3>2. Served(tree[p], you)
      <4> SUFFICES ASSUME NEW j \in DOMAIN you.cards, j > Len(Base(tree[p])), you.cards[j].status = "running"
                   PROVE  FALSE
        BY DEF Served
      <4>1. Base(tree[p]) = tree[p].cards
        <5>1. tree[p].fresh = FALSE
          BY <1>6, DeskTypes DEF Desk
        <5> QED BY <5>1 DEF Base
      <4>2. DOMAIN you.cards = 1..Len(tree[p].cards) /\ Len(tree[p].cards) \in Nat
        BY <1>6, <1>8, DeskTypes DEF LandedFields
      <4> QED BY <4>1, <4>2
    <3> QED BY <1>11, <2>3, <3>1, <3>2
  <2> QED BY <2>2, <2>3
<1>16. ProvenHolds
  <2> SUFFICES ASSUME NEW l \in staged, l \notin staged', l.proven, Front(l.by) \in Stay,
                      Busy(Front(l.by)), tree'[Front(l.by)].active = 0
               PROVE  l \in kept'
    BY DEF ProvenHolds
  <2>1. l \in Lesson /\ l.by # Session /\ Front(l.by) \in DOMAIN tree'
    BY <1>12 DEF Stay
  <2>0. Front(l.by) = p
    <3>1. CASE Front(l.by) # p
      <4>1. tree'[Front(l.by)] = tree[Front(l.by)]
        BY <1>11, <2>1, <3>1
      <4>2. tree[Front(l.by)].active > 0
        BY DEF Busy
      <4> QED BY <4>1, <4>2
    <3> QED BY <3>1
  <2>2. ~ IsStrictPrefix(q, l.by)
    <3>2. l.by \in Seq(Nat) /\ l.by = Append(p, Last(l.by)) /\ Last(l.by) \in Nat
      BY <2>0, <2>1, FrontPath DEF Lesson
    <3>3. Len(l.by) = Len(q)
      BY <1>3, <1>4, <3>2, ChildPath
    <3>4. ASSUME IsPrefix(q, l.by) PROVE q = l.by
      <4>1. \A k \in 1..Len(q) : q[k] = l.by[k]
        BY <1>4, <3>2, <3>4, PrefixIs
      <4> QED BY <1>4, <3>2, <3>3, <4>1, SeqEqual
    <3> QED BY <3>4 DEF IsStrictPrefix
  <2>3. l \in lessons
    BY <1>13, <2>2
  <2>4. final
    BY <1>1, <2>3
  <2>5. Front(l.by) \in DOMAIN tree
    BY DEF Stay
  <2>6. Verdict(tree[p], call)
    <3>1. tree[Front(l.by)].good \/ \E d \in tree[Front(l.by)].open : d.ok
      BY <1>2 DEF Owed
    <3>3. tree[p].good \/ c.ok
      BY <1>9, <2>0, <2>4, <3>1
    <3> QED BY <1>9, <3>3 DEF Verdict
  <2> QED BY <1>1, <2>3, <2>4, <2>6
<1> QED BY <1>10, <1>14, <1>15, <1>16 DEF QueueInv

\* When a process goes without a result, the lessons of those under it have nobody
\* to be kept for; the processes the others are owed by are as they were.
LEMMA GoneOwed ==
  ASSUME QueueInv, NEW q \in Seq(Nat), staged' = Proven(q, FALSE),
         \A r \in DOMAIN tree : ~IsPrefix(q, r) => r \in DOMAIN tree' /\ tree'[r] = tree[r]
  PROVE  Owed'
<1> DEFINE lessons == Proven(q, FALSE)
<1>1. Owed /\ staged \subseteq Lesson /\ \A l \in staged : l.by # Session
  BY DEF QueueInv, Owed
<1>2. /\ lessons \subseteq Lesson
      /\ \A m \in lessons : \E l \in staged :
           /\ m.by = l.by
           /\ m.proven => ~IsStrictPrefix(q, l.by) /\ (l.proven \/ (FALSE /\ l.by = q))
  BY <1>1, ProvenIs
<1> HIDE DEF lessons
<1>3. ASSUME NEW m \in lessons
      PROVE  /\ m.by # Session
             /\ m.proven => /\ Front(m.by) \in DOMAIN tree' /\ Busy(Front(m.by))'
                            /\ tree'[Front(m.by)].good \/ \E d \in tree'[Front(m.by)].open : d.ok
  <2>1. PICK l \in staged :
          /\ m.by = l.by
          /\ m.proven => ~IsStrictPrefix(q, l.by) /\ (l.proven \/ (FALSE /\ l.by = q))
    BY <1>2
  <2>2. l \in Lesson /\ l.by # Session
    BY <1>1
  <2>3. CASE m.proven
    <3>1. /\ Front(l.by) \in DOMAIN tree /\ Busy(Front(l.by))
          /\ tree[Front(l.by)].good \/ \E d \in tree[Front(l.by)].open : d.ok
      BY <1>1, <2>1, <2>3 DEF Owed
    <3>2. ~IsPrefix(q, Front(l.by))
      BY <2>1, <2>2, <2>3, LessonUnder
    <3>3. Front(l.by) \in DOMAIN tree' /\ tree'[Front(l.by)] = tree[Front(l.by)]
      BY <3>1, <3>2
    <3> QED BY <2>1, <2>2, <3>1, <3>3 DEF Busy
  <2> QED BY <2>1, <2>2, <2>3
<1> QED BY <1>2, <1>3 DEF Owed, lessons

\* A step in which the processes that stay do nothing breaks no promise to them.
LEMMA IdleStay ==
  ASSUME QueueInv, \A r \in Stay : tree'[r] = tree[r]
  PROVE  CardsHold /\ ProvenHolds
<1>1. \A r \in Stay : Desk(tree[r])
  BY DEF QueueInv, Manned, Stay
<1>2. CardsHold
  BY <1>1, SameCards DEF CardsHold
<1>3. ProvenHolds
  BY DEF ProvenHolds, Busy
<1> QED BY <1>2, <1>3

\* A retry puts a fresh process in the place of the one that ended.
LEMMA RetryKeeps ==
  ASSUME QueueInv, NEW p \in DOMAIN tree, NEW i \in DOMAIN tree[p].cards, Retry(p, i)
  PROVE  QueueInv' /\ CardsHold /\ ProvenHolds
<1> DEFINE q == Append(p, i)
           new == Without(q)
           lessons == Proven(q, FALSE)
<1>1. /\ q \in DOMAIN tree /\ q # PhaseAgent /\ staged' = lessons
      /\ DOMAIN tree' = DOMAIN new \cup {q} /\ DOMAIN new = DOMAIN tree \ Below(q)
      /\ tree'[q] = Started(tree[q].chain, tree[q].max)
      /\ \A r \in DOMAIN new \ {q} : tree'[r] = tree[r]
  BY DEF Retry, Without
<1>2. /\ Rooted /\ Owed /\ DOMAIN tree \subseteq Seq(Nat)
      /\ \A r \in DOMAIN tree : Desk(tree[r]) /\ Kids(r) = Running(tree[r])
  BY DEF QueueInv, Manned, Rooted
<1>3. q \in Seq(Nat) /\ q # Session
  <2>1. DOMAIN tree[p].cards = 1..Len(tree[p].cards) /\ Len(tree[p].cards) \in Nat
    BY <1>2, DeskTypes
  <2>2. p \in Seq(Nat) /\ i \in Nat
    BY <1>2, <2>1
  <2> QED BY <2>2, ChildPath
<1> HIDE DEF q, new, lessons
<1>4. /\ Session \in DOMAIN new /\ DOMAIN new \subseteq DOMAIN tree
      /\ \A r \in DOMAIN new : r # q /\ (r # Session => Front(r) \in DOMAIN new)
      /\ Front(q) \in DOMAIN new
      /\ \A r \in DOMAIN new : \A j \in Nat :
           Append(r, j) \in DOMAIN new <=> Append(r, j) \in DOMAIN tree /\ Append(r, j) # q
  BY <1>1, <1>2, <1>3, WithoutIs
<1>5. Rooted'
  BY <1>1, <1>2, <1>3, <1>4 DEF Rooted
<1>6. ASSUME NEW r \in DOMAIN new PROVE Manned(r)'
  <2>1. Kids(r)' = Kids(r)
    BY <1>1, <1>4 DEF Kids
  <2>2. tree'[r] = tree[r] /\ r \in DOMAIN tree
    BY <1>1, <1>4
  <2> QED BY <1>2, <2>1, <2>2 DEF Manned
<1>7. Manned(q)'
  <2>1. tree[q].chain \in Seq(Agents) /\ tree[q].max \in Nat
    BY <1>1, <1>2 DEF Desk, Process
  <2>2. Desk(tree'[q]) /\ Running(tree'[q]) = {}
    BY <1>1, <2>1, StartDesk
  <2>3. ASSUME NEW j \in Nat PROVE Append(q, j) \notin DOMAIN tree'
    <3>1. Append(q, j) # q /\ Front(Append(q, j)) = q /\ Append(q, j) # Session
      <4>1. Len(Append(q, j)) = Len(q) + 1 /\ Len(q) \in Nat
        BY <1>3, ChildPath
      <4> QED BY <1>3, <4>1, ChildPath
    <3> QED BY <1>1, <1>4, <3>1
  <2> QED BY <2>2, <2>3 DEF Manned, Kids
<1>8. Owed'
  <2>1. \A r \in DOMAIN tree : ~IsPrefix(q, r) => r \in DOMAIN tree' /\ tree'[r] = tree[r]
    BY <1>1, <1>4 DEF Below
  <2> QED BY <1>1, <1>3, <2>1, GoneOwed DEF lessons
<1>9. \A r \in Stay : tree'[r] = tree[r]
  BY <1>1 DEF Stay
<1>10. CardsHold /\ ProvenHolds
  BY <1>9, IdleStay
<1> QED BY <1>1, <1>5, <1>6, <1>7, <1>8, <1>10 DEF QueueInv

\* The phase agent ends, and takes what it has started along.
LEMMA EndPhaseKeeps ==
  ASSUME QueueInv, EndPhase
  PROVE  QueueInv' /\ CardsHold /\ ProvenHolds
<1> DEFINE q == PhaseAgent
<1>1. q \in DOMAIN tree /\ tree' = Without(q) /\ staged' = Proven(q, FALSE)
  BY DEF EndPhase
<1>2. /\ Rooted /\ Owed /\ DOMAIN tree \subseteq Seq(Nat) /\ Session \in DOMAIN tree
      /\ \A r \in DOMAIN tree : Desk(tree[r]) /\ Kids(r) = Running(tree[r])
  BY DEF QueueInv, Manned, Rooted
<1>3. q = Append(Session, 0) /\ q \in Seq(Nat) /\ q # Session /\ Front(q) = Session
  <2>1. q = Append(Session, 0) /\ Session \in Seq(Nat)
    BY DEF PhaseAgent, Session
  <2> QED BY <2>1, ChildPath
<1>4. DOMAIN tree' = DOMAIN tree \ Below(q) /\ \A r \in DOMAIN tree' : tree'[r] = tree[r]
  BY <1>1 DEF Without
<1>5. Session \in DOMAIN tree'
  BY <1>2, <1>4 DEF Below
<1>6. Rooted' /\ \A r \in DOMAIN tree' : Manned(r)'
  <2>1. tree' = [Without(q) EXCEPT ![Session] = tree[Session]]
    BY <1>1, <1>5, <1>2 DEF Without
  <2>2. tree' = [Without(q) EXCEPT ![Front(q)] = tree[Front(q)]]
    BY <1>3, <2>1
  <2>3. Desk(tree[Front(q)])
    BY <1>2, <1>3
  <2> QED BY <1>1, <1>3, <2>2, <2>3, EndsKeeps
<1>7. Owed'
  <2>1. \A r \in DOMAIN tree : ~IsPrefix(q, r) => r \in DOMAIN tree' /\ tree'[r] = tree[r]
    BY <1>4 DEF Below
  <2> QED BY <1>1, <1>3, <2>1, GoneOwed
<1>8. \A r \in Stay : tree'[r] = tree[r]
  BY <1>4 DEF Stay
<1>9. CardsHold /\ ProvenHolds
  BY <1>8, IdleStay
<1> QED BY <1>6, <1>7, <1>9 DEF QueueInv

\* The agent of a phase is no dispatch: it sits beside the cards of the session.
LEMMA RunPhaseKeeps ==
  ASSUME QueueInv, NEW a \in Agents, RunPhase(a)
  PROVE  QueueInv' /\ CardsHold /\ ProvenHolds
<1> DEFINE q == PhaseAgent
<1>1. /\ q \notin DOMAIN tree /\ DOMAIN tree' = DOMAIN tree \cup {q} /\ staged' = staged
      /\ tree'[q] = SubagentEnv(Session, a) /\ \A r \in DOMAIN tree : tree'[r] = tree[r]
  BY DEF RunPhase
<1>2. /\ Rooted /\ Owed /\ DOMAIN tree \subseteq Seq(Nat) /\ Session \in DOMAIN tree
      /\ \A r \in DOMAIN tree : Desk(tree[r]) /\ Kids(r) = Running(tree[r])
  BY DEF QueueInv, Manned, Rooted
<1>3. q \in Seq(Nat) /\ q # Session /\ Front(q) = Session
  <2>1. q = Append(Session, 0) /\ Session \in Seq(Nat)
    BY DEF PhaseAgent, Session
  <2> QED BY <2>1, ChildPath
<1>4. Rooted'
  BY <1>1, <1>2, <1>3 DEF Rooted
<1>5. ASSUME NEW r \in DOMAIN tree PROVE Manned(r)'
  <2>1. Kids(r)' = Kids(r)
    BY <1>1 DEF Kids
  <2> QED BY <1>1, <1>2, <2>1 DEF Manned
<1>6. Manned(q)'
  <2>1. tree[Session] \in Process
    BY <1>2 DEF Desk
  <2>2. Desk(tree'[q]) /\ Running(tree'[q]) = {}
    BY <1>1, <2>1, ChildDesk
  <2>3. ASSUME NEW j \in Nat PROVE Append(q, j) \notin DOMAIN tree' \ {PhaseAgent}
    <3>1. Front(Append(q, j)) = q /\ Append(q, j) # Session
      BY <1>3, ChildPath
    <3> QED BY <1>1, <1>2, <3>1 DEF Rooted
  <2> QED BY <2>2, <2>3 DEF Manned, Kids
<1>7. Owed'
  BY <1>1, <1>2 DEF Owed, Busy
<1>8. \A r \in Stay : tree'[r] = tree[r]
  BY <1>1 DEF Stay
<1>9. CardsHold /\ ProvenHolds
  BY <1>8, IdleStay
<1> QED BY <1>1, <1>4, <1>5, <1>6, <1>7, <1>9 DEF QueueInv

\* The user's session turns to something else while no dispatch of it is in flight.
LEMMA IdleKeeps ==
  ASSUME QueueInv, NEW you, tree' = [tree EXCEPT ![Session] = you], staged' = staged,
         Desk(you), Running(you) = {}, Running(tree[Session]) = {},
         you.active = tree[Session].active, you.open = tree[Session].open, you.good = tree[Session].good
  PROVE  QueueInv' /\ CardsHold /\ ProvenHolds
<1>1. /\ Rooted /\ Owed /\ Session \in DOMAIN tree
      /\ \A r \in DOMAIN tree : Desk(tree[r]) /\ Kids(r) = Running(tree[r])
  BY DEF QueueInv, Manned, Rooted
<1>2. /\ DOMAIN tree' = DOMAIN tree /\ tree'[Session] = you
      /\ \A r \in DOMAIN tree \ {Session} : tree'[r] = tree[r]
  BY <1>1
<1>3. Rooted'
  BY <1>1, <1>2 DEF Rooted
<1>4. ASSUME NEW r \in DOMAIN tree' PROVE Manned(r)'
  <2>1. Kids(r)' = Kids(r)
    BY <1>2 DEF Kids
  <2> QED BY <1>1, <1>2, <2>1 DEF Manned
<1>5. Owed'
  <2>1. \A r \in DOMAIN tree : /\ tree'[r].active = tree[r].active
                              /\ tree'[r].open = tree[r].open /\ tree'[r].good = tree[r].good
    BY <1>2
  <2> QED BY <1>1, <1>2, <2>1 DEF Owed, Busy
<1>6. CardsHold
  <2>1. CardKept(tree[Session], you) /\ Served(tree[Session], you)
    BY DEF CardKept, Served, Running, At
  <2>2. \A r \in DOMAIN tree \ {Session} : CardKept(tree[r], tree'[r]) /\ Served(tree[r], tree'[r])
    BY <1>1, <1>2, SameCards
  <2> QED BY <1>2, <2>1, <2>2 DEF CardsHold, Stay
<1>7. ProvenHolds
  BY DEF ProvenHolds
<1> QED BY <1>3, <1>4, <1>5, <1>6, <1>7 DEF QueueInv

\* A new request counts its dispatches afresh, with none of them in flight.
LEMMA AgentStartKeeps ==
  ASSUME QueueInv, NEW custom \in BOOLEAN, AgentStart(custom)
  PROVE  QueueInv' /\ CardsHold /\ ProvenHolds
<1> DEFINE me == tree[Session]
           you == [me EXCEPT !.spent = 0, !.fresh = @ \/ ~custom]
<1>1. Session \in DOMAIN tree /\ Desk(me) /\ Running(me) = {} /\ me.open = {}
  <2>1. Session \in DOMAIN tree /\ Desk(me)
    BY DEF QueueInv, Manned, Rooted
  <2>2. ~ (me.active > 0)
    BY DEF AgentStart, Busy
  <2> HIDE DEF me
  <2> QED BY <2>1, <2>2, DeskIdle
<1>2. tree' = [tree EXCEPT ![Session] = you] /\ staged' = staged
  BY <1>1 DEF AgentStart
<1>3. /\ me.chain \in Seq(Agents) /\ me.max \in Nat /\ me.fresh \in BOOLEAN /\ me.spent \in Nat
      /\ me.cards \in Seq(Card) /\ me.open \subseteq Call /\ me.active \in Nat /\ me.good \in BOOLEAN
      /\ me \in Process
  BY <1>1 DEF Desk, Process
<1> HIDE DEF me
<1>4. /\ you \in Process /\ you.cards = me.cards /\ you.open = me.open
      /\ you.active = me.active /\ you.good = me.good
  BY <1>3 DEF Process
<1> HIDE DEF you
<1>5. Running(you) = {}
  BY <1>1, <1>4 DEF Running
<1>6. Desk(you)
  BY <1>1, <1>4, <1>5 DEF Desk
<1> QED BY <1>1, <1>2, <1>4, <1>5, <1>6, IdleKeeps DEF me

\* Steps that leave the processes alone, and stage or clear lessons.
LEMMA OthersKeep ==
  ASSUME QueueInv, UNCHANGED tree,
         \/ UNCHANGED staged
         \/ staged' = {}
         \/ \E q \in DOMAIN tree \ {Session} : staged' = staged \cup {[by |-> q, proven |-> FALSE]}
  PROVE  QueueInv' /\ CardsHold /\ ProvenHolds
<1>1. Rooted /\ Owed /\ \A r \in DOMAIN tree : Manned(r)
  BY DEF QueueInv
<1>2. Rooted' /\ \A r \in DOMAIN tree' : Manned(r)'
  BY <1>1 DEF Rooted, Manned, Kids
<1>3. CardsHold /\ ProvenHolds
  <2>1. \A r \in Stay : tree'[r] = tree[r]
    OBVIOUS
  <2> QED BY <2>1, IdleStay
<1>4. ASSUME UNCHANGED staged \/ staged' = {} PROVE Owed'
  BY <1>1, <1>4 DEF Owed, Busy
<1>5. ASSUME NEW q \in DOMAIN tree \ {Session}, staged' = staged \cup {[by |-> q, proven |-> FALSE]}
      PROVE Owed'
  <2>1. [by |-> q, proven |-> FALSE] \in Lesson
    BY <1>1 DEF Lesson, Rooted
  <2>2. staged' \subseteq Lesson
    BY <1>1, <1>5, <2>1 DEF Owed
  <2>3. \A l \in staged' : l \in staged \/ (l.by = q /\ l.proven = FALSE)
    BY <1>5
  <2> QED BY <1>1, <2>2, <2>3 DEF Owed, Busy
<1>6. Owed'
  BY <1>4, <1>5
<1> QED BY <1>2, <1>3, <1>6 DEF QueueInv

-----------------------------------------------------------------------------
\* The cards a call may take.

Lower == {ss \in Nat \X Nat : ss[1] < ss[2]}

\* A set of numbers that is not empty has a least: none is below all of its own.
LEMMA LeastIs ==
  ASSUME NEW S \in SUBSET Nat, S # {}
  PROVE  Min(S) \in S /\ \A m \in S : Min(S) <= m
<1>1. IsWellFoundedOn(Lower, Nat)
  <2>1. OpToRel(<, Nat) = Lower
    BY DEF OpToRel, Lower
  <2> QED BY <2>1, NatLessThanWellFounded
<1>2. PICK n \in S : \A m \in S : <<m, n>> \notin Lower
  BY <1>1, WFMin
<1>3. ASSUME NEW m \in S PROVE n <= m
  <2>1. <<m, n>> \in Nat \X Nat /\ <<m, n>>[1] = m /\ <<m, n>>[2] = n
    OBVIOUS
  <2>2. ~ (m < n)
    BY <1>2, <2>1 DEF Lower
  <2> QED BY <2>2
<1>4. \E n0 \in S : \A m \in S : n0 <= m
  BY <1>3
<1> QED BY <1>4 DEF Min

\* Below a bound it has a greatest.
LEMMA GreatestIs ==
  ASSUME NEW k \in Nat, NEW S \in SUBSET (0..k), S # {}
  PROVE  Max(S) \in S /\ \A m \in S : Max(S) >= m
<1> DEFINE U == {j \in Nat : k - j \in S}
<1>1. U \in SUBSET Nat /\ U # {}
  <2>1. PICK n \in S : TRUE
    OBVIOUS
  <2>2. k - n \in U
    BY <2>1
  <2> QED BY <2>2
<1>2. Min(U) \in U /\ \A i \in U : Min(U) <= i
  BY <1>1, LeastIs
<1>3. ASSUME NEW m \in S PROVE k - Min(U) >= m
  <2>1. k - m \in U /\ m \in Nat
    OBVIOUS
  <2> QED BY <1>2, <2>1
<1>4. \E x \in S : \A m \in S : x >= m
  BY <1>2, <1>3
<1> QED BY <1>4 DEF Max

\* select_agents: no card it leaves is at work.
LEMMA SelectKeeps ==
  ASSUME QueueInv, NEW names \in Seq(Agents), SelectAgents(names)
  PROVE  QueueInv' /\ CardsHold /\ ProvenHolds
<1> DEFINE me == tree[Session]
           cs == Selected(Session, names)
           you == [me EXCEPT !.cards = cs, !.fresh = FALSE]
<1>1. Session \in DOMAIN tree /\ Desk(me) /\ Running(me) = {} /\ me.open = {}
  <2>1. Session \in DOMAIN tree /\ Desk(me)
    BY DEF QueueInv, Manned, Rooted
  <2>2. ~ (me.active > 0)
    BY DEF SelectAgents, Busy
  <2> HIDE DEF me
  <2> QED BY <2>1, <2>2, DeskIdle
<1>2. tree' = [tree EXCEPT ![Session] = you] /\ staged' = staged
  BY <1>1 DEF SelectAgents
<1>3. /\ me.chain \in Seq(Agents) /\ me.max \in Nat /\ me.fresh \in BOOLEAN /\ me.spent \in Nat
      /\ me.cards \in Seq(Card) /\ me.open \subseteq Call /\ me.active \in Nat /\ me.good \in BOOLEAN
      /\ me \in Process
  BY <1>1 DEF Desk, Process
<1>4. /\ Cards(Session) \in Seq(Card)
      /\ \A i \in DOMAIN Cards(Session) : Cards(Session)[i].status # "running"
  <2>1. Cards(Session) = IF me.fresh THEN <<>> ELSE me.cards
    BY DEF Cards
  <2> HIDE DEF me
  <2> QED BY <1>1, <1>3, <2>1 DEF Running, At
<1>5. ASSUME NEW k \in DOMAIN names PROVE cs[k] \in Card /\ cs[k].status # "running"
  <2> DEFINE old == Of(Cards(Session), names[k])
             new == [agent |-> names[k], status |-> "pending", call |-> 0]
  <2>1. new \in Card /\ new.status # "running"
    BY DEF Card
  <2>2. ASSUME old # {} PROVE Cards(Session)[Max(old)] \in Card /\ Cards(Session)[Max(old)].status # "running"
    <3>1. old \in SUBSET DOMAIN Cards(Session)
      BY DEF Of
    <3>2. PICK m \in Nat : m = Len(Cards(Session))
      BY <1>4
    <3>3. DOMAIN Cards(Session) = 1..m
      BY <1>4, <3>2
    <3>4. old \in SUBSET (0..m)
      BY <3>1, <3>3
    <3> HIDE DEF old
    <3>5. Max(old) \in old
      BY <2>2, <3>4, GreatestIs
    <3>6. Max(old) \in DOMAIN Cards(Session)
      BY <3>1, <3>5
    <3> QED BY <1>4, <3>6
  <2>3. \/ cs[k] = new
        \/ old # {} /\ cs[k] = Cards(Session)[Max(old)]
    BY DEF Selected
  <2> HIDE DEF old, new
  <2> QED BY <2>1, <2>2, <2>3
<1>6. cs \in Seq(Card) /\ At(cs) = {}
  <2>1. PICK m \in Nat : m = Len(names)
    OBVIOUS
  <2>2. DOMAIN cs = 1..m /\ DOMAIN names = 1..m /\ cs = [k \in 1..m |-> cs[k]]
    BY <2>1 DEF Selected
  <2> HIDE DEF cs
  <2>3. cs \in [1..m -> Card]
    BY <1>5, <2>2
  <2>4. At(cs) = {}
    BY <1>5, <2>2 DEF At
  <2> QED BY <2>3, <2>4
<1> HIDE DEF me, cs
<1>7. /\ you \in Process /\ you.cards = cs /\ you.fresh = FALSE /\ you.open = me.open
      /\ you.active = me.active /\ you.good = me.good
  BY <1>3, <1>6 DEF Process
<1> HIDE DEF you
<1>8. Running(you) = {}
  BY <1>6, <1>7 DEF Running
<1>9. Desk(you)
  BY <1>1, <1>7, <1>8 DEF Desk
<1> QED BY <1>1, <1>2, <1>7, <1>8, <1>9, IdleKeeps DEF me

\* dispatch_agent takes a card that is not at work, or a new one when none of its
\* agent's is queued.
LEMMA CardForIs ==
  ASSUME NEW cs \in Seq(Card), NEW a
  PROVE  \/ CardFor(cs, a) \in DOMAIN cs /\ cs[CardFor(cs, a)].status # "running"
         \/ CardFor(cs, a) = Len(cs) + 1 /\ With(cs, a, "pending") = {}
<1>1. DOMAIN cs \subseteq Nat
  OBVIOUS
<1>2. ASSUME NEW S \in SUBSET DOMAIN cs, S # {} PROVE Min(S) \in S
  BY <1>1, <1>2, LeastIs
<1>3. With(cs, a, "pending") \subseteq DOMAIN cs /\ Of(cs, a) \subseteq DOMAIN cs
  BY DEF With, Of
<1>4. CASE With(cs, a, "pending") # {}
  <2>1. CardFor(cs, a) = Min(With(cs, a, "pending"))
    BY <1>4 DEF CardFor
  <2>2. Min(With(cs, a, "pending")) \in With(cs, a, "pending")
    BY <1>2, <1>3, <1>4
  <2>3. CardFor(cs, a) \in DOMAIN cs /\ cs[CardFor(cs, a)].status = "pending"
    BY <2>1, <2>2 DEF With
  <2> QED BY <2>3
<1>5. CASE With(cs, a, "pending") = {} /\ With(cs, a, "running") = {} /\ Of(cs, a) # {}
  <2>1. CardFor(cs, a) = Min(Of(cs, a))
    BY <1>5 DEF CardFor
  <2>2. Min(Of(cs, a)) \in Of(cs, a)
    BY <1>2, <1>3, <1>5
  <2> QED BY <1>5, <2>1, <2>2 DEF With, Of
<1>6. CASE With(cs, a, "pending") = {} /\ ~ (With(cs, a, "running") = {} /\ Of(cs, a) # {})
  BY <1>6 DEF CardFor, FreshOne
<1> QED BY <1>4, <1>5, <1>6

\* dispatch_agent launches on such a card.
LEMMA DispatchAgentKeeps ==
  ASSUME QueueInv, NEW p \in DOMAIN tree, NEW a \in Agents, DispatchAgent(p, a)
  PROVE  QueueInv' /\ CardsHold
<1> DEFINE me == tree[p]
           cs == Base(me)
           n == CardFor(cs, a)
           work == [i \in {n} |-> a]
<1>1. Desk(me)
  BY DEF QueueInv, Manned
<1>2. cs \in Seq(Card) /\ Cards(p) = cs
  BY <1>1, DeskTypes DEF Base, Cards
<1>3. Launch(p, work)
  BY <1>2 DEF DispatchAgent
<1> HIDE DEF me, cs
<1>4. \/ n \in DOMAIN cs /\ cs[n].status # "running"
      \/ n = Len(cs) + 1 /\ With(cs, a, "pending") = {}
  BY <1>2, CardForIs
<1> HIDE DEF n
<1>5. DOMAIN cs = 1..Len(cs) /\ Len(cs) \in Nat
  BY <1>2
<1>6. Takes(me, work)
  <2>1. IsFiniteSet(DOMAIN work) /\ DOMAIN work # {} /\ \A i \in DOMAIN work : work[i] \in Agents
    BY FS_Singleton
  <2>2. DOMAIN work \cap At(cs) = {}
    BY <1>4, <1>5 DEF At
  <2>3. \E m \in Nat : DOMAIN cs \cup DOMAIN work = 1..m
    <3>1. CASE n \in DOMAIN cs
      BY <1>5, <3>1
    <3>2. CASE n = Len(cs) + 1
      <4>1. DOMAIN cs \cup DOMAIN work = 1..(Len(cs) + 1) /\ Len(cs) + 1 \in Nat
        BY <1>5, <3>2
      <4> QED BY <4>1
    <3> QED BY <1>4, <3>1, <3>2
  <2> QED BY <2>1, <2>2, <2>3 DEF Takes, cs
<1>7. ASSUME NEW i \in DOMAIN work, i > Len(cs)
      PROVE  With(CardsWith(me, work), work[i], "pending") = {}
  <2>1. i = n /\ work[i] = a /\ With(cs, a, "pending") = {}
    BY <1>4, <1>5, <1>7
  <2>2. ASSUME NEW j \in DOMAIN CardsWith(me, work), CardsWith(me, work)[j].status = "pending",
               CardsWith(me, work)[j].agent = a
        PROVE  FALSE
    <3>1. CASE j \in DOMAIN work
      BY <2>2, <3>1 DEF CardsWith
    <3>2. CASE j \notin DOMAIN work
      <4>1. j \in DOMAIN cs /\ CardsWith(me, work)[j] = cs[j]
        BY <2>2, <3>2 DEF CardsWith, cs
      <4>2. j \in With(cs, a, "pending")
        BY <2>2, <4>1 DEF With
      <4> QED BY <2>1, <4>2
    <3> QED BY <3>1, <3>2
  <2>3. With(CardsWith(me, work), a, "pending") = {}
    BY <2>2 DEF With
  <2> QED BY <2>1, <2>3
<1> HIDE DEF work
<1> QED BY <1>3, <1>6, <1>7, LaunchKeeps DEF cs, me

\* dispatch_parallel takes queued cards, every one once, and new ones at the end
\* with no gap, and those only for agents whose queue it empties.
LEMMA ClaimsAre ==
  ASSUME NEW cs \in Seq(Card), NEW items, NEW at \in Claims(cs, items), DOMAIN items \subseteq Nat,
         NEW top \in DOMAIN items, Len(items) \in Nat, \A k \in DOMAIN items : at[k] <= at[top]
  PROVE  /\ DOMAIN at = DOMAIN items /\ Range(at) \cap At(cs) = {}
         /\ \E m \in Nat : DOMAIN cs \cup Range(at) = 1..m
         /\ \A k \in DOMAIN items : at[k] > Len(cs) => With(cs, items[k], "pending") \subseteq Range(at)
<1> DEFINE queued(k) == With(cs, items[k], "pending")
<1>1. DOMAIN cs = 1..Len(cs) /\ Len(cs) \in Nat
  OBVIOUS
<1>2. /\ DOMAIN at = DOMAIN items
      /\ \A k \in DOMAIN items : at[k] \in Nat /\ at[k] >= 1
      /\ \A k \in DOMAIN items : at[k] \in queued(k) \/ at[k] > Len(cs)
      /\ \A k \in DOMAIN items : \A i \in 1..(at[k] - 1) : (i > Len(cs) \/ i \in queued(k)) => i \in Range(at)
  BY <1>1 DEF Claims
<1>3. Range(at) \cap At(cs) = {}
  <2> SUFFICES ASSUME NEW k \in DOMAIN items, at[k] \in At(cs) PROVE FALSE
    BY <1>2 DEF Range
  <2>1. at[k] \in DOMAIN cs /\ cs[at[k]].status = "running"
    BY DEF At
  <2>2. at[k] \in queued(k)
    BY <1>1, <1>2, <2>1
  <2> QED BY <2>1, <2>2 DEF With
<1>4. \E m \in Nat : DOMAIN cs \cup Range(at) = 1..m
  <2>1. CASE at[top] <= Len(cs)
    <3>1. Range(at) \subseteq DOMAIN cs
      <4> SUFFICES ASSUME NEW k \in DOMAIN items PROVE at[k] \in DOMAIN cs
        BY <1>2 DEF Range
      <4>1. at[k] <= at[top] /\ at[k] \in Nat /\ at[k] >= 1 /\ at[top] \in Nat
        BY <1>2
      <4> QED BY <1>1, <2>1, <4>1
    <3> QED BY <1>1, <3>1
  <2>2. CASE at[top] > Len(cs)
    <3>1. ASSUME NEW i \in 1..at[top] PROVE i \in DOMAIN cs \cup Range(at)
      <4>1. CASE i = at[top]
        BY <1>2, <4>1 DEF Range
      <4>2. CASE i # at[top]
        <5>1. i \in 1..(at[top] - 1)
          BY <1>2, <4>2
        <5>2. i > Len(cs) => i \in Range(at)
          BY <1>2, <5>1
        <5> QED BY <1>1, <5>2
      <4> QED BY <4>1, <4>2
    <3>2. ASSUME NEW i \in DOMAIN cs PROVE i \in 1..at[top]
      BY <1>1, <1>2, <2>2
    <3>3. ASSUME NEW i \in Range(at) PROVE i \in 1..at[top]
      <4>1. PICK k \in DOMAIN items : at[k] = i
        BY <1>2, <3>3 DEF Range
      <4> QED BY <1>2, <4>1
    <3>4. DOMAIN cs \cup Range(at) = 1..at[top]
      BY <3>1, <3>2, <3>3
    <3> QED BY <1>2, <3>4
  <2> QED BY <1>1, <1>2, <2>1, <2>2
<1>5. ASSUME NEW k \in DOMAIN items, at[k] > Len(cs) PROVE queued(k) \subseteq Range(at)
  <2> SUFFICES ASSUME NEW i \in queued(k) PROVE i \in Range(at)
    OBVIOUS
  <2>1. i \in DOMAIN cs
    BY DEF With
  <2>2. i \in 1..(at[k] - 1)
    BY <1>1, <1>2, <1>5, <2>1
  <2> QED BY <1>2, <2>2
<1> QED BY <1>2, <1>3, <1>4, <1>5

\* dispatch_parallel launches on such cards.
LEMMA DispatchParallelKeeps ==
  ASSUME QueueInv, NEW p \in DOMAIN tree, NEW a \in Agents, NEW b \in Agents, NEW items,
         items = <<a>> \/ items = <<a, b>>, DispatchParallel(p, items)
  PROVE  QueueInv' /\ CardsHold
<1> DEFINE me == tree[p]
           cs == Base(me)
<1>1. Desk(me)
  BY DEF QueueInv, Manned
<1>2. cs \in Seq(Card) /\ Cards(p) = cs
  BY <1>1, DeskTypes DEF Base, Cards
<1>3. /\ DOMAIN items \subseteq Nat /\ Len(items) \in Nat /\ IsFiniteSet(DOMAIN items) /\ 1 \in DOMAIN items
      /\ \A k \in DOMAIN items : items[k] \in Agents /\ k \in {1, 2}
  <2>1. CASE items = <<a>>
    <3>1. DOMAIN items = {1} /\ Len(items) = 1 /\ items[1] = a
      BY <2>1
    <3>2. IsFiniteSet({1})
      BY FS_Singleton
    <3> QED BY <3>1, <3>2
  <2>2. CASE items = <<a, b>>
    <3>1. DOMAIN items = 1..2 /\ Len(items) = 2 /\ items[1] = a /\ items[2] = b
      BY <2>2
    <3>2. IsFiniteSet(1..2)
      <4>1. 1 \in Int /\ 2 \in Int
        OBVIOUS
      <4> QED BY <4>1, FS_Interval
    <3> QED BY <3>1, <3>2
  <2> QED BY <2>1, <2>2
<1>4. PICK at \in Claims(cs, items) :
        Launch(p, [i \in Range(at) |-> items[CHOOSE k \in DOMAIN items : at[k] = i]])
  <2>1. \E at \in Claims(Cards(p), items) :
          Launch(p, [i \in Range(at) |-> items[CHOOSE k \in DOMAIN items : at[k] = i]])
    BY DEF DispatchParallel
  <2> HIDE DEF cs
  <2> QED BY <1>2, <2>1
<1> DEFINE from(i) == CHOOSE k \in DOMAIN items : at[k] = i
           work == [i \in Range(at) |-> items[from(i)]]
<1> HIDE DEF me, cs
<1>5. PICK top \in DOMAIN items : \A k \in DOMAIN items : at[k] <= at[top]
  <2>1. \A k \in DOMAIN items : at[k] \in Nat
    <3>1. at \in [DOMAIN items -> 1..(Len(cs) + Len(items))]
      BY DEF Claims
    <3> QED BY <3>1
  <2>2. CASE 2 \in DOMAIN items /\ at[2] > at[1]
    BY <1>3, <2>1, <2>2
  <2>3. CASE ~ (2 \in DOMAIN items /\ at[2] > at[1])
    BY <1>3, <2>1, <2>3
  <2> QED BY <2>2, <2>3
<1>6. /\ DOMAIN at = DOMAIN items /\ Range(at) \cap At(cs) = {}
      /\ \E m \in Nat : DOMAIN cs \cup Range(at) = 1..m
      /\ \A k \in DOMAIN items : at[k] > Len(cs) => With(cs, items[k], "pending") \subseteq Range(at)
  BY <1>2, <1>3, <1>5, ClaimsAre
<1>7. ASSUME NEW i \in Range(at) PROVE from(i) \in DOMAIN items /\ at[from(i)] = i
  BY <1>6, <1>7 DEF Range
<1>8. IsFiniteSet(Range(at)) /\ Range(at) # {}
  <2>1. Range(at) \subseteq {at[1], at[2]}
    BY <1>3, <1>6 DEF Range
  <2>2. IsFiniteSet({at[1]} \cup {at[2]})
    BY FS_Singleton, FS_AddElement
  <2>3. IsFiniteSet({at[1], at[2]})
    BY <2>2
  <2>4. at[1] \in Range(at)
    BY <1>3, <1>6 DEF Range
  <2> QED BY <2>1, <2>3, <2>4, FS_Subset
<1>9. DOMAIN work = Range(at) /\ \A i \in Range(at) : work[i] = items[from(i)]
  OBVIOUS
<1>10. Launch(p, work)
  BY <1>4
<1> HIDE DEF from, work
<1>11. Takes(me, work)
  BY <1>3, <1>6, <1>7, <1>8, <1>9 DEF Takes, cs
<1>12. ASSUME NEW i \in DOMAIN work, i > Len(cs)
       PROVE  With(CardsWith(me, work), work[i], "pending") = {}
  <2>1. With(cs, work[i], "pending") \subseteq DOMAIN work
    BY <1>6, <1>7, <1>9, <1>12
  <2>2. ASSUME NEW j \in DOMAIN CardsWith(me, work), CardsWith(me, work)[j].status = "pending",
               CardsWith(me, work)[j].agent = work[i]
        PROVE  FALSE
    <3>1. CASE j \in DOMAIN work
      BY <2>2, <3>1 DEF CardsWith
    <3>2. CASE j \notin DOMAIN work
      <4>1. j \in DOMAIN cs /\ CardsWith(me, work)[j] = cs[j]
        BY <2>2, <3>2 DEF CardsWith, cs
      <4>2. j \in With(cs, work[i], "pending")
        BY <2>2, <4>1 DEF With
      <4> QED BY <2>1, <3>2, <4>2
    <3> QED BY <3>1, <3>2
  <2> QED BY <2>2 DEF With
<1> QED BY <1>10, <1>11, <1>12, LaunchKeeps DEF cs, me

-----------------------------------------------------------------------------
\* At first nothing has been dispatched.
LEMMA InitQueue ==
  ASSUME Init
  PROVE  QueueInv
<1>1. PICK max \in Ceilings : tree = [p \in {Session} |-> Started(<<>>, max)]
  BY DEF Init
<1>2. /\ DOMAIN tree = {Session} /\ max \in Nat /\ tree[Session] = Started(<<>>, max)
      /\ Session \in Seq(Nat) /\ <<>> \in Seq(Agents) /\ staged = {}
  BY <1>1, DispatchAssumption DEF Init, Session
<1>3. Desk(tree[Session]) /\ Running(tree[Session]) = {}
  BY <1>2, StartDesk
<1>4. Kids(Session) = {}
  <2>1. \A i \in Nat : Append(Session, i) # Session
    BY <1>2, ChildPath
  <2> QED BY <1>2, <2>1 DEF Kids
<1>5. Rooted /\ Owed
  BY <1>2 DEF Rooted, Owed
<1> QED BY <1>2, <1>3, <1>4, <1>5 DEF QueueInv, Manned

\* One step of any kind keeps the desks and the tree in step, every promise to the
\* cards, and every promise to the lessons.
LEMMA QueueStep ==
  ASSUME QueueInv, [Next]_vars
  PROVE  QueueInv' /\ CardsHold /\ ProvenHolds
<1>1. ASSUME NEW p \in DOMAIN tree, NEW a \in Agents, DispatchAgent(p, a)
      PROVE  QueueInv' /\ CardsHold /\ ProvenHolds
  <2>1. staged' = staged
    BY <1>1 DEF DispatchAgent, Launch
  <2> QED BY <1>1, <2>1, DispatchAgentKeeps DEF ProvenHolds
<1>2. ASSUME NEW p \in DOMAIN tree, NEW a \in Agents, NEW b \in Agents, NEW items,
             items = <<a>> \/ items = <<a, b>>, DispatchParallel(p, items)
      PROVE  QueueInv' /\ CardsHold /\ ProvenHolds
  <2>1. staged' = staged
    BY <1>2 DEF DispatchParallel, Launch
  <2> QED BY <1>2, <2>1, DispatchParallelKeeps DEF ProvenHolds
<1>3. ASSUME NEW p \in DOMAIN tree, NEW i \in DOMAIN tree[p].cards, NEW ok \in BOOLEAN, Land(p, i, ok)
      PROVE  QueueInv' /\ CardsHold /\ ProvenHolds
  BY <1>3, LandKeeps
<1>4. ASSUME NEW p \in DOMAIN tree, NEW i \in DOMAIN tree[p].cards, Retry(p, i)
      PROVE  QueueInv' /\ CardsHold /\ ProvenHolds
  BY <1>4, RetryKeeps
<1>5. ASSUME NEW p \in DOMAIN tree, Remember(p)
      PROVE  QueueInv' /\ CardsHold /\ ProvenHolds
  <2>1. /\ UNCHANGED tree /\ p \in DOMAIN tree \ {Session}
        /\ staged' = staged \cup {[by |-> p, proven |-> FALSE]}
    BY <1>5 DEF Remember
  <2> QED BY <2>1, OthersKeep
<1>6. ASSUME NEW names \in Seq(Agents), SelectAgents(names)
      PROVE  QueueInv' /\ CardsHold /\ ProvenHolds
  BY <1>6, SelectKeeps
<1>7. ASSUME NEW custom \in BOOLEAN, AgentStart(custom)
      PROVE  QueueInv' /\ CardsHold /\ ProvenHolds
  BY <1>7, AgentStartKeeps
<1>8. ASSUME StartWorkflow \/ UNCHANGED vars
      PROVE  QueueInv' /\ CardsHold /\ ProvenHolds
  <2>1. UNCHANGED tree /\ (UNCHANGED staged \/ staged' = {})
    BY <1>8 DEF StartWorkflow, vars
  <2> QED BY <2>1, OthersKeep
<1>9. ASSUME NEW status, EndWorkflow(status)
      PROVE  QueueInv' /\ CardsHold /\ ProvenHolds
  <2>1. UNCHANGED tree /\ (UNCHANGED staged \/ staged' = {})
    BY <1>9 DEF EndWorkflow, CommitStagedLearnings
  <2> QED BY <2>1, OthersKeep
<1>10. ASSUME NEW a \in Agents, RunPhase(a)
       PROVE  QueueInv' /\ CardsHold /\ ProvenHolds
  BY <1>10, RunPhaseKeeps
<1>11. ASSUME EndPhase
       PROVE  QueueInv' /\ CardsHold /\ ProvenHolds
  BY <1>11, EndPhaseKeeps
<1>12. ASSUME NEW a \in Agents, NEW b \in Agents PROVE <<a>> \in Seq(Agents) /\ <<a, b>> \in Seq(Agents)
  OBVIOUS
<1> HIDE DEF QueueInv, CardsHold, ProvenHolds
<1>13. CASE \E p \in DOMAIN tree :
            \/ \E a \in Agents : DispatchAgent(p, a)
            \/ \E a, b \in Agents : DispatchParallel(p, <<a>>) \/ DispatchParallel(p, <<a, b>>)
            \/ \E i \in DOMAIN tree[p].cards, ok \in BOOLEAN : Land(p, i, ok)
            \/ \E i \in DOMAIN tree[p].cards : Retry(p, i)
            \/ Remember(p)
  BY <1>1, <1>2, <1>3, <1>4, <1>5, <1>13
<1>14. CASE \E a, b \in Agents : SelectAgents(<<a, b>>) \/ SelectAgents(<<a>>)
  BY <1>6, <1>12, <1>14
<1> QED BY <1>7, <1>8, <1>9, <1>10, <1>11, <1>13, <1>14 DEF Next

\* The tree, the cards and the counts of every process of it agree at all times, and
\* a lesson that was earned has somebody who owes it a verdict.
THEOREM QueueInvHolds == Spec => []QueueInv
<1>1. QueueInv /\ [Next]_vars => QueueInv'
  BY QueueStep
<1> QED BY <1>1, InitQueue, PTL DEF Spec

\* What the dashboard shows as running is exactly what runs, and the count that
\* decides who commits the lessons is above zero exactly meanwhile
\* (activeDispatches of dispatch.ts, however calls overlap, nest and are retried).
THEOREM InFlightIsTold == Spec => []InFlightTold
<1>1. ASSUME QueueInv PROVE InFlightTold
  <2> SUFFICES ASSUME NEW p \in DOMAIN tree
               PROVE  LET running == {i \in DOMAIN tree[p].cards : tree[p].cards[i].status = "running"}
                          alive == {q \in DOMAIN tree : Len(q) = Len(p) + 1 /\ IsPrefix(p, q)}
                      IN  /\ alive \ {PhaseAgent} = {Append(p, i) : i \in running}
                          /\ Busy(p) <=> running # {}
    BY DEF InFlightTold
  <2> DEFINE alive == {q \in DOMAIN tree : Len(q) = Len(p) + 1 /\ IsPrefix(p, q)}
  <2>1. /\ Desk(tree[p]) /\ Kids(p) = Running(tree[p]) /\ p \in Seq(Nat) /\ DOMAIN tree \subseteq Seq(Nat)
    BY <1>1 DEF QueueInv, Manned, Rooted
  <2>2. Running(tree[p]) = {i \in DOMAIN tree[p].cards : tree[p].cards[i].status = "running"}
    BY DEF Running, At
  <2>3. Busy(p) <=> Running(tree[p]) # {}
    BY <2>1, DeskIdle DEF Busy
  <2>4. ASSUME NEW i \in Running(tree[p]) PROVE Append(p, i) \in alive \ {PhaseAgent}
    <3>1. i \in Nat /\ Append(p, i) \in DOMAIN tree \ {PhaseAgent}
      BY <2>1 DEF Kids
    <3>2. Len(Append(p, i)) = Len(p) + 1 /\ IsPrefix(p, Append(p, i))
      BY <2>1, <3>1, ChildPath, UnderByFront
    <3> QED BY <3>1, <3>2
  <2>5. ASSUME NEW q \in alive \ {PhaseAgent} PROVE \E i \in Running(tree[p]) : q = Append(p, i)
    <3>1. q \in Seq(Nat) /\ Len(q) = Len(p) + 1 /\ IsPrefix(p, q) /\ Len(p) \in Nat /\ q \in DOMAIN tree
      BY <2>1
    <3>2. q # Session
      BY <3>1 DEF Session
    <3>3. Front(q) \in Seq(Nat) /\ Last(q) \in Nat /\ q = Append(Front(q), Last(q))
      BY <3>1, <3>2, FrontPath
    <3>4. IsPrefix(p, Front(q))
      <4>1. p # q
        BY <3>1
      <4>2. IsPrefix(p, Append(Front(q), Last(q))) <=> IsPrefix(p, Front(q)) \/ p = Append(Front(q), Last(q))
        BY <2>1, <3>3, UnderByFront
      <4> QED BY <3>1, <3>3, <4>1, <4>2
    <3>5. Front(q) = p
      <4>1. Len(Front(q)) = Len(p)
        BY <3>1, <3>3, ChildPath
      <4>2. \A k \in 1..Len(p) : p[k] = Front(q)[k]
        BY <2>1, <3>3, <3>4, PrefixIs
      <4> QED BY <2>1, <3>3, <4>1, <4>2, SeqEqual
    <3>6. Last(q) \in Kids(p)
      BY <3>1, <3>3, <3>5 DEF Kids
    <3> QED BY <2>1, <3>3, <3>5, <3>6
  <2>6. alive \ {PhaseAgent} = {Append(p, i) : i \in Running(tree[p])}
    <3> HIDE DEF alive
    <3> QED BY <2>4, <2>5
  <2> QED BY <2>2, <2>3, <2>6
<1> QED BY <1>1, QueueInvHolds, PTL

\* Two dispatches in flight never share a card, a card of an agent at work is added
\* only when none is queued for it, and the cards tell what is at work (takePhaseCard
\* and claimPhaseCards, beside select_agents, retries and landings in any order).
THEOREM QueueIsSound == Spec => QueueSound
<1>1. QueueInv /\ [Next]_vars => CardsHold
  BY QueueStep
<1>2. [Next]_vars /\ CardsHold =>
        [\A p \in Stay : \A i \in DOMAIN tree[p].cards :
           tree[p].cards[i].status = "running" =>
             /\ i \in DOMAIN tree'[p].cards
             /\ tree'[p].cards[i] = tree[p].cards[i] \/ tree'[p].cards[i].status = "over"]_vars
  BY DEF CardsHold, CardKept
<1>3. [Next]_vars /\ CardsHold =>
        [\A p \in Stay : \A i \in DOMAIN tree'[p].cards :
           (i > Len(Cards(p)) /\ tree'[p].cards[i].status = "running") =>
             With(tree'[p].cards, tree'[p].cards[i].agent, "pending") = {}]_vars
  BY DEF CardsHold, Served, Base, Cards
<1>4. Spec => RunningCardKept
  BY <1>1, <1>2, QueueInvHolds, PTL DEF Spec, RunningCardKept
<1>5. Spec => QueueIsServed
  BY <1>1, <1>3, QueueInvHolds, PTL DEF Spec, QueueIsServed
<1> QED BY <1>4, <1>5, InFlightIsTold DEF QueueSound, CardsTrue

\* A lesson of a dispatch that brought a result is not dropped because a sibling
\* failed: when the process that dispatched it closes the group, it is kept
\* (finishDispatchLearnings commits on any success since the count was last zero).
THEOREM ProvenLessonsAreKept == Spec => ProvenLessonsKept
<1>1. QueueInv /\ [Next]_vars => ProvenHolds
  BY QueueStep
<1>2. [Next]_vars /\ ProvenHolds =>
        [\A l \in staged \ staged' :
           LET p == Front(l.by)
           IN  (/\ l.proven /\ p \in Stay
                /\ Busy(p) /\ tree'[p].active = 0) => l \in kept']_vars
  BY DEF ProvenHolds
<1> QED BY <1>1, <1>2, QueueInvHolds, PTL DEF Spec, ProvenLessonsKept
=============================================================================
