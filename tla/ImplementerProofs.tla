------------------------- MODULE ImplementerProofs ---------------------------
(***************************************************************************)
(* Proofs about what is around an implementer's work, for any budget,      *)
(* waves, requests and phases: the inline turn budget counts right; a      *)
(* worker's work lands as a whole or is held back; no work of the user or  *)
(* of a run is lost; no project sets what it may not; what language        *)
(* servers say is told and done right; an agent's memory is what was       *)
(* learned; a child's answer is what it streamed.                          *)
(***************************************************************************)
EXTENDS InlineBudget, Worktrees, WorkBranch, Catalog, Lsp, AgentMemory, SpawnStream, FiniteSetTheorems, SequenceTheorems, WellFoundedInduction, TLAPS

-----------------------------------------------------------------------------
\* Least numbers, and what follows from them: inductions over what a sequence is read into.

Smaller == {ss \in Nat \X Nat : ss[1] < ss[2]}

\* A set of naturals that is not empty has a least element: no number is below all of its own.
LEMMA LeastOf ==
  ASSUME NEW S \in SUBSET Nat, S # {}
  PROVE  \E n \in S : \A m \in S : n <= m
<1>1. IsWellFoundedOn(Smaller, Nat)
  <2>1. OpToRel(<, Nat) = Smaller
    BY DEF OpToRel, Smaller
  <2> QED
    BY <2>1, NatLessThanWellFounded
<1>2. PICK n \in S : \A m \in S : <<m, n>> \notin Smaller
  BY <1>1, WFMin
<1>3. ASSUME NEW m \in S PROVE n <= m
  <2>1. <<m, n>> \in Nat \X Nat /\ <<m, n>>[1] = m /\ <<m, n>>[2] = n
    OBVIOUS
  <2>2. ~ (m < n)
    BY <1>2, <2>1 DEF Smaller
  <2> QED
    BY <2>2
<1> QED
  BY <1>3

\* So what holds of 0, and of n when of n - 1, holds up to any bound.
LEMMA UpTo ==
  ASSUME NEW N \in Nat, NEW Good, 0 \in Good, \A n \in 1..N : n - 1 \in Good => n \in Good
  PROVE  0..N \subseteq Good
<1> DEFINE Bad == (0..N) \ Good
<1> SUFFICES ASSUME Bad # {} PROVE FALSE
  OBVIOUS
<1>1. PICK n \in Bad : \A m \in Bad : n <= m
  <2>1. Bad \in SUBSET Nat
    OBVIOUS
  <2> HIDE DEF Bad
  <2> QED
    BY <2>1, LeastOf
<1>2. n \in 1..N
  BY <1>1
<1>3. n - 1 \in 0..N /\ ~(n <= n - 1)
  BY <1>2
<1>4. n - 1 \notin Bad
  BY <1>1, <1>3
<1> QED
  BY <1>1, <1>2, <1>3, <1>4

\* The first N iterates of a function on what they count and on a value.
Iterated(f, a, N, F) == \A n \in 0..N : f[n] = IF n = 0 THEN a ELSE F[<<n, f[n - 1]>>]

\* A function whose value at n follows from the one at n - 1 exists.
LEMMA Iterates ==
  ASSUME NEW A, NEW a \in A, NEW N \in Nat, NEW F \in [(1..N) \X A -> A]
  PROVE  \E f \in [0..N -> A] : Iterated(f, a, N, F)
<1> DEFINE Good == {m \in 0..N : \E f \in [0..m -> A] :
                      \A n \in 0..m : f[n] = IF n = 0 THEN a ELSE F[<<n, f[n - 1]>>]}
<1>1. 0 \in Good
  <2> DEFINE f == [k \in 0..0 |-> a]
  <2>1. f \in [0..0 -> A] /\ \A n \in 0..0 : f[n] = IF n = 0 THEN a ELSE F[<<n, f[n - 1]>>]
    OBVIOUS
  <2> HIDE DEF f
  <2> QED
    BY <2>1
<1>2. ASSUME NEW m \in 1..N, m - 1 \in Good PROVE m \in Good
  <2>1. PICK f \in [0..m - 1 -> A] : \A n \in 0..m - 1 : f[n] = IF n = 0 THEN a ELSE F[<<n, f[n - 1]>>]
    BY <1>2
  <2> DEFINE x == F[<<m, f[m - 1]>>]
             g == [k \in 0..m |-> IF k = m THEN x ELSE f[k]]
  <2>2. x \in A
    <3>1. f[m - 1] \in A /\ <<m, f[m - 1]>> \in (1..N) \X A
      BY <2>1
    <3> QED
      BY <3>1
  <2> HIDE DEF x
  <2>3. g \in [0..m -> A] /\ g[m] = x /\ \A k \in 0..m - 1 : g[k] = f[k]
    BY <2>1, <2>2
  <2> HIDE DEF g
  <2>4. ASSUME NEW n \in 0..m PROVE g[n] = IF n = 0 THEN a ELSE F[<<n, g[n - 1]>>]
    <3>1. CASE n = m
      <4>1. g[m - 1] = f[m - 1] /\ m # 0
        BY <2>3
      <4> QED
        BY <2>3, <3>1, <4>1 DEF x
    <3>2. CASE n # m
      <4>1. n \in 0..m - 1 /\ (n # 0 => n - 1 \in 0..m - 1)
        BY <3>2
      <4> QED
        BY <2>1, <2>3, <4>1
    <3> QED
      BY <3>1, <3>2
  <2> QED
    BY <2>3, <2>4
<1>3. 0..N \subseteq Good
  <2> HIDE DEF Good
  <2> QED
    BY <1>1, <1>2, UpTo
<1> QED
  BY <1>3 DEF Iterated

-----------------------------------------------------------------------------
\* The inline turn budget.  The invariant says where the one turn is lost: a process reads the file
\* in its first turn, which it numbers 0, and from then on the file is what it found and the turns
\* it took since.

PromptKinds == {"session", "run", "worker"}
Process == [alive : BOOLEAN, turns : Nat, base : Nat \cup {Unread}, told : SUBSET PromptKinds]

BudgetTypeOK ==
  /\ budgeted \in [n : Nat, small : BOOLEAN, started : Nat, taken : Nat]
  /\ spent \in Nat /\ coder \in Process

\* An implementer that has not had its first turn, one that has, and none.
Waiting == coder.alive /\ coder.turns = 0
Counting == coder.alive /\ coder.turns > 0

CountInv ==
  /\ BudgetTypeOK
  /\ RunCounted /\ LiftIsTrue
  /\ ~coder.alive => coder.told = {}
  /\ Waiting => coder.told = {} /\ coder.base = Unread /\ budgeted.taken < spent + budgeted.started
  /\ Counting => coder.base # Unread /\ spent = coder.base + (coder.turns - 1)

-----------------------------------------------------------------------------
\* Before the first run nothing is counted.
LEMMA CountInit == BudgetInit => CountInv
BY DEF BudgetInit, NotStarted, Unread, CountInv, BudgetTypeOK, Process, PromptKinds, RunCounted,
   LiftIsTrue, Waiting, Counting

\* A first turn adds nothing to the file, each later one adds itself.
LEMMA TurnCounts ==
  ASSUME CountInv, Turn
  PROVE  CountInv'
<1>1. /\ coder.alive /\ coder \in Process /\ spent \in Nat
      /\ coder' = [coder EXCEPT !.turns = @ + 1, !.base = IF @ = Unread THEN spent ELSE @]
      /\ budgeted' = [budgeted EXCEPT !.taken = @ + 1]
      /\ spent' = InlineTurns(coder')
  BY DEF Turn, CountInv, BudgetTypeOK
<1>2. /\ coder'.alive /\ coder'.turns = coder.turns + 1 /\ coder'.told = coder.told
      /\ coder'.base = IF coder.base = Unread THEN spent ELSE coder.base
      /\ coder'.base \in Nat /\ coder' \in Process
  <2>1. coder = [alive |-> coder.alive, turns |-> coder.turns, base |-> coder.base,
                 told |-> coder.told]
    BY <1>1 DEF Process
  <2>2. coder' = [alive |-> coder.alive, turns |-> coder.turns + 1, told |-> coder.told,
                  base |-> IF coder.base = Unread THEN spent ELSE coder.base]
    BY <1>1, <2>1
  <2>3. /\ coder.turns \in Nat /\ coder.told \in SUBSET PromptKinds /\ coder.alive \in BOOLEAN
        /\ coder.base \in Nat \cup {Unread}
    BY <1>1 DEF Process
  <2>4. spent \in Nat /\ Unread = -1
    BY <1>1 DEF Unread
  <2>5. (IF coder.base = Unread THEN spent ELSE coder.base) \in Nat
    BY <2>3, <2>4
  <2>6. coder.turns + 1 \in Nat
    BY <2>3
  <2>7. coder' \in Process
    BY <2>2, <2>3, <2>5, <2>6 DEF Process
  <2> QED
    BY <1>1, <2>2, <2>5, <2>7
<1>3. spent' = coder'.base + coder.turns
  BY <1>1, <1>2 DEF InlineTurns, SessionTurns, Unread, Process
<1>4. /\ coder.turns \in Nat /\ Unread = -1
      /\ coder.turns = 0 => spent' = spent
      /\ coder.turns > 0 => spent' = spent + 1
  <2>1. coder.turns \in Nat /\ coder.base \in Nat \cup {Unread} /\ Unread = -1
    BY <1>1 DEF Process, Unread
  <2>2. coder.turns = 0 => coder.base = Unread
    BY <1>1 DEF CountInv, Waiting
  <2>3. coder.turns > 0 => coder.base # Unread /\ spent = coder.base + (coder.turns - 1)
    BY <1>1 DEF CountInv, Counting
  <2>4. CASE coder.turns = 0
    <3>1. coder'.base = spent /\ spent \in Nat
      BY <1>1, <1>2, <2>2, <2>4
    <3> QED
      BY <1>3, <2>1, <2>4, <3>1
  <2>5. CASE coder.turns > 0
    BY <1>1, <1>2, <1>3, <2>1, <2>3, <2>5
  <2> QED
    BY <2>1, <2>4, <2>5
<1>5. /\ budgeted'.taken = budgeted.taken + 1 /\ budgeted'.started = budgeted.started
      /\ budgeted'.small = budgeted.small
      /\ budgeted' \in [n : Nat, small : BOOLEAN, started : Nat, taken : Nat]
  BY <1>1 DEF CountInv, BudgetTypeOK
<1>6. BudgetTypeOK'
  BY <1>2, <1>3, <1>5, <1>1 DEF BudgetTypeOK, Process
<1>7. RunCounted'
  BY <1>1, <1>4, <1>5 DEF CountInv, BudgetTypeOK, RunCounted, Waiting, Process
<1>8. LiftIsTrue'
  <2>1. CASE coder.told = {}
    BY <1>2, <2>1 DEF LiftIsTrue
  <2>2. CASE coder.told # {}
    <3>1. coder.turns > 0 /\ coder.base # Unread /\ ~Refused
      BY <1>1, <2>2 DEF CountInv, LiftIsTrue, Waiting, Counting, Process
    <3>2. InlineTurns(coder') = InlineTurns(coder) + 1 /\ InlineTurns(coder) \in Nat
      BY <1>1, <1>2, <3>1 DEF InlineTurns, SessionTurns, Process, Unread
    <3>3. BudgetSpent => BudgetSpent'
      BY <3>2, BudgetAssumption DEF BudgetSpent
    <3> QED
      BY <1>5, <3>1, <3>3 DEF Refused, LiftIsTrue
  <2> QED
    BY <2>1, <2>2
<1>9. coder'.turns > 0 /\ coder'.base # Unread /\ spent' = coder'.base + (coder'.turns - 1)
  <2>1. coder.turns \in Nat /\ coder'.base \in Nat /\ Unread = -1
    BY <1>2, <1>4
  <2> QED
    BY <1>2, <1>3, <2>1
<1> QED
  BY <1>2, <1>6, <1>7, <1>8, <1>9 DEF CountInv, Waiting, Counting

\* Whatever notice is due, the run's budget is spent.
LEMMA ToldWhenSpent ==
  ASSUME CountInv, Tell
  PROVE  CountInv'
<1>1. /\ coder.alive /\ coder.turns > 0 /\ coder \in Process
      /\ coder' = [coder EXCEPT !.told = @ \cup HandoffKind]
      /\ UNCHANGED <<budgeted, spent>> /\ HandoffKind # {}
  BY DEF Tell, CountInv, BudgetTypeOK
<1>2. coder.base \in Nat
  BY <1>1 DEF CountInv, Counting, Process
<1>3. HandoffKind \subseteq PromptKinds
  BY DEF HandoffKind, PromptKinds
<1>4. /\ coder'.alive /\ coder'.turns = coder.turns /\ coder'.base = coder.base
      /\ coder' \in Process
  BY <1>1, <1>3 DEF Process
<1>5. BudgetSpent
  <2>1. RunBudget \in Nat /\ RunBudget # 0 /\ SessionBudget \in Nat /\ RunBudget <= SessionBudget
    <3>1. RunBudget \in Nat /\ SessionBudget \in Nat /\ RunBudget <= SessionBudget
      BY BudgetAssumption
    <3>2. RunBudget # 0
      BY <1>1 DEF HandoffKind
    <3> QED
      BY <3>1, <3>2
  <2>2. CASE SessionTurns(coder) >= SessionBudget
    <3>1. coder.turns \in Nat /\ coder.base # Unread
      BY <1>1, <1>2 DEF Process, Unread
    <3>2. InlineTurns(coder) >= SessionTurns(coder) /\ SessionTurns(coder) \in Nat
      BY <1>1, <1>2, <3>1 DEF InlineTurns, SessionTurns
    <3>3. InlineTurns(coder) \in Nat
      BY <1>1, <1>2, <3>1 DEF InlineTurns, SessionTurns
    <3> QED
      BY <2>1, <2>2, <3>2, <3>3 DEF BudgetSpent
  <2>3. CASE ~(SessionTurns(coder) >= SessionBudget)
    BY <1>1, <2>1, <2>3 DEF HandoffKind
  <2> QED
    BY <2>2, <2>3
<1>6. BudgetSpent'
  BY <1>4, <1>5 DEF BudgetSpent, InlineTurns, SessionTurns
<1>7. LiftIsTrue' /\ BudgetTypeOK' /\ RunCounted'
  BY <1>1, <1>4, <1>6 DEF CountInv, LiftIsTrue, Refused, BudgetTypeOK, RunCounted
<1> QED
  BY <1>1, <1>4, <1>7 DEF CountInv, Waiting, Counting

\* A launch grants the one turn that its implementer may leave out.
LEMMA LaunchGrants ==
  ASSUME CountInv, Launch
  PROVE  CountInv'
<1>1. /\ coder' = Fresh /\ budgeted' = [budgeted EXCEPT !.started = @ + 1] /\ spent' = spent
  BY DEF Launch
<1>2. /\ coder'.alive /\ coder'.turns = 0 /\ coder'.base = Unread /\ coder'.told = {}
      /\ coder' \in Process
  BY <1>1 DEF Fresh, NotStarted, Process
<1>3. /\ budgeted'.taken = budgeted.taken /\ budgeted'.started = budgeted.started + 1
      /\ budgeted' \in [n : Nat, small : BOOLEAN, started : Nat, taken : Nat]
  BY <1>1 DEF CountInv, BudgetTypeOK
<1> QED
  BY <1>1, <1>2, <1>3 DEF CountInv, BudgetTypeOK, RunCounted, LiftIsTrue, Waiting, Counting

\* Between two implementers a run may begin, which resets the count, or be resumed.
LEMMA RunBegins ==
  ASSUME CountInv, NewRun \/ ResumeRun
  PROVE  CountInv'
<1>1. CASE NewRun
  <2>1. PICK small \in BOOLEAN :
          budgeted' = [n |-> budgeted.n + 1, small |-> small, started |-> 0, taken |-> 0]
    BY <1>1 DEF NewRun
  <2>2. ~coder.alive /\ coder' = coder /\ spent' = 0
    BY <1>1 DEF NewRun
  <2> QED
    BY <2>1, <2>2 DEF CountInv, BudgetTypeOK, RunCounted, LiftIsTrue, Waiting, Counting
<1>2. CASE ResumeRun
  <2>1. /\ coder' = coder /\ spent' = spent /\ ~coder.alive
        /\ budgeted' = [budgeted EXCEPT !.n = @ + 1]
    BY <1>2 DEF ResumeRun
  <2> QED
    BY <2>1 DEF CountInv, BudgetTypeOK, RunCounted, LiftIsTrue, Waiting, Counting
<1> QED
  BY <1>1, <1>2

\* Every step keeps the invariant; a worker's turns are its own.
LEMMA CountStep == CountInv /\ [BudgetNext]_budgetVars => CountInv'
<1> SUFFICES ASSUME CountInv, [BudgetNext]_budgetVars PROVE CountInv'
  OBVIOUS
<1>1. CASE Delegate \/ WorkerTurn \/ TellWorker \/ WorkerReports \/ UNCHANGED budgetVars
  <2>1. UNCHANGED <<budgeted, spent, coder>>
    BY <1>1 DEF Delegate, WorkerTurn, TellWorker, WorkerReports, budgetVars
  <2> QED
    BY <2>1 DEF CountInv, BudgetTypeOK, RunCounted, LiftIsTrue, Refused, BudgetSpent, Waiting,
       Counting
<1>2. CASE CoderEnds
  <2>1. coder' = NotStarted /\ UNCHANGED <<budgeted, spent>>
    BY <1>2 DEF CoderEnds
  <2>2. ~coder'.alive /\ coder'.told = {} /\ coder' \in Process
    BY <2>1 DEF NotStarted, Process
  <2> QED
    BY <2>1, <2>2 DEF CountInv, BudgetTypeOK, RunCounted, LiftIsTrue, Waiting, Counting
<1> QED
  BY <1>1, <1>2, TurnCounts, ToldWhenSpent, LaunchGrants, RunBegins DEF BudgetNext

(***************************************************************************)
(* The count and what is told from it agree with the turns taken, for      *)
(* every budget, grace and number of implementers and runs.                *)
(***************************************************************************)
THEOREM BudgetIsTrue == BudgetSpec => []TurnsTold
<1>1. CountInv => TurnsTold
  BY DEF CountInv, TurnsTold
<1> QED
  BY <1>1, CountInit, CountStep, PTL DEF BudgetSpec

-----------------------------------------------------------------------------
\* The worktrees of a wave.

Trees == Workers \cup {MainTree}
Marks == Workers \cup {Coordinator, Deleted}

TreesTypeOK ==
  /\ tree \in [Trees -> [Paths -> SUBSET Marks]] /\ head \in [Paths -> SUBSET Marks]
  /\ wave \in [n : Nat, out : BOOLEAN] /\ (wave.out => wave.n \in DOMAIN Waves)
  /\ at \in [Workers -> {"idle", "shared", "own", "landed"}]
  /\ own \in SUBSET Workers

\* A worker of a wave still to come has written nowhere.
Unused(i) ==
  /\ i \notin own
  /\ \A p \in Paths : i \notin head[p] /\ \A t \in Trees : i \notin tree[t][p]

ToComeUnused == \A m \in DOMAIN Waves : m > wave.n => \A i \in Waves[m] : Unused(i)

\* Only workers of the wave that is out are at work, in the tree that is theirs.
TreesAtWork ==
  \A i \in Workers : Working(i) =>
    /\ wave.out /\ i \in Waves[wave.n]
    /\ at[i] = "own" <=> i \in own

\* An isolated worker's writes are in its worktree, on top of HEAD, and nowhere else.
Alone ==
  wave.out => \A i \in Waves[wave.n] \cap own : \A p \in Paths :
    /\ i \notin head[p] /\ i \notin tree[MainTree][p]
    /\ tree[i][p] \subseteq head[p] \cup {i, Deleted}
    /\ i \notin tree[i][p] => tree[i][p] = head[p]

TreesInv == TreesTypeOK /\ ToComeUnused /\ TreesAtWork /\ Alone

-----------------------------------------------------------------------------
\* What the assumption says of workers and trees: they are different numbers.
LEMMA WorkersArePositive ==
  /\ Workers \subseteq Nat \ {0} /\ MainTree \notin Workers /\ Deleted \notin Workers
  /\ \A n \in DOMAIN Waves : n \in Int /\ Waves[n] \subseteq Workers
<1>1. \A n \in DOMAIN Waves : n \in Int /\ Waves[n] \in SUBSET (Nat \ {0})
  BY WorktreesAssumption
<1>2. Workers \subseteq Nat \ {0} /\ \A n \in DOMAIN Waves : Waves[n] \subseteq Workers
  BY <1>1 DEF Workers
<1>3. Deleted \notin Nat
  BY DEF Deleted
<1> QED
  BY <1>1, <1>2, <1>3 DEF MainTree

\* Before the first wave nobody has written.
LEMMA TreesInitInv == TreesInit => TreesInv
<1> SUFFICES ASSUME TreesInit PROVE TreesInv
  OBVIOUS
<1>1. NoTree \in [Paths -> SUBSET Marks]
  BY DEF NoTree
<1>2. TreesTypeOK
  BY <1>1 DEF TreesInit, TreesTypeOK, Trees
<1>3. \A p \in Paths : head[p] = {} /\ \A t \in Trees : tree[t][p] = {}
  BY DEF TreesInit, NoTree, Trees
<1>4. \A i : Unused(i)
  BY <1>3 DEF TreesInit, Unused
<1>5. ToComeUnused
  BY <1>4 DEF ToComeUnused
<1> QED
  BY <1>2, <1>5 DEF TreesInit, TreesInv, TreesAtWork, Alone, Working

\* A wave starts from HEAD; its workers have written nowhere before.
LEMMA StartWaveKeeps ==
  ASSUME TreesInv, StartWave
  PROVE  TreesInv'
<1> DEFINE n == wave.n + 1
<1>1. /\ ~wave.out /\ n \in DOMAIN Waves /\ wave.n \in Nat /\ n > wave.n
      /\ wave'.n = n /\ wave'.out /\ wave' \in [n : Nat, out : BOOLEAN]
  BY DEF StartWave, TreesInv, TreesTypeOK
<1>2. PICK up \in SUBSET Waves[n] :
        /\ own' = own \cup up
        /\ at' = [i \in Workers |-> IF i \in up THEN "own"
                                    ELSE IF i \in Waves[n] THEN "shared" ELSE at[i]]
        /\ tree' = [t \in DOMAIN tree |-> IF t \in up THEN head ELSE tree[t]]
        /\ head' = head
  BY DEF StartWave
<1>3. /\ up \subseteq Workers /\ DOMAIN tree = Trees /\ up \subseteq Trees /\ MainTree \notin up
      /\ \A m \in DOMAIN Waves : Waves[m] \subseteq Workers
  BY <1>1, <1>2, WorkersArePositive DEF TreesInv, TreesTypeOK, Trees
<1>4. \A i \in Waves[n] : Unused(i)
  BY <1>1 DEF TreesInv, ToComeUnused
<1>5. TreesTypeOK'
  BY <1>1, <1>2, <1>3 DEF TreesInv, TreesTypeOK
<1>6. ToComeUnused'
  <2> SUFFICES ASSUME NEW m \in DOMAIN Waves, m > n, NEW i \in Waves[m] PROVE Unused(i)'
    BY <1>1 DEF ToComeUnused
  <2>1. m > wave.n /\ i \notin Waves[n]
    BY <1>1, WorktreesAssumption, WorkersArePositive
  <2>2. Unused(i)
    BY <2>1 DEF TreesInv, ToComeUnused
  <2> QED
    BY <1>2, <1>3, <2>1, <2>2 DEF Unused
<1>7. TreesAtWork'
  BY <1>1, <1>2, <1>3, <1>4 DEF TreesInv, TreesAtWork, Working, Unused
<1>8. Alone'
  <2> SUFFICES ASSUME NEW i \in Waves[n] \cap own', NEW p \in Paths
               PROVE  /\ i \notin head[p] /\ i \notin tree'[MainTree][p]
                      /\ tree'[i][p] \subseteq head[p] \cup {i, Deleted}
                      /\ i \notin tree'[i][p] => tree'[i][p] = head[p]
    BY <1>1, <1>2 DEF Alone
  <2>1. i \in up /\ Unused(i)
    BY <1>2, <1>4 DEF Unused
  <2>2. MainTree \in Trees /\ tree'[MainTree] = tree[MainTree] /\ tree'[i] = head
    BY <1>2, <1>3, <2>1 DEF Trees
  <2> QED
    BY <2>1, <2>2 DEF Unused
<1> QED
  BY <1>5, <1>6, <1>7, <1>8 DEF TreesInv
\* A worker writes where it works: an isolated one in its own worktree only.
LEMMA ChangeKeeps ==
  ASSUME TreesInv, NEW i \in Workers, NEW p \in Paths, NEW gone \in SUBSET {Deleted},
         Change(i, p, gone)
  PROVE  TreesInv'
<1> DEFINE home == HomeOf(i)
           new == (tree[home][p] \ {Deleted}) \cup {i} \cup gone
<1>1. /\ wave.out /\ i \in Waves[wave.n] /\ (at[i] = "own" <=> i \in own)
      /\ at[i] \in {"shared", "own"}
      /\ tree' = [tree EXCEPT ![home][p] = new]
      /\ UNCHANGED <<head, wave, at, own>>
  BY DEF Change, TreesInv, TreesAtWork, Working
<1>2. /\ home \in Trees /\ tree \in [Trees -> [Paths -> SUBSET Marks]]
      /\ wave \in [n : Nat, out : BOOLEAN] /\ wave.n \in DOMAIN Waves
      /\ i # MainTree /\ i # Deleted
  BY <1>1, WorkersArePositive DEF HomeOf, Trees, TreesInv, TreesTypeOK
<1>3. new \in SUBSET Marks
  BY <1>2 DEF Marks
<1>4. /\ tree' \in [Trees -> [Paths -> SUBSET Marks]]
      /\ \A t \in Trees, q \in Paths :
           tree'[t][q] = IF t = home /\ q = p THEN new ELSE tree[t][q]
  BY <1>1, <1>2, <1>3
<1>5. TreesTypeOK'
  BY <1>1, <1>4 DEF TreesInv, TreesTypeOK
<1>6. ToComeUnused'
  <2> SUFFICES ASSUME NEW m \in DOMAIN Waves, m > wave.n, NEW j \in Waves[m] PROVE Unused(j)'
    BY <1>1 DEF ToComeUnused
  <2>1. j # i /\ j # Deleted /\ Unused(j)
    BY <1>1, <1>2, WorktreesAssumption, WorkersArePositive DEF TreesInv, ToComeUnused
  <2>2. \A t \in Trees, q \in Paths : j \notin tree'[t][q]
    BY <1>2, <1>4, <2>1 DEF Unused
  <2> QED
    BY <1>1, <2>1, <2>2 DEF Unused
<1>7. TreesAtWork'
  BY <1>1 DEF TreesInv, TreesAtWork, Working
<1>8. Alone'
  <2> SUFFICES ASSUME NEW j \in Waves[wave.n] \cap own, NEW q \in Paths
               PROVE  /\ j \notin head[q] /\ j \notin tree'[MainTree][q]
                      /\ tree'[j][q] \subseteq head[q] \cup {j, Deleted}
                      /\ j \notin tree'[j][q] => tree'[j][q] = head[q]
    <3>1. UNCHANGED <<head, wave, own>>
      BY <1>1
    <3> HIDE DEF home, new
    <3> QED
      BY <3>1 DEF Alone
  <2>1. /\ j \notin head[q] /\ j \notin tree[MainTree][q]
        /\ tree[j][q] \subseteq head[q] \cup {j, Deleted}
        /\ j \notin tree[j][q] => tree[j][q] = head[q]
    BY <1>1 DEF TreesInv, Alone
  <2>2. j \in Workers /\ j \in Trees /\ MainTree \in Trees /\ j # MainTree /\ j # Deleted
    BY <1>2, WorkersArePositive DEF Trees
  <2>3. CASE i \in own
    <3>1. home = i
      BY <1>1, <2>3 DEF HomeOf
    <3> QED
      BY <1>2, <1>4, <2>1, <2>2, <3>1
  <2>4. CASE i \notin own
    <3>1. home = MainTree /\ i # j
      BY <1>1, <2>4 DEF HomeOf
    <3> QED
      BY <1>2, <1>4, <2>1, <2>2, <3>1
  <2> QED
    BY <2>3, <2>4
<1> QED
  BY <1>5, <1>6, <1>7, <1>8 DEF TreesInv

\* What is in the main tree after a merge was there, or in a merged worktree.
LEMMA MergedFrom ==
  ASSUME NEW read, NEW stuck, NEW p \in Paths
  PROVE  \/ Merged(read, stuck)[p] = tree[MainTree][p]
         \/ \E i \in read : Merged(read, stuck)[p] = tree[i][p] /\ i \in Landed(read, stuck, p)
<1> DEFINE landed == Landed(read, stuck, p)
<1>1. CASE landed = {}
  BY <1>1 DEF Merged
<1>2. CASE landed # {}
  <2>1. (CHOOSE i \in landed : TRUE) \in landed
    BY <1>2
  <2>2. landed \subseteq read
    BY DEF Landed, Applied
  <2> QED
    BY <1>2, <2>1, <2>2 DEF Merged
<1> QED
  BY <1>1, <1>2

\* A merge ends the wave; it brings the marks of its workers to the main tree.
LEMMA MergeKeeps ==
  ASSUME TreesInv, Merge
  PROVE  TreesInv'
<1>1. PICK unread \in SUBSET Isolated, stuck \in SUBSET Paths :
        /\ wave.out /\ ~wave'.out /\ wave'.n = wave.n /\ wave' \in [n : Nat, out : BOOLEAN]
        /\ \A i \in Waves[wave.n] : at[i] = "landed"
        /\ tree' = [tree EXCEPT ![MainTree] = Merged(Isolated \ unread, stuck)]
        /\ own' \in SUBSET own /\ at' = at /\ head' = head
  BY DEF Merge, Remaining, TreesInv, TreesTypeOK
<1> DEFINE read == Isolated \ unread
           merged == Merged(read, stuck)
<1>2. /\ tree \in [Trees -> [Paths -> SUBSET Marks]] /\ MainTree \in Trees
      /\ read \subseteq Workers /\ Workers \subseteq Trees
  BY DEF Isolated, TreesInv, TreesTypeOK, Trees
<1>3. DOMAIN merged = Paths /\ merged = [p \in Paths |-> merged[p]]
  BY DEF Merged
<1>4. \A p \in Paths : \/ merged[p] = tree[MainTree][p]
                         \/ \E i \in read : merged[p] = tree[i][p]
  BY MergedFrom
<1> HIDE DEF merged, read
<1>5. merged \in [Paths -> SUBSET Marks]
  <2>1. \A t \in Trees, p \in Paths : tree[t][p] \in SUBSET Marks
    BY <1>2
  <2>2. \A p \in Paths : merged[p] \in SUBSET Marks
    BY <1>2, <1>4, <2>1
  <2> QED
    BY <1>3, <2>2
<1>6. tree' = [tree EXCEPT ![MainTree] = merged]
  BY <1>1 DEF merged, read
<1>7. TreesTypeOK'
  BY <1>1, <1>2, <1>5, <1>6 DEF TreesInv, TreesTypeOK
<1>8. ToComeUnused'
  <2> SUFFICES ASSUME NEW m \in DOMAIN Waves, m > wave.n, NEW j \in Waves[m] PROVE Unused(j)'
    BY <1>1 DEF ToComeUnused
  <2>1. Unused(j)
    BY DEF TreesInv, ToComeUnused
  <2>2. \A p \in Paths : j \notin merged[p]
    BY <1>2, <1>4, <2>1 DEF Unused
  <2> QED
    BY <1>1, <1>2, <1>6, <2>1, <2>2 DEF Unused
<1>9. TreesAtWork'
  BY <1>1 DEF TreesInv, TreesAtWork, Working
<1> QED
  BY <1>1, <1>7, <1>8, <1>9 DEF TreesInv, Alone

\* Between waves nobody is at work.
LEMMA BetweenKeeps ==
  ASSUME TreesInv, ~wave.out, CommitAll \/ \E p \in Paths : EditMain(p)
  PROVE  TreesInv'
<1>1. /\ tree \in [Trees -> [Paths -> SUBSET Marks]] /\ MainTree \in Trees
      /\ head \in [Paths -> SUBSET Marks]
  BY DEF TreesInv, TreesTypeOK, Trees
<1>2. UNCHANGED <<wave, at, own>>
  BY DEF CommitAll, EditMain
<1>3. ASSUME NEW p \in Paths, EditMain(p)
      PROVE  TreesTypeOK' /\ ToComeUnused'
  <2> DEFINE new == (tree[MainTree][p] \ {Deleted}) \cup {Coordinator}
  <2>1. new \in SUBSET Marks /\ head' = head
    BY <1>1, <1>3 DEF EditMain, Marks
  <2>2. /\ tree' \in [Trees -> [Paths -> SUBSET Marks]]
        /\ \A t \in Trees, q \in Paths :
             tree'[t][q] = IF t = MainTree /\ q = p THEN new ELSE tree[t][q]
    BY <1>1, <1>3, <2>1 DEF EditMain
  <2>3. TreesTypeOK'
    BY <1>2, <2>1, <2>2 DEF TreesInv, TreesTypeOK
  <2>4. ASSUME NEW m \in DOMAIN Waves, m > wave.n, NEW j \in Waves[m]
        PROVE  Unused(j)'
    <3>1. Unused(j) /\ j # Coordinator
      BY <2>4, WorkersArePositive DEF TreesInv, ToComeUnused, Coordinator
    <3>2. \A t \in Trees, q \in Paths : j \notin tree'[t][q]
      BY <1>1, <2>2, <3>1 DEF Unused
    <3> QED
      BY <1>2, <2>1, <3>1, <3>2 DEF Unused
  <2> QED
    BY <1>2, <2>3, <2>4 DEF ToComeUnused
<1>4. CASE CommitAll
  <2>1. head' = tree[MainTree] /\ tree' = tree
    BY <1>4 DEF CommitAll
  <2>2. TreesTypeOK'
    BY <1>1, <1>2, <2>1 DEF TreesInv, TreesTypeOK
  <2>3. ToComeUnused'
    BY <1>1, <1>2, <2>1 DEF TreesInv, ToComeUnused, Unused
  <2> QED
    BY <1>2, <2>2, <2>3 DEF TreesInv, TreesAtWork, Alone, Working
<1> QED
  BY <1>2, <1>3, <1>4 DEF TreesInv, TreesAtWork, Alone, Working

\* One step of any kind keeps the invariant.
LEMMA TreesStepInv == TreesInv /\ [TreesNext]_treeVars => TreesInv'
<1> SUFFICES ASSUME TreesInv, [TreesNext]_treeVars PROVE TreesInv'
  OBVIOUS
<1>1. CASE CommitAll \/ \E p \in Paths : EditMain(p)
  <2>1. ~wave.out
    BY <1>1 DEF CommitAll, EditMain
  <2> QED
    BY <1>1, <2>1, BetweenKeeps
<1>2. ASSUME NEW i \in Workers, WorkerEnds(i)
      PROVE  TreesInv'
  BY <1>2 DEF WorkerEnds, TreesInv, TreesTypeOK, ToComeUnused, Unused, TreesAtWork, Alone, Working
<1>3. ASSUME NEW i \in Workers, NEW p \in Paths, Change(i, p, {}) \/ Change(i, p, {Deleted})
      PROVE  TreesInv'
  BY <1>3, ChangeKeeps
<1>4. CASE UNCHANGED treeVars
  BY <1>4 DEF treeVars, TreesInv, TreesTypeOK, ToComeUnused, Unused, TreesAtWork, Alone, Working
<1> QED
  BY <1>1, <1>2, <1>3, <1>4, StartWaveKeeps, MergeKeeps DEF TreesNext

-----------------------------------------------------------------------------
\* Two that changed one path contest it.
LEMMA ContestedByTwo ==
  ASSUME NEW w, IsFiniteSet(w), NEW p \in Paths, NEW i \in w, NEW j \in w,
         i # j, p \in Touched(i), p \in Touched(j)
  PROVE  p \in Contested(w)
<1> DEFINE S == {k \in w : p \in Touched(k)}
<1>1. IsFiniteSet(S) /\ Cardinality(S) \in Nat
  BY FS_Subset, FS_CardinalityType
<1>2. IsFiniteSet({i, j}) /\ Cardinality({i, j}) = 2
  <2>1. IsFiniteSet({i}) /\ Cardinality({i}) = 1
    BY FS_Singleton
  <2>2. IsFiniteSet({i} \cup {j}) /\ Cardinality({i} \cup {j}) = 1 + 1
    BY <2>1, FS_AddElement
  <2>3. {i, j} = {i} \cup {j}
    OBVIOUS
  <2> QED
    BY <2>2, <2>3
<1>3. {i, j} \in SUBSET S
  OBVIOUS
<1>4. Cardinality({i, j}) <= Cardinality(S)
  BY <1>1, <1>3, FS_Subset
<1> QED
  BY <1>1, <1>2, <1>4 DEF Contested

\* A path of the merged tree: the pick among those that landed on it, or as it was.
MergedPaths(read, stuck) == tree'[MainTree] = Merged(read, stuck)

\* The facts of a merge that both halves of the property need.
MergeFacts(read, stuck) ==
  /\ read = ReadOnes /\ read \subseteq Isolated /\ IsFiniteSet(read) /\ stuck = failed'.stuck
  /\ MergedPaths(read, stuck) /\ held' = (Contested(read) # {})
  /\ held' => own' = own
  /\ \A j \in Isolated : j # Deleted
  /\ \A j \in Isolated, p \in Paths :
       /\ tree[j][p] \subseteq head[p] \cup {j, Deleted}
       /\ j \notin head[p] /\ j \notin tree[MainTree][p]
       /\ p \in WrittenBy(j) <=> j \in tree[j][p]
  /\ \A j \in Isolated : WrittenBy(j) = Touched(j)

\* A merge has them.
LEMMA MergeHasFacts ==
  ASSUME TreesInv, [TreesNext]_treeVars, MergeStep
  PROVE  \E read, stuck : MergeFacts(read, stuck)
<1>1. Merge
  BY DEF MergeStep, TreesNext, StartWave, CommitAll, EditMain, WorkerEnds, Change, treeVars
<1>2. PICK unread \in SUBSET Isolated, stuck \in SUBSET Paths :
        /\ tree' = [tree EXCEPT ![MainTree] = Merged(Isolated \ unread, stuck)]
        /\ held' = (Contested(Isolated \ unread) # {})
        /\ own' = Remaining(Isolated \ unread)
        /\ failed' = [unread |-> unread, stuck |-> stuck]
  BY <1>1 DEF Merge
<1> DEFINE read == Isolated \ unread
<1>3. read = ReadOnes /\ stuck = failed'.stuck /\ read \subseteq Isolated
  BY <1>2 DEF ReadOnes
<1>4. /\ wave.out /\ wave.n \in DOMAIN Waves /\ Isolated \subseteq Waves[wave.n]
      /\ Isolated \subseteq Workers /\ MainTree \in Trees
      /\ tree \in [Trees -> [Paths -> SUBSET Marks]]
      /\ \A j \in Isolated, p \in Paths :
           /\ tree[j][p] \subseteq head[p] \cup {j, Deleted}
           /\ j \notin head[p] /\ j \notin tree[MainTree][p]
           /\ j \notin tree[j][p] => tree[j][p] = head[p]
  BY <1>1 DEF Merge, Isolated, Trees, TreesInv, TreesTypeOK, Alone
<1>5. IsFiniteSet(read)
  <2>1. IsFiniteSet(Waves[wave.n]) /\ read \subseteq Waves[wave.n]
    BY <1>4, WorktreesAssumption
  <2> QED
    BY <2>1, FS_Subset
<1>6. \A j \in Isolated : j # Deleted
  BY <1>4, WorkersArePositive
<1>7. tree'[MainTree] = Merged(read, stuck)
  BY <1>2, <1>4
<1>8. MergedPaths(read, stuck)
  BY <1>7 DEF MergedPaths
<1>9. held' => own' = own
  BY <1>2 DEF Remaining
<1>10. \A j \in Isolated, p \in Paths : p \in WrittenBy(j) <=> j \in tree[j][p]
  BY DEF WrittenBy
<1>11. \A j \in Isolated : WrittenBy(j) = Touched(j)
  BY <1>4 DEF WrittenBy, Touched
<1> HIDE DEF read
<1>12. MergeFacts(read, stuck)
  <2>1. held' = (Contested(read) # {})
    BY <1>2 DEF read
  <2> QED
    BY <1>3, <1>4, <1>5, <1>6, <1>8, <1>9, <1>10, <1>11, <2>1 DEF MergeFacts
<1> QED
  BY <1>12

\* A worker nothing stood in the way of lands as a whole, or not at all.
LEMMA SmoothIsWhole ==
  ASSUME NEW read, NEW stuck, MergeFacts(read, stuck), NEW i \in Isolated, Smooth(i)
  PROVE  Whole(i)
<1>1. i \in read /\ WrittenBy(i) \cap stuck = {} /\ WrittenBy(i) \subseteq Paths
  BY DEF MergeFacts, Smooth, WrittenBy
<1>2. CASE i \in Applied(read)
  <2> SUFFICES ASSUME NEW p \in WrittenBy(i) PROVE tree'[MainTree][p] = tree[i][p]
    BY DEF Whole, LandedFrom
  <2>1. p \in Paths /\ p \in Touched(i) /\ p \notin Contested(read) /\ p \notin stuck
    BY <1>1, <1>2 DEF MergeFacts, Applied
  <2>2. i \in Landed(read, stuck, p)
    BY <1>2, <2>1 DEF Landed, Reaches, Smooth
  <2>3. \A j \in Landed(read, stuck, p) : j = i
    <3>1. \A j \in Landed(read, stuck, p) : j \in read /\ p \in Touched(j)
      BY DEF Landed, Applied, Reaches
    <3> QED
      BY <1>1, <2>1, <3>1, ContestedByTwo DEF MergeFacts
  <2>4. (CHOOSE j \in Landed(read, stuck, p) : TRUE) = i
    BY <2>2, <2>3
  <2> QED
    BY <2>1, <2>2, <2>4 DEF MergeFacts, MergedPaths, Merged
<1>3. CASE Touched(i) = {}
  BY <1>3 DEF MergeFacts, Whole
<1>4. CASE i \notin Applied(read) /\ Touched(i) # {}
  <2>1. Contested(read) # {}
    BY <1>1, <1>4 DEF Applied
  <2>2. i \in own
    BY DEF Isolated
  <2>3. ASSUME NEW p \in WrittenBy(i) PROVE i \notin tree'[MainTree][p]
    <3>1. p \in Paths
      BY <1>1
    <3>2. i \notin Landed(read, stuck, p)
      BY <1>4 DEF Landed
    <3>3. ASSUME NEW j \in read, j \in Landed(read, stuck, p) PROVE i \notin tree[j][p]
      <4>1. i # j /\ j \in Isolated
        BY <3>2, <3>3 DEF MergeFacts
      <4> QED
        BY <3>1, <4>1 DEF MergeFacts
    <3> QED
      BY <3>1, <3>3, MergedFrom DEF MergeFacts, MergedPaths
  <2> QED
    BY <2>1, <2>2, <2>3 DEF MergeFacts, Whole
<1> QED
  BY <1>2, <1>3, <1>4

\* No path is made of two workers, or of one of two.
LEMMA PathsUnmixed ==
  ASSUME NEW read, NEW stuck, MergeFacts(read, stuck), NEW p \in Paths
  PROVE  NoMixture(p)
<1>1. CASE tree'[MainTree][p] = tree[MainTree][p]
  BY <1>1 DEF NoMixture
<1>2. ASSUME NEW i \in read, i \in Landed(read, stuck, p), tree'[MainTree][p] = tree[i][p]
      PROVE  NoMixture(p)
  <2>1. p \in Touched(i) /\ p \notin Contested(read)
    BY <1>2 DEF Landed, Applied, Reaches
  <2>2. ASSUME NEW j \in read, p \in WrittenBy(j) PROVE j = i
    <3>1. p \in Touched(j)
      BY <2>2 DEF MergeFacts
    <3> QED
      BY <1>2, <2>1, <3>1, ContestedByTwo DEF MergeFacts
  <2>3. p \in WrittenBy(i)
    BY <1>2, <2>1 DEF MergeFacts
  <2> QED
    BY <1>2, <2>2, <2>3 DEF NoMixture, LandedFrom, MergeFacts
<1> QED
  BY <1>1, <1>2, MergedFrom DEF MergeFacts, MergedPaths

(***************************************************************************)
(* Whatever workers write, and whichever of them get no worktree, touch    *)
(* the same paths or meet a failure of git's: a worker git failed for in   *)
(* nothing lands as a whole or is held back with its worktree kept, and no *)
(* path takes the side of one of two, for any waves.                       *)
(***************************************************************************)
THEOREM MergesAreWhole == TreesSpec => WholeOrHeldBack
<1>1. TreesSpec => []TreesInv
  BY TreesInitInv, TreesStepInv, PTL DEF TreesSpec
<1>2. TreesInv /\ [TreesNext]_treeVars =>
        [MergeStep => /\ \A i \in Isolated : Smooth(i) => Whole(i)
                      /\ \A p \in Paths : NoMixture(p)]_treeVars
  BY MergeHasFacts, SmoothIsWhole, PathsUnmixed
<1> QED
  BY <1>1, <1>2, PTL DEF TreesSpec, WholeOrHeldBack

-----------------------------------------------------------------------------
\* The work branch, checkpoints and /revert.

Histories == SUBSET (1..MaxCommits)
Branches == {Main, Own, Detached} \cup {AgentBranch(r, h) : r \in Requests, h \in Histories}
Run == [at : {"idle", "planning", "ready", "building"}, resuming : BOOLEAN,
        request : Requests \cup {None}, committed : Nat]
Ledger == [based : BOOLEAN, branch : Branches \cup {None},
           rows : [Phases -> [done : BOOLEAN, sha : Nat]]]
IsStash(st) == \E n \in Nat : st \in [1..n -> {st[i] : i \in 1..n}]

BranchTypeOK ==
  /\ log \in Seq(SUBSET Items) /\ Len(log) <= MaxCommits
  /\ DOMAIN branches \in SUBSET Branches /\ {Main, Own, Detached} \subseteq DOMAIN branches
  /\ branches \in [DOMAIN branches -> SUBSET Commits]
  /\ on \in DOMAIN branches
  /\ edits \in SUBSET Items /\ files \in SUBSET Items
  /\ IsStash(stash)
  /\ run \in Run /\ (run.at # "idle" => run.request \in Requests)
  /\ ledger \in Ledger \cup {None}
  /\ runs \in Nat /\ strayed \in BOOLEAN

\* A checkpoint's commit and branch are there still.
CheckpointOK(c) ==
  c # None => c \in [head : SUBSET Commits, branch : DOMAIN branches, snapshot : SUBSET Items,
                     takenAt : Nat]

\* A run that is building, from a plan of its own, has left the default branch or has no base.
BuildsOffDefault ==
  run.at = "building" /\ ~run.resuming /\ ~strayed /\ ledger # None /\ ledger.based => on # Main

BranchInv ==
  BranchTypeOK /\ CheckpointOK(cp) /\ CheckpointOK(dialog) /\ SnapshotStored /\ BuildsOffDefault

-----------------------------------------------------------------------------
\* The stash list.

\* A sequence of entries, whatever they are.
LEMMA StashIsSeq ==
  ASSUME NEW st, IsStash(st)
  PROVE  /\ st \in Seq({st[i] : i \in DOMAIN st}) /\ DOMAIN st = 1..Len(st) /\ Len(st) \in Nat
<1>1. PICK n \in Nat : st \in [1..n -> {st[i] : i \in 1..n}]
  BY DEF IsStash
<1>2. DOMAIN st = 1..n
  BY <1>1
<1>3. st \in Seq({st[i] : i \in 1..n})
  BY <1>1
<1> QED
  BY <1>2, <1>3

\* A sequence over any set is such a list.
LEMMA SeqIsStash ==
  ASSUME NEW S, NEW st \in Seq(S)
  PROVE  IsStash(st)
<1>1. Len(st) \in Nat /\ st \in [1..Len(st) -> {st[i] : i \in 1..Len(st)}]
  OBVIOUS
<1> QED
  BY <1>1 DEF IsStash

\* An entry put on top of the list is its first, and the others move down by one.
LEMMA PushedStash ==
  ASSUME NEW st, IsStash(st), NEW e
  PROVE  /\ IsStash(<<e>> \o st) /\ DOMAIN (<<e>> \o st) = 1..(Len(st) + 1)
         /\ (<<e>> \o st)[1] = e
         /\ \A i \in DOMAIN st : i + 1 \in DOMAIN (<<e>> \o st) /\ (<<e>> \o st)[i + 1] = st[i]
<1> DEFINE S == {st[i] : i \in DOMAIN st} \cup {e}
           new == <<e>> \o st
<1>1. st \in Seq(S) /\ <<e>> \in Seq(S) /\ DOMAIN st = 1..Len(st) /\ Len(st) \in Nat
  <2>1. st \in Seq({st[i] : i \in DOMAIN st}) /\ DOMAIN st = 1..Len(st) /\ Len(st) \in Nat
    BY StashIsSeq
  <2>2. {st[i] : i \in DOMAIN st} \subseteq S
    OBVIOUS
  <2>3. st \in Seq(S)
    BY <2>1, <2>2
  <2>4. <<e>> \in Seq(S)
    OBVIOUS
  <2> QED
    BY <2>1, <2>3, <2>4
<1>2. /\ new \in Seq(S) /\ Len(new) = Len(st) + 1 /\ DOMAIN new = 1..(Len(st) + 1)
      /\ new[1] = e /\ \A i \in 1..Len(st) : new[i + 1] = st[i]
  BY <1>1
<1>3. IsStash(new)
  BY <1>2, SeqIsStash
<1> QED
  BY <1>1, <1>2, <1>3

\* Dropping the stale entries keeps all others.
LEMMA DropKeeps ==
  ASSUME NEW st, IsStash(st), NEW stay \in SUBSET DOMAIN st
  PROVE  /\ IsStash(Drop(st, stay))
         /\ \A i \in stay : \E k \in DOMAIN Drop(st, stay) : Drop(st, stay)[k] = st[i]
<1> DEFINE upTo(i) == {j \in stay : j <= i}
           new == Drop(st, stay)
<1>1. IsFiniteSet(stay) /\ Cardinality(stay) \in Nat /\ stay \in SUBSET Nat
  <2>1. DOMAIN st = 1..Len(st) /\ Len(st) \in Nat
    BY StashIsSeq
  <2>2. IsFiniteSet(DOMAIN st)
    BY <2>1, FS_Interval
  <2> QED
    BY <2>1, <2>2, FS_Subset, FS_CardinalityType
<1>2. DOMAIN new = 1..Cardinality(stay) /\ IsStash(new)
  <2>1. new = [k \in 1..Cardinality(stay) |-> st[Nth(stay, k)]]
    BY DEF Drop
  <2>2. new \in [1..Cardinality(stay) -> {new[k] : k \in 1..Cardinality(stay)}]
    BY <2>1
  <2> QED
    BY <1>1, <2>1, <2>2 DEF IsStash
<1>3. ASSUME NEW i \in stay
      PROVE  /\ IsFiniteSet(upTo(i)) /\ Cardinality(upTo(i)) \in 1..Cardinality(stay)
  <2>1. IsFiniteSet(upTo(i)) /\ Cardinality(upTo(i)) <= Cardinality(stay)
    BY <1>1, FS_Subset
  <2>2. Cardinality(upTo(i)) \in Nat /\ upTo(i) # {}
    BY <1>1, <2>1, FS_CardinalityType
  <2>3. Cardinality(upTo(i)) # 0
    BY <2>1, <2>2, FS_EmptySet
  <2> QED
    BY <1>1, <2>1, <2>2, <2>3
<1>4. ASSUME NEW i \in stay, NEW j \in stay, i < j
      PROVE  Cardinality(upTo(i)) # Cardinality(upTo(j))
  <2>1. upTo(i) \in SUBSET upTo(j) /\ j \in upTo(j) /\ j \notin upTo(i)
    BY <1>1, <1>4
  <2> QED
    BY <1>3, <2>1, FS_Subset
<1>5. ASSUME NEW i \in stay
      PROVE  \E k \in DOMAIN new : new[k] = st[i]
  <2> DEFINE k == Cardinality(upTo(i))
  <2>1. \A j \in stay : Cardinality(upTo(j)) = k => j = i
    BY <1>1, <1>4
  <2>2. Nth(stay, k) = i
    BY <2>1 DEF Nth
  <2>3. k \in 1..Cardinality(stay)
    BY <1>3
  <2> HIDE DEF k
  <2>4. new[k] = st[Nth(stay, k)]
    BY <2>3 DEF Drop
  <2> QED
    BY <1>2, <2>2, <2>3, <2>4
<1> QED
  BY <1>2, <1>5

\* Storing a checkpoint drops neither it nor a backup.
LEMMA StoredCheckpoint ==
  ASSUME NEW st, IsStash(st), NEW e, e.kind = "checkpoint"
  PROVE  LET new == Drop(<<e>> \o st, StayInStash(<<e>> \o st)) IN
         /\ IsStash(new) /\ \E k \in DOMAIN new : new[k] = e
         /\ \A i \in DOMAIN st : st[i].kind = "backup" => \E k \in DOMAIN new : new[k] = st[i]
<1> DEFINE stored == <<e>> \o st
           stay == StayInStash(stored)
<1>1. /\ IsStash(stored) /\ DOMAIN stored = 1..(Len(st) + 1) /\ stored[1] = e /\ Len(st) \in Nat
      /\ \A i \in DOMAIN st : i + 1 \in DOMAIN stored /\ stored[i + 1] = st[i]
  BY PushedStash, StashIsSeq
<1>2. stay \in SUBSET DOMAIN stored
  BY DEF StayInStash
<1>3. 1 \in stay
  <2> DEFINE ours == {j \in 1..1 : stored[j].kind = "checkpoint"}
  <2>1. ours = {1}
    BY <1>1
  <2>2. Cardinality(ours) = 1
    BY <2>1, FS_Singleton
  <2>3. Keep \in Nat /\ Keep # 0 /\ 1 <= Keep
    BY WorkBranchAssumption
  <2>4. Cardinality(ours) <= Keep
    <3> HIDE DEF ours
    <3> QED
      BY <2>2, <2>3
  <2>5. 1 \in DOMAIN stored
    <3> HIDE DEF stored
    <3> QED
      BY <1>1
  <2> QED
    BY <2>4, <2>5 DEF StayInStash
<1>4. ASSUME NEW i \in DOMAIN st, st[i].kind = "backup"
      PROVE  i + 1 \in stay
  BY <1>1, <1>4 DEF StayInStash
<1>5. /\ IsStash(Drop(stored, stay))
      /\ \A i \in stay : \E k \in DOMAIN Drop(stored, stay) : Drop(stored, stay)[k] = stored[i]
  BY <1>1, <1>2, DropKeeps
<1> HIDE DEF stored, stay
<1>6. \E k \in DOMAIN Drop(stored, stay) : Drop(stored, stay)[k] = e
  BY <1>1, <1>3, <1>5
<1>7. \A i \in DOMAIN st : st[i].kind = "backup"
        => \E k \in DOMAIN Drop(stored, stay) : Drop(stored, stay)[k] = st[i]
  BY <1>1, <1>4, <1>5
<1> QED
  BY <1>5, <1>6, <1>7 DEF stored, stay
-----------------------------------------------------------------------------
\* The branches the user has are different ones (what AgentBranchesApart assumes).
LEMMA NamesApart == Main # Own /\ Main # Detached /\ Main # None /\ Own # None /\ Detached # None
<1>1. ASSUME NEW a, NEW b, NEW c
      PROVE  Cardinality({a, b, c}) # 4
  <2>1. IsFiniteSet({a}) /\ Cardinality({a}) = 1
    BY FS_Singleton
  <2>2. IsFiniteSet({a} \cup {b}) /\ Cardinality({a} \cup {b}) \in {1, 2}
    BY <2>1, FS_AddElement
  <2>3. Cardinality(({a} \cup {b}) \cup {c}) \in {1, 2, 3}
    BY <2>2, FS_AddElement
  <2>4. {a, b, c} = ({a} \cup {b}) \cup {c}
    OBVIOUS
  <2> QED
    BY <2>3, <2>4
<1>2. Cardinality({Main, Own, Detached, None}) = 4
  BY WorkBranchAssumption
<1>3. Main # Own
  <2>1. Main = Own => {Main, Own, Detached, None} = {Own, Detached, None}
    OBVIOUS
  <2> QED
    BY <1>1, <1>2, <2>1
<1>4. Main # Detached
  <2>1. Main = Detached => {Main, Own, Detached, None} = {Own, Detached, None}
    OBVIOUS
  <2> QED
    BY <1>1, <1>2, <2>1
<1>5. Main # None
  <2>1. Main = None => {Main, Own, Detached, None} = {Own, Detached, None}
    OBVIOUS
  <2> QED
    BY <1>1, <1>2, <2>1
<1>6. Own # None
  <2>1. Own = None => {Main, Own, Detached, None} = {Main, Detached, None}
    OBVIOUS
  <2> QED
    BY <1>1, <1>2, <2>1
<1>7. Detached # None
  <2>1. Detached = None => {Main, Own, Detached, None} = {Main, Own, None}
    OBVIOUS
  <2> QED
    BY <1>1, <1>2, <2>1
<1> QED
  BY <1>3, <1>4, <1>5, <1>6, <1>7

\* The branch of a run is none of the user's.
LEMMA AgentBranchNew ==
  ASSUME NEW r \in Requests, NEW h \in Histories
  PROVE  AgentBranch(r, h) \in Branches /\ AgentBranch(r, h) \notin {Main, Own, Detached, None}
BY AgentBranchesApart DEF Branches, Histories

\* Before the first run nothing is stashed and no ledger is written.
LEMMA BranchInitInv == BranchInit => BranchInv
<1> SUFFICES ASSUME BranchInit PROVE BranchInv
  OBVIOUS
<1>1. Len(log) = 0 /\ log \in Seq(SUBSET Items) /\ MaxCommits \in Nat
  BY WorkBranchAssumption DEF BranchInit
<1>2. IsStash(stash) /\ DOMAIN stash = {}
  <2>1. stash = <<>> /\ <<>> \in Seq({}) /\ DOMAIN <<>> = {}
    BY DEF BranchInit
  <2>2. IsStash(<<>>)
    BY <2>1, SeqIsStash
  <2> QED
    BY <2>1, <2>2
<1>3. DOMAIN branches = {Main, Own, Detached} /\ branches \in [DOMAIN branches -> SUBSET Commits]
  BY DEF BranchInit
<1>4. run \in Run /\ run.at = "idle"
  BY DEF BranchInit, Idle, Run
<1>5. BranchTypeOK
  <2>1. Len(log) <= MaxCommits
    BY <1>1
  <2>2. DOMAIN branches \in SUBSET Branches
    BY <1>3 DEF Branches
  <2>3. ledger = None /\ runs = 0 /\ strayed = FALSE /\ edits = {} /\ files = {}
        /\ on \in DOMAIN branches
    BY <1>3 DEF BranchInit
  <2> QED
    BY <1>1, <1>2, <1>3, <1>4, <2>1, <2>2, <2>3 DEF BranchTypeOK
<1> QED
  BY <1>2, <1>4, <1>5 DEF BranchInit, BranchInv, CheckpointOK, SnapshotStored, BuildsOffDefault

\* The user works.
LEMMA UserKeeps ==
  ASSUME BranchInv,
         (\E x \in UserWork : UserWrites(x)) \/ \E b \in DOMAIN branches : UserSwitches(b)
  PROVE  BranchInv'
<1>1. UNCHANGED <<log, branches, stash, cp, dialog, ledger, run, runs, strayed>>
  BY DEF UserWrites, UserSwitches
<1>2. /\ edits' \in SUBSET Items /\ files' \in SUBSET Items /\ on' \in DOMAIN branches
  BY DEF UserWrites, UserSwitches, Items, BranchInv, BranchTypeOK
<1>3. on' # on => run.at = "idle"
  BY DEF UserWrites, UserSwitches, Idle
<1> QED
  BY <1>1, <1>2, <1>3
  DEF BranchInv, BranchTypeOK, CheckpointOK, SnapshotStored, BuildsOffDefault, Commits

\* The checkpoint of a run is where HEAD is, and its snapshot is stored.
LEMMA CheckpointTaken ==
  ASSUME BranchInv, CreateCheckpoint, runs' \in Nat, UNCHANGED <<log, branches>>
  PROVE  IsStash(stash)' /\ CheckpointOK(cp)' /\ SnapshotStored'
<1> DEFINE e == [kind |-> "checkpoint", holds |-> edits, of |-> runs']
<1>1. cp' = [head |-> HEAD, branch |-> on, snapshot |-> edits, takenAt |-> runs']
  BY DEF CreateCheckpoint
<1>2. HEAD \in SUBSET Commits /\ on \in DOMAIN branches /\ edits \in SUBSET Items
  BY DEF BranchInv, BranchTypeOK, HEAD
<1>3. CheckpointOK(cp)'
  BY <1>1, <1>2 DEF CheckpointOK, Commits
<1>4. CASE edits = {}
  BY <1>1, <1>3, <1>4 DEF CreateCheckpoint, BranchInv, BranchTypeOK, SnapshotStored
<1>5. CASE edits # {}
  <2>1. stash' = Drop(<<e>> \o stash, StayInStash(<<e>> \o stash))
    BY <1>5 DEF CreateCheckpoint
  <2>2. IsStash(stash') /\ \E k \in DOMAIN stash' : stash'[k] = e
    <3>1. IsStash(stash) /\ e.kind = "checkpoint"
      BY DEF BranchInv, BranchTypeOK
    <3> HIDE DEF e
    <3> QED
      BY <2>1, <3>1, StoredCheckpoint
  <2>3. SnapshotStored'
    BY <1>1, <2>2 DEF SnapshotStored
  <2> QED
    BY <1>3, <2>2, <2>3
<1> QED
  BY <1>4, <1>5

\* A run begins: it takes a checkpoint, and a plan of its own replaces the ledger.
LEMMA BeginKeeps ==
  ASSUME BranchInv, NEW resuming \in BOOLEAN, NEW request \in Requests, Begin(resuming, request)
  PROVE  BranchInv'
<1>1. /\ run = Idle /\ runs' = runs + 1 /\ runs' \in Nat /\ CreateCheckpoint
      /\ UNCHANGED <<log, branches, on, edits, files, dialog, strayed>>
  BY DEF Begin, BranchInv, BranchTypeOK
<1>2. IsStash(stash)' /\ CheckpointOK(cp)' /\ SnapshotStored'
  BY <1>1, CheckpointTaken
<1>3. CheckpointOK(dialog)'
  BY <1>1 DEF BranchInv, CheckpointOK, Commits
<1>4. /\ run' \in Run /\ (run'.at # "idle" => run'.request \in Requests) /\ run'.at # "building"
      /\ ledger' \in Ledger \cup {None}
  <2>1. Idle \in Run /\ Idle.at = "idle" /\ ledger \in Ledger \cup {None}
    BY DEF Idle, Run, BranchInv, BranchTypeOK
  <2>2. ASSUME run' = [Idle EXCEPT !.at = "ready", !.resuming = TRUE, !.request = request]
        PROVE  run' \in Run /\ run'.at = "ready" /\ run'.request = request
    BY <2>1, <2>2 DEF Run
  <2>3. ASSUME run' = [Idle EXCEPT !.at = "planning", !.request = request]
        PROVE  run' \in Run /\ run'.at = "planning" /\ run'.request = request
    BY <2>1, <2>3 DEF Run
  <2>4. \/ run' = run
        \/ run' = [Idle EXCEPT !.at = "ready", !.resuming = TRUE, !.request = request]
        \/ run' = [Idle EXCEPT !.at = "planning", !.request = request]
    BY DEF Begin
  <2>5. ledger' \in {ledger, None}
    BY DEF Begin
  <2> QED
    BY <1>1, <2>1, <2>2, <2>3, <2>4, <2>5
<1>5. BranchTypeOK'
  BY <1>1, <1>2, <1>4 DEF BranchInv, BranchTypeOK, Commits
<1> QED
  BY <1>2, <1>3, <1>4, <1>5 DEF BranchInv, BuildsOffDefault

\* The plan is written, a run ends, a dialog opens or is declined.
LEMMA SmallStepsKeep ==
  ASSUME BranchInv, PlanWritten \/ Passed \/ Stops \/ OpenRevert \/ DeclineRevert
  PROVE  BranchInv'
<1>1. UNCHANGED <<log, branches, on, edits, files, stash, cp, runs, strayed>>
  BY DEF PlanWritten, Passed, Stops, OpenRevert, DeclineRevert, repo
<1>2. CheckpointOK(dialog)' /\ CheckpointOK(cp)' /\ SnapshotStored'
  <2>1. dialog' \in {dialog, cp, None}
    BY DEF PlanWritten, Passed, Stops, OpenRevert, DeclineRevert
  <2> QED
    BY <1>1, <2>1 DEF BranchInv, CheckpointOK, SnapshotStored, Commits
<1>3. /\ run' \in Run /\ (run'.at # "idle" => run'.request \in Requests)
      /\ run'.at = "building" => run' = run /\ ledger' = ledger
  <2>1. Idle \in Run /\ Idle.at = "idle" /\ run \in Run
    BY DEF Idle, Run, BranchInv, BranchTypeOK
  <2>2. CASE PlanWritten
    <3>1. run' = [at |-> "ready", resuming |-> run.resuming, request |-> run.request,
                  committed |-> run.committed]
      BY <2>1, <2>2 DEF PlanWritten, Run
    <3> QED
      BY <2>1, <2>2, <3>1 DEF PlanWritten, Run, BranchInv, BranchTypeOK
  <2>3. CASE ~PlanWritten
    BY <2>1, <2>3 DEF Passed, Stops, OpenRevert, DeclineRevert, BranchInv, BranchTypeOK
  <2> QED
    BY <2>2, <2>3
<1>4. ledger' \in Ledger \cup {None}
  <2>1. CASE Passed
    <3>1. /\ ledger \in Ledger
          /\ ledger' = [ledger EXCEPT !.rows = [p \in Phases |-> [@[p] EXCEPT !.done = TRUE]]]
      BY <2>1 DEF Passed, BranchInv, BranchTypeOK
    <3> DEFINE rows == [p \in Phases |-> [ledger.rows[p] EXCEPT !.done = TRUE]]
    <3>2. ledger' = [based |-> ledger.based, branch |-> ledger.branch, rows |-> rows]
      BY <3>1 DEF Ledger
    <3>3. \A p \in Phases : ledger.rows[p] \in [done : BOOLEAN, sha : Nat]
      BY <3>1 DEF Ledger
    <3>4. rows \in [Phases -> [done : BOOLEAN, sha : Nat]]
      BY <3>3
    <3> QED
      BY <3>1, <3>2, <3>4 DEF Ledger
  <2>2. CASE ~Passed
    BY <2>2 DEF PlanWritten, Stops, OpenRevert, DeclineRevert, BranchInv, BranchTypeOK
  <2> QED
    BY <2>1, <2>2
<1>5. BranchTypeOK'
  BY <1>1, <1>3, <1>4 DEF BranchInv, BranchTypeOK, Commits
<1> QED
  BY <1>1, <1>2, <1>3, <1>5 DEF BranchInv, BuildsOffDefault
-----------------------------------------------------------------------------
\* The implement phase is on the branch it is told, which is not the default one.
LEMMA BranchChosen ==
  ASSUME BranchInv, NEW request \in Requests, NEW wb, EnsureWorkBranch(request, wb)
  PROVE  /\ wb \in Branches \cup {None} /\ on' \in DOMAIN branches'
         /\ DOMAIN branches \subseteq DOMAIN branches' /\ DOMAIN branches' \subseteq Branches
         /\ branches' \in [DOMAIN branches' -> SUBSET Commits]
         /\ wb # None => on' # Main
<1> DEFINE new == AgentBranch(request, branches[CutFrom])
<1>1. /\ on \in DOMAIN branches /\ {Main, Own, Detached} \subseteq DOMAIN branches
      /\ DOMAIN branches \subseteq Branches /\ branches \in [DOMAIN branches -> SUBSET Commits]
  BY DEF BranchInv, BranchTypeOK
<1>2. \/ CutFrom = None /\ on # Main
      \/ CutFrom # None /\ CutFrom \in DOMAIN branches
  <2>1. CASE IsAgentBranch(on)
    BY <1>1, <2>1, NamesApart DEF CutFrom, IsAgentBranch
  <2>2. CASE on = Own
    BY <1>1, <2>2, NamesApart DEF CutFrom, IsAgentBranch
  <2>3. CASE on \in {Main, Detached}
    BY <1>1, <2>3, NamesApart DEF CutFrom, IsAgentBranch
  <2> QED
    BY <2>1, <2>2, <2>3 DEF IsAgentBranch
<1>3. CASE CutFrom = None
  BY <1>1, <1>2, <1>3 DEF EnsureWorkBranch
<1>4. CASE CutFrom # None
  <2>1. CutFrom \in DOMAIN branches
    BY <1>2, <1>4
  <2>2. branches[CutFrom] \in Histories
    <3>1. branches[CutFrom] \in SUBSET (1..Len(log)) /\ Len(log) \in Nat /\ Len(log) <= MaxCommits
      BY <1>1, <2>1 DEF Commits, BranchInv, BranchTypeOK
    <3> QED
      BY <3>1, WorkBranchAssumption DEF Histories
  <2>3. new \in Branches /\ new \notin {Main, Own, Detached, None}
    BY <2>2, AgentBranchNew
  <2>4. \/ /\ wb = new /\ on' = new
           /\ branches' = [b \in DOMAIN branches \cup {new} |->
                             IF b = new THEN branches[CutFrom] ELSE branches[b]]
        \/ /\ wb = new /\ on' = new /\ new \in DOMAIN branches /\ branches' = branches
        \/ /\ wb = None /\ on' = CutFrom /\ branches' = branches
    BY <1>4 DEF EnsureWorkBranch
  <2> HIDE DEF new
  <2>5. CASE branches' = [b \in DOMAIN branches \cup {new} |->
                            IF b = new THEN branches[CutFrom] ELSE branches[b]]
    BY <1>1, <2>1, <2>3, <2>4, <2>5
  <2>6. CASE branches' = branches
    BY <1>1, <2>1, <2>3, <2>4, <2>6
  <2> QED
    BY <2>4, <2>5, <2>6
<1> QED
  BY <1>3, <1>4

\* What is done to a ledger that is taken up leaves one.
LEMMA LedgerKept ==
  ASSUME ledger \in Ledger, NEW wb \in Branches \cup {None}, ReconcileLedgerBranch(wb)
  PROVE  ledger' \in Ledger
<1>1. Reopened \in [Phases -> [done : BOOLEAN, sha : Nat]]
  BY DEF Reopened
<1>2. CASE UNCHANGED ledger
  BY <1>2
<1>3. CASE wb # None /\ ledger' = [ledger EXCEPT !.branch = wb]
  BY <1>3 DEF Ledger
<1>4. CASE wb # None /\ ledger' = [ledger EXCEPT !.branch = wb, !.rows = Reopened]
  BY <1>1, <1>4 DEF Ledger
<1> QED
  BY <1>2, <1>3, <1>4 DEF ReconcileLedgerBranch

\* The implement phase starts: the branch is chosen, then the ledger is brought in line.
LEMMA StartImplementKeeps ==
  ASSUME BranchInv, StartImplement
  PROVE  BranchInv'
<1>1. PICK wb : /\ EnsureWorkBranch(run.request, wb)
                /\ IF run.resuming /\ ledger # None THEN ReconcileLedgerBranch(wb)
                                                     ELSE InitProgressLedger(wb)
  BY DEF StartImplement
<1>2. /\ run.at = "ready" /\ run' = [run EXCEPT !.at = "building"] /\ run \in Run
      /\ run.request \in Requests
      /\ strayed' = FALSE
      /\ UNCHANGED <<log, edits, files, stash, cp, dialog, runs>>
  BY DEF StartImplement, BranchInv, BranchTypeOK
<1>3. /\ wb \in Branches \cup {None} /\ on' \in DOMAIN branches'
      /\ DOMAIN branches \subseteq DOMAIN branches' /\ DOMAIN branches' \subseteq Branches
      /\ branches' \in [DOMAIN branches' -> SUBSET Commits]
      /\ wb # None => on' # Main
  BY <1>1, <1>2, BranchChosen
<1>4. run' \in Run /\ run'.request = run.request /\ run'.resuming = run.resuming
  BY <1>2 DEF Run
<1>5. ledger' \in Ledger /\ (~run.resuming => ledger'.based = (wb # None))
  <2>1. CASE run.resuming /\ ledger # None
    BY <1>1, <1>3, <2>1, LedgerKept DEF BranchInv, BranchTypeOK
  <2>2. CASE ~(run.resuming /\ ledger # None)
    <3>1. ledger' = [based |-> wb # None, branch |-> wb,
                     rows |-> [p \in Phases |-> [done |-> FALSE, sha |-> 0]]]
      BY <1>1, <2>2 DEF InitProgressLedger
    <3>2. [p \in Phases |-> [done |-> FALSE, sha |-> 0]] \in [Phases -> [done : BOOLEAN, sha : Nat]]
      OBVIOUS
    <3> QED
      BY <1>3, <3>1, <3>2 DEF Ledger
  <2> QED
    BY <2>1, <2>2
<1>6. BranchTypeOK'
  BY <1>2, <1>3, <1>4, <1>5 DEF BranchInv, BranchTypeOK, Commits
<1>7. CheckpointOK(cp)' /\ CheckpointOK(dialog)' /\ SnapshotStored'
  <2>1. /\ cp # None => cp.branch \in DOMAIN branches' 
        /\ dialog # None => dialog.branch \in DOMAIN branches'
    BY <1>3 DEF BranchInv, CheckpointOK
  <2>2. \A c : CheckpointOK(c) /\ UNCHANGED log => CheckpointOK(c)'
    BY <1>3 DEF CheckpointOK, Commits
  <2> QED
    BY <1>2, <1>3 DEF BranchInv, CheckpointOK, SnapshotStored, Commits
<1>8. BuildsOffDefault'
  BY <1>3, <1>4, <1>5 DEF BuildsOffDefault
<1> QED
  BY <1>6, <1>7, <1>8 DEF BranchInv

\* A phase is committed where HEAD is; the commit is new.
LEMMA CommitKeeps ==
  ASSUME BranchInv, NEW p \in Phases, CommitPhase(p)
  PROVE  BranchInv'
<1>1. /\ log \in Seq(SUBSET Items) /\ Len(log) \in Nat /\ Len(log) < MaxCommits
      /\ log' = Append(log, {p} \cup edits \cup files) /\ {p} \cup edits \cup files \in SUBSET Items
      /\ branches' = [branches EXCEPT ![on] = @ \cup {Len(log) + 1}]
      /\ edits' = {} /\ files' = {} /\ run' = [run EXCEPT !.committed = Len(log) + 1]
      /\ UNCHANGED <<on, stash, cp, dialog, ledger, runs, strayed>>
  BY DEF CommitPhase, BranchInv, BranchTypeOK, Items
<1>2. log' \in Seq(SUBSET Items) /\ Len(log') = Len(log) + 1 /\ Len(log') <= MaxCommits
  BY <1>1, WorkBranchAssumption
<1>3. Commits \subseteq Commits' /\ Len(log) + 1 \in Commits'
  BY <1>1, <1>2 DEF Commits
<1>4. DOMAIN branches' = DOMAIN branches /\ branches' \in [DOMAIN branches' -> SUBSET Commits']
  <2>1. branches \in [DOMAIN branches -> SUBSET Commits] /\ on \in DOMAIN branches
    BY DEF BranchInv, BranchTypeOK
  <2> QED
    BY <1>1, <1>3, <2>1
<1>5. /\ run' \in Run /\ run'.at = run.at /\ run'.request = run.request
      /\ run'.resuming = run.resuming
  BY <1>1 DEF Run, BranchInv, BranchTypeOK
<1>6. BranchTypeOK'
  BY <1>1, <1>2, <1>4, <1>5 DEF BranchInv, BranchTypeOK
<1>7. CheckpointOK(cp)' /\ CheckpointOK(dialog)'
  BY <1>1, <1>3, <1>4 DEF BranchInv, CheckpointOK
<1> QED
  BY <1>1, <1>5, <1>6, <1>7 DEF BranchInv, SnapshotStored, BuildsOffDefault

\* A row of the ledger is marked with the commit that did it.
LEMMA MarkKeeps ==
  ASSUME BranchInv, NEW p \in Phases, MarkPhase(p)
  PROVE  BranchInv'
<1>1. /\ ledger \in Ledger /\ run \in Run
      /\ ledger' = [ledger EXCEPT !.rows[p] = [done |-> TRUE, sha |-> run.committed]]
      /\ run' = [run EXCEPT !.committed = 0]
      /\ edits' \in SUBSET Items
      /\ UNCHANGED <<log, branches, on, files, stash, cp, dialog, runs, strayed>>
  BY DEF MarkPhase, BranchInv, BranchTypeOK, Items
<1>2. /\ run' \in Run /\ run'.at = run.at /\ run'.request = run.request
      /\ run'.resuming = run.resuming /\ run.committed \in Nat
  BY <1>1 DEF Run
<1>3. ledger' \in Ledger /\ ledger'.based = ledger.based /\ ledger # None
  <2>1. [ledger.rows EXCEPT ![p] = [done |-> TRUE, sha |-> run.committed]]
          \in [Phases -> [done : BOOLEAN, sha : Nat]]
    BY <1>1, <1>2 DEF Ledger
  <2>2. ledger' = [ledger EXCEPT !.rows = [ledger.rows EXCEPT ![p] =
                                              [done |-> TRUE, sha |-> run.committed]]]
    BY <1>1
  <2>3. ledger # None
    BY DEF MarkPhase
  <2> QED
    BY <1>1, <2>1, <2>2, <2>3 DEF Ledger
<1>4. BranchTypeOK'
  BY <1>1, <1>2, <1>3 DEF BranchInv, BranchTypeOK, Commits
<1> QED
  BY <1>1, <1>2, <1>3, <1>4
  DEF BranchInv, SnapshotStored, BuildsOffDefault, CheckpointOK, Commits

\* /revert keeps what it overwrites.
LEMMA BackupKeeps ==
  ASSUME BranchInv
  PROVE  /\ IsStash(Backup)
         /\ \A i \in DOMAIN stash : \E j \in DOMAIN Backup : Backup[j] = stash[i]
         /\ edits # {} => \E j \in DOMAIN Backup :
                            Backup[j].kind = "backup" /\ Backup[j].holds = edits
<1> DEFINE e == [kind |-> "backup", holds |-> edits, of |-> runs]
<1>1. IsStash(stash) /\ e.kind = "backup" /\ e.holds = edits
  BY DEF BranchInv, BranchTypeOK
<1>2. /\ IsStash(<<e>> \o stash) /\ DOMAIN (<<e>> \o stash) = 1..(Len(stash) + 1)
      /\ (<<e>> \o stash)[1] = e /\ Len(stash) \in Nat
      /\ \A i \in DOMAIN stash : /\ i + 1 \in DOMAIN (<<e>> \o stash)
                                 /\ (<<e>> \o stash)[i + 1] = stash[i]
  <2> HIDE DEF e
  <2> QED
    BY <1>1, PushedStash, StashIsSeq
<1>3. CASE edits = {}
  BY <1>1, <1>3 DEF Backup
<1>4. CASE edits # {}
  <2>1. Backup = <<e>> \o stash
    BY <1>4 DEF Backup
  <2> HIDE DEF e
  <2>2. 1 \in DOMAIN Backup
    BY <1>2, <2>1
  <2> QED
    BY <1>1, <1>2, <2>1, <2>2
<1> QED
  BY <1>3, <1>4

\* /revert keeps what it overwrites, and goes where the checkpoint was.
LEMMA RevertKeeps ==
  ASSUME BranchInv, Revert
  PROVE  BranchInv'
<1>1. /\ dialog # None /\ dialog' = None /\ stash' = Backup /\ strayed' = TRUE
      /\ on' = IF dialog.branch = Detached THEN on ELSE dialog.branch
      /\ branches' = [branches EXCEPT ![on'] = dialog.head]
      /\ edits' = dialog.snapshot
      /\ UNCHANGED <<log, files, cp, ledger, run, runs>>
  BY DEF Revert, RevertCommands
<1>2. /\ dialog.head \in SUBSET Commits /\ dialog.branch \in DOMAIN branches
      /\ dialog.snapshot \in SUBSET Items
  BY <1>1 DEF BranchInv, CheckpointOK
<1>3. /\ on' \in DOMAIN branches /\ DOMAIN branches' = DOMAIN branches
      /\ branches' \in [DOMAIN branches' -> SUBSET Commits]
  BY <1>1, <1>2 DEF BranchInv, BranchTypeOK
<1>4. BranchTypeOK'
  BY <1>1, <1>2, <1>3, BackupKeeps DEF BranchInv, BranchTypeOK, Commits
<1>5. SnapshotStored'
  BY <1>1, BackupKeeps DEF BranchInv, SnapshotStored
<1> QED
  BY <1>1, <1>3, <1>4, <1>5 DEF BranchInv, BuildsOffDefault, CheckpointOK, Commits

\* One step of any kind keeps the invariant.
LEMMA BranchStepInv == BranchInv /\ [BranchNext]_branchVars => BranchInv'
<1> SUFFICES ASSUME BranchInv, [BranchNext]_branchVars PROVE BranchInv'
  OBVIOUS
<1>1. CASE BranchNext
  BY <1>1, UserKeeps, BeginKeeps, SmallStepsKeep, StartImplementKeeps, CommitKeeps, MarkKeeps,
     RevertKeeps DEF BranchNext
<1>2. CASE UNCHANGED branchVars
  BY <1>2 DEF branchVars, repo, BranchInv, BranchTypeOK, CheckpointOK, SnapshotStored,
              BuildsOffDefault, Commits
<1> QED
  BY <1>1, <1>2
-----------------------------------------------------------------------------
\* So it holds always.
LEMMA BranchInvHolds == BranchSpec => []BranchInv
BY BranchInitInv, BranchStepInv, PTL DEF BranchSpec

\* No step but /revert takes a commit off a branch, or changes one.
LEMMA BranchesGrow ==
  ASSUME BranchInv, [BranchNext]_branchVars, ~Revert
  PROVE  OnSomeBranch \subseteq OnSomeBranch'
<1>1. /\ log \in Seq(SUBSET Items) /\ on \in DOMAIN branches
      /\ branches \in [DOMAIN branches -> SUBSET Commits]
  BY DEF BranchInv, BranchTypeOK
<1> DEFINE Grown ==
      /\ DOMAIN branches \subseteq DOMAIN branches'
      /\ \A b \in DOMAIN branches : branches[b] \subseteq branches'[b]
      /\ \A c \in Commits : log'[c] = log[c]
<1>2. Grown
  <2>1. CASE UNCHANGED <<log, branches>>
    BY <2>1
  <2>2. CASE StartImplement
    <3>1. PICK wb : EnsureWorkBranch(run.request, wb)
      BY <2>2 DEF StartImplement
    <3>2. log' = log
      BY <2>2 DEF StartImplement
    <3> DEFINE new == AgentBranch(run.request, branches[CutFrom])
    <3>3. \/ branches' = branches
          \/ /\ new \notin DOMAIN branches
             /\ branches' = [b \in DOMAIN branches \cup {new} |->
                               IF b = new THEN branches[CutFrom] ELSE branches[b]]
      BY <3>1 DEF EnsureWorkBranch
    <3> HIDE DEF new
    <3> QED
      BY <3>2, <3>3
  <2>3. ASSUME NEW p \in Phases, CommitPhase(p)
        PROVE  Grown
    BY <1>1, <2>3 DEF CommitPhase, Commits
  <2>4. ASSUME ~UNCHANGED <<log, branches>>
        PROVE  StartImplement \/ \E p \in Phases : CommitPhase(p)
    BY <2>4 DEF BranchNext, UserWrites, UserSwitches, Begin, PlanWritten, MarkPhase, Passed, Stops,
                OpenRevert, DeclineRevert, branchVars, repo
  <2> QED
    BY <2>1, <2>2, <2>3, <2>4
<1> SUFFICES ASSUME NEW b \in DOMAIN branches, NEW c \in branches[b], NEW y \in log[c]
             PROVE  y \in OnSomeBranch'
  BY DEF OnSomeBranch, Held
<1>3. b \in DOMAIN branches' /\ c \in branches'[b] /\ y \in log'[c]
  BY <1>1, <1>2
<1> QED
  BY <1>3 DEF OnSomeBranch, Held

\* A step keeps the user's work, but for what /revert undoes.
LEMMA StepKeepsWork ==
  ASSUME BranchInv, [BranchNext]_branchVars, NEW x \in UserWork \cap Safe
  PROVE  \/ x \in Safe'
         \/ /\ Revert /\ x \in Held(branches[on'] \ dialog.head)
            /\ x \notin edits \cup files \cup BackedUp
<1>1. ASSUME \A i \in DOMAIN stash : stash[i].kind = "backup" =>
                \E j \in DOMAIN stash' : stash'[j] = stash[i]
      PROVE  BackedUp \subseteq BackedUp'
  <2> SUFFICES ASSUME NEW i \in DOMAIN stash, stash[i].kind = "backup", NEW y \in stash[i].holds
               PROVE  y \in BackedUp'
    BY DEF BackedUp
  <2>1. PICK j \in DOMAIN stash' : stash'[j] = stash[i]
    BY <1>1
  <2> QED
    BY <2>1 DEF BackedUp
<1>2. ASSUME edits \subseteq edits', files \subseteq files', UNCHANGED stash, ~Revert
      PROVE  x \in Safe'
  BY <1>2, BranchesGrow DEF Safe, BackedUp
<1>3. ASSUME NEW resuming \in BOOLEAN, NEW request \in Requests, Begin(resuming, request)
      PROVE  x \in Safe'
  <2> DEFINE e == [kind |-> "checkpoint", holds |-> edits, of |-> runs']
  <2>1. edits' = edits /\ files' = files /\ UNCHANGED <<log, branches>> /\ IsStash(stash)
        /\ e.kind = "checkpoint"
    BY <1>3 DEF Begin, BranchInv, BranchTypeOK
  <2>2. stash' = IF edits = {} THEN stash ELSE Drop(<<e>> \o stash, StayInStash(<<e>> \o stash))
    BY <1>3 DEF Begin, CreateCheckpoint
  <2> HIDE DEF e
  <2>3. BackedUp \subseteq BackedUp'
    BY <1>1, <2>1, <2>2, StoredCheckpoint
  <2> QED
    BY <2>1, <2>3 DEF Safe, OnSomeBranch, Held
<1>4. ASSUME NEW p \in Phases, CommitPhase(p)
      PROVE  x \in Safe'
  <2>1. /\ log \in Seq(SUBSET Items) /\ on \in DOMAIN branches
        /\ log' = Append(log, {p} \cup edits \cup files)
        /\ branches' = [branches EXCEPT ![on] = @ \cup {Len(log) + 1}]
        /\ on' = on /\ stash' = stash
    BY <1>4 DEF CommitPhase, BranchInv, BranchTypeOK
  <2>2. log'[Len(log) + 1] = {p} \cup edits \cup files
    BY <2>1
  <2>3. edits \cup files \subseteq Held(branches[on])'
    <3>1. Len(log) + 1 \in branches'[on']
      BY <2>1
    <3>2. Held(branches[on])' = UNION {log'[c] : c \in branches'[on']}
      BY DEF Held
    <3>3. edits \cup files \subseteq log'[Len(log) + 1]
      BY <2>2
    <3> HIDE DEF Commits
    <3> QED
      BY <3>1, <3>2, <3>3, Zenon
  <2>4. Held(branches[on])' \subseteq OnSomeBranch'
    <3>1. on \in DOMAIN branches' /\ on' = on
      BY <2>1
    <3> QED
      BY <3>1 DEF OnSomeBranch
  <2>5. OnSomeBranch \subseteq OnSomeBranch'
    <3>1. ~Revert
      BY <1>4 DEF CommitPhase, Revert, BranchInv, BranchTypeOK
    <3> QED
      BY <3>1, BranchesGrow
  <2> QED
    BY <2>1, <2>3, <2>4, <2>5 DEF Safe, BackedUp
<1>5. CASE Revert
  <2>1. /\ stash' = Backup /\ dialog \notin {None} /\ files' = files /\ log' = log
        /\ branches' = [branches EXCEPT ![on'] = dialog.head]
    BY <1>5 DEF Revert, RevertCommands
  <2>2. BackedUp \subseteq BackedUp'
    BY <1>1, <2>1, BackupKeeps
  <2>3. edits \subseteq BackedUp'
    BY <2>1, BackupKeeps DEF BackedUp
  <2>4. CASE x \in edits \cup files \cup BackedUp
    BY <2>1, <2>2, <2>3, <2>4 DEF Safe
  <2>5. CASE x \notin edits \cup files \cup BackedUp
    <3>1. PICK b \in DOMAIN branches : \E c \in branches[b] : x \in log[c]
      BY <2>5 DEF Safe, OnSomeBranch, Held
    <3> PICK c \in branches[b] : x \in log[c]
      BY <3>1
    <3>2. DOMAIN branches' = DOMAIN branches
      BY <2>1
    <3>3. CASE c \in branches'[b]
      BY <2>1, <3>1, <3>2, <3>3 DEF Safe, OnSomeBranch, Held
    <3>4. CASE c \notin branches'[b]
      <4>1. b = on' /\ branches'[b] = dialog.head
        BY <2>1, <3>1, <3>4
      <4> QED
        BY <1>5, <2>5, <3>1, <3>4, <4>1 DEF Held
    <3> QED
      BY <3>3, <3>4
  <2> QED
    BY <2>4, <2>5
<1>6. CASE ~Revert /\ ~(edits \subseteq edits' /\ files \subseteq files' /\ UNCHANGED stash)
  <2>1. \/ \E resuming \in BOOLEAN, request \in Requests : Begin(resuming, request)
        \/ \E p \in Phases : CommitPhase(p)
    BY <1>6 DEF BranchNext, UserWrites, UserSwitches, PlanWritten, StartImplement, MarkPhase,
                Passed, Stops, OpenRevert, DeclineRevert, branchVars, repo
  <2> QED
    BY <1>3, <1>4, <2>1
<1> QED
  BY <1>2, <1>5, <1>6

\* A phase that is committed on the default branch is one the user moved there, or one of a
\* resumed run.
LEMMA StepCommitsOffDefault ==
  ASSUME BranchInv, NEW p \in Phases, CommitPhase(p)
  PROVE  on # Main \/ strayed \/ run.resuming
BY DEF BranchInv, BuildsOffDefault, CommitPhase

\* /revert moves no branch but the one it goes back to.
LEMMA StepOthersKept ==
  ASSUME Revert, dialog.branch # Detached, NEW b \in DOMAIN branches \ {dialog.branch}
  PROVE  branches'[b] = branches[b]
BY DEF Revert, RevertCommands

(***************************************************************************)
(* However runs, the user's own work, checkpoints and /revert follow each  *)
(* other: what the user wrote, wherever it has got to, is in the working   *)
(* tree, on a branch or in a backup, unless a commit that /revert undoes   *)
(* was all that held it; the last checkpoint's snapshot is there to go     *)
(* back to; no phase of a run is committed on the default branch; and      *)
(* /revert touches no other branch.                                        *)
(***************************************************************************)
THEOREM WorkIsSafe == BranchSpec => WorkSafe
<1>1. BranchInv /\ [BranchNext]_branchVars =>
        [\A x \in UserWork \cap Safe :
           \/ x \in Safe'
           \/ /\ Revert /\ x \in Held(branches[on'] \ dialog.head)
              /\ x \notin edits \cup files \cup BackedUp]_branchVars
  BY StepKeepsWork
<1>2. BranchInv /\ [BranchNext]_branchVars =>
        [\A p \in Phases : CommitPhase(p) => on # Main \/ strayed \/ run.resuming]_branchVars
  BY StepCommitsOffDefault
<1>3. [BranchNext]_branchVars =>
        [Revert /\ dialog.branch # Detached =>
           \A b \in DOMAIN branches \ {dialog.branch} : branches'[b] = branches[b]]_branchVars
  BY StepOthersKept
<1>4. BranchSpec => UserWorkKept
  BY <1>1, BranchInvHolds, PTL DEF BranchSpec, UserWorkKept
<1>5. BranchSpec => WorkLeavesDefaultBranch
  BY <1>2, BranchInvHolds, PTL DEF BranchSpec, WorkLeavesDefaultBranch
<1>6. BranchSpec => OtherBranchesKept
  BY <1>3, PTL DEF BranchSpec, OtherBranchesKept
<1>7. BranchSpec => []SnapshotStored
  <2>1. BranchInv => SnapshotStored
    BY DEF BranchInv
  <2> QED
    BY <2>1, BranchInvHolds, PTL
<1> QED
  BY <1>4, <1>5, <1>6, <1>7 DEF WorkSafe

-----------------------------------------------------------------------------
\* The catalog and its configuration.

Origins == Dirs \cup {"repo", "shell", "none"}
SessionFile == [dir : Dirs \cup {"top", "none"}, kind : {"pi", "history", "agent"}, old : BOOLEAN]

CatalogProcess == [at : {"gone", "loaded", "open", "run", "dispatch"}, cwd : Dirs \cup {"none"},
            env : [Keys -> Origins], worker : Origins, def : {"none", "file", "config"},
            override : BOOLEAN, listed : BOOLEAN, named : BOOLEAN]

CatalogTypeOK ==
  /\ shell \subseteq Keys /\ dotenv \in [EnvFiles -> SUBSET Keys]
  /\ proc \in [Procs -> CatalogProcess]
  /\ sessions \subseteq SessionFile

\* What an environment is trusted with, and the workflow model it had at the load is still set.
Trusted(env) ==
  \A k \in Keys : (k \in shell => env[k] = "shell") /\ (env[k] \in Dirs => k \in Allowed)

ProcOK(p) ==
  /\ p.at # "gone" => p.cwd \in Dirs /\ Trusted(p.env) /\ (p.worker # "none" => p.env["workflow"] # "none")
  /\ p.named => p.at = "run" /\ Unpinned(p)

CatalogInv == CatalogTypeOK /\ \A p \in Procs : ProcOK(proc[p])

-----------------------------------------------------------------------------
\* A process that is gone has the types.
LEMMA NoProcIs ==
  /\ NoProc.at = "gone" /\ ~NoProc.named
  /\ NoProc \in CatalogProcess
BY DEF NoProc, Origins, CatalogProcess

\* Before the first process nothing is loaded.
LEMMA CatalogInvInit == CatalogInit => CatalogInv
<1> SUFFICES ASSUME CatalogInit PROVE CatalogInv
  OBVIOUS
<1>1. CatalogTypeOK
  BY NoProcIs DEF CatalogInit, CatalogTypeOK, SessionFile, Keys
<1>2. \A p \in Procs : proc[p].at = "gone" /\ ~proc[p].named
  BY NoProcIs DEF CatalogInit
<1> QED
  BY <1>1, <1>2 DEF CatalogInv, ProcOK

\* Loading a .env file keeps an environment trusted, and unsets nothing.
LEMMA LoadIsTrusted ==
  ASSUME CatalogTypeOK, NEW env \in [Keys -> Origins], Trusted(env), NEW dir \in Dirs
  PROVE  /\ LoadDotEnv(env, dir) \in [Keys -> Origins] /\ Trusted(LoadDotEnv(env, dir))
         /\ env["workflow"] # "none" => LoadDotEnv(env, dir)["workflow"] # "none"
<1> DEFINE new == LoadDotEnv(env, dir)
<1>1. "none" \notin Dirs /\ "repo" \notin Dirs /\ "shell" \notin Dirs
  BY CatalogAssumption
<1>2. \A k \in Keys : new[k] = IF k \in (dotenv[dir] \cap Allowed) \ Exported(env) THEN dir
                               ELSE IF env[k] = "none" /\ k \in dotenv["repo"] THEN "repo" ELSE env[k]
  BY DEF LoadDotEnv, Global
<1>3. new \in [Keys -> Origins]
  BY <1>2 DEF LoadDotEnv, Global, Origins
<1>4. ASSUME NEW k \in Keys PROVE (k \in shell => new[k] = "shell") /\ (new[k] \in Dirs => k \in Allowed)
  BY <1>1, <1>2 DEF Trusted, Exported
<1>5. env["workflow"] # "none" => new["workflow"] # "none"
  BY <1>1, <1>2 DEF Keys, Exported
<1> HIDE DEF new
<1> QED
  BY <1>3, <1>4, <1>5 DEF Trusted, new

\* An agent is defined by a file, by the configuration or not at all.
LEMMA DefinitionIs ==
  ASSUME NEW env, NEW dir
  PROVE  Definition(env, dir) \in {"none", "file", "config"}
BY DEF Definition

\* A step of one process that does not touch the files' variables.
LEMMA ProcSteps ==
  ASSUME CatalogInv, NEW p \in Procs,
         NEW r \in CatalogProcess,
         Put(p, r), ProcOK(r), FilesStay, sessions' \subseteq SessionFile
  PROVE  CatalogInv'
<1>1. \A q \in Procs : proc'[q] = IF q = p THEN r ELSE proc[q]
  BY DEF CatalogInv, CatalogTypeOK, Put
<1>2. CatalogTypeOK'
  BY DEF CatalogInv, CatalogTypeOK, Put, FilesStay
<1>3. \A q \in Procs : ProcOK(proc'[q])
  BY <1>1 DEF CatalogInv
<1>4. UNCHANGED shell
  BY DEF FilesStay
<1>5. \A q \in Procs : ProcOK(proc[q])'
  BY <1>3, <1>4 DEF ProcOK, Trusted, Unpinned
<1> QED
  BY <1>2, <1>5 DEF CatalogInv

\* A process starts and loads its .env files.
LEMMA LoadKeeps ==
  ASSUME CatalogInv, NEW p \in Procs, NEW dir \in Dirs, Load(p, dir)
  PROVE  CatalogInv'
<1> DEFINE given == IF p = "child" THEN proc["session"].env
                    ELSE [k \in Keys |-> IF k \in shell THEN "shell" ELSE "none"]
           env == LoadDotEnv(given, dir)
           r == [NoProc EXCEPT !.at = "loaded", !.cwd = dir, !.env = env, !.worker = env["workflow"]]
<1>1. given \in [Keys -> Origins] /\ Trusted(given)
  <2>1. CASE p = "child"
    <3>1. proc["session"].at = "run" /\ given = proc["session"].env
      BY <2>1 DEF Load
    <3> QED
      BY <3>1 DEF CatalogInv, CatalogTypeOK, ProcOK, Procs, CatalogProcess
  <2>2. CASE p # "child"
    <3>1. given = [k \in Keys |-> IF k \in shell THEN "shell" ELSE "none"]
      BY <2>2
    <3> QED
      BY <3>1, CatalogAssumption DEF Trusted, Origins
  <2> QED
    BY <2>1, <2>2
<1> HIDE DEF given
<1>2. env \in [Keys -> Origins] /\ Trusted(env)
  BY <1>1, LoadIsTrusted DEF CatalogInv
<1>3. Put(p, r) /\ FilesStay /\ UNCHANGED sessions
  BY DEF Load, given
<1> HIDE DEF env
<1>4. env["workflow"] \in Origins
  BY <1>2 DEF Keys
<1>5. r \in CatalogProcess
  BY <1>2, <1>4, NoProcIs DEF CatalogProcess
<1>6. ProcOK(r)
  BY <1>2 DEF ProcOK, NoProc
<1> HIDE DEF r
<1> QED
  BY <1>3, <1>5, <1>6, ProcSteps DEF CatalogInv, CatalogTypeOK

\* A session starts in a directory, and its .env file is loaded on top.
LEMMA SessionStartKeeps ==
  ASSUME CatalogInv, NEW p \in Procs, NEW dir \in Dirs, SessionStart(p, dir)
  PROVE  CatalogInv'
<1> DEFINE env == LoadDotEnv(proc[p].env, dir)
           r == [proc[p] EXCEPT !.at = "open", !.cwd = dir, !.env = env, !.override = FALSE,
                                !.def = Definition(env, dir), !.listed = FALSE]
<1>0. proc[p].at # "gone" /\ proc[p].env \in [Keys -> Origins] /\ ProcOK(proc[p])
  BY DEF SessionStart, CatalogInv, CatalogTypeOK, CatalogProcess
<1>1. /\ env \in [Keys -> Origins] /\ Trusted(env)
      /\ proc[p].env["workflow"] # "none" => env["workflow"] # "none"
  BY <1>0, LoadIsTrusted DEF CatalogInv, ProcOK
<1>2. Put(p, r) /\ FilesStay /\ UNCHANGED sessions
  BY DEF SessionStart
<1>3. Definition(env, dir) \in {"none", "file", "config"}
  BY DefinitionIs
<1> HIDE DEF env
<1>4. r \in CatalogProcess
  BY <1>1, <1>3 DEF CatalogInv, CatalogTypeOK, CatalogProcess
<1>5. r.at = "open" /\ r.cwd = dir /\ r.env = env /\ r.worker = proc[p].worker /\ ~r.named
  <2>1. ~proc[p].named
    BY DEF SessionStart, CatalogInv, ProcOK
  <2> QED
    BY <2>1 DEF CatalogInv, CatalogTypeOK, CatalogProcess
<1> HIDE DEF r
<1>6. ProcOK(r)
  BY <1>0, <1>1, <1>5 DEF ProcOK
<1> QED
  BY <1>2, <1>4, <1>6, ProcSteps DEF CatalogInv, CatalogTypeOK

\* A process goes on where it is, with another state, definition, override and phases.
LEMMA GoingOn ==
  ASSUME CatalogInv, NEW p \in Procs, proc[p].at # "gone",
         NEW r \in CatalogProcess, r.at \in {"open", "run", "dispatch"},
         r.cwd = proc[p].cwd, r.env = proc[p].env, r.worker = proc[p].worker,
         r.named => r.at = "run" /\ Unpinned(r),
         Put(p, r), FilesStay, sessions' \subseteq SessionFile
  PROVE  CatalogInv'
<1>1. ProcOK(r)
  BY DEF CatalogInv, ProcOK
<1> QED
  BY <1>1, ProcSteps

\* What is swept are session files, and those of the agents that work.
LEMMA SweepIs ==
  ASSUME CatalogInv, NEW dir \in Dirs, NEW wipe \in BOOLEAN
  PROVE  /\ SetupSessions(dir, wipe) \subseteq SessionFile
         /\ Sweep(dir, wipe) => sessions' \subseteq SessionFile
<1>1. [dir |-> dir, kind |-> "agent", old |-> FALSE] \in SessionFile
  BY DEF SessionFile
<1> QED
  BY <1>1 DEF SetupSessions, Sweep, CatalogInv, CatalogTypeOK

\* What a process does from then on.
LEMMA ProcStepKeeps ==
  ASSUME CatalogInv, NEW p \in Procs, NEW b \in BOOLEAN, NEW fresh \in BOOLEAN,
         \/ AgentModel(p, b) \/ RunAgentWorkflow(p, b) \/ SelectAgents(p, b, fresh) \/ DispatchAgent(p, b, fresh)
         \/ TurnedAway(p) \/ Ping(p) \/ Done(p) \/ Exit(p)
  PROVE  CatalogInv'
<1> DEFINE d == DefinitionOf(proc[p])
           p1 == Reread(p)
<1>1. d \in {"none", "file", "config"} /\ proc[p] \in CatalogProcess /\ ProcOK(proc[p])
      /\ sessions \subseteq SessionFile
  BY DefinitionIs DEF DefinitionOf, CatalogInv, CatalogTypeOK
<1>2. /\ p1 \in CatalogProcess /\ p1.at = proc[p].at /\ p1.cwd = proc[p].cwd /\ p1.env = proc[p].env
      /\ p1.worker = proc[p].worker /\ p1.named = proc[p].named
      /\ p1.listed = proc[p].listed
  BY <1>1 DEF Reread, CatalogProcess
<1>3. proc[p].at = "open" => proc[p].cwd \in Dirs /\ ~proc[p].named
  BY <1>1 DEF ProcOK
<1> DEFINE a == Asked(p, fresh)
<1>a. /\ a \in CatalogProcess /\ a.at = proc[p].at /\ a.cwd = proc[p].cwd /\ a.env = proc[p].env
      /\ a.worker = proc[p].worker /\ a.named = proc[p].named
  BY <1>1, <1>2 DEF Asked
<1> HIDE DEF d, p1, a
<1>4. CASE AgentModel(p, b)
  <2> DEFINE r == [proc[p] EXCEPT !.override = b, !.def = d]
  <2>1. /\ r \in CatalogProcess /\ r.at = "open" /\ r.cwd = proc[p].cwd /\ r.env = proc[p].env
        /\ r.worker = proc[p].worker /\ ~r.named
    BY <1>1, <1>3, <1>4 DEF AgentModel, CatalogProcess
  <2>2. Put(p, r) /\ FilesStay /\ UNCHANGED sessions /\ proc[p].at # "gone"
    BY <1>4 DEF AgentModel, d
  <2> HIDE DEF r
  <2> QED
    BY <1>1, <2>1, <2>2, GoingOn
<1>5. CASE RunAgentWorkflow(p, b)
  <2> DEFINE r == [p1 EXCEPT !.at = "run", !.listed = b, !.named = p1.listed /\ Unpinned(p1)]
  <2>1. /\ r \in CatalogProcess /\ r.at = "run" /\ r.cwd = proc[p].cwd /\ r.env = proc[p].env
        /\ r.worker = proc[p].worker /\ (r.named => Unpinned(p1))
        /\ r.override = p1.override /\ r.def = p1.def
    BY <1>2 DEF CatalogProcess, Unpinned
  <2>2. /\ Put(p, r) /\ FilesStay /\ Sweep(p1.cwd, TRUE) /\ proc[p].at = "open"
    BY <1>5 DEF RunAgentWorkflow, p1
  <2> HIDE DEF r
  <2>3. r.named => Unpinned(r)
    BY <1>2, <2>1 DEF Unpinned
  <2>4. sessions' \subseteq SessionFile
    BY <1>2, <1>3, <2>2, SweepIs
  <2> QED
    BY <2>1, <2>2, <2>3, <2>4, GoingOn
<1>6. CASE SelectAgents(p, b, fresh)
  <2> DEFINE r == [a EXCEPT !.listed = b]
  <2>1. /\ r \in CatalogProcess /\ r.at = "open" /\ r.cwd = proc[p].cwd /\ r.env = proc[p].env
        /\ r.worker = proc[p].worker /\ ~r.named
    BY <1>a, <1>3, <1>6 DEF SelectAgents, CatalogProcess
  <2>2. Put(p, r) /\ FilesStay /\ sessions' = SetupSessions(proc[p].cwd, FALSE) /\ proc[p].at = "open"
    BY <1>6 DEF SelectAgents, a
  <2> HIDE DEF r
  <2>3. sessions' \subseteq SessionFile
    BY <1>3, <2>2, SweepIs
  <2> QED
    BY <2>1, <2>2, <2>3, GoingOn
<1>7. CASE DispatchAgent(p, b, fresh)
  <2>0. PICK left \in BOOLEAN :
          Put(p, [a EXCEPT !.at = "dispatch", !.listed = b \/ (left /\ ~fresh)])
    BY <1>7 DEF DispatchAgent, a
  <2> DEFINE r == [a EXCEPT !.at = "dispatch", !.listed = b \/ (left /\ ~fresh)]
  <2>1. /\ r \in CatalogProcess /\ r.at = "dispatch" /\ r.cwd = proc[p].cwd /\ r.env = proc[p].env
        /\ r.worker = proc[p].worker /\ ~r.named
    BY <1>a, <1>3, <1>7 DEF CatalogProcess, DispatchAgent
  <2>2. /\ Put(p, r) /\ FilesStay /\ Sweep(proc[p].cwd, FALSE) /\ proc[p].at = "open"
    BY <1>7, <2>0 DEF DispatchAgent
  <2> HIDE DEF r
  <2>3. sessions' \subseteq SessionFile
    BY <1>3, <2>2, SweepIs
  <2> QED
    BY <2>1, <2>2, <2>3, GoingOn
<1>8. CASE TurnedAway(p)
  <2>1. Put(p, p1) /\ FilesStay /\ UNCHANGED sessions /\ proc[p].at = "open"
    BY <1>8 DEF TurnedAway, p1
  <2> QED
    BY <1>1, <1>2, <1>3, <2>1, GoingOn
<1>9. CASE Ping(p)
  <2> DEFINE r == [p1 EXCEPT !.at = "run", !.listed = TRUE]
  <2>1. /\ r \in CatalogProcess /\ r.at = "run" /\ r.cwd = proc[p].cwd /\ r.env = proc[p].env
        /\ r.worker = proc[p].worker /\ ~r.named
    BY <1>2, <1>3, <1>9 DEF CatalogProcess, Ping
  <2>2. /\ Put(p, r) /\ FilesStay /\ Sweep(proc[p].cwd, TRUE) /\ proc[p].at = "open"
    BY <1>9 DEF Ping, p1
  <2> HIDE DEF r
  <2>3. sessions' \subseteq SessionFile
    BY <1>3, <2>2, SweepIs
  <2> QED
    BY <2>1, <2>2, <2>3, GoingOn
<1>10. CASE Done(p)
  <2> DEFINE r == [proc[p] EXCEPT !.at = "open", !.named = FALSE]
  <2>1. /\ r \in CatalogProcess /\ r.at = "open" /\ r.cwd = proc[p].cwd /\ r.env = proc[p].env
        /\ r.worker = proc[p].worker /\ ~r.named
    BY <1>1 DEF CatalogProcess
  <2>2. Put(p, r) /\ FilesStay /\ UNCHANGED sessions /\ proc[p].at # "gone"
    BY <1>10 DEF Done, AtWork
  <2> HIDE DEF r
  <2> QED
    BY <1>1, <2>1, <2>2, GoingOn
<1>11. CASE Exit(p)
  <2>1. ProcOK(NoProc)
    BY NoProcIs DEF ProcOK
  <2> QED
    BY <1>1, <1>11, <2>1, NoProcIs, ProcSteps DEF Exit
<1> QED
  BY <1>4, <1>5, <1>6, <1>7, <1>8, <1>9, <1>10, <1>11

\* One step of any kind keeps the invariant.
LEMMA CatalogInvStep == CatalogInv /\ [CatalogNext]_catalogVars => CatalogInv'
<1> SUFFICES ASSUME CatalogInv, [CatalogNext]_catalogVars PROVE CatalogInv'
  OBVIOUS
<1>1. ASSUME NEW p \in Procs, NEW dir \in Dirs, Load(p, dir) \/ SessionStart(p, dir) PROVE CatalogInv'
  BY <1>1, LoadKeeps, SessionStartKeeps
<1>2. ASSUME NEW p \in Procs, NEW b \in BOOLEAN,
             AgentModel(p, b) \/ RunAgentWorkflow(p, b)
      PROVE  CatalogInv'
  BY <1>2, ProcStepKeeps
<1>3. ASSUME NEW p \in Procs, TurnedAway(p) \/ Ping(p) \/ Done(p) \/ Exit(p) PROVE CatalogInv'
  <2>1. TRUE \in BOOLEAN
    OBVIOUS
  <2> QED
    BY <1>3, <2>1, ProcStepKeeps
<1>4. ASSUME NEW f \in EnvFiles, NEW keys \in {{}, Keys}, EditEnv(f, keys) PROVE CatalogInv'
  <2>1. CatalogTypeOK'
    BY <1>4 DEF CatalogInv, CatalogTypeOK, EditEnv
  <2> QED
    BY <1>4, <2>1 DEF CatalogInv, ProcOK, Trusted, Unpinned, EditEnv
<1>5. ASSUME NEW f \in sessions, Ages(f) PROVE CatalogInv'
  <2>1. sessions' \subseteq SessionFile
    BY <1>5 DEF Ages, CatalogInv, CatalogTypeOK, SessionFile
  <2> QED
    BY <1>5, <2>1 DEF Ages, FilesStay, CatalogInv, CatalogTypeOK, ProcOK, Trusted, Unpinned
<1>6. CASE UNCHANGED catalogVars
  BY <1>6 DEF catalogVars, CatalogInv, CatalogTypeOK, ProcOK, Trusted, Unpinned
<1>7. ASSUME NEW p \in Procs, NEW has \in BOOLEAN, NEW fresh \in BOOLEAN,
             DispatchAgent(p, has, fresh) \/ SelectAgents(p, has, fresh)
      PROVE  CatalogInv'
  BY <1>7, ProcStepKeeps
<1> QED
  BY <1>1, <1>2, <1>3, <1>4, <1>5, <1>6, <1>7 DEF CatalogNext

\* For any directories and edits: what the shell exports stands in every process and no
\* project sets what it may not, an agent that a run's notice names as unpinned would run on
\* the session's model, and a process that sweeps takes its own project's session files, and
\* what is a week old (loadDotEnv, resolveAgentModel, the preflight, setupSessions).
THEOREM ConfigIsSound == CatalogSpec => ConfigSound
<1>1. CatalogSpec => []CatalogInv
  BY CatalogInvInit, CatalogInvStep, PTL DEF CatalogSpec
<1>2. CatalogInv => EnvTrusted
  BY DEF CatalogInv, ProcOK, Trusted, EnvTrusted, Here
<1>3. CatalogInv => NoticeSound
  BY DEF CatalogInv, ProcOK, NoticeSound, Here, Unpinned, Model
<1>4. CatalogInv /\ [CatalogNext]_catalogVars =>
        [\A f \in sessions \ sessions' :
           \/ [f EXCEPT !.old = TRUE] \in sessions'
           \/ /\ f.kind = "agent"
              /\ f.old \/ \E p \in Procs : Sweeps(p) /\ f.dir \in {"top", proc[p].cwd}]_catalogVars
  <2> SUFFICES ASSUME CatalogInv, CatalogNext, NEW f \in sessions, f \notin sessions',
                      [f EXCEPT !.old = TRUE] \notin sessions'
               PROVE  /\ f.kind = "agent"
                      /\ f.old \/ \E p \in Procs : Sweeps(p) /\ f.dir \in {"top", proc[p].cwd}
    BY DEF catalogVars
  <2>1. \/ \E p \in Procs : Ping(p) \/ \E b \in BOOLEAN : RunAgentWorkflow(p, b)
        \/ \E p \in Procs, b, fresh \in BOOLEAN : SelectAgents(p, b, fresh) \/ DispatchAgent(p, b, fresh)
    BY DEF CatalogNext, Load, SessionStart, AgentModel, TurnedAway, Done, Exit, EditEnv, Ages
  <2>2. ASSUME NEW p \in Procs, Ping(p) \/ \E b \in BOOLEAN : RunAgentWorkflow(p, b)
        PROVE  f.kind = "agent" /\ (f.old \/ (Sweeps(p) /\ f.dir \in {"top", proc[p].cwd}))
    <3>1. /\ proc[p].at = "open" /\ proc'[p].at = "run"
          /\ SetupSessions(proc[p].cwd, TRUE) \subseteq sessions'
      <4>1. proc[p] \in CatalogProcess /\ proc \in [Procs -> CatalogProcess]
        BY DEF CatalogInv, CatalogTypeOK
      <4>2. Reread(p) \in CatalogProcess /\ Reread(p).cwd = proc[p].cwd
        BY <4>1, DefinitionIs DEF Reread, DefinitionOf, CatalogProcess
      <4>3. proc[p].at = "open" /\ Sweep(proc[p].cwd, TRUE)
        BY <2>2, <4>2 DEF Ping, RunAgentWorkflow
      <4>4. PICK r : r.at = "run" /\ Put(p, r)
        <5>1. \A b, c \in BOOLEAN : [Reread(p) EXCEPT !.at = "run", !.listed = b, !.named = c].at = "run"
          BY <4>2 DEF CatalogProcess
        <5>2. \A b \in BOOLEAN : [Reread(p) EXCEPT !.at = "run", !.listed = b].at = "run"
          BY <4>2 DEF CatalogProcess
        <5>3. CASE Ping(p)
          BY <5>2, <5>3 DEF Ping
        <5>4. ASSUME NEW b \in BOOLEAN, RunAgentWorkflow(p, b)
              PROVE  \E r : r.at = "run" /\ Put(p, r)
          <6> DEFINE c == Reread(p).listed /\ Unpinned(Reread(p))
          <6>1. c \in BOOLEAN
            BY <4>2 DEF CatalogProcess
          <6> QED
            BY <5>1, <5>4, <6>1 DEF RunAgentWorkflow
        <5> QED
          BY <2>2, <5>3, <5>4
      <4> QED
        BY <4>1, <4>3, <4>4 DEF Put, Sweep
    <3>2. f \notin SetupSessions(proc[p].cwd, TRUE)
      BY <3>1
    <3> QED
      BY <3>1, <3>2 DEF SetupSessions, Expired, Ours, Sweeps
  <2>3. ASSUME NEW p \in Procs, NEW b \in BOOLEAN, NEW fresh \in BOOLEAN,
               SelectAgents(p, b, fresh) \/ DispatchAgent(p, b, fresh)
        PROVE  f.kind = "agent" /\ f.old
    <3>1. SetupSessions(proc[p].cwd, FALSE) \subseteq sessions'
      BY <2>3 DEF SelectAgents, DispatchAgent, Sweep
    <3> QED
      BY <3>1 DEF SetupSessions, Expired, Ours
  <2> QED
    BY <2>1, <2>2, <2>3
<1> QED
  BY <1>1, <1>2, <1>3, <1>4, PTL DEF CatalogSpec, ConfigSound, OthersSessionsStay

-----------------------------------------------------------------------------
\* The talk with language servers.

TalkPlaces == Waits \cup {"off", "kill"}

\* A request, and a letter of the server, none of which answers what was not asked yet; one of
\* the last request is of the step the client is at.
Question(c) == {a \in [id : Nat, of : LspRequests] : a.id <= c.id /\ (a.id = c.id => a.of = c.at)}
Letter(c) ==
  [type : {"publish"}, file : Sources] \cup [type : {"ask", "closed"}]
  \cup {m \in [type : {"answer"}, id : Nat, of : LspRequests, ok : BOOLEAN] :
          [id |-> m.id, of |-> m.of] \in Question(c)}

\* The types.
LspTypeOK ==
  /\ job \in [kind : Commands, of : [Sources -> Servers \cup {"missing", "unserved"}],
              todo : SUBSET Servers, said : [Sources -> Seq({"error", "published", "nothing"})],
              crashed : BOOLEAN]
  /\ client \in [at : TalkPlaces, of : Servers \cup {"none"}, id : Nat, opened : SUBSET Sources,
                 known : SUBSET Sources, used : SUBSET {<<r, r>> : r \in LspRequests}]
  /\ server \in [up : BOOLEAN, deaf : BOOLEAN, asked : Seq(Question(client)), asks : Nat]
  /\ inbox \in Seq(Letter(client))

\* The server whose files are to be reported yet is one to start, or the one that is talked with.
Reported(said, step, todo) ==
  \A f \in Sources :
    Len(said[f]) = IF \/ job.of[f] \in todo
                      \/ job.of[f] \in Servers /\ job.of[f] = client.of /\ step \in {"initialize", "collect"}
                   THEN 0 ELSE 1

\* The types, no server without a talk, and while no broken pipe has ended the command, each file
\* that is not reported once is one whose server's turn is yet to come.
LspInv ==
  /\ LspTypeOK /\ ServerGone
  /\ client.at # "off" => client.of \in Servers \ job.todo
  /\ job.kind = "diagnostics" =>
       client.at \notin {"query", "codeAction", "resolve", "execute"}
  /\ job.kind = "diagnostics" /\ ~job.crashed => Reported(job.said, client.at, job.todo)

\* A sequence over a set is one over any larger set.
LEMMA SeqWider == \A S, T : S \subseteq T => Seq(S) \subseteq Seq(T)
OBVIOUS

\* A sequence less an element is a sequence over the same set.
LEMMA TakenOut ==
  ASSUME NEW S, NEW s \in Seq(S), NEW n \in DOMAIN s
  PROVE  RemoveAt(s, n) \in Seq(S)
<1>1. n \in 1..Len(s)
  OBVIOUS
<1>2. SubSeq(s, 1, n - 1) \in Seq(S) /\ SubSeq(s, n + 1, Len(s)) \in Seq(S)
  BY <1>1
<1> QED
  BY <1>2 DEF RemoveAt

\* Before the first server the files nobody serves are reported.
LEMMA LspInvInit == LspInit => LspInv
<1> SUFFICES ASSUME LspInit PROVE LspInv
  OBVIOUS
<1> DEFINE Report == {"error", "published", "nothing"}
<1>1. PICK kind \in Commands, of \in [Sources -> Servers \cup {"missing", "unserved"}] :
        job = [kind |-> kind, of |-> of, todo |-> {s \in Servers : \E f \in Sources : of[f] = s},
               said |-> [f \in Sources |-> IF of[f] \in Servers THEN <<>> ELSE <<"error">>],
               crashed |-> FALSE]
  BY DEF LspInit
<1>2. client = Off /\ server = Down /\ inbox = <<>>
  BY DEF LspInit
<1>3. <<>> \in Seq(Report) /\ <<"error">> \in Seq(Report) /\ Len(<<>>) = 0 /\ Len(<<"error">>) = 1
  OBVIOUS
<1>4. job.said \in [Sources -> Seq(Report)]
  BY <1>1, <1>3
<1>5. Reported(job.said, client.at, job.todo)
  BY <1>1, <1>2, <1>3 DEF Reported, Off
<1>6. <<>> \in Seq(Question(client)) /\ <<>> \in Seq(Letter(client))
  OBVIOUS
<1>7. LspTypeOK
  BY <1>1, <1>2, <1>4, <1>6 DEF LspTypeOK, Off, Down, TalkPlaces
<1> QED
  BY <1>1, <1>2, <1>5, <1>7 DEF LspInv, Off, Down, ServerGone

-----------------------------------------------------------------------------
\* What a client asked, and was told, before its next request is of none of its requests to come.
LEMMA LettersOlder ==
  ASSUME NEW c, NEW d, c.id \in Nat, d.id = c.id + 1
  PROVE  Question(c) \subseteq Question(d) /\ Letter(c) \subseteq Letter(d)
<1>1. Question(c) \subseteq Question(d)
  BY DEF Question
<1> QED
  BY <1>1 DEF Letter

\* And a client at another thing that is at the same request sees the same.
LEMMA LettersSame ==
  ASSUME NEW c, NEW d, d.id = c.id, d.at = c.at
  PROVE  Question(c) = Question(d) /\ Letter(c) = Letter(d)
BY DEF Question, Letter

\* The client enters a step, and sends what the step sends: of everything older the id is
\* smaller.
LEMMA EnterKeeps ==
  ASSUME LspInv, client.at \in Waits, NEW step \in Waits \cup {"kill"}, NEW said, NEW used,
         said \in [Sources -> Seq({"error", "published", "nothing"})],
         used \subseteq {<<r, r>> : r \in LspRequests},
         job.kind = "diagnostics" => step \in {"collect", "initialize", "shutdown", "kill"},
         job.kind = "diagnostics" /\ ~job.crashed =>
           \/ Reported(said, step, job.todo)
           \/ ~server.up /\ step \notin {"shutdown", "kill"},
         Enter(step, said, used), inbox' \in Seq(Letter(client))
  PROVE  LspInv'
<1> DEFINE spoken == step # "kill" /\ server.up
           breaks == step \notin {"shutdown", "kill"} /\ ~server.up
           new == IF spoken THEN step ELSE "kill"
           opened == IF step \in {"collect", "query", "codeAction"} THEN FilesOf(client.of) ELSE client.opened
           todo == IF breaks THEN {} ELSE job.todo
<1> USE DEF LspInv, LspTypeOK
<1>1. client' = [client EXCEPT !.at = new, !.id = client.id + 1, !.used = used, !.opened = opened]
  BY DEF Enter
<1>2. job' = [job EXCEPT !.said = said, !.crashed = job.crashed \/ breaks, !.todo = todo]
  BY DEF Enter
<1>3. server' = IF spoken /\ step \in LspRequests
                THEN [server EXCEPT !.asked = Append(server.asked, [id |-> client.id + 1, of |-> step])]
                ELSE server
  BY DEF Enter
<1>4. /\ new \in TalkPlaces /\ new # "off" /\ opened \subseteq Sources /\ todo \subseteq job.todo
      /\ (spoken => new = step) /\ (~spoken => new = "kill")
  <2>1. FilesOf(client.of) \subseteq Sources
    BY DEF FilesOf
  <2>2. client.opened \subseteq Sources
    OBVIOUS
  <2>3. step \in TalkPlaces /\ step # "off" /\ "kill" \in TalkPlaces
    BY DEF TalkPlaces, Waits, LspRequests
  <2>4. opened \subseteq Sources
    BY <2>1, <2>2
  <2> QED
    BY <2>3, <2>4
<1> HIDE DEF new, opened, todo
<1>14. client' = [at |-> new, of |-> client.of, id |-> client.id + 1, opened |-> opened,
                  known |-> client.known, used |-> used]
  BY <1>1
<1>15. client \in [at : TalkPlaces, of : Servers \cup {"none"}, id : Nat, opened : SUBSET Sources,
                   known : SUBSET Sources, used : SUBSET {<<r, r>> : r \in LspRequests}]
  OBVIOUS
<1>16. client.id + 1 \in Nat /\ client.of \in Servers \cup {"none"} /\ client.known \in SUBSET Sources
  BY <1>15
<1>5. /\ client'.at = new /\ client'.id = client.id + 1 /\ client'.of = client.of
      /\ client' \in [at : TalkPlaces, of : Servers \cup {"none"}, id : Nat, opened : SUBSET Sources,
                      known : SUBSET Sources, used : SUBSET {<<r, r>> : r \in LspRequests}]
  BY <1>4, <1>14, <1>16
<1>6. /\ job'.said = said /\ job'.todo = todo /\ job'.of = job.of /\ job'.kind = job.kind
      /\ job'.crashed = (job.crashed \/ breaks)
      /\ job' \in [kind : Commands, of : [Sources -> Servers \cup {"missing", "unserved"}],
                   todo : SUBSET Servers, said : [Sources -> Seq({"error", "published", "nothing"})],
                   crashed : BOOLEAN]
  BY <1>2, <1>4
<1>7. Question(client) \subseteq Question(client') /\ Letter(client) \subseteq Letter(client')
  BY <1>5, LettersOlder
<1>8. server.asked \in Seq(Question(client')) /\ inbox' \in Seq(Letter(client'))
  BY <1>7, SeqWider
<1>9. server' \in [up : BOOLEAN, deaf : BOOLEAN, asked : Seq(Question(client')), asks : Nat] /\ server'.up = server.up
  <2>1. CASE spoken /\ step \in LspRequests
    <3>1. [id |-> client.id + 1, of |-> step] \in Question(client')
      BY <1>4, <1>5, <2>1 DEF Question
    <3>2. Append(server.asked, [id |-> client.id + 1, of |-> step]) \in Seq(Question(client'))
      BY <1>8, <3>1
    <3> QED
      BY <1>3, <2>1, <3>2
  <2> QED
    BY <1>3, <1>8, <2>1
<1>10. LspTypeOK'
  BY <1>5, <1>6, <1>8, <1>9
<1>11. job'.kind = "diagnostics" =>
         client'.at \notin {"query", "codeAction", "resolve", "execute"}
  BY <1>4, <1>5, <1>6
<1>12. ASSUME job'.kind = "diagnostics", ~job'.crashed PROVE Reported(job.said, client.at, job.todo)'
  <2>1. Reported(said, step, job.todo) /\ todo = job.todo /\ ~breaks
    BY <1>6, <1>12 DEF todo
  <2>2. spoken \/ step \in {"shutdown", "kill"}
    BY <2>1
  <2>3. step \in {"initialize", "collect"} <=> new \in {"initialize", "collect"}
    BY <1>4, <2>2
  <2> QED
    BY <1>5, <1>6, <2>1, <2>3 DEF Reported
<1>13. ServerGone' /\ client'.of \in Servers \ job'.todo
  BY <1>4, <1>5, <1>6 DEF ServerGone, Waits, LspRequests
<1> QED
  BY <1>10, <1>11, <1>12, <1>13

-----------------------------------------------------------------------------
\* What is reported when a step ends.
LEMMA SaidIs ==
  ASSUME LspInv, NEW step, NEW broken \in BOOLEAN
  PROVE  Said(step, broken) \in [Sources -> Seq({"error", "published", "nothing"})]
<1> DEFINE Report == {"error", "published", "nothing"}
<1>1. ASSUME NEW f \in Sources PROVE Said(step, broken)[f] \in Seq(Report)
  <2>1. job.said[f] \in Seq(Report)
    BY DEF LspInv, LspTypeOK
  <2>2. /\ Append(job.said[f], "error") \in Seq(Report) /\ Append(job.said[f], "published") \in Seq(Report)
        /\ Append(job.said[f], "nothing") \in Seq(Report)
    BY <2>1
  <2> QED
    BY <2>1, <2>2 DEF Said
<1> QED
  BY <1>1 DEF Said

\* The first step, failing, and the last report each file that had none.
LEMMA SaidReports ==
  ASSUME LspInv, client.at \in {"initialize", "collect"}, job.kind = "diagnostics", ~job.crashed,
         NEW broken \in BOOLEAN, client.at = "initialize" => broken
  PROVE  Reported(Said(client.at, broken), "shutdown", job.todo)
<1> SUFFICES ASSUME NEW f \in Sources
             PROVE  Len(Said(client.at, broken)[f]) = IF job.of[f] \in job.todo THEN 0 ELSE 1
  BY DEF Reported
<1>1. client.of \in Servers \ job.todo
  BY DEF LspInv
<1>2. job.said[f] \in Seq({"error", "published", "nothing"})
  BY DEF LspInv, LspTypeOK
<1>3. Len(job.said[f]) = IF job.of[f] \in job.todo \/ (job.of[f] \in Servers /\ job.of[f] = client.of) THEN 0 ELSE 1
  BY DEF LspInv, Reported
<1>4. \A r \in {"error", "published", "nothing"} : Len(Append(job.said[f], r)) = Len(job.said[f]) + 1
  BY <1>2
<1>5. CASE job.of[f] = client.of
  BY <1>1, <1>3, <1>4, <1>5 DEF Said, FilesOf
<1>6. CASE job.of[f] # client.of
  BY <1>3, <1>6 DEF Said, FilesOf
<1> QED
  BY <1>5, <1>6

\* A step that is not of the reports leaves them.
LEMMA SaidLeaves ==
  ASSUME LspInv, NEW step, NEW broken \in BOOLEAN,
         job.kind # "diagnostics" \/ step \notin {"initialize", "collect"} \/ (step = "initialize" /\ ~broken)
  PROVE  Said(step, broken) = job.said
<1>1. job.said = [f \in Sources |-> job.said[f]]
  BY DEF LspInv, LspTypeOK
<1> QED
  BY <1>1 DEF Said

\* The step after one that broken, or that was answered.
LEMMA GoOnKeeps ==
  ASSUME LspInv, client.at \in Waits, NEW broken \in BOOLEAN, NEW used,
         client.at = "collect" => broken,
         used \subseteq {<<r, r>> : r \in LspRequests},
         Enter(IF broken THEN StepAfterError(client.at) ELSE StepAfter(client.at),
               Said(client.at, broken), used),
         inbox' \in Seq(Letter(client))
  PROVE  LspInv'
<1> DEFINE step == IF broken THEN StepAfterError(client.at) ELSE StepAfter(client.at)
<1>1. step \in Waits \cup {"kill"}
  BY DEF StepAfterError, StepAfter, Waits, LspRequests
<1>2. job.kind = "diagnostics" => client.at \in {"initialize", "collect", "shutdown"}
  BY DEF LspInv, Waits, LspRequests
<1>3. /\ job.kind = "diagnostics" /\ client.at = "initialize" /\ ~broken => step = "collect"
      /\ job.kind = "diagnostics" /\ client.at = "initialize" /\ broken => step = "shutdown"
      /\ job.kind = "diagnostics" /\ client.at = "collect" => step = "shutdown"
      /\ job.kind = "diagnostics" /\ client.at = "shutdown" => step = "kill"
  BY DEF StepAfterError, StepAfter
<1> HIDE DEF step
<1>4. ASSUME job.kind = "diagnostics", ~job.crashed PROVE Reported(Said(client.at, broken), step, job.todo)
  <2>1. CASE client.at = "initialize" /\ ~broken
    <3>1. Said(client.at, broken) = job.said
      BY <2>1, SaidLeaves
    <3> QED
      BY <1>3, <1>4, <2>1, <3>1 DEF LspInv, Reported
  <2>2. CASE (client.at = "initialize" /\ broken) \/ client.at = "collect"
    <3>1. Reported(Said(client.at, broken), "shutdown", job.todo)
      BY <1>4, <2>2, SaidReports
    <3> QED
      BY <1>3, <1>4, <2>2, <3>1
  <2>3. CASE client.at = "shutdown"
    <3>1. Said(client.at, broken) = job.said
      BY <2>3, SaidLeaves
    <3> QED
      BY <1>3, <1>4, <2>3, <3>1 DEF LspInv, Reported
  <2> QED
    BY <1>2, <1>4, <2>1, <2>2, <2>3
<1>5. Said(client.at, broken) \in [Sources -> Seq({"error", "published", "nothing"})]
  BY SaidIs
<1>6. Enter(step, Said(client.at, broken), used)
  BY DEF step
<1> QED
  BY <1>1, <1>2, <1>3, <1>4, <1>5, <1>6, EnterKeeps

-----------------------------------------------------------------------------
\* A server is started, and asked to initialize.
LEMMA StartKeeps == ASSUME LspInv, NEW s \in Servers, Start(s) PROVE LspInv'
<1> USE DEF LspInv, LspTypeOK
<1>1. /\ client.at = "off" /\ s \in job.todo /\ job' = [job EXCEPT !.todo = job.todo \ {s}]
      /\ client' = [Off EXCEPT !.at = "initialize", !.of = s, !.id = 1] /\ inbox' = <<>>
  BY DEF Start
<1>2. PICK hard \in BOOLEAN :
        server' = [Down EXCEPT !.up = TRUE, !.deaf = hard, !.asked = <<[id |-> 1, of |-> "initialize"]>>]
  BY DEF Start
<1>3. client' = [at |-> "initialize", of |-> s, id |-> 1, opened |-> {}, known |-> {}, used |-> {}]
  BY <1>1 DEF Off
<1>4. [id |-> 1, of |-> "initialize"] \in Question(client')
  BY <1>3 DEF Question, LspRequests
<1>5. <<[id |-> 1, of |-> "initialize"]>> \in Seq(Question(client')) /\ inbox' \in Seq(Letter(client'))
  BY <1>1, <1>4
<1>6. server' = [up |-> TRUE, deaf |-> hard, asked |-> <<[id |-> 1, of |-> "initialize"]>>, asks |-> 0]
  BY <1>2 DEF Down
<1>10. job' \in [kind : Commands, of : [Sources -> Servers \cup {"missing", "unserved"}],
                 todo : SUBSET Servers, said : [Sources -> Seq({"error", "published", "nothing"})],
                 crashed : BOOLEAN]
  BY <1>1
<1>11. client' \in [at : TalkPlaces, of : Servers \cup {"none"}, id : Nat, opened : SUBSET Sources,
                    known : SUBSET Sources, used : SUBSET {<<r, r>> : r \in LspRequests}]
  BY <1>3 DEF TalkPlaces, Waits, LspRequests
<1>12. server' \in [up : BOOLEAN, deaf : BOOLEAN, asked : Seq(Question(client')), asks : Nat]
  BY <1>5, <1>6
<1>7. LspTypeOK'
  BY <1>5, <1>10, <1>11, <1>12
<1>8. /\ job'.said = job.said /\ job'.todo = job.todo \ {s} /\ job'.of = job.of
      /\ job'.kind = job.kind /\ job'.crashed = job.crashed
  BY <1>1
<1>9. ASSUME job.kind = "diagnostics", ~job.crashed PROVE Reported(job.said, client.at, job.todo)'
  BY <1>1, <1>3, <1>8, <1>9 DEF Reported
<1> QED
  BY <1>3, <1>7, <1>8, <1>9 DEF ServerGone

\* What the server does says nothing of the job, and writes a letter.
LEMMA ServerWrites ==
  ASSUME LspInv, UNCHANGED <<job, client>>, client.at # "off", NEW m \in Letter(client),
         inbox' = Append(inbox, m),
         server' \in [up : BOOLEAN, deaf : BOOLEAN, asked : Seq(Question(client)), asks : Nat]
  PROVE  LspInv'
<1>1. inbox' \in Seq(Letter(client))
  BY DEF LspInv, LspTypeOK
<1>2. LspTypeOK'
  BY <1>1 DEF LspInv, LspTypeOK, Question, Letter
<1> QED
  BY <1>2 DEF LspInv, ServerGone, Reported

\* What a server may do, dying included.
LEMMA ServerKeeps ==
  ASSUME LspInv, \/ \E n \in 1..2, ok \in BOOLEAN : Answer(n, ok)
                 \/ \E f \in Sources : Publish(f)
                 \/ AskBack \/ Dies
  PROVE  LspInv'
<1> USE DEF LspInv, LspTypeOK
<1>0. server.up /\ client.at # "off" /\ UNCHANGED <<job, client>>
  BY DEF Answer, Publish, AskBack, Dies, ServerGone
<1>1. ASSUME NEW n \in 1..2, NEW ok \in BOOLEAN, Answer(n, ok) PROVE LspInv'
  <2> DEFINE a == server.asked[n]
             m == [type |-> "answer", id |-> a.id, of |-> a.of, ok |-> ok]
  <2>1. /\ n \in DOMAIN server.asked /\ inbox' = Append(inbox, m)
        /\ server' = [server EXCEPT !.asked = RemoveAt(server.asked, n)]
    BY <1>1 DEF Answer
  <2>2. a \in Question(client) /\ RemoveAt(server.asked, n) \in Seq(Question(client))
    BY <2>1, TakenOut
  <2> HIDE DEF a
  <2>3. a = [id |-> a.id, of |-> a.of] /\ a.id \in Nat /\ a.of \in LspRequests
    BY <2>2 DEF Question
  <2>4. m \in Letter(client)
    BY <2>2, <2>3 DEF Letter
  <2>5. server' \in [up : BOOLEAN, deaf : BOOLEAN, asked : Seq(Question(client)), asks : Nat]
    BY <2>1, <2>2
  <2> QED
    BY <1>0, <2>1, <2>4, <2>5, ServerWrites
<1>2. ASSUME NEW f \in Sources, Publish(f) PROVE LspInv'
  <2>1. [type |-> "publish", file |-> f] \in Letter(client)
    BY DEF Letter
  <2> QED
    BY <1>0, <1>2, <2>1, ServerWrites DEF Publish
<1>3. CASE AskBack
  <2>1. [type |-> "ask"] \in Letter(client)
    BY DEF Letter
  <2>2. server' = [server EXCEPT !.asks = server.asks + 1]
    BY <1>3 DEF AskBack
  <2>3. server' \in [up : BOOLEAN, deaf : BOOLEAN, asked : Seq(Question(client)), asks : Nat]
    BY <2>2
  <2> QED
    BY <1>0, <1>3, <2>1, <2>3, ServerWrites DEF AskBack
<1>4. CASE Dies
  <2>1. [type |-> "closed"] \in Letter(client) /\ <<>> \in Seq(Question(client))
    BY DEF Letter
  <2>2. server' \in [up : BOOLEAN, deaf : BOOLEAN, asked : Seq(Question(client)), asks : Nat]
    BY <1>4, <2>1 DEF Dies
  <2> QED
    BY <1>0, <1>4, <2>1, <2>2, ServerWrites DEF Dies
<1> QED
  BY <1>1, <1>2, <1>3, <1>4

\* A step ends without an answer.
LEMMA EndStepKeeps ==
  ASSUME LspInv, client.at \in Waits, EndStep, inbox' \in Seq(Letter(client))
  PROVE  LspInv'
<1>1. client.used \subseteq {<<r, r>> : r \in LspRequests}
  BY DEF LspInv, LspTypeOK
<1>2. Enter(IF TRUE THEN StepAfterError(client.at) ELSE StepAfter(client.at), Said(client.at, TRUE), client.used)
  BY DEF EndStep
<1> QED
  BY <1>1, <1>2, GoOnKeeps

\* The client reads a letter.
LEMMA DispatchKeeps == ASSUME LspInv, Dispatch PROVE LspInv'
<1> DEFINE m == Head(inbox)
<1> USE DEF LspInv, LspTypeOK
<1>1. client.at \in Waits /\ m \in Letter(client) /\ inbox' \in Seq(Letter(client))
  BY DEF Dispatch
<1>2. \/ m.type = "closed" /\ EndStep
      \/ /\ m.type = "publish" /\ client' = [client EXCEPT !.known = @ \cup {m.file}]
         /\ UNCHANGED <<job, server>>
      \/ m.type = "ask" /\ ~server.up /\ Enter(client.at, job.said, client.used)
      \/ UNCHANGED <<job, client, server>>
      \/ /\ m.type = "answer" /\ client.at # "collect" /\ m.id = client.id
         /\ Enter(IF m.ok THEN StepAfter(client.at) ELSE StepAfterError(client.at),
                  Said(client.at, ~m.ok), client.used \cup {<<client.at, m.of>>})
  BY <1>1 DEF Dispatch, Mine, Letter
<1> HIDE DEF m
<1>3. CASE m.type = "closed" /\ EndStep
  BY <1>1, <1>3, EndStepKeeps
<1>4. CASE m.type = "publish" /\ client' = [client EXCEPT !.known = @ \cup {m.file}] /\ UNCHANGED <<job, server>>
  <2>1. m.file \in Sources
    BY <1>1, <1>4 DEF Letter
  <2>2. client'.id = client.id /\ client'.at = client.at /\ client'.of = client.of
    BY <1>4
  <2>3. Question(client) = Question(client') /\ Letter(client) = Letter(client')
    BY <2>2, LettersSame
  <2>4. LspTypeOK'
    BY <1>1, <1>4, <2>1, <2>3
  <2> QED
    BY <1>4, <2>2, <2>4 DEF ServerGone, Reported
<1>5. CASE m.type = "ask" /\ ~server.up /\ Enter(client.at, job.said, client.used)
  BY <1>1, <1>5, EnterKeeps DEF Waits, LspRequests
<1>6. CASE UNCHANGED <<job, client, server>>
  <2>1. LspTypeOK'
    BY <1>1, <1>6 DEF Question, Letter
  <2> QED
    BY <1>6, <2>1 DEF ServerGone, Reported
<1>7. CASE /\ m.type = "answer" /\ client.at # "collect" /\ m.id = client.id
           /\ Enter(IF m.ok THEN StepAfter(client.at) ELSE StepAfterError(client.at),
                    Said(client.at, ~m.ok), client.used \cup {<<client.at, m.of>>})
  <2>1. m.ok \in BOOLEAN /\ [id |-> m.id, of |-> m.of] \in Question(client)
    BY <1>1, <1>7 DEF Letter
  <2>2. m.of = client.at /\ client.at \in LspRequests
    BY <1>1, <1>7, <2>1 DEF Question, Waits
  <2>3. client.used \cup {<<client.at, m.of>>} \subseteq {<<r, r>> : r \in LspRequests}
    BY <2>2
  <2>4. Enter(IF ~m.ok THEN StepAfterError(client.at) ELSE StepAfter(client.at),
              Said(client.at, ~m.ok), client.used \cup {<<client.at, m.of>>})
    BY <1>7, <2>1
  <2> QED
    BY <1>1, <1>7, <2>1, <2>3, <2>4, GoOnKeeps
<1> QED
  BY <1>2, <1>3, <1>4, <1>5, <1>6, <1>7

\* One step of any kind keeps the invariant.
LEMMA LspInvStep == LspInv /\ [LspNext]_lspVars => LspInv'
<1> SUFFICES ASSUME LspInv, [LspNext]_lspVars PROVE LspInv'
  OBVIOUS
<1>1. ASSUME NEW s \in Servers, Start(s) PROVE LspInv'
  BY <1>1, StartKeeps
<1>2. CASE TimeOut
  BY <1>2, EndStepKeeps DEF TimeOut, LspInv, LspTypeOK
<1>3. CASE Stop
  <2>1. client' = Off /\ inbox' = <<>> /\ server' = Down /\ job' = job /\ client.at = "kill"
    BY <1>3 DEF Stop
  <2>2. <<>> \in Seq(Question(client')) /\ <<>> \in Seq(Letter(client'))
    OBVIOUS
  <2>3. LspTypeOK'
    BY <2>1, <2>2 DEF LspInv, LspTypeOK, Off, Down, TalkPlaces
  <2>4. job.kind = "diagnostics" /\ ~job.crashed => Reported(job.said, "off", job.todo)'
    BY <2>1 DEF LspInv, Reported
  <2> QED
    BY <2>1, <2>3, <2>4 DEF LspInv, ServerGone, Off, Down
<1>4. CASE UNCHANGED lspVars
  BY <1>4 DEF lspVars, LspInv, LspTypeOK, ServerGone, Reported, Question, Letter
<1> QED
  BY <1>1, <1>2, <1>3, <1>4, ServerKeeps, DispatchKeeps DEF LspNext

\* lsp.py: whatever servers say, say late or do not say, each file is reported once, a step uses
\* the answer to its own request only, and no server outlives the talk with it.
THEOREM ServersAreToldRight == LspSpec => []LspHonest
<1>1. LspInv => LspHonest
  <2> SUFFICES ASSUME LspInv PROVE LspHonest
    OBVIOUS
  <2>1. ReportedOnce
    <3> SUFFICES ASSUME job.kind = "diagnostics", Over, ~job.crashed, NEW f \in Sources
                 PROVE  Len(job.said[f]) = 1
      BY DEF ReportedOnce
    <3> QED
      BY DEF LspInv, Reported, Over
  <2>2. OwnAnswer
    BY DEF LspInv, LspTypeOK, OwnAnswer
  <2> QED
    BY <2>1, <2>2 DEF LspInv, LspHonest
<1> QED
  BY <1>1, LspInvInit, LspInvStep, PTL DEF LspSpec

-----------------------------------------------------------------------------
\* The edits language servers send.

-----------------------------------------------------------------------------
\* What is intended of a text from a place on.

\* Spans within the text that are clear of each other and start at different places.
InPlace(t, list) ==
  /\ list \in Seq(Edit)
  /\ \A i \in DOMAIN list : list[i].from <= list[i].to /\ list[i].to <= Len(t)
  /\ \A i, j \in DOMAIN list : i # j => Clear(list[i], list[j]) /\ list[i].from # list[j].from

Onward(t, list, pos) == Intended(t, list)[Len(t) + 1 - pos]
Beyond(t, list, pos) == Kept(t, list, pos + 1) \o Onward(t, list, pos + 1)

\* Old and new characters are characters.
LEMMA PlacesAre ==
  ASSUME NEW t \in Seq(Nat), NEW list \in Seq(Edit), NEW n \in Nat \ {0}
  PROVE  Kept(t, list, n) \in Seq(Nat) /\ NewAt(list, n - 1) \in Seq(Nat)
<1>1. Kept(t, list, n) \in Seq(Nat)
  <2>1. Len(t) \in Nat
    OBVIOUS
  <2>2. n <= Len(t) => t[n] \in Nat
    BY <2>1
  <2> QED
    BY <2>2 DEF Kept
<1>2. NewAt(list, n - 1) \in Seq(Nat)
  <2>1. CASE \E i \in DOMAIN list : list[i].from = n - 1
    <3> DEFINE i == CHOOSE i \in DOMAIN list : list[i].from = n - 1
    <3>1. i \in DOMAIN list
      BY <2>1
    <3> HIDE DEF i
    <3>2. list[i] \in Edit
      BY <3>1
    <3>3. list[i].new \in Seq(Nat)
      BY <3>2 DEF Edit
    <3> QED
      BY <2>1, <3>3 DEF NewAt, i
  <2>2. CASE ~ \E i \in DOMAIN list : list[i].from = n - 1
    BY <2>2 DEF NewAt
  <2> QED
    BY <2>1, <2>2
<1> QED
  BY <1>1, <1>2

\* The places are put together from the last to the first.
LEMMA IntendedIs ==
  ASSUME NEW t \in Seq(Nat), NEW list \in Seq(Edit)
  PROVE  \A n \in 0..Len(t) + 1 :
           /\ Intended(t, list)[n] \in Seq(Nat)
           /\ Intended(t, list)[n] =
                IF n = 0 THEN <<>>
                ELSE NewAt(list, Len(t) + 1 - n) \o (Kept(t, list, Len(t) + 2 - n) \o Intended(t, list)[n - 1])
<1> DEFINE L == Len(t)
           N == L + 1
           A == Seq(Nat)
           F == [m \in (1..N) \X A |-> NewAt(list, L + 1 - m[1]) \o (Kept(t, list, L + 2 - m[1]) \o m[2])]
<1>1. L \in Nat /\ N \in Nat /\ <<>> \in A
  OBVIOUS
<1> HIDE DEF L
<1>2. F \in [(1..N) \X A -> A]
  <2> SUFFICES ASSUME NEW m \in (1..N) \X A
               PROVE  NewAt(list, L + 1 - m[1]) \o (Kept(t, list, L + 2 - m[1]) \o m[2]) \in A
    OBVIOUS
  <2>1. m[1] \in 1..N /\ m[2] \in A
    OBVIOUS
  <2>2. L + 2 - m[1] \in Nat \ {0} /\ L + 1 - m[1] = (L + 2 - m[1]) - 1
    BY <1>1, <2>1
  <2>3. NewAt(list, L + 1 - m[1]) \in A /\ Kept(t, list, L + 2 - m[1]) \in A
    BY <2>2, PlacesAre
  <2> QED
    BY <2>1, <2>3, ConcatProperties
<1>3. \A n \in 1..N, x \in A : F[<<n, x>>] = NewAt(list, L + 1 - n) \o (Kept(t, list, L + 2 - n) \o x)
  OBVIOUS
<1> HIDE DEF F
<1>4. PICK u \in [0..N -> A] : Iterated(u, <<>>, N, F)
  <2> HIDE DEF N, A
  <2> QED
    BY <1>1, <1>2, Iterates
<1>5. u = [n \in 0..N |-> IF n = 0 THEN <<>>
                          ELSE NewAt(list, L + 1 - n) \o (Kept(t, list, L + 2 - n) \o u[n - 1])]
  <2>1. ASSUME NEW n \in 0..N
        PROVE  u[n] = IF n = 0 THEN <<>>
                      ELSE NewAt(list, L + 1 - n) \o (Kept(t, list, L + 2 - n) \o u[n - 1])
    <3>1. CASE n = 0
      BY <1>4, <3>1 DEF Iterated
    <3>2. CASE n # 0
      <4>1. n \in 1..N /\ n - 1 \in 0..N
        BY <1>1, <3>2
      <4>2. u[n - 1] \in A
        BY <1>4, <4>1
      <4>3. u[n] = F[<<n, u[n - 1]>>]
        BY <1>4, <3>2 DEF Iterated
      <4> HIDE DEF N, A
      <4> QED
        BY <1>3, <3>2, <4>1, <4>2, <4>3
    <3> QED
      BY <3>1, <3>2
  <2> QED
    BY <1>4, <2>1
<1> DEFINE Entire(v) == v = [n \in 0..N |-> IF n = 0 THEN <<>>
                              ELSE NewAt(list, L + 1 - n) \o (Kept(t, list, L + 2 - n) \o v[n - 1])]
<1>6. Intended(t, list) = CHOOSE v : Entire(v)
  BY DEF Intended, L
<1>7. Entire(Intended(t, list))
  BY <1>5, <1>6
<1> DEFINE v == Intended(t, list)
<1> HIDE DEF v
<1>8. \A n \in 0..N : v[n] = IF n = 0 THEN <<>>
                             ELSE NewAt(list, L + 1 - n) \o (Kept(t, list, L + 2 - n) \o v[n - 1])
  BY <1>7 DEF v
<1> DEFINE Good == {n \in 0..N : v[n] = u[n]}
<1>9. 0..N \subseteq Good
  <2>1. 0 \in Good
    BY <1>1, <1>5, <1>8
  <2>2. ASSUME NEW n \in 1..N, n - 1 \in Good PROVE n \in Good
    <3>1. n \in 0..N /\ n # 0 /\ v[n - 1] = u[n - 1]
      BY <1>1, <2>2
    <3>2. u[n] = NewAt(list, L + 1 - n) \o (Kept(t, list, L + 2 - n) \o u[n - 1])
      BY <1>5, <3>1
    <3>3. v[n] = NewAt(list, L + 1 - n) \o (Kept(t, list, L + 2 - n) \o v[n - 1])
      BY <1>8, <3>1
    <3> QED
      BY <3>1, <3>2, <3>3
  <2> HIDE DEF Good
  <2> QED
    BY <1>1, <2>1, <2>2, UpTo
<1>10. \A n \in 0..N : v[n] \in A
  BY <1>4, <1>9
<1> QED
  BY <1>8, <1>10 DEF v, L

\* Onward the end of the text nothing follows, from an earlier place what is put there.
LEMMA OnwardIs ==
  ASSUME NEW t \in Seq(Nat), NEW list \in Seq(Edit)
  PROVE  /\ Onward(t, list, Len(t) + 1) = <<>>
         /\ \A pos \in 0..Len(t) + 1 : Onward(t, list, pos) \in Seq(Nat)
         /\ \A pos \in 0..Len(t) : /\ Onward(t, list, pos) = NewAt(list, pos) \o Beyond(t, list, pos)
                                  /\ Beyond(t, list, pos) \in Seq(Nat)
<1> DEFINE L == Len(t)
           v == Intended(t, list)
<1>1. L \in Nat
  OBVIOUS
<1>2. \A n \in 0..L + 1 :
        /\ v[n] \in Seq(Nat)
        /\ v[n] = IF n = 0 THEN <<>> ELSE NewAt(list, L + 1 - n) \o (Kept(t, list, L + 2 - n) \o v[n - 1])
  BY IntendedIs
<1>3. \A pos \in 0..L + 1 : Onward(t, list, pos) = v[L + 1 - pos]
  BY DEF Onward
<1> HIDE DEF L, v
<1>4. Onward(t, list, L + 1) = <<>>
  <2>1. (L + 1) - (L + 1) = 0 /\ L + 1 \in 0..L + 1 /\ 0 \in 0..L + 1
    BY <1>1
  <2>2. v[0] = <<>>
    BY <1>2, <2>1
  <2> DEFINE k == L + 1
  <2>3. Onward(t, list, k) = v[L + 1 - k]
    BY <1>3, <2>1
  <2>4. Onward(t, list, k) = v[0]
    BY <1>1, <2>1, <2>3
  <2> QED
    BY <2>2, <2>4
<1>5. \A pos \in 0..L + 1 : Onward(t, list, pos) \in Seq(Nat)
  <2>1. \A pos \in 0..L + 1 : L + 1 - pos \in 0..L + 1
    BY <1>1
  <2> QED
    BY <1>2, <1>3, <2>1
<1>6. ASSUME NEW pos \in 0..L
      PROVE  Onward(t, list, pos) = NewAt(list, pos) \o Beyond(t, list, pos) /\ Beyond(t, list, pos) \in Seq(Nat)
  <2> DEFINE n == L + 1 - pos
  <2>1. /\ n \in 0..L + 1 /\ n # 0 /\ L + 1 - n = pos /\ L + 2 - n = pos + 1 /\ n - 1 = L + 1 - (pos + 1)
        /\ pos + 1 \in 0..L + 1 /\ pos \in 0..L + 1 /\ pos + 1 \in Nat \ {0}
    BY <1>1
  <2>2. Onward(t, list, pos) = v[n] /\ Onward(t, list, pos + 1) = v[n - 1]
    BY <1>3, <2>1
  <2> HIDE DEF n
  <2>3. v[n] = NewAt(list, L + 1 - n) \o (Kept(t, list, L + 2 - n) \o v[n - 1])
    BY <1>2, <2>1
  <2>4. Kept(t, list, pos + 1) \in Seq(Nat) /\ Onward(t, list, pos + 1) \in Seq(Nat)
    BY <1>5, <2>1, PlacesAre
  <2>5. Beyond(t, list, pos) \in Seq(Nat)
    BY <2>4, ConcatProperties DEF Beyond
  <2> QED
    BY <2>1, <2>2, <2>3, <2>5 DEF Beyond
<1> QED
  BY <1>4, <1>5, <1>6 DEF L

-----------------------------------------------------------------------------
\* One splice.

\* Texts can be put together in any order.
LEMMA InTurn == \A x, y, z \in Seq(Nat) : (x \o y) \o z = x \o (y \o z)
BY ConcatAssociative

\* A text of two halves falls into them.
LEMMA Halves ==
  ASSUME NEW x \in Seq(Nat), NEW y \in Seq(Nat)
  PROVE  /\ SubSeq(x \o y, 1, Len(x)) = x
         /\ SubSeq(x \o y, Len(x) + 1, Len(x \o y)) = y
<1> DEFINE a == Len(x)
           b == Len(y)
           z == x \o y
<1>1. a \in Nat /\ b \in Nat /\ Len(z) = a + b
  BY ConcatProperties
<1>2. SubSeq(z, 1, a) = x
  <2>1. CASE a = 0
    <3>1. SubSeq(z, 1, a) = <<>>
      BY <2>1, SubSeqEmpty
    <3>2. x = <<>>
      BY <2>1, EmptySeq
    <3> QED
      BY <3>1, <3>2
  <2>2. CASE a # 0
    <3>1. 1 \in 1..Len(x) /\ a \in 1..Len(x)
      BY <1>1, <2>2
    <3>2. SubSeq(z, 1, a) = SubSeq(x, 1, a)
      BY <3>1, SubSeqOfConcat1
    <3> QED
      BY <3>2, SubSeqFull
  <2> QED
    BY <2>1, <2>2
<1>3. SubSeq(z, a + 1, a + b) = y
  <2>1. CASE b = 0
    <3>1. a + 1 \in Int /\ a + b \in Int /\ a + b < a + 1
      BY <1>1, <2>1
    <3>2. SubSeq(z, a + 1, a + b) = <<>>
      BY <3>1, SubSeqEmpty
    <3>3. y = <<>>
      BY <2>1, EmptySeq
    <3> QED
      BY <3>2, <3>3
  <2>2. CASE b # 0
    <3>1. a + 1 \in Len(x) + 1..Len(x) + Len(y) /\ a + b \in Len(x) + 1..Len(x) + Len(y)
      BY <1>1, <2>2
    <3>2. SubSeq(z, a + 1, a + b) = SubSeq(y, a + 1 - Len(x), a + b - Len(x))
      BY <3>1, SubSeqOfConcat2
    <3>3. a + 1 - Len(x) = 1 /\ a + b - Len(x) = Len(y)
      BY <1>1
    <3>4. SubSeq(z, a + 1, a + b) = SubSeq(y, 1, Len(y))
      BY <3>2, <3>3
    <3> QED
      BY <3>4, SubSeqFull
  <2> QED
    BY <2>1, <2>2
<1> QED
  BY <1>1, <1>2, <1>3

\* What of a text is before a place.
UpTill(t, q) == IF q <= Len(t) THEN q ELSE Len(t)

\* The spans that are not left, which start at q or later, have been put in; the rest ends there.
PutInFrom(t, list, left, now, q) ==
  /\ q \in 0..Len(t) + 1
  /\ \A i \in left : list[i].from < q /\ list[i].to <= q
  /\ \A i \in DOMAIN list \ left : q <= list[i].from
  /\ now = SubSeq(t, 1, UpTill(t, q)) \o Onward(t, list, q)

\* Where no span starts and only what comes first is covered, the text stays.
Stretch(t, list, a, b, q) ==
  /\ a \in Nat /\ b \in a..UpTill(t, q) /\ q \in a + 1..Len(t) + 1
  /\ \A c \in a + 1..q - 1 : NewAt(list, c) = <<>>
  /\ \A c \in a + 1..UpTill(t, q) : Covered(list, c) <=> c <= b

LEMMA StretchStays ==
  ASSUME NEW t \in Seq(Nat), NEW list \in Seq(Edit), NEW a, NEW b, NEW q, Stretch(t, list, a, b, q)
  PROVE  Beyond(t, list, a) = SubSeq(t, b + 1, UpTill(t, q)) \o Onward(t, list, q)
<1> DEFINE L == Len(t)
           m == UpTill(t, q)
           first(c) == IF b <= c THEN c ELSE b
           end == Onward(t, list, q)
           Good == {d \in 0..q - 1 - a : Beyond(t, list, q - 1 - d) = SubSeq(t, first(q - 1 - d) + 1, m) \o end}
<1>1. /\ L \in Nat /\ m = IF q <= L THEN q ELSE L
  BY DEF UpTill
<1>2. /\ a \in Nat /\ b \in a..m /\ q \in a + 1..L + 1
      /\ \A c \in a + 1..q - 1 : NewAt(list, c) = <<>>
      /\ \A c \in a + 1..m : Covered(list, c) <=> c <= b
  BY DEF Stretch
<1>3. end \in Seq(Nat)
  BY <1>2, OnwardIs
<1>4. \A c \in 1..L + 1 : Kept(t, list, c) = IF c <= L /\ ~Covered(list, c) THEN <<t[c]>> ELSE <<>>
  BY DEF Kept
<1>5. \A c \in 1..L : t[c] \in Nat
  OBVIOUS
<1>6. \A c \in 0..L : Onward(t, list, c) = NewAt(list, c) \o Beyond(t, list, c) /\ Beyond(t, list, c) \in Seq(Nat)
  BY OnwardIs
<1>7. \A c : Beyond(t, list, c) = Kept(t, list, c + 1) \o Onward(t, list, c + 1)
  BY DEF Beyond
<1>8. \A x \in 1..L + 1, y \in Int : y < x => SubSeq(t, x, y) = <<>>
  BY SubSeqEmpty
<1>9. \A x \in 1..L : \A y \in x..L : SubSeq(t, x, y) = <<t[x]>> \o SubSeq(t, x + 1, y)
  BY SubSeqRecursiveFirst
<1>10. \A x \in 1..L + 1, y \in 0..L : SubSeq(t, x, y) \in Seq(Nat)
  <2> SUFFICES ASSUME NEW x \in 1..L + 1, NEW y \in 0..L PROVE SubSeq(t, x, y) \in Seq(Nat)
    OBVIOUS
  <2>1. x \in Int /\ y \in Int /\ \A i \in x..y : t[i] \in Nat
    BY <1>1, <1>5
  <2> QED
    BY <2>1, SubSeqProperties
<1>11. <<>> \o end = end
  BY <1>3, ConcatEmptySeq
<1> HIDE DEF L, m, end
<1>12. 0 \in Good
  <2> DEFINE c == q - 1
  <2>1. c \in a..L /\ c + 1 = q /\ c + 1 \in a + 1..L + 1
    BY <1>1, <1>2
  <2>2. Beyond(t, list, c) = Kept(t, list, q) \o end
    BY <1>7, <2>1 DEF end
  <2>3. Kept(t, list, q) = SubSeq(t, first(c) + 1, m)
    <3>1. CASE q <= L /\ b < q
      <4>1. m = q /\ first(c) = c /\ q \in a + 1..m /\ q \in 1..L + 1 /\ q \in 1..L /\ q \in q..L /\ q + 1 \in 1..L + 1
        BY <1>1, <1>2, <2>1, <3>1
      <4>2. Kept(t, list, q) = <<t[q]>>
        BY <1>2, <1>4, <3>1, <4>1
      <4>3. SubSeq(t, q, q) = <<t[q]>> \o SubSeq(t, q + 1, q)
        BY <1>9, <4>1
      <4>4. SubSeq(t, q + 1, q) = <<>>
        BY <1>8, <4>1
      <4>5. <<t[q]>> \in Seq(Nat)
        BY <1>5, <4>1
      <4>6. <<t[q]>> \o <<>> = <<t[q]>>
        BY <4>5, ConcatEmptySeq
      <4> QED
        BY <2>1, <4>1, <4>2, <4>3, <4>4, <4>6
    <3>2. CASE q <= L /\ ~(b < q)
      <4>1. m = q /\ b = q /\ first(c) = q /\ q \in a + 1..m /\ q \in 1..L + 1 /\ q + 1 \in 1..L + 1
        BY <1>1, <1>2, <2>1, <3>2
      <4>2. Kept(t, list, q) = <<>>
        BY <1>2, <1>4, <3>2, <4>1
      <4>3. SubSeq(t, q + 1, q) = <<>>
        BY <1>8, <4>1
      <4> QED
        BY <4>1, <4>2, <4>3
    <3>3. CASE ~(q <= L)
      <4>1. m = L /\ q = L + 1 /\ c = L /\ first(c) = L /\ q \in 1..L + 1 /\ L \in Int /\ L < q
        BY <1>1, <1>2, <2>1, <3>3
      <4>2. Kept(t, list, q) = <<>>
        BY <1>4, <3>3, <4>1
      <4>3. SubSeq(t, q, L) = <<>>
        BY <1>8, <4>1
      <4> QED
        BY <4>1, <4>2, <4>3
    <3> QED
      BY <3>1, <3>2, <3>3
  <2>4. q - 1 - 0 = c /\ 0 \in 0..q - 1 - a
    BY <1>2
  <2> HIDE DEF c, first
  <2> QED
    BY <2>2, <2>3, <2>4
<1>13. ASSUME NEW d \in 1..q - 1 - a, d - 1 \in Good PROVE d \in Good
  <2> DEFINE c == q - 1 - d
  <2>1. /\ c \in a..L - 1 /\ c + 1 = q - 1 - (d - 1) /\ c + 1 \in a + 1..q - 1 /\ c + 1 \in a + 1..m
        /\ c + 1 \in 1..L /\ c + 1 \in 1..L + 1 /\ c + 1 \in 0..L /\ d \in 0..q - 1 - a /\ c + 2 \in 1..L + 1
        /\ m \in 0..L
    BY <1>1, <1>2
  <2>2. Beyond(t, list, c + 1) = SubSeq(t, first(c + 1) + 1, m) \o end
    BY <1>13, <2>1
  <2>3. Beyond(t, list, c) = Kept(t, list, c + 1) \o Onward(t, list, c + 1)
    BY <1>7
  <2>4. Onward(t, list, c + 1) = Beyond(t, list, c + 1)
    <3>1. Onward(t, list, c + 1) = <<>> \o Beyond(t, list, c + 1)
      BY <1>2, <1>6, <2>1
    <3> QED
      BY <1>6, <2>1, <3>1, ConcatEmptySeq
  <2>5. Beyond(t, list, c) = SubSeq(t, first(c) + 1, m) \o end
    <3>1. CASE c + 1 <= b
      <4>1. first(c) = b /\ first(c + 1) = b
        BY <1>2, <2>1, <3>1
      <4>2. Kept(t, list, c + 1) = <<>>
        BY <1>2, <1>4, <2>1, <3>1
      <4>3. Beyond(t, list, c) = <<>> \o Beyond(t, list, c + 1)
        BY <2>3, <2>4, <4>2
      <4>4. Beyond(t, list, c) = Beyond(t, list, c + 1)
        BY <1>6, <2>1, <4>3, ConcatEmptySeq
      <4> QED
        BY <2>2, <4>1, <4>4
    <3>2. CASE ~(c + 1 <= b)
      <4>1. first(c) = c /\ first(c + 1) = c + 1 /\ m \in c + 1..L /\ (c + 1) + 1 = c + 2
        BY <1>1, <1>2, <2>1, <3>2
      <4>2. Kept(t, list, c + 1) = <<t[c + 1]>>
        BY <1>2, <1>4, <2>1, <3>2
      <4>7. first(c + 1) + 1 = c + 2
        BY <4>1
      <4>8. SubSeq(t, first(c + 1) + 1, m) = SubSeq(t, c + 2, m)
        <5> HIDE DEF first
        <5> QED
          BY <4>7
      <4>3. Beyond(t, list, c) = <<t[c + 1]>> \o (SubSeq(t, c + 2, m) \o end)
        <5>1. Beyond(t, list, c + 1) = SubSeq(t, c + 2, m) \o end
          BY <2>2, <4>8
        <5> HIDE DEF first, c
        <5> QED
          BY <2>3, <2>4, <4>2, <5>1
      <4>4. <<t[c + 1]>> \in Seq(Nat) /\ SubSeq(t, c + 2, m) \in Seq(Nat)
        BY <1>5, <1>10, <2>1
      <4>5. Beyond(t, list, c) = (<<t[c + 1]>> \o SubSeq(t, c + 2, m)) \o end
        <5> DEFINE x == <<t[c + 1]>>
                   y == SubSeq(t, c + 2, m)
        <5>1. x \in Seq(Nat) /\ y \in Seq(Nat) /\ Beyond(t, list, c) = x \o (y \o end)
          BY <4>3, <4>4
        <5> HIDE DEF x, y, c
        <5>2. Beyond(t, list, c) = (x \o y) \o end
          BY <1>3, <5>1, InTurn
        <5> QED
          BY <5>2 DEF x, y
      <4>6. SubSeq(t, c + 1, m) = <<t[c + 1]>> \o SubSeq(t, c + 2, m)
        BY <1>9, <2>1, <4>1
      <4> QED
        BY <4>1, <4>5, <4>6
    <3> QED
      BY <3>1, <3>2
  <2> HIDE DEF first
  <2> QED
    BY <2>1, <2>5
<1>14. q - 1 - a \in Nat /\ q - 1 - (q - 1 - a) = a /\ first(a) = b
  BY <1>2
<1>15. 0..q - 1 - a \subseteq Good
  <2> HIDE DEF Good
  <2> QED
    BY <1>12, <1>13, <1>14, UpTo
<1>16. q - 1 - a \in 0..q - 1 - a
  BY <1>14
<1>17. q - 1 - a \in Good
  <2> HIDE DEF Good
  <2> QED
    BY <1>15, <1>16
<1> HIDE DEF first
<1> QED
  BY <1>14, <1>17 DEF m, end

\* A splice at the last span that is left.
LEMMA SplicedIs ==
  ASSUME NEW t \in Seq(Nat), NEW list, InPlace(t, list), NEW left \in SUBSET DOMAIN list, left # {},
         NEW now, NEW q, PutInFrom(t, list, left, now, q)
  PROVE  LET n == LastLeft(list, left) IN
         n \in left /\ PutInFrom(t, list, left \ {n}, Spliced(now, list[n]), list[n].from)
<1> DEFINE L == Len(t)
           n == LastLeft(list, left)
           e == list[n]
           a == e.from
           b == e.to
           m == UpTill(t, q)
           end == Onward(t, list, q)
<1>1. L \in Nat /\ m = IF q <= L THEN q ELSE L
  BY DEF UpTill
<1>2. \A i \in DOMAIN list : /\ list[i] \in Edit /\ list[i].from \in Nat /\ list[i].to \in Nat /\ list[i].new \in Seq(Nat)
                             /\ list[i].from <= list[i].to /\ list[i].to <= L
  <2> SUFFICES ASSUME NEW i \in DOMAIN list
               PROVE  /\ list[i] \in Edit /\ list[i].from \in Nat /\ list[i].to \in Nat /\ list[i].new \in Seq(Nat)
                      /\ list[i].from <= list[i].to /\ list[i].to <= L
    OBVIOUS
  <2>1. list[i] \in Edit
    BY DEF InPlace
  <2> QED
    BY <2>1 DEF InPlace, Edit
<1>3. \A i, j \in DOMAIN list : i # j =>
        /\ list[i].to <= list[j].from \/ list[j].to <= list[i].from
        /\ list[i].from # list[j].from
  BY DEF InPlace, Clear
<1>4. n \in left /\ \A i \in left : i # n => list[i].from < a
  <2> DEFINE S == {L - list[i].from : i \in left}
  <2>1. S \in SUBSET Nat /\ S # {}
    <3>1. \A i \in left : L - list[i].from \in Nat
      BY <1>1, <1>2
    <3> QED
      BY <3>1
  <2> HIDE DEF S
  <2>2. PICK s \in S : \A r \in S : s <= r
    BY <2>1, LeastOf
  <2>3. PICK k \in left : s = L - list[k].from
    BY <2>2 DEF S
  <2>4. \A i \in left : L - list[k].from <= L - list[i].from
    BY <2>2, <2>3 DEF S
  <2>5. \A i \in left : list[i].from <= list[k].from
    BY <1>1, <1>2, <2>4
  <2>6. \A i \in left : list[i].from < list[k].from \/ (list[i].from = list[k].from /\ k <= i)
    <3> SUFFICES ASSUME NEW i \in left
                 PROVE  list[i].from < list[k].from \/ (list[i].from = list[k].from /\ k <= i)
      OBVIOUS
    <3>1. i \in DOMAIN list /\ k \in DOMAIN list /\ k \in Nat
      BY DEF InPlace
    <3>2. CASE i = k
      BY <3>1, <3>2
    <3>3. CASE i # k
      BY <1>2, <1>3, <2>5, <3>1, <3>3
    <3> QED
      BY <3>2, <3>3
  <2>7. n \in left /\ \A i \in left : list[i].from < list[n].from \/ (list[i].from = list[n].from /\ n <= i)
    BY <2>6 DEF LastLeft
  <2> HIDE DEF n
  <2> QED
    BY <1>3, <2>7
<1> HIDE DEF n
<1>5. n \in DOMAIN list /\ a \in Nat /\ b \in Nat /\ e.new \in Seq(Nat) /\ a <= b /\ b <= L
  BY <1>2, <1>4
<1>6. /\ q \in 0..L + 1 /\ a < q /\ b <= q
      /\ \A i \in left : list[i].from < q /\ list[i].to <= q
      /\ \A i \in DOMAIN list \ left : q <= list[i].from
      /\ now = SubSeq(t, 1, m) \o end
  BY <1>4 DEF PutInFrom
<1>7. m \in 0..L /\ a \in 0..m /\ b \in a..m /\ q \in a + 1..L + 1 /\ m <= q
  BY <1>1, <1>5, <1>6
<1>8. Stretch(t, list, a, b, q)
  <2>1. ASSUME NEW c \in a + 1..q - 1 PROVE NewAt(list, c) = <<>>
    <3>1. ASSUME NEW i \in DOMAIN list, list[i].from = c PROVE FALSE
      <4>0. c < q /\ a < c
        BY <1>7
      <4>1. list[i].from < q /\ a < list[i].from
        BY <3>1, <4>0
      <4>2. i \in left
        BY <1>2, <1>6, <1>7, <4>1
      <4>3. list[i].from \in Nat /\ a \in Nat
        BY <1>2, <1>5
      <4>4. CASE i = n
        BY <4>1, <4>3, <4>4
      <4>5. CASE i # n
        <5>1. list[i].from < a
          BY <1>4, <4>2, <4>5
        <5> QED
          BY <4>1, <4>3, <5>1
      <4> QED
        BY <4>4, <4>5
    <3> QED
      BY <3>1 DEF NewAt
  <2>2. ASSUME NEW c \in a + 1..m PROVE Covered(list, c) <=> c <= b
    <3>0. c \in Nat /\ a < c /\ c <= q
      BY <1>7
    <3>1. c <= b => Covered(list, c)
      BY <1>5, <3>0 DEF Covered
    <3>2. ASSUME NEW i \in DOMAIN list, list[i].from < c, c <= list[i].to, ~(c <= b) PROVE FALSE
      <4>1. i \in left
        BY <1>2, <1>6, <3>0, <3>2
      <4>2. i # n
        BY <3>2
      <4>3. list[i].from < a
        BY <1>4, <4>1, <4>2
      <4>4. list[i].to <= a
        BY <1>2, <1>3, <1>5, <4>2, <4>3
      <4> QED
        BY <1>2, <1>5, <3>0, <3>2, <4>4
    <3> QED
      BY <3>1, <3>2 DEF Covered
  <2> QED
    BY <1>7, <2>1, <2>2 DEF Stretch
<1>9. Beyond(t, list, a) = SubSeq(t, b + 1, m) \o end
  <2>1. list \in Seq(Edit)
    BY DEF InPlace
  <2> QED
    BY <1>8, <2>1, StretchStays
<1>10. Onward(t, list, a) = e.new \o (SubSeq(t, b + 1, m) \o end)
  <2>1. list \in Seq(Edit) /\ a \in 0..Len(t)
    BY <1>5 DEF InPlace
  <2>2. Onward(t, list, a) = NewAt(list, a) \o Beyond(t, list, a)
    BY <2>1, OnwardIs
  <2>3. NewAt(list, a) = e.new
    <3> DEFINE i == CHOOSE i \in DOMAIN list : list[i].from = a
    <3>1. i \in DOMAIN list /\ list[i].from = a
      BY <1>5
    <3> HIDE DEF i
    <3>2. i = n
      BY <1>3, <1>5, <3>1
    <3>3. NewAt(list, a) = list[i].new
      BY <1>5 DEF NewAt, i
    <3> QED
      BY <3>2, <3>3
  <2> QED
    BY <1>9, <2>2, <2>3
<1>11. \A x \in 1..L + 1, y \in 0..L : SubSeq(t, x, y) \in Seq(Nat) /\ Len(SubSeq(t, x, y)) = IF x <= y THEN y - x + 1 ELSE 0
  <2> SUFFICES ASSUME NEW x \in 1..L + 1, NEW y \in 0..L
               PROVE  SubSeq(t, x, y) \in Seq(Nat) /\ Len(SubSeq(t, x, y)) = IF x <= y THEN y - x + 1 ELSE 0
    OBVIOUS
  <2>1. x \in Int /\ y \in Int /\ \A i \in x..y : t[i] \in Nat
    OBVIOUS
  <2> QED
    BY <2>1, SubSeqProperties
<1>12. end \in Seq(Nat)
  <2>1. list \in Seq(Edit) /\ q \in 0..Len(t) + 1
    BY <1>6 DEF InPlace
  <2> QED
    BY <2>1, OnwardIs
<1>13. ASSUME NEW k \in 0..m
       PROVE  /\ SubSeq(now, 1, k) = SubSeq(t, 1, k)
              /\ SubSeq(now, k + 1, Len(now)) = SubSeq(t, k + 1, m) \o end
  <2> DEFINE x == SubSeq(t, 1, k)
             y == SubSeq(t, k + 1, m)
  <2>1. k \in 0..L /\ m \in 0..L /\ 1 \in 1..L + 1 /\ k + 1 \in 1..L + 1
    BY <1>1, <1>7
  <2>2. x \in Seq(Nat) /\ y \in Seq(Nat) /\ Len(x) = k
    BY <1>11, <2>1
  <2>3. x \o y = SubSeq(t, 1, m)
    <3>1. 1 \in 1..Len(t) + 1 /\ k \in 1 - 1..Len(t) /\ m \in k..Len(t)
      BY <1>1, <1>7
    <3> QED
      BY <3>1, ConcatAdjacentSubSeq
  <2>4. now = x \o (y \o end)
    <3>1. now = (x \o y) \o end
      BY <1>6, <2>3
    <3> HIDE DEF x, y, end
    <3> QED
      BY <1>12, <2>2, <3>1, ConcatAssociative
  <2>5. y \o end \in Seq(Nat)
    BY <1>12, <2>2, ConcatProperties
  <2> HIDE DEF x, y, end
  <2>6. SubSeq(now, 1, Len(x)) = x /\ SubSeq(now, Len(x) + 1, Len(now)) = y \o end
    BY <2>2, <2>4, <2>5, Halves
  <2> QED
    BY <2>2, <2>6 DEF x, y
<1>14. Spliced(now, e) = SubSeq(t, 1, a) \o Onward(t, list, a)
  <2>1. SubSeq(now, 1, a) = SubSeq(t, 1, a)
    BY <1>7, <1>13
  <2>2. b \in 0..m
    BY <1>5, <1>7
  <2>3. SubSeq(now, b + 1, Len(now)) = SubSeq(t, b + 1, m) \o end
    BY <1>13, <2>2
  <2>4. Spliced(now, e) = (SubSeq(t, 1, a) \o e.new) \o (SubSeq(t, b + 1, m) \o end)
    BY <2>1, <2>3 DEF Spliced
  <2>5. 1 \in 1..L + 1 /\ b + 1 \in 1..L + 1 /\ a \in 0..L /\ m \in 0..L
    BY <1>1, <1>5, <1>7
  <2>6. SubSeq(t, 1, a) \in Seq(Nat) /\ SubSeq(t, b + 1, m) \in Seq(Nat)
    BY <1>11, <2>5
  <2>7. SubSeq(t, b + 1, m) \o end \in Seq(Nat)
    BY <1>12, <2>6, ConcatProperties
  <2> DEFINE x == SubSeq(t, 1, a)
             y == e.new
             z == SubSeq(t, b + 1, m) \o end
  <2>8. (x \o y) \o z = x \o (y \o z)
    <3>1. x \in Seq(Nat) /\ y \in Seq(Nat) /\ z \in Seq(Nat)
      BY <1>5, <2>6, <2>7
    <3> HIDE DEF x, y, z
    <3> QED
      BY <3>1, InTurn
  <2> QED
    BY <1>10, <2>4, <2>8
<1>15. a \in 0..L + 1 /\ UpTill(t, a) = a
  BY <1>1, <1>5 DEF UpTill
<1>16. ASSUME NEW i \in left \ {n} PROVE list[i].from < a /\ list[i].to <= a
  <2>1. i \in DOMAIN list /\ i # n /\ list[i].from < a
    BY <1>4
  <2> QED
    BY <1>2, <1>3, <1>5, <2>1
<1>17. ASSUME NEW i \in DOMAIN list \ (left \ {n}) PROVE a <= list[i].from
  <2>1. CASE i = n
    BY <1>5, <2>1
  <2>2. CASE i # n
    <3>1. q <= list[i].from
      BY <1>6, <1>17, <2>2
    <3> QED
      BY <1>2, <1>5, <1>6, <1>17, <3>1
  <2> QED
    BY <2>1, <2>2
<1>18. PutInFrom(t, list, left \ {n}, Spliced(now, e), a)
  BY <1>14, <1>15, <1>16, <1>17 DEF PutInFrom
<1> QED
  BY <1>4, <1>18 DEF n

\* When no span is left, the text is what was intended of it.
LEMMA PutInIsAll ==
  ASSUME NEW t \in Seq(Nat), NEW list, InPlace(t, list), NEW now, NEW q, PutInFrom(t, list, {}, now, q)
  PROVE  now = AsIntended(t, list)
<1> DEFINE L == Len(t)
           m == UpTill(t, q)
<1>0. list \in Seq(Edit)
  BY DEF InPlace
<1>1. L \in Nat /\ (m = IF q <= L THEN q ELSE L) /\ q \in 0..L + 1 /\ 0 \in 0..Len(t) /\ m \in 0..L
  BY DEF UpTill, PutInFrom
<1>2. now = SubSeq(t, 1, m) \o Onward(t, list, q) /\ \A i \in DOMAIN list : q <= list[i].from
  BY DEF PutInFrom
<1>3. \A i \in DOMAIN list : list[i].from \in Nat
  <2>1. \A i \in DOMAIN list : list[i] \in Edit
    BY <1>0
  <2> QED
    BY <2>1 DEF Edit
<1>4. AsIntended(t, list) = Onward(t, list, 0)
  BY <1>1 DEF AsIntended, Onward
<1>5. now = Onward(t, list, 0)
  <2>1. CASE q = 0
    <3>1. SubSeq(t, 1, m) = <<>>
      <4>1. 1 \in Int /\ m \in Int /\ m < 1
        BY <1>1, <2>1
      <4> QED
        BY <4>1, SubSeqEmpty
    <3>2. Onward(t, list, 0) \in Seq(Nat)
      <4>1. 0 \in 0..Len(t) + 1
        BY <1>1
      <4> QED
        BY <1>0, <4>1, OnwardIs
    <3> QED
      BY <1>2, <2>1, <3>1, <3>2, ConcatEmptySeq
  <2>2. CASE q # 0
    <3>1. Stretch(t, list, 0, 0, q)
      <4>1. 0 \in Nat /\ 0 \in 0..m /\ q \in 0 + 1..L + 1 /\ \A c \in 0 + 1..m : c <= q /\ ~(c <= 0)
        BY <1>1, <2>2
      <4>2. \A c \in 0 + 1..q - 1 : c < q /\ c \in Nat
        BY <1>1
      <4>3. \A c \in 0 + 1..q - 1 : NewAt(list, c) = <<>>
        BY <1>1, <1>2, <1>3, <4>2 DEF NewAt
      <4>4. \A c \in 0 + 1..m : ~Covered(list, c)
        <5> SUFFICES ASSUME NEW c \in 0 + 1..m, NEW i \in DOMAIN list, list[i].from < c PROVE FALSE
          BY DEF Covered
        <5> QED
          BY <1>1, <1>2, <1>3, <4>1
      <4> QED
        BY <4>1, <4>3, <4>4 DEF Stretch
    <3>2. Beyond(t, list, 0) = SubSeq(t, 0 + 1, m) \o Onward(t, list, q)
      BY <1>0, <3>1, StretchStays
    <3>3. Onward(t, list, 0) = NewAt(list, 0) \o Beyond(t, list, 0) /\ Beyond(t, list, 0) \in Seq(Nat)
      BY <1>0, <1>1, OnwardIs
    <3>4. NewAt(list, 0) = <<>>
      <4>1. \A i \in DOMAIN list : list[i].from # 0
        BY <1>1, <1>2, <1>3, <2>2
      <4> QED
        BY <4>1 DEF NewAt
    <3>5. Onward(t, list, 0) = Beyond(t, list, 0)
      BY <3>3, <3>4, ConcatEmptySeq
    <3>6. 0 + 1 = 1
      OBVIOUS
    <3> QED
      BY <1>2, <3>2, <3>5, <3>6
  <2> QED
    BY <2>1, <2>2
<1> QED
  BY <1>4, <1>5

-----------------------------------------------------------------------------
\* All splices.

\* One more.
NextOf(list, p) ==
  LET n == LastLeft(list, p.left) IN [text |-> Spliced(p.text, list[n]), left |-> p.left \ {n}]

Splices(t, list, n, f) ==
  f = [k \in 0..n |-> IF k = 0 THEN [text |-> t, left |-> DOMAIN list] ELSE NextOf(list, f[k - 1])]

\* The splices of a list exist.
LEMMA SplicesExist ==
  ASSUME NEW t, NEW list, NEW N \in Nat
  PROVE  \E f : Splices(t, list, N, f)
<1> DEFINE Good == {n \in 0..N : \E f : Splices(t, list, n, f)}
           start == [text |-> t, left |-> DOMAIN list]
<1>1. 0 \in Good
  <2>1. Splices(t, list, 0, [k \in 0..0 |-> start])
    BY DEF Splices
  <2> QED
    BY <2>1
<1>2. ASSUME NEW n \in 1..N, n - 1 \in Good PROVE n \in Good
  <2>1. PICK f : Splices(t, list, n - 1, f)
    BY <1>2
  <2> DEFINE g == [k \in 0..n |-> IF k = n THEN NextOf(list, f[n - 1]) ELSE f[k]]
  <2>2. \A k \in 0..n - 1 : g[k] = f[k]
    OBVIOUS
  <2>3. \A k \in 0..n : g[k] = IF k = 0 THEN start ELSE NextOf(list, g[k - 1])
    <3> SUFFICES ASSUME NEW k \in 0..n
                 PROVE  g[k] = IF k = 0 THEN start ELSE NextOf(list, g[k - 1])
      OBVIOUS
    <3>1. CASE k = n
      BY <2>2, <3>1
    <3>2. CASE k # n
      <4>1. k \in 0..n - 1 /\ (k # 0 => k - 1 \in 0..n - 1)
        BY <3>2
      <4>2. f[k] = IF k = 0 THEN start ELSE NextOf(list, f[k - 1])
        BY <2>1, <4>1 DEF Splices
      <4> HIDE DEF g
      <4> QED
        BY <2>2, <4>1, <4>2
    <3> QED
      BY <3>1, <3>2
  <2>4. g = [k \in 0..n |-> g[k]]
    OBVIOUS
  <2> HIDE DEF g
  <2>5. Splices(t, list, n, g)
    BY <2>3, <2>4 DEF Splices
  <2> QED
    BY <2>5
<1>3. 0..N \subseteq Good
  <2> HIDE DEF Good
  <2> QED
    BY <1>1, <1>2, UpTo
<1> QED
  BY <1>3

\* And are the passes.
LEMMA PassesAre ==
  ASSUME NEW t, NEW list \in Seq(Edit)
  PROVE  Splices(t, list, Len(list), Passes(t, list))
<1> DEFINE Entire(f) == f = [k \in 0..Len(list) |->
              IF k = 0 THEN [text |-> t, left |-> DOMAIN list]
              ELSE LET n == LastLeft(list, f[k - 1].left) IN
                   [text |-> Spliced(f[k - 1].text, list[n]), left |-> f[k - 1].left \ {n}]]
<1>1. \E f : Entire(f)
  <2>1. Len(list) \in Nat
    OBVIOUS
  <2>2. \E f : Splices(t, list, Len(list), f)
    BY <2>1, SplicesExist
  <2> QED
    BY <2>2 DEF Splices, NextOf
<1>2. Passes(t, list) = CHOOSE f : Entire(f)
  BY DEF Passes
<1>3. Entire(Passes(t, list))
  BY <1>1, <1>2
<1> QED
  BY <1>3 DEF Splices, NextOf

\* After k splices k spans have been put in.
PutIn(t, list, k, p) ==
  /\ p.left \in SUBSET DOMAIN list /\ Cardinality(p.left) = Len(list) - k
  /\ \E q : PutInFrom(t, list, p.left, p.text, q)

\* So the splices yield what was intended.
LEMMA AllLand ==
  ASSUME NEW t \in Seq(Nat), NEW list, InPlace(t, list)
  PROVE  Passes(t, list)[Len(list)].text = AsIntended(t, list)
<1> DEFINE N == Len(list)
           f == Passes(t, list)
           Good == {k \in 0..N : PutIn(t, list, k, f[k])}
<1>1. list \in Seq(Edit) /\ N \in Nat /\ DOMAIN list = 1..N
  BY DEF InPlace
<1>2. \A k \in 0..N : f[k] = IF k = 0 THEN [text |-> t, left |-> DOMAIN list] ELSE NextOf(list, f[k - 1])
  <2>1. Splices(t, list, N, f)
    BY <1>1, PassesAre
  <2> HIDE DEF f, N
  <2> QED
    BY <2>1 DEF Splices
<1> HIDE DEF N, f
<1>3. 0 \in Good
  <2>0. 0 \in 0..N
    BY <1>1
  <2>1. f[0] = [text |-> t, left |-> DOMAIN list]
    BY <1>2, <2>0
  <2>2. f[0].text = t /\ f[0].left = DOMAIN list
    BY <2>1
  <2>3. Cardinality(DOMAIN list) = N - 0
    <3>1. Cardinality(1..N) = IF 1 > N THEN 0 ELSE N - 1 + 1
      BY <1>1, FS_Interval
    <3> QED
      BY <1>1, <3>1
  <2>4. PutInFrom(t, list, DOMAIN list, t, Len(t) + 1)
    <3> DEFINE L == Len(t)
               q == L + 1
    <3>1. L \in Nat /\ q \in 0..L + 1 /\ ~(q <= L)
      OBVIOUS
    <3>2. SubSeq(t, 1, L) = t /\ Onward(t, list, q) = <<>> /\ t \o <<>> = t
      BY <1>1, SubSeqFull, OnwardIs, ConcatEmptySeq
    <3>3. \A i \in DOMAIN list : /\ list[i].from \in Nat /\ list[i].to \in Nat
                                 /\ list[i].from <= list[i].to /\ list[i].to <= L
      <4>1. \A i \in DOMAIN list : list[i] \in Edit
        BY <1>1
      <4> QED
        BY <4>1 DEF InPlace, Edit
    <3> HIDE DEF L
    <3>4. \A i \in DOMAIN list : list[i].from < q /\ list[i].to <= q
      BY <3>1, <3>3
    <3>5. UpTill(t, q) = L
      BY <3>1 DEF UpTill, L
    <3>6. t = SubSeq(t, 1, UpTill(t, q)) \o Onward(t, list, q)
      BY <3>2, <3>5
    <3> HIDE DEF q
    <3>7. PutInFrom(t, list, DOMAIN list, t, q)
      BY <3>1, <3>4, <3>6 DEF PutInFrom, L
    <3> QED
      BY <3>7 DEF q, L
  <2> QED
    BY <2>0, <2>2, <2>3, <2>4 DEF PutIn, N
<1>4. ASSUME NEW k \in 1..N, k - 1 \in Good PROVE k \in Good
  <2> DEFINE p == f[k - 1]
             n == LastLeft(list, p.left)
  <2>1. k \in 0..N /\ k # 0 /\ f[k] = NextOf(list, p)
    BY <1>1, <1>2
  <2>2. p.left \in SUBSET DOMAIN list /\ Cardinality(p.left) = N - (k - 1)
    BY <1>4 DEF PutIn, N
  <2>3. PICK q : PutInFrom(t, list, p.left, p.text, q)
    BY <1>4 DEF PutIn
  <2>4. f[k].text = Spliced(p.text, list[n]) /\ f[k].left = p.left \ {n}
    BY <2>1 DEF NextOf
  <2> HIDE DEF p
  <2>5. p.left # {} /\ IsFiniteSet(p.left)
    <3>1. IsFiniteSet(DOMAIN list)
      BY <1>1, FS_Interval
    <3>2. IsFiniteSet(p.left)
      BY <2>2, <3>1, FS_Subset
    <3>3. Cardinality(p.left) # 0
      BY <1>1, <2>2
    <3> QED
      BY <3>2, <3>3, FS_EmptySet
  <2>6. n \in p.left /\ PutInFrom(t, list, p.left \ {n}, Spliced(p.text, list[n]), list[n].from)
    BY <2>2, <2>3, <2>5, SplicedIs
  <2>7. Cardinality(p.left \ {n}) = N - k
    <3>1. Cardinality(p.left \ {n}) = Cardinality(p.left) - 1
      BY <2>5, <2>6, FS_RemoveElement
    <3> QED
      BY <1>1, <2>2, <3>1
  <2> HIDE DEF n
  <2> QED
    BY <2>1, <2>2, <2>4, <2>6, <2>7 DEF PutIn, N
<1>5. N \in Good
  <2>1. 0..N \subseteq Good
    <3> HIDE DEF Good
    <3> QED
      BY <1>1, <1>3, <1>4, UpTo
  <2>2. N \in 0..N
    BY <1>1
  <2> HIDE DEF Good
  <2> QED
    BY <2>1, <2>2
<1>6. f[N].left \in SUBSET DOMAIN list /\ Cardinality(f[N].left) = N - N
  BY <1>5 DEF PutIn, N
<1>7. PICK q : PutInFrom(t, list, f[N].left, f[N].text, q)
  BY <1>5 DEF PutIn
<1>8. f[N].left = {}
  <2>0. IsFiniteSet(DOMAIN list)
    BY <1>1, FS_Interval
  <2>1. IsFiniteSet(f[N].left)
    BY <1>6, <2>0, FS_Subset
  <2>2. Cardinality(f[N].left) = 0
    BY <1>1, <1>6
  <2> QED
    BY <2>1, <2>2, FS_EmptySet
<1>9. f[N].text = AsIntended(t, list)
  BY <1>7, <1>8, PutInIsAll
<1> QED
  BY <1>9 DEF f, N

-----------------------------------------------------------------------------
\* The spans of a server's edits lie within the text, and clear of each other.
LEMMA SpansFit ==
  ASSUME NEW list \in EditLists, Cardinality(Starts(Spans(list))) = Len(list)
  PROVE  InPlace(Before, Spans(list))
<1> DEFINE N == Len(list)
           spans == Spans(list)
           L == Len(Before)
<1>1. /\ list \in Seq(Edit) /\ N \in Nat /\ L \in Nat /\ DOMAIN list = 1..N
      /\ \A i \in 1..N : list[i] \in Edit /\ list[i].from <= list[i].to
      /\ \A i, j \in 1..N : i # j => Clear(list[i], list[j])
  BY EditsAssumption
<1>2. \A i \in 1..N : list[i].from \in Nat /\ list[i].to \in Nat /\ list[i].new \in Seq(Nat)
  BY <1>1 DEF Edit
<1>3. \A n : Offset(n) = IF n > L THEN L ELSE n
  BY DEF Offset
<1> HIDE DEF L
<1>4. \A n \in Nat : Offset(n) \in Nat /\ Offset(n) <= L
  BY <1>1, <1>3
<1>5. \A m, n \in Nat : m <= n => Offset(m) <= Offset(n)
  BY <1>1, <1>3
<1>6. DOMAIN spans = 1..N /\ \A i \in 1..N :
        /\ spans[i] \in Edit /\ spans[i].from = Offset(list[i].from) /\ spans[i].to = Offset(list[i].to)
  <2>1. spans = [i \in 1..N |-> [list[i] EXCEPT !.from = Offset(@), !.to = Offset(@)]]
    BY <1>1 DEF Spans
  <2>2. ASSUME NEW i \in 1..N
        PROVE  spans[i] \in Edit /\ spans[i].from = Offset(list[i].from) /\ spans[i].to = Offset(list[i].to)
    <3>1. spans[i] = [list[i] EXCEPT !.from = Offset(@), !.to = Offset(@)]
      BY <2>1
    <3>2. list[i] \in Edit /\ Offset(list[i].from) \in Nat /\ Offset(list[i].to) \in Nat
      BY <1>1, <1>2, <1>4
    <3> HIDE DEF spans
    <3> QED
      BY <3>1, <3>2 DEF Edit
  <2> HIDE DEF spans
  <2> QED
    BY <2>1, <2>2
<1>7. spans \in Seq(Edit)
  <2>1. spans = [i \in 1..N |-> spans[i]]
    <3>1. spans = [i \in 1..N |-> [list[i] EXCEPT !.from = Offset(@), !.to = Offset(@)]]
      BY <1>1 DEF Spans
    <3> QED
      BY <3>1
  <2> HIDE DEF spans, N
  <2> QED
    BY <1>1, <1>6, <2>1
<1>8. ASSUME NEW i \in 1..N, NEW j \in 1..N, i # j PROVE Clear(spans[i], spans[j])
  <2>1. list[i].to <= list[j].from \/ list[j].to <= list[i].from
    BY <1>1, <1>8 DEF Clear
  <2> HIDE DEF spans
  <2> QED
    BY <1>2, <1>5, <1>6, <2>1 DEF Clear
<1>9. ASSUME NEW i \in 1..N, NEW j \in 1..N, i # j, spans[i].from = spans[j].from PROVE FALSE
  <2> DEFINE S == (1..N) \ {j}
             F == [k \in S |-> spans[k].from]
             T == Starts(spans)
  <2>1. T = {spans[k].from : k \in 1..N}
    BY <1>6 DEF Starts
  <2>2. IsFiniteSet(S) /\ Cardinality(S) = N - 1
    <3>1. IsFiniteSet(1..N) /\ Cardinality(1..N) = N
      <4>1. IsFiniteSet(1..N) /\ Cardinality(1..N) = IF 1 > N THEN 0 ELSE N - 1 + 1
        BY <1>1, FS_Interval
      <4> QED
        BY <1>1, <4>1
    <3> HIDE DEF N
    <3> QED
      BY <3>1, FS_RemoveElement
  <2>3. F \in Surjection(S, T)
    <3> HIDE DEF spans
    <3>1. \A k \in S : F[k] \in {spans[h].from : h \in 1..N}
      OBVIOUS
    <3>2. \A x \in {spans[h].from : h \in 1..N} : \E k \in S : F[k] = x
      <4> SUFFICES ASSUME NEW h \in 1..N PROVE \E k \in S : F[k] = spans[h].from
        OBVIOUS
      <4>1. CASE h = j
        <5>1. i \in S /\ F[i] = spans[h].from
          BY <1>9, <4>1
        <5> QED
          BY <5>1
      <4>2. CASE h # j
        <5>1. h \in S /\ F[h] = spans[h].from
          BY <4>2
        <5> QED
          BY <5>1
      <4> QED
        BY <4>1, <4>2
    <3>3. F \in [S -> T]
      BY <2>1, <3>1
    <3> HIDE DEF F, S
    <3> QED
      BY <2>1, <3>2, <3>3 DEF Surjection
  <2> HIDE DEF F, S
  <2>3a. IsFiniteSet(T) /\ Cardinality(T) <= Cardinality(S)
    BY <2>2, <2>3, FS_Surjection
  <2> QED
    BY <1>1, <2>2, <2>3a
<1> HIDE DEF spans
<1>10. \A i \in 1..N : spans[i].from <= spans[i].to /\ spans[i].to <= Len(Before)
  BY <1>1, <1>2, <1>4, <1>5, <1>6 DEF L
<1>11. InPlace(Before, spans)
  BY <1>6, <1>7, <1>8, <1>9, <1>10 DEF InPlace
<1> QED
  BY <1>11 DEF spans

\* A document has the text it had, or the edits are applied to that; a file is taken up once.
EditsInv ==
  /\ sent \in [Documents -> EditLists]
  /\ text \in [Documents -> {Before} \cup {ApplyTextEdits(Before, list) : list \in EditLists}]
  /\ \A d \in Documents : /\ text[d] \in {Before, ApplyTextEdits(Before, sent[d])}
                          /\ d \notin applied => text[d] = Before

(***************************************************************************)
(* Edits that start at different places all land where the server meant    *)
(* them, for any text and any lists of edits that do not overlap: in a     *)
(* document that was read the new texts stand in place of the old, in one  *)
(* that was not nothing has changed (apply_workspace_edit).                *)
(***************************************************************************)
THEOREM EditsDoLand == EditsSpec => []EditsLand
<1>1. EditsInit => EditsInv
  BY DEF EditsInit, EditsInv
<1>2. EditsInv /\ [EditsNext]_editsVars => EditsInv'
  <2> SUFFICES ASSUME EditsInv, [EditsNext]_editsVars PROVE EditsInv'
    OBVIOUS
  <2> USE DEF EditsInv
  <2>1. CASE UNCHANGED editsVars
    BY <2>1 DEF editsVars
  <2>2. ASSUME NEW d \in Documents, ApplyDocument(d) PROVE EditsInv'
    <3>1. d \notin applied /\ applied' = applied \cup {d} /\ sent' = sent /\ text[d] = Before
      BY <2>2 DEF ApplyDocument
    <3>2. text' = text \/ text' = [text EXCEPT ![d] = ApplyTextEdits(Before, sent[d])]
      BY <2>2, <3>1 DEF ApplyDocument
    <3>3. sent[d] \in EditLists
      OBVIOUS
    <3> QED
      BY <3>1, <3>2, <3>3
  <2> QED
    BY <2>1, <2>2 DEF EditsNext
<1>3. EditsInv => EditsLand
  <2> SUFFICES ASSUME EditsInv, NEW d \in Documents, Cardinality(Starts(Spans(sent[d]))) = Len(sent[d])
               PROVE  text[d] \in {Before, AsIntended(Before, Spans(sent[d]))}
    BY DEF EditsLand
  <2>1. sent[d] \in EditLists /\ text[d] \in {Before, ApplyTextEdits(Before, sent[d])}
    BY DEF EditsInv
  <2>2. InPlace(Before, Spans(sent[d])) /\ Before \in Seq(Nat)
    BY <2>1, SpansFit, EditsAssumption
  <2>3. Len(Spans(sent[d])) = Len(sent[d])
    <3>1. sent[d] \in Seq(Edit) /\ Spans(sent[d]) \in Seq(Edit)
      BY <2>1, <2>2, EditsAssumption DEF InPlace
    <3>2. DOMAIN Spans(sent[d]) = DOMAIN sent[d]
      BY DEF Spans
    <3> QED
      BY <3>1, <3>2
  <2>4. ApplyTextEdits(Before, sent[d]) = AsIntended(Before, Spans(sent[d]))
    BY <2>2, <2>3, AllLand DEF ApplyTextEdits
  <2> QED
    BY <2>1, <2>4
<1> QED
  BY <1>1, <1>2, <1>3, PTL DEF EditsSpec

(***************************************************************************)
(* The lsp skill tells what the servers say as they say it, and makes their*)
(* edits, for any servers, files and edits (lsp.py).                       *)
(***************************************************************************)
THEOREM LspIsSound == ToolSpec => []LspSound
BY ServersAreToldRight, EditsDoLand, PTL DEF ToolSpec, LspSound

-----------------------------------------------------------------------------
\* The memories of agents.

-----------------------------------------------------------------------------
\* The fold.

\* The lessons after one lesson more.
More(out, lesson) == IF Known(out, lesson) THEN out ELSE Append(out, lesson)

TextsIn(lessons, texts, n, f) ==
  f = [k \in 0..n |-> IF k = 0 THEN lessons ELSE More(f[k - 1], texts[k])]

\* The passes over the texts exist.
LEMMA TextsInExist ==
  ASSUME NEW lessons, NEW texts, NEW N \in Nat
  PROVE  \E f : TextsIn(lessons, texts, N, f)
<1> DEFINE Good == {n \in 0..N : \E f : TextsIn(lessons, texts, n, f)}
<1>1. 0 \in Good
  <2>1. TextsIn(lessons, texts, 0, [k \in 0..0 |-> lessons])
    BY DEF TextsIn
  <2> QED
    BY <2>1
<1>2. ASSUME NEW n \in 1..N, n - 1 \in Good PROVE n \in Good
  <2>1. PICK f : TextsIn(lessons, texts, n - 1, f)
    BY <1>2
  <2> DEFINE g == [k \in 0..n |-> IF k = n THEN More(f[n - 1], texts[n]) ELSE f[k]]
  <2>2. \A k \in 0..n - 1 : g[k] = f[k]
    OBVIOUS
  <2>3. \A k \in 0..n : g[k] = IF k = 0 THEN lessons ELSE More(g[k - 1], texts[k])
    <3> SUFFICES ASSUME NEW k \in 0..n
                 PROVE  g[k] = IF k = 0 THEN lessons ELSE More(g[k - 1], texts[k])
      OBVIOUS
    <3>1. CASE k = n
      BY <2>2, <3>1
    <3>2. CASE k # n
      <4>1. k \in 0..n - 1 /\ (k # 0 => k - 1 \in 0..n - 1)
        BY <3>2
      <4>2. f[k] = IF k = 0 THEN lessons ELSE More(f[k - 1], texts[k])
        BY <2>1, <4>1 DEF TextsIn
      <4> HIDE DEF g
      <4> QED
        BY <2>2, <4>1, <4>2
    <3> QED
      BY <3>1, <3>2
  <2>4. g = [k \in 0..n |-> g[k]]
    OBVIOUS
  <2> HIDE DEF g
  <2>5. TextsIn(lessons, texts, n, g)
    BY <2>3, <2>4 DEF TextsIn
  <2> QED
    BY <2>5
<1>3. 0..N \subseteq Good
  <2> HIDE DEF Good
  <2> QED
    BY <1>1, <1>2, UpTo
<1> QED
  BY <1>3

\* And are what the fold computes.
LEMMA DedupedIs ==
  ASSUME NEW lessons, NEW S, NEW texts \in Seq(S)
  PROVE  TextsIn(lessons, texts, Len(texts), Deduped(lessons, texts))
<1>1. \E f : f = [n \in 0..Len(texts) |->
                    IF n = 0 THEN lessons
                    ELSE IF Known(f[n - 1], texts[n]) THEN f[n - 1] ELSE Append(f[n - 1], texts[n])]
  <2>0. Len(texts) \in Nat
    OBVIOUS
  <2>1. PICK f : TextsIn(lessons, texts, Len(texts), f)
    BY <2>0, TextsInExist
  <2> QED
    BY <2>1 DEF TextsIn, More
<1>2. Deduped(lessons, texts) = [n \in 0..Len(texts) |->
         IF n = 0 THEN lessons
         ELSE IF Known(Deduped(lessons, texts)[n - 1], texts[n]) THEN Deduped(lessons, texts)[n - 1]
         ELSE Append(Deduped(lessons, texts)[n - 1], texts[n])]
  BY <1>1 DEF Deduped
<1> QED
  BY <1>2 DEF TextsIn, More

\* No two of the lessons are similar.
Apart(s) == \A i, j \in DOMAIN s : i # j => ~Similar(s[i], s[j])

\* What has become of the lessons after the first n texts.
Grown(lessons, texts, n, out) ==
  /\ Len(out) >= Len(lessons) /\ \A i \in DOMAIN lessons : out[i] = lessons[i]
  /\ Apart(lessons) => Apart(out)
  /\ Len(out) > Len(lessons) =>
       \E i \in 1..n : ~Known(lessons, texts[i]) /\ out[Len(out)] = texts[i]
  /\ Len(out) = Len(lessons) => \A i \in 1..n : Known(lessons, texts[i])

\* A lesson more is appended if it is similar to none.
LEMMA MoreGrown ==
  ASSUME NEW S, NEW lessons \in Seq(S), NEW texts \in Seq(S), NEW n \in 1..Len(texts), NEW out \in Seq(S),
         Grown(lessons, texts, n - 1, out)
  PROVE  More(out, texts[n]) \in Seq(S) /\ Grown(lessons, texts, n, More(out, texts[n]))
<1> DEFINE lesson == texts[n]
<1>0. lesson \in S
  OBVIOUS
<1>1. Known(lessons, lesson) => Known(out, lesson)
  <2> SUFFICES ASSUME NEW i \in DOMAIN lessons, Similar(lessons[i], lesson) PROVE Known(out, lesson)
    BY DEF Known
  <2>1. i \in DOMAIN out /\ out[i] = lessons[i]
    BY DEF Grown
  <2> QED
    BY <2>1 DEF Known
<1>2. CASE Known(out, lesson)
  <2>1. More(out, lesson) = out
    BY <1>2 DEF More
  <2>2. Len(out) > Len(lessons) \/ Known(lessons, lesson)
    <3> SUFFICES ASSUME Len(out) = Len(lessons) PROVE Known(lessons, lesson)
      BY DEF Grown
    <3>1. PICK i \in DOMAIN out : Similar(out[i], lesson)
      BY <1>2 DEF Known
    <3>2. i \in DOMAIN lessons /\ out[i] = lessons[i]
      BY DEF Grown
    <3> QED
      BY <3>1, <3>2 DEF Known
  <2>3. Len(out) = Len(lessons) => \A i \in 1..n : Known(lessons, texts[i])
    <3> SUFFICES ASSUME Len(out) = Len(lessons), NEW i \in 1..n PROVE Known(lessons, texts[i])
      OBVIOUS
    <3>1. i \in 1..n - 1 \/ i = n
      OBVIOUS
    <3> QED
      BY <2>2, <3>1 DEF Grown
  <2>4. Len(out) > Len(lessons) =>
          \E i \in 1..n : ~Known(lessons, texts[i]) /\ out[Len(out)] = texts[i]
    BY DEF Grown
  <2> QED
    BY <2>1, <2>3, <2>4 DEF Grown
<1>3. CASE ~Known(out, lesson)
  <2> DEFINE new == Append(out, lesson)
  <2>1. More(out, lesson) = new
    BY <1>3 DEF More
  <2>2. /\ new \in Seq(S) /\ Len(new) = Len(out) + 1 /\ new[Len(new)] = lesson
        /\ \A i \in DOMAIN out : i \in DOMAIN new /\ new[i] = out[i]
        /\ \A i \in DOMAIN new : i \in DOMAIN out \/ i = Len(new)
    BY <1>0
  <2> HIDE DEF new
  <2>3. ASSUME Apart(out), NEW i \in DOMAIN new, NEW j \in DOMAIN new, i # j PROVE ~Similar(new[i], new[j])
    <3>1. \A k \in DOMAIN out : ~Similar(new[k], lesson) /\ ~Similar(lesson, new[k])
      BY <1>3, <2>2 DEF Known, Similar
    <3> QED
      BY <2>2, <2>3, <3>1 DEF Apart
  <2>4. Apart(lessons) => Apart(new)
    BY <2>3 DEF Apart, Grown
  <2>5. \A i \in DOMAIN lessons : new[i] = lessons[i]
    BY <2>2 DEF Grown
  <2>6. ~Known(lessons, texts[n]) /\ new[Len(new)] = texts[n] /\ n \in 1..n
    BY <1>1, <1>3, <2>2
  <2> QED
    BY <2>1, <2>2, <2>4, <2>5, <2>6 DEF Grown
<1> QED
  BY <1>2, <1>3

\* So what the fold computes has grown by all the texts.
LEMMA DedupeGrows ==
  ASSUME NEW S, NEW lessons \in Seq(S), NEW texts \in Seq(S)
  PROVE  /\ DedupeAppend(lessons, texts) \in Seq(S)
         /\ Grown(lessons, texts, Len(texts), DedupeAppend(lessons, texts))
<1> DEFINE out == Deduped(lessons, texts)
           Good == {n \in 0..Len(texts) : out[n] \in Seq(S) /\ Grown(lessons, texts, n, out[n])}
<1>1. out = [k \in 0..Len(texts) |-> IF k = 0 THEN lessons ELSE More(out[k - 1], texts[k])]
  BY DedupedIs DEF TextsIn
<1> HIDE DEF out
<1>2. Len(texts) \in Nat
  OBVIOUS
<1>3. 0 \in Good
  <2>1. out[0] = lessons
    BY <1>1, <1>2
  <2> QED
    BY <1>2, <2>1 DEF Grown, Apart
<1>4. ASSUME NEW n \in 1..Len(texts), n - 1 \in Good PROVE n \in Good
  <2>1. out[n] = More(out[n - 1], texts[n])
    BY <1>1, <1>2
  <2> QED
    BY <1>4, <2>1, MoreGrown
<1>5. 0..Len(texts) \subseteq Good
  <2> HIDE DEF Good
  <2> QED
    BY <1>2, <1>3, <1>4, UpTo
<1>6. Len(texts) \in Good
  BY <1>2, <1>5
<1> QED
  BY <1>6 DEF out, DedupeAppend

\* What a commit writes: within the cap, without a lesson twice; its last unknown lesson is
\* there, and what is missing of the old list are the first of it.
LEMMA FoldIs ==
  ASSUME NEW S, NEW lessons \in Seq(S), NEW texts \in Seq(S), Folded(lessons)
  PROVE  LET new == FoldStaged(lessons, texts) IN
         /\ new \in Seq(S) /\ Folded(new)
         /\ (\E i \in DOMAIN texts : ~Known(lessons, texts[i])) =>
              \E i \in DOMAIN texts : ~Known(lessons, texts[i]) /\ texts[i] \in ToSet(new)
         /\ \E dropped \in 0..Len(lessons) :
              /\ IsPrefix(SubSeq(lessons, dropped + 1, Len(lessons)), new)
              /\ dropped > 0 => Len(new) = Cap
<1> DEFINE all == DedupeAppend(lessons, texts)
           new == CapLessons(all)
           first == IF Len(all) <= Cap THEN 0 ELSE Len(all) - Cap
<1>1. all \in Seq(S) /\ Grown(lessons, texts, Len(texts), all)
  BY DedupeGrows
<1> HIDE DEF all
<1>2. Cap \in Nat \ {0} /\ Len(all) \in Nat /\ Len(lessons) \in Nat /\ Len(texts) \in Nat
  BY <1>1, AgentMemoryAssumption
<1>3. /\ new \in Seq(S) /\ Len(new) = Len(all) - first /\ first \in 0..Len(all)
      /\ \A i \in 1..Len(new) : new[i] = all[first + i]
      /\ Len(new) <= Cap /\ (first > 0 => Len(new) = Cap)
      /\ (Len(all) > 0 => Len(new) > 0)
  <2>1. CASE Len(all) <= Cap
    BY <1>1, <1>2, <2>1 DEF CapLessons
  <2>2. CASE Len(all) > Cap
    <3>1. new = SubSeq(all, Len(all) - Cap + 1, Len(all)) /\ first = Len(all) - Cap
      BY <1>2, <2>2 DEF CapLessons
    <3> HIDE DEF new, first
    <3>2. first \in 1..Len(all) /\ first + 1 \in 1..Len(all) + 1
      BY <1>2, <2>2, <3>1
    <3>3. /\ SubSeq(all, first + 1, Len(all)) \in Seq(S) /\ Len(SubSeq(all, first + 1, Len(all))) = Len(all) - first
          /\ \A i \in 1..Len(all) - first : SubSeq(all, first + 1, Len(all))[i] = all[first + i]
      BY <1>1, <1>2, <3>2
    <3> QED
      BY <1>2, <2>2, <3>1, <3>2, <3>3
  <2> QED
    BY <1>2, <2>1, <2>2
<1> HIDE DEF new, first
<1>4. Apart(all)
  BY <1>1 DEF Grown, Folded, Apart
<1>5. Folded(new)
  <2>0. DOMAIN new = 1..Len(new)
    BY <1>3
  <2> SUFFICES ASSUME NEW i \in 1..Len(new), NEW j \in 1..Len(new), i # j PROVE ~Similar(new[i], new[j])
    BY <1>3, <2>0 DEF Folded
  <2>1. first + i \in DOMAIN all /\ first + j \in DOMAIN all /\ first + i # first + j
    BY <1>1, <1>2, <1>3
  <2> QED
    BY <1>3, <1>4, <2>1 DEF Apart
<1>6. ASSUME NEW k \in DOMAIN texts, ~Known(lessons, texts[k])
      PROVE  \E i \in DOMAIN texts : ~Known(lessons, texts[i]) /\ texts[i] \in ToSet(new)
  <2>1. Len(all) > Len(lessons)
    BY <1>1, <1>2, <1>6 DEF Grown
  <2>2. PICK i \in 1..Len(texts) : ~Known(lessons, texts[i]) /\ all[Len(all)] = texts[i]
    BY <1>1, <2>1 DEF Grown
  <2>3. Len(new) \in 1..Len(new) /\ first + Len(new) = Len(all)
    BY <1>2, <1>3, <2>1
  <2>4. new[Len(new)] = texts[i]
    BY <1>3, <2>2, <2>3
  <2>5. texts[i] \in ToSet(new)
    BY <1>3, <2>3, <2>4 DEF ToSet
  <2> QED
    BY <2>2, <2>5
<1>7. \E dropped \in 0..Len(lessons) :
        /\ IsPrefix(SubSeq(lessons, dropped + 1, Len(lessons)), new)
        /\ dropped > 0 => Len(new) = Cap
  <2> DEFINE dropped == IF first <= Len(lessons) THEN first ELSE Len(lessons)
             left == SubSeq(lessons, dropped + 1, Len(lessons))
  <2>1. dropped \in 0..Len(lessons) /\ (dropped > 0 => first > 0)
    BY <1>2, <1>3
  <2>2. /\ Len(left) = Len(lessons) - dropped /\ left \in Seq(S)
        /\ \A i \in 1..Len(left) : left[i] = lessons[dropped + i]
    <3> HIDE DEF dropped
    <3> QED
      BY <1>2, <2>1
  <2>3. Len(left) <= Len(new) /\ \A i \in 1..Len(left) : left[i] = new[i]
    <3>1. Len(all) >= Len(lessons)
      BY <1>1 DEF Grown
    <3>2. CASE first <= Len(lessons)
      <4>1. dropped = first
        BY <3>2
      <4> HIDE DEF dropped, left
      <4>2. Len(left) <= Len(new)
        BY <1>2, <1>3, <2>1, <2>2, <3>1, <4>1
      <4>3. ASSUME NEW i \in 1..Len(left) PROVE left[i] = new[i]
        <5>1. first + i \in DOMAIN lessons /\ i \in 1..Len(new)
          BY <1>2, <1>3, <2>1, <2>2, <4>1, <4>2
        <5>2. all[first + i] = lessons[first + i]
          BY <1>1, <5>1 DEF Grown
        <5> QED
          BY <1>3, <2>2, <4>1, <5>1, <5>2
      <4> QED
        BY <4>2, <4>3
    <3>3. CASE ~(first <= Len(lessons))
      <4>1. dropped = Len(lessons)
        BY <3>3
      <4> HIDE DEF dropped, left
      <4>2. Len(left) = 0
        BY <1>2, <2>2, <4>1
      <4> QED
        BY <1>2, <1>3, <4>2
    <3> QED
      BY <3>2, <3>3
  <2>4. IsPrefix(left, new)
    <3> HIDE DEF left
    <3>1. left = SubSeq(new, 1, Len(left))
      BY <1>3, <2>2, <2>3
    <3> QED
      BY <1>3, <2>2, <2>3, <3>1 DEF IsPrefix
  <2> HIDE DEF dropped, left
  <2>5. IsPrefix(SubSeq(lessons, dropped + 1, Len(lessons)), new)
    BY <2>4 DEF left
  <2> QED
    BY <1>3, <2>1, <2>5
<1> QED
  BY <1>3, <1>5, <1>6, <1>7 DEF new, all, FoldStaged
-----------------------------------------------------------------------------
\* The file.

Texts == Seq(Lessons)

\* What one writer is at: it has read the memory as it is, and writes to the sibling.
AtIt(w) ==
  /\ writer[w].before = ReadMemory
  /\ writer[w].at = "opened" => tmp # 0 /\ writer[w].fd = tmp /\ data[tmp] = <<>>
  /\ writer[w].at = "written" => tmp # 0 /\ writer[w].fd = tmp /\ data[tmp] = After(w)

\* Until one has begun while another was under way, one writer is at work, the sibling is
\* not the memory, and the memory is a list that was folded.
MemoryInv ==
  ~overlapped =>
    /\ data \in Seq(Texts) /\ memory \in 1..Len(data) /\ tmp \in 0..Len(data) /\ tmp # memory
    /\ Folded(ReadMemory)
    /\ writer \in [Writers -> [at : {"rest", "read", "opened", "written"}, before : Texts, texts : Texts,
                               fd : Nat]]
    /\ \A w \in Writers : writer[w].at # "rest" => AtIt(w) /\ \A v \in Writers : writer[v].at # "rest" => v = w

\* Before the first commit the memory is empty.
LEMMA MemoryInvInit == MemoryInit => MemoryInv
<1> SUFFICES ASSUME MemoryInit PROVE MemoryInv
  OBVIOUS
<1>1. <<>> \in Texts /\ << <<>> >> \in Seq(Texts) /\ Len(<< <<>> >>) = 1 /\ << <<>> >>[1] = <<>>
  BY DEF Texts
<1>2. Folded(<<>>)
  BY AgentMemoryAssumption DEF Folded
<1> QED
  BY <1>1, <1>2 DEF MemoryInit, MemoryInv, AtRest, ReadMemory

\* What a commit writes is a list of lessons.
LEMMA AfterIs ==
  ASSUME MemoryInv, ~overlapped, NEW w \in Writers, writer[w].at # "rest"
  PROVE  /\ After(w) \in Texts /\ Folded(After(w))
         /\ Unknown(w) # {} => \E i \in Unknown(w) : writer[w].texts[i] \in ToSet(After(w))
         /\ \E dropped \in 0..Len(ReadMemory) :
              /\ IsPrefix(SubSeq(ReadMemory, dropped + 1, Len(ReadMemory)), After(w))
              /\ dropped > 0 => Len(After(w)) = Cap
<1> DEFINE before == writer[w].before
           texts == writer[w].texts
<1>1. before \in Seq(Lessons) /\ texts \in Seq(Lessons) /\ before = ReadMemory /\ Folded(before)
  BY DEF MemoryInv, AtIt, Texts
<1>2. Unknown(w) = {i \in DOMAIN texts : ~Known(before, texts[i])} /\ After(w) = FoldStaged(before, texts)
  BY DEF Unknown, After
<1> HIDE DEF before, texts
<1> DEFINE new == FoldStaged(before, texts)
<1>3. /\ new \in Seq(Lessons) /\ Folded(new)
      /\ (\E i \in DOMAIN texts : ~Known(before, texts[i])) =>
           \E i \in DOMAIN texts : ~Known(before, texts[i]) /\ texts[i] \in ToSet(new)
      /\ \E dropped \in 0..Len(before) :
           /\ IsPrefix(SubSeq(before, dropped + 1, Len(before)), new)
           /\ dropped > 0 => Len(new) = Cap
  BY <1>1, FoldIs
<1> HIDE DEF new
<1>4. After(w) = new
  BY <1>2 DEF new
<1>5. Unknown(w) # {} => \E i \in Unknown(w) : texts[i] \in ToSet(new)
  BY <1>2, <1>3
<1> QED
  BY <1>1, <1>3, <1>4, <1>5 DEF Texts, texts

\* What is written from the start of an empty inode is what is in it.
LEMMA WrittenIs ==
  ASSUME NEW new \in Texts
  PROVE  Overwritten(<<>>, new) = new
BY DEF Overwritten, Texts

\* Part of a list of lessons is one.
LEMMA UnfinishedIs ==
  ASSUME NEW w \in Writers, After(w) \in Texts, NEW part \in Unfinished(w)
  PROVE  part \in Texts
<1>1. PICK k \in 0..Len(After(w)) - 1 : part = SubSeq(After(w), 1, k)
  BY DEF Unfinished
<1>2. After(w) \in Seq(Lessons) /\ k \in Nat /\ k <= Len(After(w))
  BY <1>1 DEF Texts
<1> QED
  BY <1>1, <1>2 DEF Texts

\* A step of the writer that is at work, which leaves the memory alone.
LEMMA OneWrites ==
  ASSUME MemoryInv, ~overlapped, NEW w \in Writers, writer[w].at # "rest",
         NEW me \in [at : {"rest", "read", "opened", "written"}, before : Texts, texts : Texts, fd : Nat],
         writer' = [writer EXCEPT ![w] = me], UNCHANGED overlapped,
         data' \in Seq(Texts), memory' = memory, Len(data') >= Len(data), data'[memory] = data[memory],
         tmp' \in 0..Len(data'), tmp' # memory,
         me.at # "rest" =>
           /\ me.before = ReadMemory
           /\ me.at = "opened" => tmp' # 0 /\ me.fd = tmp' /\ data'[tmp'] = <<>>
           /\ me.at = "written" => tmp' # 0 /\ me.fd = tmp' /\ data'[tmp'] = FoldStaged(me.before, me.texts)
  PROVE  MemoryInv'
<1>1. writer'[w] = me /\ \A v \in Writers : v # w => writer'[v] = writer[v] /\ writer[v].at = "rest"
  BY DEF MemoryInv
<1>2. memory' \in 1..Len(data') /\ ReadMemory' = ReadMemory
  BY DEF MemoryInv, ReadMemory
<1>3. me.at # "rest" => AtIt(w)'
  BY <1>1, <1>2 DEF AtIt, After
<1>4. writer' \in [Writers -> [at : {"rest", "read", "opened", "written"}, before : Texts, texts : Texts,
                               fd : Nat]]
  BY DEF MemoryInv
<1> QED
  BY <1>1, <1>2, <1>3, <1>4 DEF MemoryInv

\* A commit begins.
LEMMA BeginFoldKeeps ==
  ASSUME MemoryInv, NEW w \in Writers, BeginFold(w)
  PROVE  MemoryInv'
<1> SUFFICES ASSUME ~overlapped' PROVE MemoryInv'
  BY DEF MemoryInv
<1>1. ~overlapped /\ \A v \in Writers : writer[v].at = "rest"
  BY DEF BeginFold
<1>2. PICK texts \in Batches :
        writer' = [writer EXCEPT ![w] = [at |-> "read", before |-> ReadMemory, texts |-> texts, fd |-> 0]]
  BY DEF BeginFold
<1>3. texts \in Texts
  <2>1. PICK n \in 1..MaxBatch : texts \in [1..n -> Lessons]
    BY DEF Batches
  <2> QED
    BY <2>1, AgentMemoryAssumption DEF Texts
<1>4. UNCHANGED <<data, memory, tmp>> /\ ReadMemory' = ReadMemory /\ ReadMemory \in Texts
  BY <1>1 DEF BeginFold, ReadMemory, MemoryInv
<1>5. writer' \in [Writers -> [at : {"rest", "read", "opened", "written"}, before : Texts, texts : Texts,
                               fd : Nat]]
  BY <1>1, <1>2, <1>3, <1>4 DEF MemoryInv
<1>6. /\ writer'[w] = [at |-> "read", before |-> ReadMemory, texts |-> texts, fd |-> 0]
      /\ \A v \in Writers : v # w => writer'[v] = writer[v]
  BY <1>1, <1>2 DEF MemoryInv
<1>7. AtIt(w)'
  BY <1>4, <1>6 DEF AtIt
<1>8. Folded(ReadMemory')
  BY <1>1, <1>4 DEF MemoryInv
<1> QED
  BY <1>1, <1>4, <1>5, <1>6, <1>7, <1>8 DEF MemoryInv

\* A writer goes on, or stops.
LEMMA WriterKeeps ==
  ASSUME MemoryInv, NEW w \in Writers,
         NothingNew(w) \/ Open(w) \/ Write(w) \/ Rename(w) \/ WriteFails(w) \/ CrashWriter(w)
  PROVE  MemoryInv'
<1> DEFINE Records == [at : {"rest", "read", "opened", "written"}, before : Texts, texts : Texts, fd : Nat]
           Inode == 1..Len(data)
<1> SUFFICES ASSUME ~overlapped PROVE MemoryInv'
  BY DEF NothingNew, Open, Write, Rename, WriteFails, CrashWriter, MemoryInv
<1>1. /\ UNCHANGED overlapped /\ writer[w].at # "rest"
  BY DEF NothingNew, Open, Write, Rename, WriteFails, CrashWriter
<1>2. /\ data \in Seq(Texts) /\ memory \in 1..Len(data) /\ tmp \in 0..Len(data) /\ tmp # memory
      /\ writer[w] \in Records /\ Folded(ReadMemory) /\ AtIt(w)
  BY <1>1 DEF MemoryInv
<1>3. AtRest \in Records /\ <<>> \in Texts
  BY DEF AtRest, Texts
<1>4. After(w) \in Texts /\ Folded(After(w))
  BY <1>1, AfterIs
<1> HIDE DEF Records
\* An inode other than the memory gets what it is given.
<1>5. ASSUME NEW i \in Inode, i # memory, NEW t \in Texts, data' = [data EXCEPT ![i] = t]
      PROVE  data' \in Seq(Texts) /\ Len(data') = Len(data) /\ data'[memory] = data[memory] /\ data'[i] = t
  BY <1>2, <1>5
<1>11. AtRest.at = "rest"
  BY DEF AtRest
<1>12. writer \in [Writers -> Records]
  BY DEF MemoryInv, Records
<1>13. ASSUME NEW i, writer' = [writer EXCEPT ![w].at = "opened", ![w].fd = i]
       PROVE  writer' = [writer EXCEPT ![w] = [writer[w] EXCEPT !.at = "opened", !.fd = i]]
  BY <1>12, <1>13
<1>6. CASE NothingNew(w)
  <2>1. writer' = [writer EXCEPT ![w] = AtRest] /\ data' = data /\ memory' = memory /\ tmp' = tmp
    BY <1>6 DEF NothingNew
  <2>2. Len(data') >= Len(data)
    BY <1>2, <2>1
  <2> QED
    BY <1>1, <1>2, <1>3, <1>11, <2>1, <2>2, OneWrites DEF Records
<1>7. CASE Open(w)
  <2> DEFINE me(i) == [writer[w] EXCEPT !.at = "opened", !.fd = i]
  <2>1. \A i \in Nat : me(i) \in Records /\ me(i).at = "opened" /\ me(i).fd = i /\ me(i).before = ReadMemory
    BY <1>2 DEF Records, AtIt
  <2>2. CASE tmp = 0
    <3> DEFINE new == Len(data) + 1
    <3>3. data' = Append(data, <<>>) /\ tmp' = Len(data') /\ memory' = memory
      BY <1>7, <2>2 DEF Open, OpenSibling
    <3>4. Len(data') = new
      BY <1>2, <1>3, <3>3
    <3>5. writer' = [writer EXCEPT ![w].at = "opened", ![w].fd = Len(data')]
      BY <1>7, <2>2 DEF Open, OpenSibling
    <3>1. /\ data' = Append(data, <<>>) /\ tmp' = new /\ memory' = memory
          /\ writer' = [writer EXCEPT ![w] = me(new)]
      BY <1>13, <3>3, <3>4, <3>5
    <3>2. /\ data' \in Seq(Texts) /\ Len(data') = new /\ data'[memory] = data[memory] /\ data'[new] = <<>>
          /\ new \in Nat /\ new \in 0..new /\ new # memory /\ new # 0 /\ new >= Len(data)
      BY <1>2, <1>3, <3>1
    <3> HIDE DEF me, new
    <3>6. me(new) \in Records /\ me(new).at = "opened" /\ me(new).fd = new /\ me(new).before = ReadMemory
      BY <2>1, <3>2
    <3>7. me(new).at # "written"
      BY <3>6
    <3> QED
      BY <1>1, <1>2, <3>1, <3>2, <3>6, <3>7, OneWrites DEF Records
  <2>3. CASE tmp # 0
    <3>5. writer' = [writer EXCEPT ![w].at = "opened", ![w].fd = tmp]
      BY <1>7, <2>3 DEF Open, OpenSibling
    <3>1. /\ data' = [data EXCEPT ![tmp] = <<>>] /\ tmp' = tmp /\ memory' = memory
          /\ writer' = [writer EXCEPT ![w] = me(tmp)] /\ tmp \in Inode /\ tmp \in Nat
      <4>1. writer' = [writer EXCEPT ![w] = me(tmp)]
        BY <1>13, <3>5
      <4>2. tmp \in Inode /\ tmp \in Nat
        BY <1>2, <2>3
      <4> QED
        BY <1>7, <2>3, <4>1, <4>2 DEF Open, OpenSibling
    <3>2. data' \in Seq(Texts) /\ Len(data') = Len(data) /\ data'[memory] = data[memory] /\ data'[tmp] = <<>>
      BY <1>2, <1>3, <1>5, <3>1
    <3> HIDE DEF me
    <3>3. me(tmp) \in Records /\ me(tmp).at = "opened" /\ me(tmp).fd = tmp /\ me(tmp).before = ReadMemory
      BY <2>1, <3>1
    <3>4. me(tmp).at # "written" /\ Len(data') >= Len(data) /\ tmp' \in 0..Len(data')
      BY <1>2, <3>1, <3>2, <3>3
    <3> QED
      BY <1>1, <1>2, <2>3, <3>1, <3>2, <3>3, <3>4, OneWrites DEF Records
  <2> QED
    BY <2>2, <2>3
<1>8. CASE Write(w)
  <2> DEFINE me == [writer[w] EXCEPT !.at = "written"]
  <2>1. writer[w].at = "opened" /\ tmp # 0 /\ writer[w].fd = tmp /\ data[tmp] = <<>> /\ tmp \in Inode
    BY <1>2, <1>8 DEF Write, AtIt
  <2>2. data' = [data EXCEPT ![tmp] = Overwritten(<<>>, After(w))]
    BY <1>8, <2>1 DEF Write
  <2>3. data' = [data EXCEPT ![tmp] = After(w)]
    BY <1>4, <2>2, WrittenIs
  <2>4. data' \in Seq(Texts) /\ Len(data') = Len(data) /\ data'[memory] = data[memory] /\ data'[tmp] = After(w)
    BY <1>2, <1>4, <1>5, <2>1, <2>3
  <2>5. writer' = [writer EXCEPT ![w] = me] /\ memory' = memory /\ tmp' = tmp
    BY <1>8 DEF Write
  <2>6. /\ me \in Records /\ me.at = "written" /\ me.before = writer[w].before /\ me.texts = writer[w].texts
        /\ me.fd = writer[w].fd
    BY <1>2 DEF Records
  <2> HIDE DEF me
  <2>7. data'[tmp] = FoldStaged(me.before, me.texts) /\ me.before = ReadMemory
    BY <1>2, <2>4, <2>6 DEF After, AtIt
  <2>8. me.at # "opened" /\ Len(data') >= Len(data) /\ tmp' \in 0..Len(data') /\ me.fd = tmp
    BY <1>2, <2>1, <2>4, <2>5, <2>6
  <2> QED
    BY <1>1, <1>2, <2>1, <2>4, <2>5, <2>6, <2>7, <2>8, OneWrites DEF Records
<1>9. CASE Rename(w)
  <2>1. /\ tmp # 0 /\ data[tmp] = After(w) /\ tmp \in Inode /\ memory' = tmp /\ tmp' = 0 /\ data' = data
        /\ writer' = [writer EXCEPT ![w] = AtRest]
    BY <1>2, <1>9 DEF Rename, AtIt
  <2>2. Folded(ReadMemory')
    BY <1>4, <2>1 DEF ReadMemory
  <2>3. writer' \in [Writers -> Records] /\ \A v \in Writers : writer'[v].at = "rest"
    BY <1>1, <1>3, <2>1 DEF MemoryInv, AtRest, Records
  <2> QED
    BY <1>2, <2>1, <2>2, <2>3 DEF MemoryInv, Records
<1>10. CASE WriteFails(w) \/ CrashWriter(w)
  <2>1. /\ writer' = [writer EXCEPT ![w] = AtRest] /\ memory' = memory /\ tmp' \in {0, tmp}
    BY <1>10 DEF WriteFails, CrashWriter
  <2>2. data' \in Seq(Texts) /\ Len(data') = Len(data) /\ data'[memory] = data[memory]
    <3>1. CASE data' = data
      BY <1>2, <3>1
    <3>2. CASE /\ writer[w].at = "opened"
               /\ \E part \in Unfinished(w) : data' = [data EXCEPT ![writer[w].fd] = Overwritten(@, part)]
      <4>1. PICK part \in Unfinished(w) : data' = [data EXCEPT ![writer[w].fd] = Overwritten(data[writer[w].fd], part)]
        BY <3>2
      <4>2. tmp # 0 /\ writer[w].fd = tmp /\ data[tmp] = <<>> /\ tmp \in Inode /\ part \in Texts
        BY <1>2, <1>4, <3>2, UnfinishedIs DEF AtIt
      <4>3. data' = [data EXCEPT ![tmp] = part]
        BY <4>1, <4>2, WrittenIs
      <4> QED
        BY <1>2, <1>5, <4>2, <4>3
    <3> QED
      BY <1>10, <3>1, <3>2 DEF WriteFails, CrashWriter
  <2>3. AtRest.at = "rest"
    BY DEF AtRest
  <2>4. tmp' \in 0..Len(data') /\ tmp' # memory /\ Len(data') >= Len(data)
    BY <1>2, <2>1, <2>2
  <2> QED
    BY <1>1, <1>2, <1>3, <2>1, <2>2, <2>3, <2>4, OneWrites DEF Records
<1> QED
  BY <1>6, <1>7, <1>8, <1>9, <1>10

\* One step of any kind keeps the invariant.
LEMMA MemoryInvStep == MemoryInv /\ [MemoryNext]_memoryVars => MemoryInv'
<1> SUFFICES ASSUME MemoryInv, [MemoryNext]_memoryVars PROVE MemoryInv'
  OBVIOUS
<1>1. CASE UNCHANGED memoryVars
  BY <1>1 DEF memoryVars, MemoryInv, AtIt, ReadMemory, After
<1> QED
  BY <1>1, BeginFoldKeeps, WriterKeeps DEF MemoryNext

\* The memory changes by a commit that is through.
LEMMA MemoryChanges ==
  ASSUME MemoryInv, ~overlapped, [MemoryNext]_memoryVars
  PROVE  \/ ReadMemory' = ReadMemory
         \/ \E w \in Writers : Rename(w) /\ ReadMemory' = After(w) /\ writer[w].at # "rest"
<1>1. CASE UNCHANGED memoryVars
  BY <1>1 DEF memoryVars, ReadMemory
<1>2. ASSUME NEW w \in Writers, BeginFold(w) \/ NothingNew(w) PROVE ReadMemory' = ReadMemory
  BY <1>2 DEF BeginFold, NothingNew, ReadMemory
<1>3. ASSUME NEW w \in Writers, Rename(w) PROVE ReadMemory' = After(w) /\ writer[w].at # "rest"
  <2>1. AtIt(w) /\ writer[w].at = "written"
    BY <1>3 DEF Rename, MemoryInv
  <2> QED
    BY <1>3, <2>1 DEF Rename, AtIt, ReadMemory
<1>4. ASSUME NEW w \in Writers, Open(w) \/ Write(w) \/ WriteFails(w) \/ CrashWriter(w)
      PROVE  ReadMemory' = ReadMemory
  <2>1. /\ AtIt(w) /\ memory' = memory /\ data \in Seq(Texts) /\ memory \in 1..Len(data) /\ tmp # memory
        /\ tmp \in 0..Len(data)
    BY <1>4 DEF Open, Write, WriteFails, CrashWriter, MemoryInv
  <2>2. data'[memory] = data[memory]
    <3>1. CASE Open(w)
      BY <2>1, <3>1 DEF Open, OpenSibling
    <3>2. CASE writer[w].at = "opened" /\ \E t : data' = [data EXCEPT ![writer[w].fd] = t]
      BY <2>1, <3>2 DEF AtIt
    <3>3. CASE data' = data
      BY <3>3
    <3>4. Write(w) \/ WriteFails(w) \/ CrashWriter(w) =>
            data' = data \/ (writer[w].at = "opened" /\ \E t : data' = [data EXCEPT ![writer[w].fd] = t])
      BY DEF Write, WriteFails, CrashWriter
    <3> QED
      BY <1>4, <3>1, <3>2, <3>3, <3>4
  <2> QED
    BY <2>1, <2>2 DEF ReadMemory
<1> QED
  BY <1>1, <1>2, <1>3, <1>4 DEF MemoryNext

\* A commit that is through, or that has nothing new, has taught its lessons.
LEMMA CommitLearns ==
  ASSUME MemoryInv, ~overlapped, NEW w \in Writers, NothingNew(w) \/ Rename(w)
  PROVE  Learns(w)
<1>1. writer[w].at # "rest" /\ AtIt(w)
  BY DEF NothingNew, Rename, MemoryInv
<1>2. ReadMemory' = After(w)
  <2>1. CASE NothingNew(w)
    BY <1>1, <2>1 DEF NothingNew, LessonsChanged, AtIt, ReadMemory
  <2>2. CASE Rename(w)
    BY <1>1, <2>2 DEF Rename, AtIt, ReadMemory
  <2> QED
    BY <2>1, <2>2
<1> QED
  BY <1>1, <1>2, AfterIs DEF Learns

\* memory.ts: for any agents that commit, lessons and cap, whatever fails or crashes: as long as
\* no two commits of an agent overlap, its memory is at all times a list that a commit has
\* folded, complete, within the cap and without a lesson twice, and a commit that is through
\* has taught it the last new lesson and dropped the oldest only.
THEOREM MemoryIsKept == MemorySpec => MemoryKept
<1>1. MemoryInv /\ [MemoryNext]_memoryVars =>
        [~overlapped => /\ Folded(ReadMemory')
                        /\ \/ ReadMemory' = ReadMemory
                           \/ \E w \in Writers : Rename(w) /\ ReadMemory' = After(w)]_memoryVars
  <2> SUFFICES ASSUME MemoryInv, [MemoryNext]_memoryVars, ~overlapped
               PROVE  /\ Folded(ReadMemory')
                      /\ \/ ReadMemory' = ReadMemory
                         \/ \E w \in Writers : Rename(w) /\ ReadMemory' = After(w)
    OBVIOUS
  <2>1. \/ ReadMemory' = ReadMemory
        \/ \E w \in Writers : Rename(w) /\ ReadMemory' = After(w) /\ writer[w].at # "rest"
    BY MemoryChanges
  <2>2. Folded(ReadMemory)
    BY DEF MemoryInv
  <2>3. \A w \in Writers : writer[w].at # "rest" => Folded(After(w))
    BY AfterIs
  <2>4. Folded(ReadMemory')
    BY <2>1, <2>2, <2>3
  <2> QED
    BY <2>1, <2>4
<1>2. MemoryInv /\ [MemoryNext]_memoryVars =>
        [\A w \in Writers : ~overlapped /\ (NothingNew(w) \/ Rename(w)) => Learns(w)]_memoryVars
  BY CommitLearns
<1> QED
  BY <1>1, <1>2, MemoryInvInit, MemoryInvStep, PTL DEF MemorySpec, MemoryKept, MemoryWhole, LessonsLearned

-----------------------------------------------------------------------------
\* What a child streams, and its session.

Pieces == [of : Nat, half : 0..2, kind : Kinds \cup {"break"}]
Events == [of : Nat, kind : Kinds]
Folds == [line : Seq(Pieces), answer : Seq(Nat), error : BOOLEAN, tools : Nat, cost : Nat, dropped : Nat]
Entries == [len : Nat \ {0}, whole : BOOLEAN]

\* The first n events of some kinds.
First(w, kinds, n) == {e \in 1..n : w[e].kind \in kinds}

\* What the fold has of the first n events.
Told(g, w, n) ==
  /\ ToSet(g.answer) = First(w, {"text"}, n)
  /\ \A i, j \in DOMAIN g.answer : i < j => g.answer[i] < g.answer[j]
  /\ g.tools = Cardinality(First(w, {"tool"}, n)) /\ g.cost = Cardinality(First(w, {"turn", "error"}, n))
  /\ g.error <=> \E e \in First(w, {"error"}, n) : \A d \in First(w, {"turn"}, n) : d < e

\* A piece is the h-th of the e-th event; that of an event cut short may be of any kind.
IsPiece(f, e, h, w) ==
  IF h = 3 THEN f = Break
  ELSE f.of = e /\ f.half = h /\ f.kind \in Kinds /\ (e \in DOMAIN w => f.kind = w[e].kind)

\* Of what was written some events are told, the next is begun perhaps, and the rest is in the pipe.
Reading(g, p, w, done) ==
  /\ done \in 0..Len(w) /\ g \in Folds /\ p \in Seq(Pieces) /\ Told(g, w, done)
  /\ Len(g.line) <= 2 /\ \A h \in 1..Len(g.line) : IsPiece(g.line[h], done + 1, h, w)
  /\ \A x \in 1..Len(p), e \in Nat, h \in 1..3 :
       3 * e + h = 3 * done + Len(g.line) + x => IsPiece(p[x], e + 1, h, w)

Total(g, p, done) == 3 * done + Len(g.line) + Len(p)

\* The pipe without its first piece.
Behind(q, p) == q \in Seq(Pieces) /\ Len(q) = Len(p) - 1 /\ \A x \in 1..Len(q) : q[x] = p[x + 1]

\* As much was written, and it is being read.
Reads(g, p, w, total) == \E done \in Nat : Reading(g, p, w, done) /\ Total(g, p, done) = total

\* The lines of a session are whole but for the last.
SessionOK(s) == s \in Seq(Entries) /\ \A i \in 1..Len(s) - 1 : s[i].whole

Unclosed == result.of # child.spawns

\* What an attempt that is not closed has written, as many pieces as there can be.
Pending == IF child.alive THEN {3 * Len(child.wrote)} ELSE 3 * Len(child.wrote) - 1..3 * Len(child.wrote) + 1

StreamInv ==
  /\ child \in [spawns : Nat, events : Nat, alive : BOOLEAN, wrote : Seq(Events)]
  /\ result \in [ok : BOOLEAN, code : {0, 1}, of : Nat] /\ result.of <= child.spawns
  /\ got \in Folds /\ SessionOK(session)
  /\ child.alive => Unclosed
  /\ Unclosed => \E total \in Pending : Reads(got, pipe, child.wrote, total)
  /\ ~Unclosed => pipe = <<>>
  /\ Closed => /\ Told(got, child.wrote, Len(child.wrote))
               /\ result.ok <=> result.code = 0 /\ ~got.error

-----------------------------------------------------------------------------
\* The fold.

\* What a fold is made of, and what it is with one part of it put.
LEMMA FoldParts ==
  ASSUME NEW g \in Folds
  PROVE  /\ g.line \in Seq(Pieces) /\ g.answer \in Seq(Nat) /\ g.error \in BOOLEAN
         /\ g.tools \in Nat /\ g.cost \in Nat /\ g.dropped \in Nat
BY DEF Folds

\* Another line begun.
LEMMA PutLine ==
  ASSUME NEW g \in Folds, NEW l \in Seq(Pieces)
  PROVE  LET h == [g EXCEPT !.line = l] IN
         /\ h \in Folds /\ h.line = l /\ h.answer = g.answer /\ h.error = g.error
         /\ h.tools = g.tools /\ h.cost = g.cost
BY DEF Folds

\* Another answer.
LEMMA PutAnswer ==
  ASSUME NEW g \in Folds, NEW a \in Seq(Nat)
  PROVE  LET h == [g EXCEPT !.answer = a] IN
         /\ h \in Folds /\ h.line = g.line /\ h.answer = a /\ h.error = g.error
         /\ h.tools = g.tools /\ h.cost = g.cost
BY DEF Folds

\* A turn that ended well or not.
LEMMA PutTurn ==
  ASSUME NEW g \in Folds, NEW e \in BOOLEAN, NEW c \in Nat
  PROVE  LET h == [g EXCEPT !.error = e, !.cost = c] IN
         /\ h \in Folds /\ h.line = g.line /\ h.answer = g.answer /\ h.error = e
         /\ h.tools = g.tools /\ h.cost = c
BY DEF Folds

\* A tool call.
LEMMA PutTools ==
  ASSUME NEW g \in Folds, NEW c \in Nat
  PROVE  LET h == [g EXCEPT !.tools = c] IN
         /\ h \in Folds /\ h.line = g.line /\ h.answer = g.answer /\ h.error = g.error
         /\ h.tools = c /\ h.cost = g.cost
BY DEF Folds

\* A line dropped.
LEMMA PutDropped ==
  ASSUME NEW g \in Folds, NEW c \in Nat
  PROVE  LET h == [g EXCEPT !.dropped = c] IN
         /\ h \in Folds /\ h.line = g.line /\ h.answer = g.answer /\ h.error = g.error
         /\ h.tools = g.tools /\ h.cost = g.cost
BY DEF Folds

\* One event more is of some kinds or is not.
LEMMA FirstNext ==
  ASSUME NEW w, NEW kinds, NEW n \in Nat
  PROVE  /\ First(w, kinds, n) \subseteq 1..n
         /\ w[n + 1].kind \in kinds =>
              /\ First(w, kinds, n + 1) = First(w, kinds, n) \cup {n + 1}
              /\ Cardinality(First(w, kinds, n + 1)) = Cardinality(First(w, kinds, n)) + 1
         /\ w[n + 1].kind \notin kinds => First(w, kinds, n + 1) = First(w, kinds, n)
<1>1. First(w, kinds, n) \subseteq 1..n /\ n + 1 \notin First(w, kinds, n)
  BY DEF First
<1>2. IsFiniteSet(First(w, kinds, n))
  <2>1. IsFiniteSet(1..n)
    BY FS_Interval
  <2> QED
    BY <1>1, <2>1, FS_Subset
<1>3. w[n + 1].kind \in kinds => First(w, kinds, n + 1) = First(w, kinds, n) \cup {n + 1}
  BY DEF First
<1>4. w[n + 1].kind \notin kinds => First(w, kinds, n + 1) = First(w, kinds, n)
  BY DEF First
<1> QED
  BY <1>1, <1>2, <1>3, <1>4, FS_AddElement

\* What is told is told by the answer, the error and the counts.
LEMMA ToldSame ==
  ASSUME NEW g, NEW h, NEW w, NEW n, Told(g, w, n),
         h.answer = g.answer, h.error = g.error, h.tools = g.tools, h.cost = g.cost
  PROVE  Told(h, w, n)
BY DEF Told

\* handleSpawnEvent tells one event more.
LEMMA ToldNext ==
  ASSUME NEW w, NEW n \in Nat, NEW g \in Folds, Told(g, w, n),
         NEW l \in Pieces, l.of = n + 1, l.kind \in Kinds, w[n + 1].kind = l.kind
  PROVE  HandleEvent(g, l) \in Folds /\ Told(HandleEvent(g, l), w, n + 1)
<1> DEFINE h == HandleEvent(g, l)
<1>0. \A K : First(w, K, n) \subseteq 1..n
  BY FirstNext
<1>1. \A K : l.kind \in K => /\ First(w, K, n + 1) = First(w, K, n) \cup {n + 1}
                             /\ Cardinality(First(w, K, n + 1)) = Cardinality(First(w, K, n)) + 1
  BY FirstNext
<1>2. \A K : l.kind \notin K => First(w, K, n + 1) = First(w, K, n)
  BY FirstNext
<1> SUFFICES h \in Folds /\ Told(h, w, n + 1)
  OBVIOUS
<1> HIDE DEF h
<1>3. CASE l.kind = "text"
  <2>1. h = [g EXCEPT !.answer = Append(g.answer, n + 1)]
    BY <1>3 DEF HandleEvent, h
  <2>2. /\ h \in Folds /\ h.answer = Append(g.answer, n + 1) /\ h.error = g.error /\ h.tools = g.tools
        /\ h.cost = g.cost /\ g.answer \in Seq(Nat)
    <3>1. g.answer \in Seq(Nat) /\ n + 1 \in Nat
      BY FoldParts
    <3>2. Append(g.answer, n + 1) \in Seq(Nat)
      BY <3>1
    <3> QED
      BY <2>1, <3>1, <3>2, PutAnswer
  <2>3. /\ \A i \in DOMAIN g.answer : i \in DOMAIN h.answer /\ h.answer[i] = g.answer[i]
        /\ Len(h.answer) \in DOMAIN h.answer /\ h.answer[Len(h.answer)] = n + 1
        /\ DOMAIN h.answer = DOMAIN g.answer \cup {Len(h.answer)} /\ DOMAIN g.answer = 1..Len(h.answer) - 1
        /\ Len(h.answer) \in Nat
    BY <2>2
  <2>4. ToSet(h.answer) = ToSet(g.answer) \cup {n + 1}
    BY <2>3 DEF ToSet
  <2>5. \A i \in DOMAIN g.answer : g.answer[i] \in 1..n
    BY <1>0 DEF Told, ToSet
  <2>6. \A i, j \in DOMAIN h.answer : i < j => h.answer[i] < h.answer[j]
    BY <2>3, <2>5 DEF Told
  <2> QED
    BY <1>1, <1>2, <1>3, <2>2, <2>4, <2>6 DEF Told
<1>4. CASE l.kind = "tool"
  <2>1. h = [g EXCEPT !.tools = g.tools + 1]
    BY <1>4 DEF HandleEvent, h
  <2>2. /\ h \in Folds /\ h.answer = g.answer /\ h.error = g.error /\ h.tools = g.tools + 1 /\ h.cost = g.cost
    <3>1. g.tools + 1 \in Nat
      BY FoldParts
    <3> QED
      BY <2>1, <3>1, PutTools
  <2> QED
    BY <1>1, <1>2, <1>4, <2>2 DEF Told
<1>5. CASE l.kind = "turn"
  <2>1. h = [g EXCEPT !.error = FALSE, !.cost = g.cost + 1]
    BY <1>5 DEF HandleEvent, h
  <2>2. /\ h \in Folds /\ h.answer = g.answer /\ h.error = FALSE /\ h.tools = g.tools /\ h.cost = g.cost + 1
    <3>1. g.cost + 1 \in Nat /\ FALSE \in BOOLEAN
      BY FoldParts
    <3> QED
      BY <2>1, <3>1, PutTurn
  <2>3. ~ \E e \in First(w, {"error"}, n + 1) : \A d \in First(w, {"turn"}, n + 1) : d < e
    <3>1. n + 1 \in First(w, {"turn"}, n + 1) /\ First(w, {"error"}, n + 1) \subseteq 1..n
      BY <1>0, <1>1, <1>2, <1>5
    <3> QED
      BY <3>1
  <2> QED
    BY <1>1, <1>2, <1>5, <2>2, <2>3 DEF Told
<1>6. CASE l.kind = "error"
  <2>1. h = [g EXCEPT !.error = TRUE, !.cost = g.cost + 1]
    BY <1>6 DEF HandleEvent, h
  <2>2. /\ h \in Folds /\ h.answer = g.answer /\ h.error = TRUE /\ h.tools = g.tools /\ h.cost = g.cost + 1
    <3>1. g.cost + 1 \in Nat /\ TRUE \in BOOLEAN
      BY FoldParts
    <3> QED
      BY <2>1, <3>1, PutTurn
  <2>3. \E e \in First(w, {"error"}, n + 1) : \A d \in First(w, {"turn"}, n + 1) : d < e
    <3>1. n + 1 \in First(w, {"error"}, n + 1) /\ First(w, {"turn"}, n + 1) \subseteq 1..n
      BY <1>0, <1>1, <1>2, <1>6
    <3> QED
      BY <3>1
  <2> QED
    BY <1>1, <1>2, <1>6, <2>2, <2>3 DEF Told
<1>7. CASE l.kind \in {"recap", "noise"}
  <2>1. h = g
    BY <1>7 DEF HandleEvent, h
  <2> QED
    BY <1>2, <1>7, <2>1 DEF Told
<1> QED
  BY <1>3, <1>4, <1>5, <1>6, <1>7 DEF Kinds

\* The fold stays one.
LEMMA HandleLineIs ==
  ASSUME NEW g \in Folds, NEW l \in Seq(Pieces)
  PROVE  HandleLine(g, l) \in Folds
<1>1. l # <<>> => l[1] \in Pieces
  OBVIOUS
<1>2. [g EXCEPT !.dropped = g.dropped + 1] \in Folds
  <2>1. g.dropped + 1 \in Nat
    BY FoldParts
  <2> QED
    BY <2>1, PutDropped
<1>3. ASSUME NEW e \in Pieces PROVE HandleEvent(g, e) \in Folds
  <2>1. e.of \in Nat
    BY DEF Pieces
  <2>2. g.answer \in Seq(Nat) /\ g.tools + 1 \in Nat /\ g.cost + 1 \in Nat
    BY FoldParts
  <2>3. Append(g.answer, e.of) \in Seq(Nat)
    BY <2>1, <2>2
  <2>4. CASE e.kind = "text"
    BY <2>3, <2>4, PutAnswer DEF HandleEvent
  <2>5. CASE e.kind = "tool"
    BY <2>2, <2>5, PutTools DEF HandleEvent
  <2>6. CASE e.kind = "turn"
    BY <2>2, <2>6, PutTurn DEF HandleEvent
  <2>7. CASE e.kind = "error"
    BY <2>2, <2>7, PutTurn DEF HandleEvent
  <2>8. CASE e.kind \notin {"text", "tool", "turn", "error"}
    BY <2>8 DEF HandleEvent
  <2> QED
    BY <2>4, <2>5, <2>6, <2>7, <2>8
<1> QED
  BY <1>1, <1>2, <1>3 DEF HandleLine

\* And with a piece more.
LEMMA HandlePieceIs ==
  ASSUME NEW g \in Folds, NEW f \in Pieces
  PROVE  HandlePiece(g, f) \in Folds
<1>1. g.line \in Seq(Pieces) /\ Append(g.line, f) \in Seq(Pieces) /\ <<>> \in Seq(Pieces)
  BY DEF Folds
<1>2. HandleLine(g, g.line) \in Folds
  BY <1>1, HandleLineIs
<1> QED
  BY <1>1, <1>2 DEF HandlePiece, Folds

\* A line of two halves of the next event tells it.
LEMMA LineTells ==
  ASSUME NEW w, NEW n \in Nat, NEW g \in Folds, Told(g, w, n), g.line \in Seq(Pieces),
         Len(g.line) = 2, \A h \in 1..2 : IsPiece(g.line[h], n + 1, h, w), n + 1 \in DOMAIN w
  PROVE  HandleLine(g, g.line) \in Folds /\ Told(HandleLine(g, g.line), w, n + 1)
<1> DEFINE l == g.line[1]
<1>1. /\ l \in Pieces /\ l.of = n + 1 /\ g.line[2].of = n + 1 /\ l.kind \in Kinds /\ l.kind = w[n + 1].kind
      /\ g.line # <<>>
  BY DEF IsPiece
<1> HIDE DEF l
<1>2. HandleEvent(g, l) \in Folds /\ Told(HandleEvent(g, l), w, n + 1)
  BY <1>1, ToldNext
<1>3. CASE l.kind # "noise"
  BY <1>1, <1>2, <1>3 DEF HandleLine, l
<1>4. CASE l.kind = "noise"
  <2>1. HandleLine(g, g.line) = [g EXCEPT !.dropped = g.dropped + 1]
    BY <1>1, <1>4 DEF HandleLine, l
  <2>2. HandleEvent(g, l) = g
    BY <1>4 DEF HandleEvent
  <2>3. g.dropped + 1 \in Nat
    BY FoldParts
  <2> DEFINE h == [g EXCEPT !.dropped = g.dropped + 1]
  <2>4. /\ h \in Folds /\ h.answer = g.answer /\ h.error = g.error /\ h.tools = g.tools /\ h.cost = g.cost
    BY <2>3, PutDropped
  <2> HIDE DEF h
  <2>5. Told(h, w, n + 1)
    BY <1>2, <2>2, <2>4, ToldSame
  <2> QED
    BY <2>1, <2>4, <2>5 DEF h
<1> QED
  BY <1>3, <1>4

\* A piece read is one piece less in the pipe.
LEMMA PieceRead ==
  ASSUME NEW w \in Seq(Events), NEW done, NEW g, NEW p, Reading(g, p, w, done), p # <<>>,
         Total(g, p, done) <= 3 * Len(w) + 1, NEW q, Behind(q, p)
  PROVE  Reads(HandlePiece(g, p[1]), q, w, Total(g, p, done))
<1>0. q \in Seq(Pieces) /\ Len(q) = Len(p) - 1 /\ \A x \in 1..Len(q) : q[x] = p[x + 1]
  BY DEF Behind
<1> USE DEF Reads
<1> DEFINE f == p[1]
           r == Len(g.line)
           h == HandlePiece(g, f)
<1>1. /\ done \in Nat /\ done <= Len(w) /\ Len(w) \in Nat /\ g \in Folds /\ g.line \in Seq(Pieces) /\ r \in 0..2
      /\ Len(p) \in Nat /\ Len(p) >= 1 /\ f \in Pieces /\ 3 * done + r + Len(p) <= 3 * Len(w) + 1
      /\ Told(g, w, done) /\ \A k \in 1..r : IsPiece(g.line[k], done + 1, k, w)
  <2>1. /\ done \in 0..Len(w) /\ g \in Folds /\ p \in Seq(Pieces) /\ Told(g, w, done) /\ Len(g.line) <= 2
        /\ \A k \in 1..Len(g.line) : IsPiece(g.line[k], done + 1, k, w)
    BY <1>0 DEF Reading
  <2>2. g.line \in Seq(Pieces) /\ Len(w) \in Nat /\ Len(g.line) \in Nat /\ Len(p) \in Nat
    BY <2>1, FoldParts
  <2>3. Len(p) >= 1 /\ p[1] \in Pieces
    BY <2>1
  <2>4. 3 * done + Len(g.line) + Len(p) <= 3 * Len(w) + 1
    BY DEF Total
  <2>5. done \in Nat /\ done <= Len(w) /\ Len(g.line) \in 0..2
    <3>1. ASSUME NEW a \in Nat, NEW b \in 0..a PROVE b \in Nat /\ b <= a
      OBVIOUS
    <3>2. ASSUME NEW a \in Nat, a <= 2 PROVE a \in 0..2
      BY <3>2
    <3> QED
      BY ONLY <2>1, <2>2, <3>1, <3>2
  <2> QED
    BY <2>1, <2>2, <2>3, <2>4, <2>5
<1>2. IsPiece(f, done + 1, r + 1, w)
  <2>1. \A x \in 1..Len(p), e \in Nat, k \in 1..3 :
          3 * e + k = 3 * done + r + x => IsPiece(p[x], e + 1, k, w)
    BY <1>0 DEF Reading
  <2> HIDE DEF r
  <2>2. r + 1 \in 1..3 /\ 1 \in 1..Len(p) /\ done \in Nat
    BY <1>0, <1>1
  <2>3. 3 * done + (r + 1) = 3 * done + r + 1
    BY <1>0, <1>1
  <2> QED
    BY <2>1, <2>2, <2>3
<1>3. \A x \in 1..Len(q), e \in Nat, k \in 1..3 :
        3 * e + k = 3 * done + r + (x + 1) => IsPiece(q[x], e + 1, k, w)
  <2> SUFFICES ASSUME NEW x \in 1..Len(q), NEW e \in Nat, NEW k \in 1..3,
                      3 * e + k = 3 * done + r + (x + 1)
               PROVE  IsPiece(q[x], e + 1, k, w)
    OBVIOUS
  <2>1. x + 1 \in 1..Len(p) /\ q[x] = p[x + 1]
    BY <1>0, <1>1
  <2> QED
    BY <1>0, <2>1 DEF Reading
<1> HIDE DEF f, r
<1>4. CASE r < 2
  <2>1. f # Break
    BY <1>0, <1>1, <1>2, <1>4 DEF IsPiece, Break
  <2>2. h = [g EXCEPT !.line = Append(g.line, f)]
    BY <2>1 DEF HandlePiece
  <2>3. /\ h \in Folds /\ h.line = Append(g.line, f) /\ h.answer = g.answer /\ h.error = g.error
        /\ h.tools = g.tools /\ h.cost = g.cost
    <3> HIDE DEF h
    <3>1. Append(g.line, f) \in Seq(Pieces)
      BY <1>0, <1>1
    <3> QED
      BY <1>0, <1>1, <2>2, <3>1, PutLine
  <2> HIDE DEF h
  <2>4. Len(h.line) = r + 1 /\ h.line[r + 1] = f /\ \A k \in 1..r : h.line[k] = g.line[k]
    BY <1>0, <1>1, <2>3 DEF r
  <2>5. \A k \in 1..r + 1 : IsPiece(h.line[k], done + 1, k, w)
    BY <1>0, <1>1, <1>2, <2>4
  <2>6. Told(h, w, done)
    BY <1>0, <1>1, <2>3 DEF Told
  <2>7. \A x \in 1..Len(q), e \in Nat, k \in 1..3 :
          3 * e + k = 3 * done + Len(h.line) + x => IsPiece(q[x], e + 1, k, w)
    <3> SUFFICES ASSUME NEW x \in 1..Len(q), NEW e \in Nat, NEW k \in 1..3,
                        3 * e + k = 3 * done + Len(h.line) + x
                 PROVE  IsPiece(q[x], e + 1, k, w)
      OBVIOUS
    <3>1. 3 * e + k = 3 * done + r + (x + 1)
      BY <1>0, <1>1, <2>4
    <3> QED
      BY <1>0, <1>3, <3>1
  <2>8. Reading(h, q, w, done)
    BY <1>0, <1>1, <1>4, <2>3, <2>4, <2>5, <2>6, <2>7 DEF Reading
  <2>9. Total(h, q, done) = Total(g, p, done)
    <3>1. Len(h.line) + Len(q) = r + Len(p)
      BY <1>0, <1>1, <2>4
    <3>2. r = Len(g.line) /\ r \in Nat /\ Len(q) \in Nat /\ Len(h.line) \in Nat /\ Len(p) \in Nat /\ done \in Nat
      BY <1>0, <1>1, <2>4 DEF r
    <3>3. Total(h, q, done) = 3 * done + Len(h.line) + Len(q) /\ Total(g, p, done) = 3 * done + r + Len(p)
      BY <3>2 DEF Total
    <3>4. 3 * done + Len(h.line) + Len(q) = 3 * done + r + Len(p)
      <4> DEFINE a == Len(h.line)
                 b == Len(q)
                 c == Len(p)
      <4>1. a + b = r + c /\ a \in Nat /\ b \in Nat /\ c \in Nat /\ r \in Nat /\ done \in Nat
        BY <3>1, <3>2
      <4> HIDE DEF a, b, c
      <4>2. 3 * done + a + b = 3 * done + r + c
        BY ONLY <4>1
      <4> QED
        BY <4>2 DEF a, b, c
    <3> QED
      BY ONLY <3>3, <3>4
  <2> QED
    BY <1>0, <1>1, <2>8, <2>9 DEF h, f
<1>5. CASE r = 2
  <2>1. f = Break
    BY <1>2, <1>5 DEF IsPiece
  <2>2. done + 1 \in DOMAIN w
    BY <1>0, <1>1, <1>5
  <2> DEFINE t == HandleLine(g, g.line)
  <2>3. t \in Folds /\ Told(t, w, done + 1)
    BY <1>0, <1>1, <1>5, <2>2, LineTells DEF r
  <2>4. h = [t EXCEPT !.line = <<>>]
    BY <2>1 DEF HandlePiece
  <2> HIDE DEF t, h
  <2>5. h \in Folds /\ h.line = <<>> /\ Told(h, w, done + 1)
    <3>1. <<>> \in Seq(Pieces)
      OBVIOUS
    <3>2. /\ h \in Folds /\ h.line = <<>> /\ h.answer = t.answer /\ h.error = t.error
          /\ h.tools = t.tools /\ h.cost = t.cost
      BY <2>3, <2>4, <3>1, PutLine
    <3> QED
      BY <2>3, <3>2, ToldSame
  <2>6. \A x \in 1..Len(q), e \in Nat, k \in 1..3 :
          3 * e + k = 3 * (done + 1) + 0 + x => IsPiece(q[x], e + 1, k, w)
    <3> SUFFICES ASSUME NEW x \in 1..Len(q), NEW e \in Nat, NEW k \in 1..3,
                        3 * e + k = 3 * (done + 1) + 0 + x
                 PROVE  IsPiece(q[x], e + 1, k, w)
      OBVIOUS
    <3>1. 3 * e + k = 3 * done + r + (x + 1)
      BY <1>0, <1>1, <1>5
    <3> QED
      BY <1>0, <1>3, <3>1
  <2>7. Len(h.line) = 0 /\ done + 1 \in 0..Len(w) /\ done + 1 \in Nat
    BY <1>0, <1>1, <2>2, <2>5
  <2>8. Reading(h, q, w, done + 1)
    BY <1>0, <2>5, <2>6, <2>7 DEF Reading
  <2>9. Total(h, q, done + 1) = Total(g, p, done)
    BY <1>0, <1>1, <1>5, <2>7 DEF Total, r
  <2> QED
    BY <2>7, <2>8, <2>9 DEF h, f
<1> QED
  BY <1>0, <1>1, <1>4, <1>5

\* The fold over a chunk is the fold of its pieces, one after the other.
LEMMA HandledIs ==
  ASSUME NEW g \in Folds, NEW chunk \in Seq(Pieces)
  PROVE  \A n \in 0..Len(chunk) :
           Handled(g, chunk)[n] = IF n = 0 THEN g ELSE HandlePiece(Handled(g, chunk)[n - 1], chunk[n])
<1> DEFINE N == Len(chunk)
           F == [m \in (1..N) \X Folds |-> HandlePiece(m[2], chunk[m[1]])]
<1>1. N \in Nat
  OBVIOUS
<1>2. F \in [(1..N) \X Folds -> Folds]
  <2> SUFFICES ASSUME NEW m \in (1..N) \X Folds PROVE HandlePiece(m[2], chunk[m[1]]) \in Folds
    OBVIOUS
  <2>1. m[1] \in 1..N /\ m[2] \in Folds
    OBVIOUS
  <2>2. chunk[m[1]] \in Pieces
    BY <2>1
  <2> QED
    BY <2>1, <2>2, HandlePieceIs
<1>3. \A n \in 1..N, x \in Folds : F[<<n, x>>] = HandlePiece(x, chunk[n])
  OBVIOUS
<1> HIDE DEF F
<1>4. PICK u \in [0..N -> Folds] : Iterated(u, g, N, F)
  <2> HIDE DEF N
  <2>1. g \in Folds
    OBVIOUS
  <2> HIDE DEF Folds
  <2> QED
    BY <1>1, <1>2, <2>1, Iterates
<1>5. u = [n \in 0..N |-> IF n = 0 THEN g ELSE HandlePiece(u[n - 1], chunk[n])]
  <2>1. ASSUME NEW n \in 0..N PROVE u[n] = IF n = 0 THEN g ELSE HandlePiece(u[n - 1], chunk[n])
    <3>1. CASE n = 0
      BY <1>4, <3>1 DEF Iterated
    <3>2. CASE n # 0
      <4>1. n \in 1..N /\ n - 1 \in 0..N
        BY <1>1, <3>2
      <4> QED
        BY <1>3, <1>4, <3>2, <4>1 DEF Iterated
    <3> QED
      BY <3>1, <3>2
  <2> QED
    BY <1>4, <2>1
<1>6. Handled(g, chunk) = [n \in 0..N |-> IF n = 0 THEN g ELSE HandlePiece(Handled(g, chunk)[n - 1], chunk[n])]
  BY <1>5 DEF Handled
<1> HIDE DEF N
<1>7. \A n \in 0..N : Handled(g, chunk)[n] = IF n = 0 THEN g ELSE HandlePiece(Handled(g, chunk)[n - 1], chunk[n])
  BY <1>6
<1> QED
  BY <1>7 DEF N

\* A chunk read is a chunk less in the pipe, wherever it ends.
LEMMA ChunkRead ==
  ASSUME NEW w \in Seq(Events), NEW done \in Nat, NEW g, NEW p, Reading(g, p, w, done),
         Total(g, p, done) <= 3 * Len(w) + 1, NEW n \in 1..Len(p)
  PROVE  Reads(HandleChunk(g, SubSeq(p, 1, n)), SubSeq(p, n + 1, Len(p)), w, Total(g, p, done))
<1> DEFINE chunk == SubSeq(p, 1, n)
           u == Handled(g, chunk)
           left(k) == SubSeq(p, k + 1, Len(p))
           total == Total(g, p, done)
           Good == {k \in 0..n : Reads(u[k], left(k), w, total)}
<1>1. p \in Seq(Pieces) /\ g \in Folds /\ Len(p) \in Nat
  BY DEF Reading
<1>2. chunk \in Seq(Pieces) /\ Len(chunk) = n /\ \A k \in 1..n : chunk[k] = p[k]
  BY <1>1
<1>3. \A k \in 0..n : u[k] = IF k = 0 THEN g ELSE HandlePiece(u[k - 1], chunk[k])
  BY <1>1, <1>2, HandledIs
<1>4. ASSUME NEW k \in 0..n
      PROVE  left(k) \in Seq(Pieces) /\ Len(left(k)) = Len(p) - k /\ \A x \in 1..Len(p) - k : left(k)[x] = p[x + k]
  BY <1>1
<1> HIDE DEF chunk, u, left, total
<1>5. 0 \in Good
  <2>1. left(0) = p
    BY <1>1 DEF left
  <2> QED
    BY <1>3, <2>1 DEF total, Reads
<1>6. ASSUME NEW k \in 1..n, k - 1 \in Good PROVE k \in Good
  <2> DEFINE v == u[k - 1]
             l == left(k - 1)
             q == left(k)
  <2>0. k - 1 \in 0..n /\ k \in 0..n /\ k # 0
    OBVIOUS
  <2>1. PICK more \in Nat : Reading(v, l, w, more) /\ Total(v, l, more) = total
    BY <1>6 DEF Reads
  <2>2. l \in Seq(Pieces) /\ Len(l) = Len(p) - (k - 1) /\ \A x \in 1..Len(p) - (k - 1) : l[x] = p[x + (k - 1)]
    BY <1>4, <2>0
  <2>3. q \in Seq(Pieces) /\ Len(q) = Len(p) - k /\ \A x \in 1..Len(p) - k : q[x] = p[x + k]
    BY <1>4, <2>0
  <2> HIDE DEF v, l, q
  <2>4. 1 \in 1..Len(p) - (k - 1) /\ 1 + (k - 1) = k /\ Len(p) - k = Len(p) - (k - 1) - 1 /\ Len(p) - (k - 1) > 0
    BY <1>1
  <2>5. Behind(q, l)
    <3>1. ASSUME NEW x \in 1..Len(p) - k PROVE q[x] = l[x + 1]
      <4>1. x + 1 \in 1..Len(p) - (k - 1) /\ (x + 1) + (k - 1) = x + k
        BY <1>1
      <4> QED
        BY <2>2, <2>3, <4>1
    <3>2. Len(q) = Len(l) - 1
      BY <2>2, <2>3, <2>4
    <3> QED
      BY <2>3, <3>1, <3>2 DEF Behind
  <2>6. l # <<>> /\ l[1] = p[k]
    BY <2>2, <2>4
  <2>7. Total(v, l, more) <= 3 * Len(w) + 1
    BY <2>1 DEF total
  <2>8. Reads(HandlePiece(v, l[1]), q, w, total)
    BY <2>1, <2>5, <2>6, <2>7, PieceRead
  <2>9. u[k] = HandlePiece(v, l[1])
    BY <1>2, <1>3, <2>0, <2>6 DEF v
  <2> QED
    BY <2>0, <2>8, <2>9 DEF q
<1>7. n \in Good
  <2> HIDE DEF Good
  <2>0. n \in Nat
    OBVIOUS
  <2>1. 0..n \subseteq Good
    BY <1>5, <1>6, <2>0, UpTo
  <2> QED
    BY <2>1
<1>8. HandleChunk(g, chunk) = u[n]
  BY <1>2 DEF HandleChunk, u
<1> QED
  BY <1>7, <1>8 DEF chunk, left, total

\* Told of one is told of another that has the same events so far.
LEMMA ToldOther ==
  ASSUME NEW g, NEW w, NEW v, NEW n \in Nat, Told(g, w, n), \A e \in 1..n : v[e] = w[e]
  PROVE  Told(g, v, n)
<1>1. \A K : First(v, K, n) = First(w, K, n)
  BY DEF First
<1> QED
  BY <1>1 DEF Told

\* What the child writes is read after the rest.
LEMMA MoreWritten ==
  ASSUME NEW w \in Seq(Events), NEW g, NEW p, Reads(g, p, w, 3 * Len(w)), NEW kind \in Kinds
  PROVE  LET n == Len(w) + 1 IN
         /\ Append(w, [of |-> n, kind |-> kind]) \in Seq(Events)
         /\ Len(Append(w, [of |-> n, kind |-> kind])) = n
         /\ Reads(g, p \o LineOf(n, kind), Append(w, [of |-> n, kind |-> kind]), 3 * n)
<1> DEFINE n == Len(w) + 1
           event == [of |-> n, kind |-> kind]
           v == Append(w, event)
           q == p \o LineOf(n, kind)
           W == Len(w)
           P == Len(p)
           r == Len(g.line)
<1>0. n \in Nat /\ Len(w) \in Nat
  OBVIOUS
<1>1. event \in Events /\ event.kind = kind
  BY <1>0 DEF Events
<1>2. v \in Seq(Events) /\ Len(v) = n /\ v[n] = event /\ \A e \in 1..Len(w) : v[e] = w[e]
  BY <1>1
<1>3. PICK done \in Nat : Reading(g, p, w, done) /\ Total(g, p, done) = 3 * Len(w)
  BY DEF Reads
<1>4. /\ done \in 0..Len(w) /\ g \in Folds /\ p \in Seq(Pieces) /\ Told(g, w, done) /\ Len(g.line) <= 2
      /\ \A h \in 1..Len(g.line) : IsPiece(g.line[h], done + 1, h, w)
      /\ \A x \in 1..Len(p), e \in Nat, h \in 1..3 :
           3 * e + h = 3 * done + Len(g.line) + x => IsPiece(p[x], e + 1, h, w)
  BY <1>3 DEF Reading
<1>5. 3 * done + r + P = 3 * W /\ r \in Nat /\ P \in Nat /\ W \in Nat /\ done \in Nat /\ done <= W /\ n = W + 1 /\ r <= 2
  <2>1. r \in Nat /\ P \in Nat /\ W \in Nat
    BY <1>4, FoldParts
  <2>2. done <= W
    BY <1>4
  <2>3. 3 * done + r + P = 3 * W
    BY <1>3 DEF Total
  <2> QED
    BY <1>4, <2>1, <2>2, <2>3
<1>6. /\ LineOf(n, kind) \in Seq(Pieces) /\ Len(LineOf(n, kind)) = 3
      /\ \A h \in 1..3 : IsPiece(LineOf(n, kind)[h], n, h, v)
  <2>1. [of |-> n, half |-> 1, kind |-> kind] \in Pieces /\ [of |-> n, half |-> 2, kind |-> kind] \in Pieces
    BY <1>0 DEF Pieces
  <2>2. Break \in Pieces
    BY DEF Pieces, Break
  <2>3. n \in DOMAIN v /\ v[n].kind = kind
    BY <1>0, <1>1, <1>2
  <2>4. /\ IsPiece([of |-> n, half |-> 1, kind |-> kind], n, 1, v)
        /\ IsPiece([of |-> n, half |-> 2, kind |-> kind], n, 2, v) /\ IsPiece(Break, n, 3, v)
    BY <2>3 DEF IsPiece
  <2> QED
    BY <2>1, <2>2, <2>4 DEF LineOf
<1>7. /\ q \in Seq(Pieces) /\ Len(q) = P + 3 /\ \A x \in 1..P : q[x] = p[x]
      /\ \A j \in 1..3 : q[P + j] = LineOf(n, kind)[j]
  <2> DEFINE l == LineOf(n, kind)
  <2>1. p \in Seq(Pieces) /\ l \in Seq(Pieces) /\ Len(l) = 3
    BY <1>4, <1>6
  <2> HIDE DEF l
  <2>2. /\ p \o l \in Seq(Pieces) /\ Len(p \o l) = P + 3
        /\ \A x \in 1..P + 3 : (p \o l)[x] = IF x <= P THEN p[x] ELSE l[x - P]
    <3>1. /\ p \o l \in Seq(Pieces) /\ Len(p \o l) = Len(p) + Len(l)
          /\ \A x \in 1..Len(p) + Len(l) : (p \o l)[x] = IF x <= Len(p) THEN p[x] ELSE l[x - Len(p)]
      BY <2>1, ConcatProperties
    <3> QED
      BY <2>1, <3>1
  <2> HIDE DEF P
  <2>3. P \in Nat
    BY <1>5
  <2>4. \A x \in 1..P : x \in 1..P + 3 /\ x <= P
    BY <2>3
  <2>5. \A j \in 1..3 : P + j \in 1..P + 3 /\ ~(P + j <= P) /\ (P + j) - P = j
    BY <2>3
  <2>6. \A j \in 1..3 : (p \o l)[P + j] = l[j]
    BY <2>2, <2>5
  <2> QED
    BY <2>2, <2>4, <2>6 DEF l
<1> HIDE DEF n, event, v, q, W, P, r
<1>8. ASSUME NEW f, NEW e \in 1..W, NEW h \in 1..3, IsPiece(f, e, h, w) PROVE IsPiece(f, e, h, v)
  BY <1>2, <1>8 DEF IsPiece, W
<1>9. \A h \in 1..r : IsPiece(g.line[h], done + 1, h, v)
  <2> SUFFICES ASSUME NEW h \in 1..r PROVE IsPiece(g.line[h], done + 1, h, v)
    OBVIOUS
  <2>1. done + 1 \in 1..W /\ h \in 1..3
    BY <1>5
  <2> QED
    BY <1>4, <1>8, <2>1 DEF r
<1>10. \A x \in 1..Len(q), e \in Nat, h \in 1..3 :
         3 * e + h = 3 * done + r + x => IsPiece(q[x], e + 1, h, v)
  <2> SUFFICES ASSUME NEW x \in 1..Len(q), NEW e \in Nat, NEW h \in 1..3,
                      3 * e + h = 3 * done + r + x
               PROVE  IsPiece(q[x], e + 1, h, v)
    OBVIOUS
  <2>1. CASE x <= P
    <3>1. x \in 1..P /\ e + 1 \in 1..W
      BY <1>5, <2>1
    <3> QED
      BY <1>4, <1>7, <1>8, <3>1 DEF P, r
  <2>2. CASE x > P
    <3> DEFINE j == x - P
    <3>1. j \in 1..3 /\ x = P + j
      BY <1>5, <1>7, <2>2
    <3> HIDE DEF j
    <3>2. 3 * e + h = 3 * W + j
      BY <1>5, <3>1
    <3>3. e + 1 = n /\ h = j
      BY <1>5, <3>1, <3>2
    <3> QED
      BY <1>6, <1>7, <3>1, <3>3
  <2> QED
    BY <1>5, <1>7, <2>1, <2>2
<1>11. Told(g, v, done)
  <2>1. \A e \in 1..done : v[e] = w[e]
    <3>1. \A e \in 1..done : e \in 1..W
      BY <1>5
    <3> QED
      BY <1>2, <3>1 DEF W
  <2> QED
    BY <1>4, <2>1, ToldOther
<1>12. Reading(g, q, v, done)
  <2>1. done \in 0..Len(v)
    BY <1>2, <1>5
  <2> QED
    BY <1>4, <1>7, <1>9, <1>10, <1>11, <2>1 DEF Reading, r
<1>13. Total(g, q, done) = 3 * n
  <2>1. 3 * done + r + (P + 3) = 3 * n
    BY <1>5
  <2> QED
    BY <1>7, <2>1 DEF Total, r
<1>14. Reads(g, q, v, 3 * n)
  BY <1>12, <1>13 DEF Reads
<1> QED
  BY <1>2, <1>14 DEF n, event, v, q

\* What a dead child did not write is not read.
LEMMA LessWritten ==
  ASSUME NEW w \in Seq(Events), NEW g, NEW p, Reads(g, p, w, 3 * Len(w)), NEW cut \in 0..2, cut <= Len(p)
  PROVE  LET v == IF cut = 2 THEN Front(w) ELSE w IN
         /\ v \in Seq(Events)
         /\ \E total \in 3 * Len(v) - 1..3 * Len(v) + 1 : Reads(g, SubSeq(p, 1, Len(p) - cut), v, total)
<1> DEFINE v == IF cut = 2 THEN Front(w) ELSE w
           q == SubSeq(p, 1, Len(p) - cut)
           total == 3 * Len(w) - cut
           W == Len(w)
           P == Len(p)
           r == Len(g.line)
<1>1. PICK done \in Nat : Reading(g, p, w, done) /\ Total(g, p, done) = 3 * Len(w)
  BY DEF Reads
<1>2. /\ done \in 0..Len(w) /\ g \in Folds /\ p \in Seq(Pieces) /\ Told(g, w, done) /\ Len(g.line) <= 2
      /\ \A h \in 1..Len(g.line) : IsPiece(g.line[h], done + 1, h, w)
      /\ \A x \in 1..Len(p), e \in Nat, h \in 1..3 :
           3 * e + h = 3 * done + Len(g.line) + x => IsPiece(p[x], e + 1, h, w)
  BY <1>1 DEF Reading
<1>3. 3 * done + r + P = 3 * W /\ r \in Nat /\ P \in Nat /\ W \in Nat /\ done \in Nat /\ done <= W /\ r <= 2
  <2>1. r \in Nat /\ P \in Nat /\ W \in Nat
    BY <1>2, FoldParts
  <2>2. done <= W
    BY <1>2
  <2>3. 3 * done + r + P = 3 * W
    BY <1>1 DEF Total
  <2> QED
    BY <1>2, <2>1, <2>2, <2>3
<1>4. q \in Seq(Pieces) /\ Len(q) = Len(p) - cut /\ \A x \in 1..Len(q) : x \in 1..Len(p) /\ q[x] = p[x]
  BY <1>2, <1>3
<1>5. /\ v \in Seq(Events) /\ Len(v) \in Nat /\ Len(v) = (IF cut = 2 THEN Len(w) - 1 ELSE Len(w)) /\ done <= Len(v)
      /\ \A e \in 1..Len(v) : e \in 1..Len(w) /\ v[e] = w[e]
  <2>1. CASE cut = 2
    <3>1. W >= 1 /\ done <= W - 1
      <4>1. P >= 2
        BY <2>1
      <4> HIDE DEF W, P, r
      <4> QED
        BY <1>3, <4>1
    <3>2. v = SubSeq(w, 1, Len(w) - 1)
      BY <2>1 DEF Front
    <3>3. v \in Seq(Events) /\ Len(v) = Len(w) - 1 /\ \A e \in 1..Len(w) - 1 : v[e] = w[e]
      BY <3>1, <3>2
    <3>4. \A e \in 1..Len(w) - 1 : e \in 1..Len(w)
      BY <3>1
    <3> HIDE DEF v
    <3> QED
      BY <1>3, <2>1, <3>1, <3>3, <3>4
  <2>2. CASE cut # 2
    BY <1>3, <2>2
  <2> QED
    BY <2>1, <2>2
<1> HIDE DEF v, q
<1>6. ASSUME NEW f, NEW e, NEW h \in 1..3, IsPiece(f, e, h, w) PROVE IsPiece(f, e, h, v)
  BY <1>5, <1>6 DEF IsPiece
<1>7. Told(g, v, done)
  <2>1. \A e \in 1..done : v[e] = w[e]
    BY <1>2, <1>5
  <2> QED
    BY <1>2, <2>1, ToldOther
<1>8. \A h \in 1..Len(g.line) : IsPiece(g.line[h], done + 1, h, v)
  BY <1>2, <1>3, <1>6
<1>9. \A x \in 1..Len(q), e \in Nat, h \in 1..3 :
        3 * e + h = 3 * done + Len(g.line) + x => IsPiece(q[x], e + 1, h, v)
  BY <1>2, <1>4, <1>6
<1>10. Reading(g, q, v, done)
  <2>1. done \in 0..Len(v)
    BY <1>2, <1>5
  <2> QED
    BY <1>2, <1>4, <2>1, <1>7, <1>8, <1>9 DEF Reading
<1>11. Total(g, q, done) = total
  <2>1. Len(q) = P - cut
    BY <1>4
  <2> HIDE DEF P, W
  <2>2. 3 * done + r + (P - cut) = 3 * W - cut
    <3> HIDE DEF r
    <3> QED
      BY <1>3
  <2> QED
    BY <2>1, <2>2 DEF Total, W
<1>12. total \in 3 * Len(v) - 1..3 * Len(v) + 1
  BY <1>3, <1>5
<1>13. Reads(g, q, v, total)
  BY <1>10, <1>11 DEF Reads
<1> HIDE DEF total
<1> QED
  BY <1>5, <1>12, <1>13 DEF v, q

\* At the end the line begun is told if it is whole.
LEMMA RestTold ==
  ASSUME NEW w \in Seq(Events), NEW g, NEW total \in 3 * Len(w) - 1..3 * Len(w) + 1, Reads(g, <<>>, w, total)
  PROVE  LET h == [HandleLine(g, g.line) EXCEPT !.line = <<>>] IN h \in Folds /\ Told(h, w, Len(w))
<1> DEFINE t == HandleLine(g, g.line)
           h == [t EXCEPT !.line = <<>>]
           W == Len(w)
           r == Len(g.line)
<1>1. PICK done \in Nat : Reading(g, <<>>, w, done) /\ Total(g, <<>>, done) = total
  BY DEF Reads
<1>2. /\ done \in 0..Len(w) /\ g \in Folds /\ Told(g, w, done) /\ Len(g.line) <= 2 /\ g.line \in Seq(Pieces)
      /\ \A k \in 1..Len(g.line) : IsPiece(g.line[k], done + 1, k, w)
  BY <1>1, FoldParts DEF Reading
<1>3. 3 * done + r = total /\ W \in Nat /\ r \in 0..2 /\ done \in Nat /\ done <= W
  <2>1. Len(<<>>) = 0 /\ W \in Nat /\ r \in Nat
    BY <1>2
  <2>2. 3 * done + r + 0 = total
    BY <1>1, <2>1 DEF Total
  <2>3. done <= W /\ done \in Nat /\ r <= 2
    BY <1>2
  <2> HIDE DEF W, r
  <2> QED
    BY <2>1, <2>2, <2>3
<1>31. total \in 3 * W - 1..3 * W + 1
  OBVIOUS
<1>32. \/ r = 0 /\ done = W
       \/ r = 1 /\ done = W
       \/ r = 2 /\ done + 1 = W
  <2> HIDE DEF W, r
  <2> QED
    BY <1>3, <1>31
<1>4. t \in Folds
  BY <1>2, HandleLineIs
<1>5. Told(t, w, Len(w))
  <2>1. CASE Len(g.line) = 0
    <3>1. done = Len(w)
      BY <1>32, <2>1
    <3>2. t = g
      BY <1>2, <2>1 DEF HandleLine
    <3> QED
      BY <1>2, <3>1, <3>2
  <2>2. CASE Len(g.line) = 1
    <3>1. done = Len(w)
      BY <1>32, <2>2
    <3>2. t = [g EXCEPT !.dropped = g.dropped + 1]
      BY <1>2, <2>2 DEF HandleLine
    <3>3. g.dropped + 1 \in Nat
      BY <1>2, FoldParts
    <3> HIDE DEF t
    <3>4. t.answer = g.answer /\ t.error = g.error /\ t.tools = g.tools /\ t.cost = g.cost
      BY <1>2, <3>2, <3>3, PutDropped
    <3> QED
      BY <1>2, <3>1, <3>4, ToldSame
  <2>3. CASE Len(g.line) = 2
    <3>1. done + 1 = Len(w) /\ done + 1 \in DOMAIN w
      BY <1>32, <2>3
    <3>2. \A k \in 1..2 : IsPiece(g.line[k], done + 1, k, w)
      BY <1>2, <2>3
    <3>3. Told(t, w, done + 1)
      BY <1>2, <2>3, <3>1, <3>2, LineTells
    <3> QED
      BY <3>1, <3>3
  <2> QED
    BY <1>32, <2>1, <2>2, <2>3
<1> HIDE DEF t
<1>6. /\ h \in Folds /\ h.answer = t.answer /\ h.error = t.error /\ h.tools = t.tools /\ h.cost = t.cost
  <2>1. <<>> \in Seq(Pieces)
    OBVIOUS
  <2> HIDE DEF h
  <2>2. h = [t EXCEPT !.line = <<>>]
    BY DEF h
  <2> QED
    BY <1>4, <2>1, <2>2, PutLine
<1> HIDE DEF h
<1>7. Told(h, w, Len(w))
  BY <1>5, <1>6, ToldSame
<1> QED
  BY <1>6, <1>7 DEF h, t

-----------------------------------------------------------------------------
\* The session.

\* A set of naturals up to some bound has a greatest element.
LEMMA GreatestOf ==
  ASSUME NEW N \in Nat, NEW S \in SUBSET (0..N), S # {}
  PROVE  Max(S) \in S /\ \A m \in S : m <= Max(S)
<1> DEFINE T == {n \in 0..N : N - n \in S}
<1>1. T \in SUBSET Nat /\ \A m \in S : N - m \in T
  OBVIOUS
<1>2. PICK n \in T : \A m \in T : n <= m
  BY <1>1, LeastOf
<1>3. N - n \in S /\ \A m \in S : m <= N - n
  <2>1. n \in 0..N /\ N - n \in S
    BY <1>2
  <2>2. ASSUME NEW m \in S PROVE m <= N - n
    <3>1. n <= N - m /\ m \in 0..N
      BY <1>1, <1>2
    <3> QED
      BY <2>1, <3>1
  <2> QED
    BY <2>1, <2>2
<1>4. \A x \in S, y \in S : x >= y <=> y <= x
  OBVIOUS
<1>5. \E x \in S : \A y \in S : x >= y
  BY <1>3, <1>4
<1>6. Max(S) \in S /\ \A y \in S : Max(S) >= y
  BY <1>5 DEF Max
<1> QED
  BY <1>4, <1>6

\* The sizes add up.
LEMMA SizesIs ==
  ASSUME NEW s \in Seq(Entries)
  PROVE  /\ \A n \in 0..Len(s) : Sizes(s)[n] = IF n = 0 THEN 0 ELSE Sizes(s)[n - 1] + s[n].len
         /\ \A n \in 0..Len(s) : Sizes(s)[n] \in Nat
         /\ \A n \in 0..Len(s) : \A m \in 0..n : Sizes(s)[m] <= Sizes(s)[n]
<1> DEFINE N == Len(s)
           F == [m \in (1..N) \X Nat |-> m[2] + s[m[1]].len]
           z == Sizes(s)
<1>1. N \in Nat /\ 0 \in Nat
  OBVIOUS
<1>2. \A n \in 1..N : s[n].len \in Nat
  <2>1. \A n \in 1..N : s[n] \in Entries
    OBVIOUS
  <2> QED
    BY <2>1 DEF Entries
<1>3. F \in [(1..N) \X Nat -> Nat]
  <2> SUFFICES ASSUME NEW m \in (1..N) \X Nat PROVE m[2] + s[m[1]].len \in Nat
    OBVIOUS
  <2>1. m[1] \in 1..N /\ m[2] \in Nat
    OBVIOUS
  <2> HIDE DEF N
  <2>2. s[m[1]].len \in Nat
    BY <1>2, <2>1
  <2> QED
    BY <2>1, <2>2
<1>4. \A n \in 1..N, x \in Nat : F[<<n, x>>] = x + s[n].len
  OBVIOUS
<1> HIDE DEF F
<1>5. PICK u \in [0..N -> Nat] : Iterated(u, 0, N, F)
  <2> HIDE DEF N
  <2> QED
    BY <1>1, <1>3, Iterates
<1>6. u = [n \in 0..N |-> IF n = 0 THEN 0 ELSE u[n - 1] + s[n].len]
  <2>1. ASSUME NEW n \in 0..N PROVE u[n] = IF n = 0 THEN 0 ELSE u[n - 1] + s[n].len
    <3>1. CASE n = 0
      BY <1>5, <3>1 DEF Iterated
    <3>2. CASE n # 0
      <4>1. n \in 1..N /\ n - 1 \in 0..N
        BY <1>1, <3>2
      <4> QED
        BY <1>4, <1>5, <3>2, <4>1 DEF Iterated
    <3> QED
      BY <3>1, <3>2
  <2> QED
    BY <1>5, <2>1
<1>7. z = [n \in 0..N |-> IF n = 0 THEN 0 ELSE z[n - 1] + s[n].len]
  BY <1>6 DEF Sizes
<1> HIDE DEF N, z
<1>8. \A n \in 0..N : z[n] = IF n = 0 THEN 0 ELSE z[n - 1] + s[n].len
  BY <1>7
<1> DEFINE Good == {n \in 0..N : z[n] \in Nat /\ \A m \in 0..n : z[m] \in Nat /\ z[m] <= z[n]}
<1>9. 0 \in Good
  BY <1>1, <1>8
<1>10. ASSUME NEW n \in 1..N, n - 1 \in Good PROVE n \in Good
  <2>1. z[n - 1] \in Nat /\ \A m \in 0..n - 1 : z[m] \in Nat /\ z[m] <= z[n - 1]
    BY <1>10
  <2>2. n \in 0..N /\ z[n] = z[n - 1] + s[n].len /\ s[n].len \in Nat
    BY <1>2, <1>8
  <2>3. z[n] \in Nat /\ z[n - 1] <= z[n]
    BY <2>1, <2>2
  <2>4. ASSUME NEW m \in 0..n PROVE z[m] \in Nat /\ z[m] <= z[n]
    <3>1. CASE m = n
      BY <2>3, <3>1
    <3>2. CASE m # n
      <4>1. m \in 0..n - 1
        BY <1>1, <3>2
      <4>2. z[m] \in Nat /\ z[m] <= z[n - 1]
        BY <2>1, <4>1
      <4> QED
        BY <2>1, <2>3, <4>2
    <3> QED
      BY <3>1, <3>2
  <2> QED
    BY <2>2, <2>3, <2>4
<1>11. 0..N \subseteq Good
  <2> HIDE DEF Good
  <2> QED
    BY <1>1, <1>9, <1>10, UpTo
<1>12. \A n \in 0..N : z[n] \in Nat /\ \A m \in 0..n : z[m] <= z[n]
  BY <1>11
<1> QED
  BY <1>8, <1>12 DEF N, z

\* What a repair promises.
Repaired(kept, s) ==
  /\ IsPrefix(kept, s)
  /\ \A i \in Len(kept) + 1..Len(s) : ~s[i].whole
  /\ Last(kept).whole \/ (kept = s /\ \E i \in DOMAIN s : s[i].len + Last(s).len > Window)

\* sanitizeSessionFile keeps it.
LEMMA SanitizedIs ==
  ASSUME NEW s, SessionOK(s)
  PROVE  SessionOK(Sanitized(s)) /\ (Sanitized(s) # <<>> => Repaired(Sanitized(s), s))
<1> DEFINE N == Len(s)
           z == Sizes(s)
           In == InWindow(s)
<1>1. s \in Seq(Entries) /\ N \in Nat /\ \A i \in 1..N - 1 : s[i].whole
  BY DEF SessionOK
<1>2. SessionOK(<<>>)
  BY DEF SessionOK
<1>3. /\ \A n \in 0..N : z[n] = IF n = 0 THEN 0 ELSE z[n - 1] + s[n].len
      /\ \A n \in 0..N : z[n] \in Nat
      /\ \A n \in 0..N : \A m \in 0..n : z[m] <= z[n]
  BY <1>1, SizesIs
<1>4. In = {i \in 1..N : s[i].whole /\ z[N] - z[i - 1] <= Window}
  BY <1>1 DEF InWindow, Size
<1>5. \A n \in 1..N : s[n].len \in Nat
  <2>1. \A n \in 1..N : s[n] \in Entries
    BY <1>1
  <2> QED
    BY <2>1 DEF Entries
<1>6. Window \in Nat
  BY StreamAssumption
<1> HIDE DEF z, In
<1>7. IsPrefix(s, s)
  BY <1>1 DEF IsPrefix
<1>8. CASE s = <<>> \/ Size(s) > MaxSize \/ ~s[1].whole
  BY <1>2, <1>8 DEF Sanitized
<1>9. CASE ~(s = <<>> \/ Size(s) > MaxSize \/ ~s[1].whole) /\ Last(s).whole
  <2>1. Sanitized(s) = s
    BY <1>9 DEF Sanitized
  <2>2. \A i \in N + 1..N : FALSE
    BY <1>1
  <2> QED
    BY <1>7, <1>9, <2>1, <2>2 DEF Repaired
<1>10. CASE ~(s = <<>> \/ Size(s) > MaxSize \/ ~s[1].whole) /\ ~Last(s).whole
  <2>1. N >= 2 /\ s[N - 1].whole /\ N - 1 \in 1..N /\ N \in 1..N
    <3>1. N # 0 /\ s[1].whole /\ ~s[N].whole
      BY <1>1, <1>10 DEF Last
    <3>2. N >= 2
      BY <1>1, <3>1
    <3> QED
      BY <1>1, <3>2
  <2>2. CASE In = {}
    <3>1. Sanitized(s) = s
      BY <1>10, <2>2 DEF Sanitized, In
    <3>2. \A i \in N + 1..N : FALSE
      BY <1>1
    <3>3. N - 1 \notin In
      BY <2>2
    <3>4. ~(z[N] - z[N - 1 - 1] <= Window)
      BY <1>4, <2>1, <3>3
    <3>5. z[N] = z[N - 1] + s[N].len /\ z[N - 1] = z[N - 1 - 1] + s[N - 1].len /\ z[N - 1 - 1] \in Nat
      <4>1. N \in 0..N /\ N - 1 \in 0..N /\ N - 1 - 1 \in 0..N /\ N # 0 /\ N - 1 # 0
        <5> HIDE DEF N
        <5> QED
          BY <1>1, <2>1
      <4> HIDE DEF N
      <4> QED
        BY <1>3, <4>1
    <3>6. s[N - 1].len + s[N].len > Window
      <4>1. s[N - 1].len \in Nat /\ s[N].len \in Nat
        BY <1>5, <2>1
      <4> QED
        BY <1>6, <3>4, <3>5, <4>1
    <3>7. N - 1 \in DOMAIN s
      BY <1>1, <2>1
    <3> QED
      BY <1>7, <3>1, <3>2, <3>6, <3>7 DEF Repaired, Last
  <2>3. CASE In # {}
    <3> DEFINE m == Max(In)
               kept == SubSeq(s, 1, m)
    <3>1. Sanitized(s) = kept
      BY <1>10, <2>3 DEF Sanitized, In
    <3>2. In \in SUBSET (0..N)
      BY <1>4
    <3>3. m \in In /\ \A i \in In : i <= m
      <4> HIDE DEF N
      <4> QED
        BY <1>1, <2>3, <3>2, GreatestOf
    <3> HIDE DEF m
    <3>4. m \in 1..N /\ s[m].whole /\ z[N] - z[m - 1] <= Window
      BY <1>4, <3>3
    <3>5. /\ kept \in Seq(Entries) /\ Len(kept) = m /\ m \in Nat /\ m <= N /\ m >= 1
          /\ \A i \in 1..m : i \in 1..N /\ kept[i] = s[i]
      BY <1>1, <3>4
    <3>6. IsPrefix(kept, s)
      <4>1. SubSeq(kept, 1, m) = kept
        BY <3>5
      <4> QED
        BY <3>5, <4>1 DEF IsPrefix
    <3>7. ASSUME NEW i \in m + 1..N PROVE ~s[i].whole
      <4> SUFFICES ASSUME s[i].whole PROVE FALSE
        OBVIOUS
      <4>1. i \in 1..N /\ i - 1 \in 0..N /\ m - 1 \in 0..i - 1 /\ N \in 0..N /\ i > m
        BY <1>1, <3>5
      <4>2. z[m - 1] <= z[i - 1] /\ z[m - 1] \in Nat /\ z[i - 1] \in Nat /\ z[N] \in Nat
        <5>1. m - 1 \in 0..N
          BY <3>5, <4>1
        <5> QED
          BY <1>3, <4>1, <5>1
      <4>3. z[N] - z[i - 1] <= Window
        BY <1>6, <3>4, <4>2
      <4>4. i \in In
        BY <1>4, <4>1, <4>3
      <4> QED
        BY <3>3, <3>5, <4>1, <4>4
    <3>8. Last(kept).whole
      BY <3>4, <3>5 DEF Last
    <3>9. SessionOK(kept)
      <4>1. \A i \in 1..m - 1 : i \in 1..N - 1 /\ i \in 1..m
        BY <1>1, <3>5
      <4> QED
        BY <1>1, <3>5, <4>1 DEF SessionOK
    <3> HIDE DEF kept
    <3> QED
      BY <3>1, <3>5, <3>6, <3>7, <3>8, <3>9 DEF Repaired
  <2> QED
    BY <2>2, <2>3
<1> QED
  BY <1>8, <1>9, <1>10

\* An entry more.
LEMMA RecordedIs ==
  ASSUME NEW s, SessionOK(s), NEW len \in Nat \ {0}
  PROVE  SessionOK(Recorded(s, len))
<1> DEFINE N == Len(s)
<1>1. s \in Seq(Entries) /\ N \in Nat /\ \A i \in 1..N - 1 : s[i].whole
  BY DEF SessionOK
<1>2. CASE s = <<>> \/ Last(s).whole
  <2> DEFINE e == [len |-> len, whole |-> TRUE]
             t == Append(s, e)
  <2>1. e \in Entries
    BY DEF Entries
  <2> HIDE DEF e
  <2>2. t \in Seq(Entries) /\ Len(t) = N + 1 /\ \A i \in 1..N : t[i] = s[i]
    BY <1>1, <2>1
  <2>3. \A i \in 1..N : s[i].whole
    <3> SUFFICES ASSUME NEW i \in 1..N PROVE s[i].whole
      OBVIOUS
    <3>1. s # <<>>
      BY <1>1
    <3>2. s[N].whole
      BY <1>2, <3>1 DEF Last
    <3>3. i = N \/ i \in 1..N - 1
      BY <1>1
    <3> QED
      BY <1>1, <3>2, <3>3
  <2>4. Len(t) - 1 = N
    BY <1>1, <2>2
  <2>5. SessionOK(t)
    BY <2>2, <2>3, <2>4 DEF SessionOK
  <2> QED
    BY <1>2, <2>5 DEF Recorded, e
<1>3. CASE ~(s = <<>> \/ Last(s).whole)
  <2>1. N \in 1..N
    BY <1>1, <1>3
  <2>2. s[N] \in Entries
    BY <1>1, <2>1
  <2> DEFINE e == [s[N] EXCEPT !.len = s[N].len + len]
             t == [s EXCEPT ![N] = e]
  <2>3. e \in Entries
    <3>1. s[N].len \in Nat \ {0} /\ s[N].whole \in BOOLEAN
      BY <2>2 DEF Entries
    <3>2. s[N].len + len \in Nat \ {0}
      BY <3>1
    <3> QED
      BY <2>2, <3>2 DEF Entries
  <2>4. Recorded(s, len) = t
    BY <1>3 DEF Recorded
  <2> HIDE DEF e
  <2>5. t \in Seq(Entries) /\ Len(t) = N /\ \A i \in 1..N - 1 : t[i] = s[i]
    BY <1>1, <2>1, <2>3
  <2>6. SessionOK(t)
    BY <1>1, <2>5 DEF SessionOK
  <2> QED
    BY <2>4, <2>6
<1> QED
  BY <1>2, <1>3

\* A last entry cut.
LEMMA CutIs ==
  ASSUME NEW s, SessionOK(s), NEW t \in Cut(s)
  PROVE  SessionOK(t)
<1> DEFINE N == Len(s)
<1>1. s \in Seq(Entries) /\ N \in Nat /\ \A i \in 1..N - 1 : s[i].whole
  BY DEF SessionOK
<1>2. CASE t = s
  BY <1>2
<1>3. CASE s # <<>> /\ t = [s EXCEPT ![N].whole = FALSE]
  <2>1. N \in 1..N
    BY <1>1, <1>3
  <2>2. s[N] \in Entries
    BY <1>1, <2>1
  <2> DEFINE e == [s[N] EXCEPT !.whole = FALSE]
  <2>3. e \in Entries
    BY <2>2 DEF Entries
  <2>4. t = [s EXCEPT ![N] = e]
    BY <1>3
  <2> HIDE DEF e
  <2>5. t \in Seq(Entries) /\ Len(t) = N /\ \A i \in 1..N - 1 : t[i] = s[i]
    BY <1>1, <2>1, <2>3, <2>4
  <2> QED
    BY <1>1, <2>5 DEF SessionOK
<1> QED
  BY <1>2, <1>3 DEF Cut

-----------------------------------------------------------------------------
\* The steps.

\* The first states.
LEMMA StreamInvInit == StreamInit => StreamInv
<1> SUFFICES ASSUME StreamInit PROVE StreamInv
  OBVIOUS
<1>1. /\ child.spawns = 0 /\ child.events = 0 /\ ~child.alive /\ child.wrote = <<>>
      /\ child \in [spawns : Nat, events : Nat, alive : BOOLEAN, wrote : Seq(Events)]
  BY DEF StreamInit
<1>2. result \in [ok : BOOLEAN, code : {0, 1}, of : Nat] /\ result.of = 0
  BY DEF StreamInit
<1>3. got \in Folds /\ SessionOK(session) /\ pipe = <<>>
  BY DEF StreamInit, Empty, Folds, SessionOK
<1> QED
  BY <1>1, <1>2, <1>3 DEF StreamInv, Unclosed, Closed

\* An attempt begun has told nothing.
LEMMA NothingTold == Empty \in Folds /\ Reads(Empty, <<>>, <<>>, 0)
<1>1. Empty \in Folds /\ Empty.line = <<>> /\ Empty.answer = <<>> /\ ~Empty.error /\ Empty.tools = 0 /\ Empty.cost = 0
  BY DEF Empty, Folds
<1>2. \A K : First(<<>>, K, 0) = {}
  BY DEF First
<1>3. Cardinality({}) = 0
  BY FS_EmptySet
<1>4. ToSet(Empty.answer) = {}
  BY <1>1 DEF ToSet
<1>5. Told(Empty, <<>>, 0)
  <2>1. \A i, j \in DOMAIN Empty.answer : i < j => Empty.answer[i] < Empty.answer[j]
    BY <1>1
  <2>2. ~Empty.error /\ ~(\E e \in First(<<>>, {"error"}, 0) : \A d \in First(<<>>, {"turn"}, 0) : d < e)
    BY <1>1, <1>2
  <2> QED
    BY <1>1, <1>2, <1>3, <1>4, <2>1, <2>2 DEF Told
<1>6. Len(<<>>) = 0 /\ <<>> \in Seq(Pieces)
  OBVIOUS
<1>7. Reading(Empty, <<>>, <<>>, 0)
  BY <1>1, <1>5, <1>6 DEF Reading
<1>8. Total(Empty, <<>>, 0) = 0
  BY <1>1, <1>6 DEF Total
<1> QED
  BY <1>1, <1>7, <1>8 DEF Reads

\* An attempt.
LEMMA SpawnKeeps == ASSUME StreamInv, Spawn PROVE StreamInv'
<1>1. /\ child' \in [spawns : Nat, events : Nat, alive : BOOLEAN, wrote : Seq(Events)]
      /\ child'.spawns = child.spawns + 1 /\ child'.alive /\ child'.wrote = <<>>
  <2>1. child \in [spawns : Nat, events : Nat, alive : BOOLEAN, wrote : Seq(Events)]
    BY DEF StreamInv
  <2>2. child' = [child EXCEPT !.spawns = child.spawns + 1, !.alive = TRUE, !.wrote = <<>>]
    BY DEF Spawn
  <2>3. child.spawns + 1 \in Nat /\ <<>> \in Seq(Events)
    BY <2>1
  <2> QED
    BY <2>1, <2>2, <2>3
<1>2. result' = result /\ result.of = child.spawns /\ child.spawns \in Nat /\ pipe' = pipe /\ pipe = <<>> /\ got' = Empty
  BY DEF StreamInv, Spawn, Unclosed
<1>3. SessionOK(session')
  <2>1. SessionOK(Sanitized(session)) /\ 1 \in Nat \ {0}
    BY SanitizedIs DEF StreamInv
  <2> QED
    BY <2>1, RecordedIs DEF Spawn
<1>4. result'.of # child'.spawns /\ result'.of <= child'.spawns
  BY <1>1, <1>2
<1>5. 0 \in Pending'
  <2>1. 3 * Len(<<>>) = 0
    OBVIOUS
  <2> QED
    BY <1>1, <2>1 DEF Pending
<1>6. Reads(got', pipe', child'.wrote, 0) /\ got' \in Folds
  BY <1>1, <1>2, NothingTold
<1>7. result' \in [ok : BOOLEAN, code : {0, 1}, of : Nat]
  BY <1>2 DEF StreamInv
<1> QED
  BY <1>1, <1>3, <1>4, <1>5, <1>6, <1>7 DEF StreamInv, Unclosed, Closed

\* An event.
LEMMA EmitKeeps == ASSUME StreamInv, NEW kind \in Kinds, Emit(kind) PROVE StreamInv'
<1> DEFINE n == Len(child.wrote) + 1
           event == [of |-> n, kind |-> kind]
<1>1. /\ child \in [spawns : Nat, events : Nat, alive : BOOLEAN, wrote : Seq(Events)]
      /\ child.alive /\ Unclosed /\ Reads(got, pipe, child.wrote, 3 * Len(child.wrote))
      /\ child' = [child EXCEPT !.events = child.events + 1, !.wrote = Append(child.wrote, event)]
      /\ pipe' = pipe \o LineOf(n, kind) /\ got' = got /\ result' = result
  BY DEF StreamInv, Emit, Pending
<1>2. child.wrote \in Seq(Events)
  BY <1>1
<1>3. /\ Append(child.wrote, event) \in Seq(Events) /\ Len(Append(child.wrote, event)) = n
      /\ Reads(got, pipe \o LineOf(n, kind), Append(child.wrote, event), 3 * n)
  BY <1>1, <1>2, MoreWritten
<1> HIDE DEF n, event
<1>4. /\ child' \in [spawns : Nat, events : Nat, alive : BOOLEAN, wrote : Seq(Events)]
      /\ child'.spawns = child.spawns /\ child'.alive /\ child'.wrote = Append(child.wrote, event)
  <2>1. child.events + 1 \in Nat /\ Append(child.wrote, event) \in Seq(Events)
    BY <1>1, <1>3
  <2> HIDE DEF Unclosed
  <2> QED
    BY <1>1, <2>1
<1>5. SessionOK(session')
  <2>1. SessionOK(session) /\ Lengths \subseteq Nat \ {0}
    BY StreamAssumption DEF StreamInv
  <2>2. session' = session \/ \E len \in Lengths : session' = Recorded(session, len)
    BY DEF Emit
  <2> QED
    BY <2>1, <2>2, RecordedIs
<1>6. Unclosed' /\ ~Closed'
  BY <1>1, <1>4 DEF Unclosed, Closed
<1>7. 3 * n \in Pending' /\ Reads(got', pipe', child'.wrote, 3 * n)
  BY <1>1, <1>3, <1>4 DEF Pending
<1>8. result' \in [ok : BOOLEAN, code : {0, 1}, of : Nat] /\ result'.of <= child'.spawns /\ got' \in Folds
  BY <1>1, <1>4 DEF StreamInv
<1> QED
  BY <1>4, <1>5, <1>6, <1>7, <1>8 DEF StreamInv

\* A chunk.
LEMMA DataKeeps == ASSUME StreamInv, NEW n \in Nat, Data(n) PROVE StreamInv'
<1>1. /\ child \in [spawns : Nat, events : Nat, alive : BOOLEAN, wrote : Seq(Events)] /\ n \in 1..Len(pipe)
      /\ got' = HandleChunk(got, SubSeq(pipe, 1, n)) /\ pipe' = SubSeq(pipe, n + 1, Len(pipe))
      /\ child' = child /\ result' = result /\ session' = session
  BY DEF StreamInv, Data
<1>2. Unclosed
  <2>1. pipe # <<>>
    BY <1>1
  <2> QED
    BY <2>1 DEF StreamInv
<1>3. PICK total \in Pending : Reads(got, pipe, child.wrote, total)
  BY <1>2 DEF StreamInv
<1>4. child.wrote \in Seq(Events) /\ total <= 3 * Len(child.wrote) + 1
  <2>1. child.wrote \in Seq(Events)
    BY <1>1
  <2>2. Len(child.wrote) \in Nat
    BY <2>1
  <2> QED
    BY <2>1, <2>2 DEF Pending
<1>5. PICK done \in Nat : Reading(got, pipe, child.wrote, done) /\ Total(got, pipe, done) = total
  BY <1>3 DEF Reads
<1>6. Reads(got', pipe', child'.wrote, total)
  BY <1>1, <1>4, <1>5, ChunkRead
<1>7. got' \in Folds
  BY <1>6 DEF Reads, Reading
<1>8. Unclosed' /\ ~Closed' /\ total \in Pending'
  BY <1>1, <1>2 DEF Unclosed, Closed, Pending
<1> QED
  BY <1>1, <1>6, <1>7, <1>8 DEF StreamInv

\* The end of the child.
LEMMA DieKeeps == ASSUME StreamInv, NEW cut \in 0..2, Die(cut) PROVE StreamInv'
<1> DEFINE v == IF cut = 2 THEN Front(child.wrote) ELSE child.wrote
<1>1. /\ child \in [spawns : Nat, events : Nat, alive : BOOLEAN, wrote : Seq(Events)]
      /\ child.alive /\ Unclosed /\ Reads(got, pipe, child.wrote, 3 * Len(child.wrote)) /\ cut <= Len(pipe)
      /\ child' = [child EXCEPT !.alive = FALSE, !.wrote = v] /\ got' = got
      /\ pipe' = SubSeq(pipe, 1, Len(pipe) - cut)
  BY DEF StreamInv, Die, Pending
<1>2. child.wrote \in Seq(Events)
  BY <1>1
<1>3. /\ v \in Seq(Events)
      /\ \E total \in 3 * Len(v) - 1..3 * Len(v) + 1 : Reads(got, SubSeq(pipe, 1, Len(pipe) - cut), v, total)
  BY <1>1, <1>2, LessWritten
<1> HIDE DEF v
<1>4. /\ child' \in [spawns : Nat, events : Nat, alive : BOOLEAN, wrote : Seq(Events)]
      /\ child'.spawns = child.spawns /\ ~child'.alive /\ child'.wrote = v
  BY <1>1, <1>3
<1>5. /\ result' \in [ok : BOOLEAN, code : {0, 1}, of : Nat] /\ result'.of = result.of
  <2>1. PICK code \in {0, 1} : result' = [result EXCEPT !.code = code]
    BY DEF Die
  <2> QED
    BY <2>1 DEF StreamInv
<1>6. SessionOK(session')
  <2>1. SessionOK(session)
    BY DEF StreamInv
  <2>2. session' = session \/ session' \in Cut(session)
    BY DEF Die
  <2> QED
    BY <2>1, <2>2, CutIs
<1>7. Unclosed' /\ ~Closed'
  BY <1>1, <1>4, <1>5 DEF Unclosed, Closed
<1>8. \E total \in Pending' : Reads(got', pipe', child'.wrote, total)
  BY <1>1, <1>3, <1>4 DEF Pending
<1>9. result'.of <= child'.spawns /\ got' \in Folds
  BY <1>1, <1>4, <1>5 DEF StreamInv
<1> QED
  BY <1>4, <1>5, <1>6, <1>7, <1>8, <1>9 DEF StreamInv

\* The end of its output.
LEMMA CloseKeeps == ASSUME StreamInv, Close PROVE StreamInv'
<1>1. /\ child \in [spawns : Nat, events : Nat, alive : BOOLEAN, wrote : Seq(Events)]
      /\ ~child.alive /\ pipe = <<>> /\ Unclosed /\ result.of < child.spawns
      /\ got' = [HandleLine(got, got.line) EXCEPT !.line = <<>>]
      /\ result' = [ok |-> Succeeds(got', result.code), code |-> result.code, of |-> child.spawns]
      /\ child' = child /\ pipe' = pipe /\ session' = session
  <2>1. result.of # child.spawns
    BY DEF StreamInv, Close
  <2> QED
    BY <2>1 DEF StreamInv, Close, Unclosed
<1>2. child.wrote \in Seq(Events) /\ child.spawns \in Nat
  BY <1>1
<1>3. PICK total \in 3 * Len(child.wrote) - 1..3 * Len(child.wrote) + 1 : Reads(got, <<>>, child.wrote, total)
  BY <1>1 DEF StreamInv, Pending
<1>4. got' \in Folds /\ Told(got', child.wrote, Len(child.wrote))
  BY <1>1, <1>2, <1>3, RestTold
<1>5. /\ result'.of = child.spawns /\ result'.code = result.code /\ result.code \in {0, 1}
      /\ result'.ok = Succeeds(got', result.code) /\ Succeeds(got', result.code) \in BOOLEAN
  BY <1>1 DEF StreamInv, Succeeds
<1>6. result' \in [ok : BOOLEAN, code : {0, 1}, of : Nat]
  BY <1>1, <1>2, <1>5
<1>7. ~Unclosed' /\ result'.of <= child'.spawns
  BY <1>1, <1>2, <1>5 DEF Unclosed
<1>8. result'.ok <=> result'.code = 0 /\ ~got'.error
  BY <1>5 DEF Succeeds
<1>9. SessionOK(session') /\ ~child'.alive /\ pipe' = <<>>
  BY <1>1 DEF StreamInv
<1>10. child' \in [spawns : Nat, events : Nat, alive : BOOLEAN, wrote : Seq(Events)]
  BY <1>1
<1>11. Told(got', child'.wrote, Len(child'.wrote))
  BY <1>1, <1>4
<1> QED
  BY <1>4, <1>6, <1>7, <1>8, <1>9, <1>10, <1>11 DEF StreamInv

\* One step of any kind keeps the invariant.
LEMMA StreamInvStep == StreamInv /\ [StreamNext]_streamVars => StreamInv'
<1> SUFFICES ASSUME StreamInv, [StreamNext]_streamVars PROVE StreamInv'
  OBVIOUS
<1>1. CASE UNCHANGED streamVars
  BY <1>1 DEF streamVars, StreamInv, Unclosed, Closed, Pending
<1>2. ASSUME NEW n \in 1..3 * MaxEvents, Data(n) PROVE StreamInv'
  <2>1. n \in Nat
    BY StreamAssumption
  <2> QED
    BY <1>2, <2>1, DataKeeps
<1> QED
  BY <1>1, <1>2, SpawnKeeps, EmitKeeps, DieKeeps, CloseKeeps DEF StreamNext

\* What the invariant says of what was told.
LEMMA StreamInvTells == StreamInv => AnswerWhole /\ ResultTells
<1> SUFFICES ASSUME StreamInv, Closed PROVE AnswerWhole /\ ResultTells
  BY DEF AnswerWhole, ResultTells
<1> DEFINE w == child.wrote
           N == Len(w)
<1>1. w \in Seq(Events) /\ N \in Nat /\ Told(got, w, N) /\ (result.ok <=> result.code = 0 /\ ~got.error)
  BY DEF StreamInv
<1>2. \A K : Wrote(K) = First(w, K, N)
  BY <1>1 DEF Wrote, First
<1>3. AnswerWhole
  BY <1>1, <1>2 DEF AnswerWhole, Told
<1> DEFINE turns == First(w, {"turn", "error"}, N)
           ends == First(w, {"turn"}, N)
           errors == First(w, {"error"}, N)
<1>4. turns = ends \cup errors /\ ends \cap errors = {} /\ turns \in SUBSET (0..N)
  BY <1>1 DEF First
<1>5. got.error <=> \E e \in errors : \A d \in ends : d < e
  BY <1>1 DEF Told
<1> HIDE DEF turns, ends, errors, N
<1>6. turns # {} => Max(turns) \in turns /\ \A m \in turns : m <= Max(turns)
  BY <1>1, <1>4, GreatestOf
<1>7. ~got.error <=> (turns # {} => Max(turns) \in ends)
  <2>1. ASSUME turns # {}, Max(turns) \in errors PROVE got.error
    <3>1. \A d \in ends : d # Max(turns) /\ d <= Max(turns) /\ d \in 0..N /\ Max(turns) \in 0..N
      BY <1>4, <1>6, <2>1
    <3>2. \A d \in ends : d < Max(turns)
      BY <1>1, <3>1
    <3> QED
      BY <1>5, <2>1, <3>2
  <2>2. ASSUME turns # {}, Max(turns) \in ends PROVE ~got.error
    <3> SUFFICES ASSUME NEW e \in errors, \A d \in ends : d < e PROVE FALSE
      BY <1>5
    <3>1. Max(turns) < e /\ e <= Max(turns) /\ e \in 0..N /\ Max(turns) \in 0..N
      BY <1>4, <1>6, <2>2
    <3> QED
      BY <1>1, <3>1
  <2>3. turns = {} => ~got.error
    BY <1>4, <1>5
  <2> QED
    BY <1>4, <1>6, <2>1, <2>2, <2>3
<1>8. ResultTells
  BY <1>1, <1>2, <1>7 DEF ResultTells, turns, ends
<1> QED
  BY <1>3, <1>8

\* workflow-core.ts: for any events, chunks, deaths and sessions, a closed spawn's answer, counts and
\* success are those of what its child wrote, and a session's repair loses no whole line it keeps.
THEOREM StreamIsKept == StreamSpec => StreamKept
<1>1. StreamInv /\ [StreamNext]_streamVars =>
        [Spawn /\ Sanitized(session) # <<>> =>
           LET kept == Sanitized(session) IN
           /\ IsPrefix(kept, session)
           /\ \A i \in Len(kept) + 1..Len(session) : ~session[i].whole
           /\ Last(kept).whole \/ (kept = session
                /\ \E i \in DOMAIN session : session[i].len + Last(session).len > Window)]_streamVars
  BY SanitizedIs DEF StreamInv, Repaired
<1> QED
  BY <1>1, StreamInvInit, StreamInvStep, StreamInvTells, PTL DEF StreamSpec, StreamKept, SessionRepaired
=============================================================================
