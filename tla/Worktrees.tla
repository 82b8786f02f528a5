----------------------------- MODULE Worktrees -----------------------------
(***************************************************************************)
(* The waves of dispatch_parallel with PI_WORKTREE_ISOLATION: each worker  *)
(* of a wave gets a checkout of HEAD of its own, or the shared tree if     *)
(* that fails; when all have landed, what they changed is merged into the  *)
(* main tree unless two of them changed one path (worktree.ts,             *)
(* orchestrator-core.ts).  A path's content is the set of those whose      *)
(* writes it holds, and Gone if the path was deleted; a rename deletes one *)
(* path and writes another.  Workers do not commit, and .agent is not      *)
(* merged.                                                                 *)
(***************************************************************************)
EXTENDS Integers, FiniteSets, Sequences

CONSTANTS Paths,     \* the tracked paths
          Waves      \* the waves: a sequence of sets of workers, numbers above 0; a worker
                     \* is a dispatch, of one wave

ASSUME WorktreesAssumption ==
  /\ Waves \in Seq(SUBSET (Nat \ {0}))
  /\ \A n \in DOMAIN Waves : IsFiniteSet(Waves[n])
  /\ \A m, n \in DOMAIN Waves : m # n => Waves[m] \cap Waves[n] = {}

MainTree == 0
Deleted == -1
Coordinator == 0
Workers == UNION {Waves[n] : n \in DOMAIN Waves}

VARIABLES
  tree,      \* the main tree and the worktrees
  head,      \* HEAD of the main tree
  wave,      \* waves begun, and is the last one still out
  at,        \* a worker: "idle", "shared" or "own" while it works, and then "landed"
  own,       \* the worktrees that exist
  held,      \* has the last merge been held back
  failed     \* history: what git failed on in it: worktrees it could not read or commit,
             \* paths of the main tree it could not write

treeVars == <<tree, head, wave, at, own, held, failed>>

NoTree == [p \in Paths |-> {}]

Working(i) == at[i] \in {"shared", "own"}
HomeOf(i) == IF at[i] = "own" THEN i ELSE MainTree

\* The isolated workers of the wave that is out.
Isolated == Waves[wave.n] \cap own

\* collectWorktreeChanges, against the HEAD that was checked out.
Touched(i) == {p \in Paths : tree[i][p] # head[p]}

\* planWaveMerge, of the worktrees that could be read: the changes of another are empty.
Contested(read) == {p \in Paths : Cardinality({i \in read : p \in Touched(i)}) > 1}

\* Mutant: nobody looks for contested paths.
AppliedAll(read) == {i \in read : Touched(i) # {}}

Applied(read) == {i \in read : Touched(i) # {} /\ Touched(i) \cap Contested(read) = {}}

\* applyWaveMerge: a checkout overwrites; git rm refuses a path that differs from HEAD.
Reaches(i, p) ==
  p \in Touched(i) /\ (Deleted \in tree[i][p] => tree[MainTree][p] = head[p])

Landed(read, stuck, p) == {i \in Applied(read) : p \notin stuck /\ Reaches(i, p)}

Merged(read, stuck) ==
  [p \in Paths |->
     IF Landed(read, stuck, p) = {} THEN tree[MainTree][p]
     ELSE tree[CHOOSE i \in Landed(read, stuck, p) : TRUE][p]]

\* Mutant: the worktrees go in any case.
KeptNone(read) == own \ Isolated

\* removeWaveWorktrees, unless the merge is held back.
Remaining(read) == IF Contested(read) # {} THEN own ELSE own \ Isolated

NoFaults == [unread |-> {}, stuck |-> {}]

-----------------------------------------------------------------------------
TreesInit ==
  /\ tree = [t \in Workers \cup {MainTree} |-> NoTree] /\ head = NoTree
  /\ wave = [n |-> 0, out |-> FALSE] /\ at = [i \in Workers |-> "idle"]
  /\ own = {} /\ held = FALSE /\ failed = NoFaults

\* The wave's workers start: isolated are those whose worktree came up.
StartWave ==
  /\ ~wave.out /\ wave.n + 1 \in DOMAIN Waves
  /\ wave' = [n |-> wave.n + 1, out |-> TRUE]
  /\ \E up \in SUBSET Waves[wave.n + 1] :
       /\ own' = own \cup up
       /\ at' = [i \in Workers |-> IF i \in up THEN "own"
                                  ELSE IF i \in Waves[wave.n + 1] THEN "shared" ELSE at[i]]
       /\ tree' = [t \in DOMAIN tree |-> IF t \in up THEN head ELSE tree[t]]
  /\ held' = FALSE /\ failed' = NoFaults /\ UNCHANGED head

\* A worker writes or deletes a path.
Change(i, p, gone) ==
  /\ Working(i) /\ i \notin tree[HomeOf(i)][p]
  /\ tree' = [tree EXCEPT ![HomeOf(i)][p] = (@ \ {Deleted}) \cup {i} \cup gone]
  /\ UNCHANGED <<head, wave, at, own, held, failed>>

WorkerEnds(i) ==
  /\ Working(i) /\ at' = [at EXCEPT ![i] = "landed"]
  /\ UNCHANGED <<tree, head, wave, own, held, failed>>

\* All have landed: what can be read of their worktrees is merged, path by path, and
\* what git fails on is passed over in silence.
Merge ==
  /\ wave.out /\ \A i \in Waves[wave.n] : at[i] = "landed"
  /\ \E unread \in SUBSET {i \in Isolated : Touched(i) # {}} :
       LET read == Isolated \ unread IN
       \E stuck \in SUBSET {p \in Paths : Landed(read, {}, p) # {}} :
          /\ tree' = [tree EXCEPT ![MainTree] = Merged(read, stuck)]
          /\ held' = (Contested(read) # {})
          /\ own' = Remaining(read)
          /\ failed' = [unread |-> unread, stuck |-> stuck]
  /\ wave' = [wave EXCEPT !.out = FALSE] /\ UNCHANGED <<head, at>>

\* Between waves the coordinator edits, and commits its checkpoint (git add -A).
EditMain(p) ==
  /\ ~wave.out /\ Coordinator \notin tree[MainTree][p]
  /\ tree' = [tree EXCEPT ![MainTree][p] = (@ \ {Deleted}) \cup {Coordinator}]
  /\ UNCHANGED <<head, wave, at, own, held, failed>>

CommitAll ==
  /\ ~wave.out /\ head # tree[MainTree] /\ head' = tree[MainTree]
  /\ UNCHANGED <<tree, wave, at, own, held, failed>>

TreesNext ==
  \/ StartWave \/ Merge \/ CommitAll
  \/ \E p \in Paths : EditMain(p)
  \/ \E i \in Workers : WorkerEnds(i) \/ \E p \in Paths : Change(i, p, {}) \/ Change(i, p, {Deleted})

TreesSpec == TreesInit /\ [][TreesNext]_treeVars

-----------------------------------------------------------------------------
MergeStep == wave.out /\ ~wave'.out

\* What an isolated worker changed, and what of it the main tree has after a merge.
WrittenBy(i) == {p \in Paths : i \in tree[i][p]}
LandedFrom(i, p) == tree'[MainTree][p] = tree[i][p]

\* Those whose worktree could be read, and of them those nothing stood in the way of: git
\* failed on none of their paths, nobody had edited one that they deleted.
ReadOnes == Isolated \ failed'.unread
Smooth(i) ==
  /\ i \in ReadOnes /\ WrittenBy(i) \cap failed'.stuck = {}
  /\ \A p \in WrittenBy(i) : Deleted \in tree[i][p] => tree[MainTree][p] = head[p]

\* All that it changed, or nothing of it: then the merge says so, and keeps its worktree.
Whole(i) ==
  \/ \A p \in WrittenBy(i) : LandedFrom(i, p)
  \/ held' /\ i \in own' /\ \A p \in WrittenBy(i) : i \notin tree'[MainTree][p]

\* A path is as it was, or as the one worker left it that changed it.
NoMixture(p) ==
  \/ tree'[MainTree][p] = tree[MainTree][p]
  \/ \E i \in ReadOnes : LandedFrom(i, p) /\ {j \in ReadOnes : p \in WrittenBy(j)} = {i}

(***************************************************************************)
(* Whatever git fails on for the others of its wave, a worker for whom it  *)
(* failed on nothing has all of its changes merged, or none and its        *)
(* worktree kept; and no path mixes two workers, nor takes the side of one *)
(* of two whose worktrees were read.  (What git does fail on is lost in    *)
(* silence, and a checkout overwrites what was not committed in the main   *)
(* tree.)                                                                  *)
(***************************************************************************)
WholeOrHeldBack ==
  [][MergeStep => /\ \A i \in Isolated : Smooth(i) => Whole(i)
                  /\ \A p \in Paths : NoMixture(p)]_treeVars

(***************************************************************************)
(* The comment on the removal of the worktrees: "Only tear down once the   *)
(* work is safely in the main tree".                                       *)
(***************************************************************************)
TornDownWhenSafe ==
  [][MergeStep => \A i \in Isolated \ own' : \A p \in WrittenBy(i) : LandedFrom(i, p)]_treeVars
=============================================================================
