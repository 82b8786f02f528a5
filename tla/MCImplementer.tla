--------------------------- MODULE MCImplementer ---------------------------
(***************************************************************************)
(* The parts around an implementer's work, which share no state: a         *)
(* behaviour is one of any of them, picked in its initial state.  Where an *)
(* initial state may be one of several, the parts not picked have one.     *)
(***************************************************************************)
EXTENDS MCEditRepair, InlineBudget, MCWorktrees, SpawnStream, WorkBranch,
        Lsp, Catalog, AgentMemory

VARIABLE part

CONSTANTS edit, first, build, again

\* WorkBranch.
MCUserWork == {edit}
MCPhases == {first}
MCClashes == {<<edit, first>>}
MCRequests == {build, again}

\* LspEdits: a text of three characters, and every two edits that do not overlap.
MCBefore == <<1, 2, 3>>
OneEdit == {e \in [from : 0..3, to : 0..4, new : {<<>>, <<8>>, <<9, 9>>}] : e.from <= e.to}
MCEditLists ==
  {<<>>} \cup {<<e>> : e \in OneEdit}
  \cup {<<d, e>> : <<d, e>> \in {<<d, e>> \in OneEdit \X OneEdit : Clear(d, e)}}

\* AgentMemory: one lesson is part of another.
MCLessons == {<<1>>, <<2>>, <<1, 2>>, <<3>>}

\* Catalog: the two directories are alike, so that one order of them is enough.
Rank(dir) == Cardinality(dotenv[dir]) + [none |-> 0, plain |-> 1, model |-> 2][frontmatter[dir]]

Parts == {"edit", "budget", "trees", "stream", "branch", "lsp", "lspedits", "catalog", "memory"}

MCInit ==
  /\ part \in Parts
  /\ EditInit /\ (part # "edit" => file = CHOOSE f \in Texts : TRUE)
  /\ BudgetInit
  /\ TreesInit
  /\ StreamInit
  /\ BranchInit /\ (part # "branch" => on = Main)
  /\ LspInit /\ (part # "lsp" => job.kind = "diagnostics" /\ \A f \in Sources : job.of[f] = "missing")
  /\ EditsInit /\ (part # "lspedits" => \A d \in Documents : sent[d] = <<>>)
  /\ CatalogInit /\ Rank("d") <= Rank("e")
  /\ part # "catalog" => /\ shell = {} /\ \A f \in EnvFiles : dotenv[f] = {}
                         /\ \A f \in EnvFiles : frontmatter[f] = "plain"
  /\ MemoryInit

Steps(p) ==
  CASE p = "edit" -> EditNext /\ UNCHANGED <<budgetVars, treeVars, streamVars, branchVars, lspVars, editsVars, catalogVars, memoryVars>>
    [] p = "budget" -> BudgetNext /\ UNCHANGED <<editVars, treeVars, streamVars, branchVars, lspVars, editsVars, catalogVars, memoryVars>>
    [] p = "trees" -> TreesNext /\ UNCHANGED <<editVars, budgetVars, streamVars, branchVars, lspVars, editsVars, catalogVars, memoryVars>>
    [] p = "stream" -> StreamNext /\ UNCHANGED <<editVars, budgetVars, treeVars, branchVars, lspVars, editsVars, catalogVars, memoryVars>>
    [] p = "branch" -> BranchNext /\ UNCHANGED <<editVars, budgetVars, treeVars, streamVars, lspVars, editsVars, catalogVars, memoryVars>>
    [] p = "lsp" -> LspNext /\ UNCHANGED <<editVars, budgetVars, treeVars, streamVars, branchVars, editsVars, catalogVars, memoryVars>>
    [] p = "lspedits" -> EditsNext /\ UNCHANGED <<editVars, budgetVars, treeVars, streamVars, branchVars, lspVars, catalogVars, memoryVars>>
    [] p = "catalog" -> CatalogNext /\ UNCHANGED <<editVars, budgetVars, treeVars, streamVars, branchVars, lspVars, editsVars, memoryVars>>
    [] p = "memory" -> MemoryNext /\ UNCHANGED <<editVars, budgetVars, treeVars, streamVars, branchVars, lspVars, editsVars, catalogVars>>

MCNext == Steps(part) /\ UNCHANGED part

MCSpec ==
  MCInit /\ [][MCNext]_<<part, editVars, budgetVars, treeVars, streamVars, branchVars, lspVars, editsVars, catalogVars, memoryVars>>
=============================================================================
