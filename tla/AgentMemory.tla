---------------------------- MODULE AgentMemory ----------------------------
(***************************************************************************)
(* The memory file of one agent (utils/workflow/memory.ts): the lessons of *)
(* runs that passed and those the reflector draws from runs that failed    *)
(* (obs/obs-reflect.ts) are folded into it by any pi process on the        *)
(* machine.  It is read, folded and replaced by way of a sibling file,     *)
(* whose name all processes share; a name refers to an inode, and a writer *)
(* keeps writing to the one it opened.                                     *)
(*                                                                         *)
(* A text is the sequence of its words.                                    *)
(***************************************************************************)
EXTENDS Naturals, FiniteSets, Sequences, SequencesExt

CONSTANTS Writers, Lessons,
          Cap,                    \* MEMORY_CAP
          MaxFolds, MaxBatch    \* bounds

ASSUME AgentMemoryAssumption ==
  Cap \in Nat \ {0} /\ MaxFolds \in Nat /\ MaxBatch \in Nat \ {0}

VARIABLES
  data,        \* the lessons in each inode
  memory, tmp, \* the inodes the two names refer to; 0: there is no such file
  writer,      \* what each process is at
  commits,     \* how many commits and reflections there have been
  overlapped   \* history: has one begun while another was under way

memoryVars == <<data, memory, tmp, writer, commits, overlapped>>

AtRest == [at |-> "rest", before |-> <<>>, texts |-> <<>>, fd |-> 0]

MemoryInit ==
  /\ data = << <<>> >> /\ memory = 1 /\ tmp = 0
  /\ writer = [w \in Writers |-> AtRest] /\ commits = 0
  /\ overlapped = FALSE

ReadMemory == data[memory]

-----------------------------------------------------------------------------
\* The fold.

PartOf(t, s) == \E k \in 0..Len(s) - Len(t) : \A j \in DOMAIN t : s[k + j] = t[j]

Similar(s, t) == PartOf(s, t) \/ PartOf(t, s)
Known(lessons, text) == \E i \in DOMAIN lessons : Similar(lessons[i], text)

\* The lessons after the first n texts.
Deduped(lessons, texts) ==
  LET out[n \in 0..Len(texts)] ==
        IF n = 0 THEN lessons
        ELSE IF Known(out[n - 1], texts[n]) THEN out[n - 1] ELSE Append(out[n - 1], texts[n])
  IN out

DedupeAppend(lessons, texts) == Deduped(lessons, texts)[Len(texts)]

CapLessons(lessons) ==
  IF Len(lessons) <= Cap THEN lessons ELSE SubSeq(lessons, Len(lessons) - Cap + 1, Len(lessons))

\* Mutant: the newest fall off the end.
FoldKeepingOldest(lessons, texts) ==
  LET all == DedupeAppend(lessons, texts) IN SubSeq(all, 1, IF Len(all) <= Cap THEN Len(all) ELSE Cap)

FoldStaged(lessons, texts) == CapLessons(DedupeAppend(lessons, texts))

After(w) == FoldStaged(writer[w].before, writer[w].texts)

\* Mutant: a list of the same length is the same list.
LongerNow(w) == Len(After(w)) # Len(writer[w].before)

LessonsChanged(w) == After(w) # writer[w].before

-----------------------------------------------------------------------------
\* commitStagedLearnings and addLessons, of one agent.

Batches == UNION {[1..n -> Lessons] : n \in 1..MaxBatch}

BeginFold(w) ==
  /\ writer[w].at = "rest" /\ commits < MaxFolds /\ commits' = commits + 1
  /\ \E texts \in Batches : writer' = [writer EXCEPT ![w] =
       [at |-> "read", before |-> ReadMemory, texts |-> texts, fd |-> 0]]
  /\ overlapped' = (overlapped \/ \E v \in Writers : writer[v].at # "rest")
  /\ UNCHANGED <<data, memory, tmp>>

NothingNew(w) ==
  /\ writer[w].at = "read" /\ ~LessonsChanged(w) /\ writer' = [writer EXCEPT ![w] = AtRest]
  /\ UNCHANGED <<data, memory, tmp, commits, overlapped>>

\* Mutant: the memory itself is opened.
OpenMemory(w) ==
  /\ data' = [data EXCEPT ![memory] = <<>>] /\ UNCHANGED tmp
  /\ writer' = [writer EXCEPT ![w].at = "opened", ![w].fd = memory]

\* writeFileSync opens and truncates the sibling, which a crashed writer may have left.
OpenSibling(w) ==
  IF tmp = 0
  THEN /\ data' = Append(data, <<>>) /\ tmp' = Len(data')
       /\ writer' = [writer EXCEPT ![w].at = "opened", ![w].fd = Len(data')]
  ELSE /\ data' = [data EXCEPT ![tmp] = <<>>] /\ UNCHANGED tmp
       /\ writer' = [writer EXCEPT ![w].at = "opened", ![w].fd = tmp]

Open(w) ==
  /\ writer[w].at = "read" /\ LessonsChanged(w) /\ OpenSibling(w)
  /\ UNCHANGED <<memory, commits, overlapped>>

\* From the start of the inode: what another writer wrote beyond stays.
Overwritten(old, new) == new \o SubSeq(old, Len(new) + 1, Len(old))

Write(w) ==
  /\ writer[w].at = "opened"
  /\ data' = [data EXCEPT ![writer[w].fd] = Overwritten(@, After(w))]
  /\ writer' = [writer EXCEPT ![w].at = "written"]
  /\ UNCHANGED <<memory, tmp, commits, overlapped>>

\* If another writer has taken the sibling away, the error is swallowed.
Rename(w) ==
  /\ writer[w].at = "written" /\ writer' = [writer EXCEPT ![w] = AtRest]
  /\ memory' = IF tmp = 0 THEN memory ELSE tmp
  /\ tmp' = 0
  /\ UNCHANGED <<data, commits, overlapped>>

Unfinished(w) == {SubSeq(After(w), 1, k) : k \in 0..Len(After(w)) - 1}

\* The disk is full: the sibling is removed.
WriteFails(w) ==
  /\ writer[w].at = "opened" /\ writer' = [writer EXCEPT ![w] = AtRest]
  /\ \E part \in Unfinished(w) : data' = [data EXCEPT ![writer[w].fd] = Overwritten(@, part)]
  /\ tmp' = 0
  /\ UNCHANGED <<memory, commits, overlapped>>

CrashWriter(w) ==
  /\ writer[w].at # "rest" /\ writer' = [writer EXCEPT ![w] = AtRest]
  /\ \/ UNCHANGED data
     \/ /\ writer[w].at = "opened"
        /\ \E part \in Unfinished(w) : data' = [data EXCEPT ![writer[w].fd] = Overwritten(@, part)]
  /\ UNCHANGED <<memory, tmp, commits, overlapped>>

MemoryNext == \E w \in Writers :
  BeginFold(w) \/ NothingNew(w) \/ Open(w) \/ Write(w) \/ Rename(w) \/ WriteFails(w) \/ CrashWriter(w)

MemorySpec == MemoryInit /\ [][MemoryNext]_memoryVars

-----------------------------------------------------------------------------
(***************************************************************************)
(* Nothing but a commit that is through changes the memory, not a crash nor*)
(* a failed write: it is at all times a list some commit folded, complete, *)
(* within the cap and with no lesson twice.  Two processes that commit at  *)
(* once can break that: they share the sibling.                            *)
(***************************************************************************)
Folded(lessons) ==
  /\ Len(lessons) <= Cap
  /\ \A i, j \in DOMAIN lessons : i # j => ~Similar(lessons[i], lessons[j])

MemoryWhole ==
  [][~overlapped => /\ Folded(ReadMemory')
                    /\ \/ ReadMemory' = ReadMemory
                       \/ \E w \in Writers : Rename(w) /\ ReadMemory' = After(w)]_memoryVars

(***************************************************************************)
(* A commit that is through has taught the agent its last new lesson, also *)
(* when the memory is full; and what it drops are the oldest lessons.  (A  *)
(* lesson learned again keeps its old place, and may be among them.)       *)
(***************************************************************************)
Unknown(w) == {i \in DOMAIN writer[w].texts : ~Known(writer[w].before, writer[w].texts[i])}

Learns(w) ==
  /\ Unknown(w) # {} => \E i \in Unknown(w) : writer[w].texts[i] \in ToSet(ReadMemory')
  /\ \E dropped \in 0..Len(ReadMemory) :
       /\ IsPrefix(SubSeq(ReadMemory, dropped + 1, Len(ReadMemory)), ReadMemory')
       /\ dropped > 0 => Len(ReadMemory') = Cap

LessonsLearned ==
  [][\A w \in Writers : ~overlapped /\ (NothingNew(w) \/ Rename(w)) => Learns(w)]_memoryVars

MemoryKept == MemoryWhole /\ LessonsLearned
=============================================================================
