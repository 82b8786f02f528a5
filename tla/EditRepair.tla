----------------------------- MODULE EditRepair -----------------------------
(***************************************************************************)
(* The edit-repair hook (extensions/edit-repair.ts, utils/edit/            *)
(* edit-repair.ts): before pi's edit tool runs, the hook reads the file    *)
(* and repairs an edit whose blanks were flattened, or keeps a diagnosis   *)
(* for the tool's result.  A text is a sequence of tokens: 0 is a line     *)
(* break, n > 0 a run of n blanks, a negative number a word, -1 a quote.   *)
(* No line is empty or ends in blanks; texts too long to be matched are    *)
(* not modelled.  The tool itself is pi's.                                 *)
(***************************************************************************)
EXTENDS Integers, Sequences, FiniteSets, SequencesExt

CONSTANTS Texts,      \* the texts the file may hold
          Edits(_)    \* the calls the model may make, having read a file: sequences of
                      \* edits [old, new]

ASSUME EditRepairAssumption == Texts \subseteq Seq(Int)

VARIABLES
  file,      \* the file on disk
  call,      \* the call and, in case it fails, the same call made again
  written    \* has another program rewritten the file

editVars == <<file, call, written>>

Calls == {1, 2}
NoText == <<>>
NL == 0
Quote == -1

IsBlank(t) == t > 0

-----------------------------------------------------------------------------
\* Matching.

\* Mutant: \s instead of [ \t].
AnySpace(t) == t >= 0

\* What a widened run of blanks may stand for.
Widens(t) == IsBlank(t)

\* flexPattern widens the runs inside a line, diagnosticPattern indentation as well.
Between(s) == {j \in 2..Len(s) - 1 : IsBlank(s[j])}

MidLine(s) == {j \in Between(s) : s[j - 1] # NL /\ s[j + 1] # NL}

\* Where a text occurs, widened at some of its runs.  Its first run may be the end of a longer one.
Places(body, s, wide) ==
  {k \in 0..Len(body) - Len(s) :
     \A j \in DOMAIN s :
       \/ body[k + j] = s[j]
       \/ IsBlank(s[j]) /\ j \in wide /\ Widens(body[k + j])
       \/ IsBlank(s[j]) /\ j = 1 /\ s[j] <= body[k + j]}

Includes(body, s) == Places(body, s, {}) # {}

\* The one match of a widened text: a global regular expression's matches do not overlap.
Widened(body, s, wide) ==
  LET places == Places(body, s, wide)
      earliest == CHOOSE k \in places : \A l \in places : k <= l
  IN IF Includes(body, s) \/ wide = {} \/ places = {} \/ \E k \in places : k >= earliest + Len(s)
     THEN NoText
     ELSE [j \in DOMAIN s |-> IF j \in wide THEN body[earliest + j] ELSE s[j]]

\* Mutant: indentation is widened too.
FlexEverywhere(body, s) == Widened(body, s, Between(s))

FlexMatch(body, s) == Widened(body, s, MidLine(s))

Diagnosis(body, s) == Widened(body, s, Between(s))

-----------------------------------------------------------------------------
\* Lines.

Lines(s) ==
  LET cuts == SetToSortSeq({0, Len(s) + 1} \cup {j \in DOMAIN s : s[j] = NL}, <) IN
  [i \in 1..Len(cuts) - 1 |-> SubSeq(s, cuts[i] + 1, cuts[i + 1] - 1)]

Unlines(ls) == FlattenSeq([i \in DOMAIN ls |-> IF i = 1 THEN ls[i] ELSE <<NL>> \o ls[i]])

Indent(l) == IF l # <<>> /\ IsBlank(Head(l)) THEN <<Head(l)>> ELSE <<>>

Bare(l) == SubSeq(l, Len(Indent(l)) + 1, Len(l))

Narrow(s) == [j \in DOMAIN s |-> IF IsBlank(s[j]) THEN 1 ELSE s[j]]

Key(l) == Narrow(Bare(l))

\* The lines of a set with a line's content.
Alike(ls, l) == {m \in ls : Key(m) = Key(l)}

\* Where whole lines of a body read like others.
Hits(bs, os) == {i \in 0..Len(bs) - Len(os) : \A j \in DOMAIN os : Key(bs[i + j]) = Key(os[j])}

\* The lines of new with the blanks of those of the file that they are like, or stand for.
Rebuilt(fs, ns) ==
  LET rebuilt[i \in DOMAIN ns] ==
        LET like == Alike(Range(fs), ns[i]) IN
        IF like # {} THEN CHOOSE m \in like : TRUE
        ELSE (IF Len(ns) = Len(fs) THEN Indent(fs[i])
              ELSE Indent(IF i = 1 THEN fs[1] ELSE rebuilt[i - 1])) \o Bare(ns[i])
  IN rebuilt

\* Old and new take the blanks of the file's lines.
Fitted(e, fs, ns) ==
  IF \E l \in Range(fs) : Cardinality(Alike(Range(fs), l)) > 1 THEN e
  ELSE [old |-> Unlines(fs), new |-> Unlines(Rebuilt(fs, ns))]

\* repairIndent: where whole lines of the file read like the edit's, once.
IndentRepair(body, e) ==
  LET os == Lines(e.old)
      Fit(bs, hits) ==
        IF Len(os) < 2 \/ Cardinality(hits) # 1 THEN e
        ELSE Fitted(e, SubSeq(bs, Min(hits) + 1, Min(hits) + Len(os)), Lines(e.new))
  IN IF Includes(body, e.old) THEN e ELSE Fit(Lines(body), Hits(Lines(body), os))

\* Where a token ends in its line; every word is one column wide.
EndOf(l, j) == FoldLeft(LAMBDA sum, t : sum + (IF IsBlank(t) THEN t ELSE 1), 0, SubSeq(l, 1, j))

\* columnOffsets: the runs of two blanks and more that end at a column.
Columns(ls, at) ==
  {<<i, j>> \in (DOMAIN ls) \X (1..Max({Len(ls[i]) : i \in DOMAIN ls})) :
     j < Len(ls[i]) /\ ls[i][j] >= 2 /\ EndOf(ls[i], j) = at}

InLiteral(l, j) == Cardinality({k \in 1..j : l[k] = Quote}) % 2 = 1

IsFlattened(sent, line, ls) ==
  /\ Len(sent) = Len(line) /\ sent # line
  /\ \A j \in DOMAIN line :
       \/ sent[j] = line[j]
       \/ /\ IsBlank(line[j]) /\ sent[j] = 1
          /\ InLiteral(line, j) => Cardinality(Columns(ls, EndOf(line, j))) >= 2

\* repairCarriedWhitespace: of an edit that matches, the lines new carries along from old.
Carried(body, e) ==
  LET os == Lines(e.old)
      Restored(l) ==
        LET like == Alike(Range(os), l) IN
        IF Cardinality(like) = 1 /\ \E m \in like : IsFlattened(l, m, os)
        THEN CHOOSE m \in like : TRUE ELSE l
      ns == Lines(e.new)
  IN IF Includes(body, e.old) THEN Unlines([i \in DOMAIN ns |-> Restored(ns[i])]) ELSE e.new

-----------------------------------------------------------------------------
\* Deciding.

\* repairEdits, of one edit: its new text carried along, the flexible match, the indentation.
Repaired(e, carried, found, ind) ==
  IF carried # e.new THEN [e EXCEPT !.new = carried]
  ELSE IF found \notin {NoText, e.new} THEN [e EXCEPT !.old = found]
  ELSE IF found = NoText /\ ind.old # ind.new THEN ind ELSE e

Repair(body, e) == Repaired(e, Carried(body, e), FlexMatch(body, e.old), IndentRepair(body, e))

\* classifyBatch, of one edit.
State(body, e) ==
  LET found == FlexMatch(body, e.old) IN
  IF Includes(body, e.old) THEN "applies"
  ELSE IF found # NoText THEN IF found = e.new THEN "satisfied" ELSE "repairable"
  ELSE IF IndentRepair(body, e) # e THEN "repairable" ELSE "missing"

\* anchorMismatch: does a line of old occur in the file once.
Anchored(body, s) ==
  \E i \in DOMAIN Lines(s) :
    Cardinality({k \in DOMAIN Lines(body) : Bare(Lines(body)[k]) = Bare(Lines(s)[i])}) = 1

\* What stands in the way of an edit, if the hook can tell.
Obstacle(body, e) ==
  IF Includes(body, e.old) THEN "none"
  ELSE IF FlexMatch(body, e.old) = e.new THEN "satisfied"
  ELSE IF Repair(body, e) # e THEN "none"
  ELSE IF Diagnosis(body, e.old) # NoText THEN "explain"
  ELSE IF Anchored(body, e.old) THEN "anchor" ELSE "none"

\* decideEdit: what will be said should the call fail, and the edits that go to pi.
Decided(es, states, obstacles, repairs) ==
  LET blocked == {i \in DOMAIN es : obstacles[i] # "none"} IN
  IF Len(es) > 1 /\ \E i \in DOMAIN es : states[i] \in {"missing", "satisfied"}
  THEN [told |-> "partial", edits |-> es]
  ELSE IF blocked # {} THEN [told |-> obstacles[Min(blocked)], edits |-> es]
  ELSE [told |-> "none", edits |-> repairs]

Decide(body, es) ==
  Decided(es, [i \in DOMAIN es |-> State(body, es[i])], [i \in DOMAIN es |-> Obstacle(body, es[i])],
          [i \in DOMAIN es |-> Repair(body, es[i])])

-----------------------------------------------------------------------------
\* pi's edit tool (external): every old occurs once, and all of them are replaced or none.

Join(s, t) ==
  IF s # <<>> /\ t # <<>> /\ IsBlank(Last(s)) /\ IsBlank(Head(t))
  THEN Front(s) \o <<Last(s) + Head(t)>> \o Tail(t) ELSE s \o t

Splice(body, k, e) ==
  LET rest == IF body[k + 1] = e.old[1] THEN <<>> ELSE <<body[k + 1] - e.old[1]>> IN
  Join(Join(SubSeq(body, 1, k) \o rest, e.new), SubSeq(body, k + Len(e.old) + 1, Len(body)))

\* What a body may become, each old being replaced at a place of its own.
Outcomes(body, es) ==
  IF Len(es) = 1 THEN {Splice(body, k, es[1]) : k \in Places(body, es[1].old, {})}
  ELSE {Splice(Splice(body, IF a < b THEN b ELSE a, IF a < b THEN es[2] ELSE es[1]),
               IF a < b THEN a ELSE b, IF a < b THEN es[1] ELSE es[2]) :
          <<a, b>> \in {<<a, b>> \in Places(body, es[1].old, {}) \X Places(body, es[2].old, {}) :
                          a + Len(es[1].old) <= b \/ b + Len(es[2].old) <= a}}

Lands(body, es) ==
  /\ \A i \in DOMAIN es : es[i].old # es[i].new /\ Cardinality(Places(body, es[i].old, {})) = 1
  /\ Outcomes(body, es) # {}

-----------------------------------------------------------------------------
EditInit ==
  /\ file \in Texts /\ written = FALSE
  /\ call = [c \in Calls |-> [at |-> "none", sent |-> <<>>, edits |-> <<>>, told |-> "none"]]

\* The model calls the tool, with what it read or, again, with what it sent.
Send(c) ==
  /\ call[c].at = "none"
  /\ \E es \in IF c = 1 THEN Edits(file) ELSE {call[1].sent} \ {<<>>} :
       call' = [call EXCEPT ![c].at = "sent", ![c].sent = es]
  /\ UNCHANGED <<file, written>>

\* tool_call.
Hook(c) ==
  /\ call[c].at = "sent"
  /\ LET d == Decide(file, call[c].sent) IN
     call' = [call EXCEPT ![c].at = "hooked", ![c].edits = d.edits, ![c].told = d.told]
  /\ UNCHANGED <<file, written>>

\* The tool, and tool_result: what was to be said is said of a failure only.
Apply(c) ==
  /\ call[c].at = "hooked"
  /\ IF Lands(file, call[c].edits)
     THEN /\ file' \in Outcomes(file, call[c].edits)
          /\ call' = [call EXCEPT ![c].at = "landed", ![c].told = "none"]
     ELSE call' = [call EXCEPT ![c].at = "failed"] /\ UNCHANGED file
  /\ UNCHANGED written

\* Another tool, or the user, writes the file.
Rewrite ==
  /\ ~written /\ written' = TRUE
  /\ file' \in Texts \ {file} /\ UNCHANGED call

EditNext == Rewrite \/ \E c \in Calls : Send(c) \/ Hook(c) \/ Apply(c)

EditSpec == EditInit /\ [][EditNext]_editVars

-----------------------------------------------------------------------------
Landing(c) == Apply(c) /\ call'[c].at = "landed"

Squash(s) == SelectSeq(s, LAMBDA t : ~IsBlank(t))

(***************************************************************************)
(* A call that lands, repaired or not, changes the words and the line      *)
(* breaks of the file as the call that was sent says, and no others.       *)
(***************************************************************************)
EditKeepsWords ==
  [][\A c \in Calls : Landing(c) =>
       Squash(file') \in
         Outcomes(Squash(file),
                  [i \in DOMAIN call[c].sent |-> [old |-> Squash(call[c].sent[i].old),
                                                  new |-> Squash(call[c].sent[i].new)]])]_editVars

\* The rows of the file that a call of one edit, which keeps the number of lines, covers with
\* a line sent alike in old and new.
SentAlike(c) ==
  LET e == call[c].edits[1]
      k == CHOOSE k \in Places(file, e.old, {}) : TRUE
      row == Len(Lines(SubSeq(file, 1, k + 1)))
      os == Lines(call[c].sent[1].old)
      ns == Lines(call[c].sent[1].new)
  IN IF Len(call[c].sent) > 1 \/ Len(os) # Len(ns) THEN {}
     ELSE {row + i - 1 : i \in {i \in DOMAIN os : os[i] = ns[i]}}

(***************************************************************************)
(* A line the model sent alike in old and new keeps its indentation: no    *)
(* repair reindents what it was not asked to change.                       *)
(***************************************************************************)
IndentStays ==
  [][\A c \in Calls : Landing(c) =>
       \A r \in SentAlike(c) : Indent(Lines(file')[r]) = Indent(Lines(file)[r])]_editVars

(***************************************************************************)
(* A repaired call does what the call that was sent says: to words and     *)
(* line breaks, and to the indentation of the lines it leaves as they are. *)
(***************************************************************************)
RepairKeeps == EditKeepsWords /\ IndentStays
=============================================================================
