------------------------------ MODULE LspEdits ------------------------------
(***************************************************************************)
(* lsp rename and code-actions --apply (skills/lsp/lsp.py): the edits of a *)
(* WorkspaceEdit, file by file.  A text is a sequence of characters, an    *)
(* edit puts a new text in the place of the characters from..to - 1.       *)
(***************************************************************************)
EXTENDS Integers, Sequences, FiniteSets, SequencesExt

CONSTANTS Documents,    \* the files a WorkspaceEdit names
          Before,       \* their text
          EditLists     \* the lists of edits a server may send for one of them

Edit == [from : Nat, to : Nat, new : Seq(Nat)]
Clear(d, e) == d.to <= e.from \/ e.to <= d.from

\* The protocol's (external): the edits of one file do not overlap.
ASSUME EditsAssumption ==
  /\ Before \in Seq(Nat)
  /\ \A list \in EditLists :
       /\ list \in Seq(Edit) /\ \A i \in DOMAIN list : list[i].from <= list[i].to
       /\ \A i, j \in DOMAIN list : i # j => Clear(list[i], list[j])

VARIABLES text, sent, applied

editsVars == <<text, sent, applied>>

\* A position past the end of the text is its end (_pos_to_offset).
Offset(n) == IF n > Len(Before) THEN Len(Before) ELSE n

Spans(list) == [n \in DOMAIN list |-> [list[n] EXCEPT !.from = Offset(@), !.to = Offset(@)]]

Spliced(t, e) == SubSeq(t, 1, e.from) \o e.new \o SubSeq(t, e.to + 1, Len(t))

\* Mutant: the spans in the order of the list.
FirstLeft(list, left) == Min(left)

\* Of the spans that are left the last; equal starts keep the order of the list (sorted is stable).
LastLeft(list, left) ==
  CHOOSE n \in left :
    \A m \in left : list[m].from < list[n].from \/ (list[m].from = list[n].from /\ n <= m)

\* The text, and the spans that are left, after each splice.
Passes(t, list) ==
  LET after[k \in 0..Len(list)] ==
        IF k = 0 THEN [text |-> t, left |-> DOMAIN list]
        ELSE LET n == LastLeft(list, after[k - 1].left) IN
             [text |-> Spliced(after[k - 1].text, list[n]), left |-> after[k - 1].left \ {n}]
  IN after

\* apply_text_edits.
ApplyTextEdits(t, list) == Passes(t, Spans(list))[Len(list)].text

EditsInit ==
  /\ text = [d \in Documents |-> Before]
  /\ sent \in [Documents -> EditLists]
  /\ applied = {}

\* apply_workspace_edit, one file; a file that cannot be read is passed over.
ApplyDocument(d) ==
  /\ d \notin applied /\ applied' = applied \cup {d}
  /\ \E readable \in BOOLEAN :
       text' = IF readable THEN [text EXCEPT ![d] = ApplyTextEdits(@, sent[d])] ELSE text
  /\ UNCHANGED sent

EditsNext == \E d \in Documents : ApplyDocument(d)

EditsSpec == EditsInit /\ [][EditsNext]_editsVars

-----------------------------------------------------------------------------
\* Every character that no edit covers, and in each edit's place its new text.
Covered(list, n) == \E i \in DOMAIN list : list[i].from < n /\ n <= list[i].to
NewAt(list, n) ==
  IF \E i \in DOMAIN list : list[i].from = n
  THEN list[CHOOSE i \in DOMAIN list : list[i].from = n].new ELSE <<>>

Kept(t, list, n) == IF n <= Len(t) /\ ~Covered(list, n) THEN <<t[n]>> ELSE <<>>

\* What the last n places, the end of the text among them, are to be.
Intended(t, list) ==
  LET last[n \in 0..Len(t) + 1] ==
        IF n = 0 THEN <<>>
        ELSE NewAt(list, Len(t) + 1 - n) \o (Kept(t, list, Len(t) + 2 - n) \o last[n - 1])
  IN last

AsIntended(t, list) == Intended(t, list)[Len(t) + 1]

Starts(list) == {list[i].from : i \in DOMAIN list}

(***************************************************************************)
(* Edits that start at different places all land where the server meant    *)
(* them, however the one shifts the text of the other.                     *)
(***************************************************************************)
EditsLand ==
  \A d \in Documents :
    Cardinality(Starts(Spans(sent[d]))) = Len(sent[d]) =>
      text[d] \in {Before, AsIntended(Before, Spans(sent[d]))}
=============================================================================
