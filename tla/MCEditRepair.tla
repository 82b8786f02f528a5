---------------------------- MODULE MCEditRepair ----------------------------
EXTENDS EditRepair

\* Two columns, indented; the same with the first line again; a literal with padding.
MCFiles ==
  {<<2, -2, 3, -3, 0, 2, -4, 3, -5>>,
   <<2, -2, 3, -3, 0, 4, -2, 1, -3, 0, -4>>,
   <<2, -2, 1, -1, -3, 3, -4, -1, 0, -4>>}

\* A line as a model writes it down: each run as it is or as one blank, the indentation
\* perhaps left out.
Transcribed(l) ==
  LET runs == {j \in DOMAIN l : IsBlank(l[j])} IN
  {[j \in DOMAIN l |-> IF j \in flat THEN 1 ELSE l[j]] : flat \in SUBSET runs} \cup {Bare(l)}

Changed(l) == IF Last(l) = Quote THEN l ELSE Append(Front(l), -6)

\* A line of new: carried along, or with its last word changed.
Rewritten(l) == Transcribed(l) \cup {Changed(m) : m \in Transcribed(l)}

\* One line, two lines, two lines as one, or two lines with one put between.
MCEdits(f) ==
  LET ls == Lines(f)
      One(i) == [old : Transcribed(ls[i]), new : Rewritten(ls[i])]
      Two(i) == {[old |-> Unlines(<<a, b>>), new |-> Unlines(<<c, d>>)] :
                   a \in Transcribed(ls[i]), b \in Transcribed(ls[i + 1]),
                   c \in Transcribed(ls[i]), d \in Rewritten(ls[i + 1])}
      Joined(i) == {[old |-> a \o <<1>> \o Bare(ls[i + 1]), new |-> a] : a \in Transcribed(ls[i])}
      Between2(i) == {[old |-> Unlines(<<a, b>>), new |-> Unlines(<<a, <<1, -6>>, b>>)] :
                        a \in Transcribed(ls[i]), b \in Transcribed(ls[i + 1])}
      Small(i) == {[old |-> a, new |-> Changed(a)] : a \in Transcribed(ls[i])}
      Real(es) == {e \in es : e.old # e.new}
  IN {<<e>> : e \in Real(UNION {One(i) : i \in DOMAIN ls}
                         \cup UNION {Two(i) \cup Joined(i) \cup Between2(i) : i \in 1..Len(ls) - 1})}
     \cup {<<d, e>> : d \in Real(Small(1)), e \in Real(Small(2))}
=============================================================================
