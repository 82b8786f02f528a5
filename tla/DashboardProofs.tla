-------------------------- MODULE DashboardProofs ----------------------------
(***************************************************************************)
(* Proofs about what people look at. Of ChatSync, for any browsers and     *)
(* chats: every copy of a chat is one its authors had before; what one     *)
(* browser alone wrote is in it, or it is older than that. Of EventFeed,   *)
(* for any sessions that have a channel: a connected page is given what    *)
(* the store holds, and its copy is in order. Of RunIndex, for any files   *)
(* and looks at them: what the index says of a run is what the files say.  *)
(* Of RunTrace, for any sessions: the spans sent, the tree shown and the   *)
(* time counted are what happened; and with it of Sinks. Of StatusPanel,   *)
(* for any team and terminal: what is left out is counted, and the last    *)
(* state is painted.                                                       *)
(***************************************************************************)
EXTENDS ChatSync, Sinks, StatusPanel, FiniteSetTheorems, SequenceTheorems, WellFoundedInduction, TLAPS

-----------------------------------------------------------------------------
\* The chats.

Below == {ss \in Nat \X Nat : ss[1] < ss[2]}

\* A set of naturals that is not empty has a least element: no number is below all of its own.
LEMMA SomeLeast ==
  ASSUME NEW S \in SUBSET Nat, S # {}
  PROVE  \E n \in S : \A m \in S : n <= m
<1>1. IsWellFoundedOn(Below, Nat)
  <2>1. OpToRel(<, Nat) = Below
    BY DEF OpToRel, Below
  <2> QED
    BY <2>1, NatLessThanWellFounded
<1>2. PICK n \in S : \A m \in S : <<m, n>> \notin Below
  BY <1>1, WFMin
<1>3. ASSUME NEW m \in S PROVE n <= m
  <2>1. <<m, n>> \in Nat \X Nat /\ <<m, n>>[1] = m /\ <<m, n>>[2] = n
    OBVIOUS
  <2>2. ~ (m < n)
    BY <1>2, <2>1 DEF Below
  <2> QED
    BY <2>2
<1> QED
  BY <1>3

\* So below a bound it has a greatest.
LEMMA SomeGreatest ==
  ASSUME NEW k \in Nat, NEW S \in SUBSET (0..k), S # {}
  PROVE  Max(S) \in S /\ \A m \in S : Max(S) >= m
<1> DEFINE U == {j \in Nat : k - j \in S}
<1>1. U \in SUBSET Nat /\ U # {}
  <2>1. PICK n \in S : TRUE
    OBVIOUS
  <2>2. k - n \in U
    BY <2>1
  <2> QED
    BY <2>2
<1>2. PICK j \in U : \A i \in U : j <= i
  BY <1>1, SomeLeast
<1>3. ASSUME NEW m \in S PROVE k - j >= m
  <2>1. k - m \in U /\ m \in Nat
    OBVIOUS
  <2> QED
    BY <1>2, <2>1
<1>4. \E x \in S : \A m \in S : x >= m
  BY <1>2, <1>3
<1> QED
  BY <1>4 DEF Max

-----------------------------------------------------------------------------
(***************************************************************************)
(* The chats.  Every copy of a chat is one its authors had before: what    *)
(* one browser alone wrote is in it, or it is older than that.             *)
(***************************************************************************)
\* Sequences: of copies, joined, with one taken out.
LEMMA Joined ==
  ASSUME NEW S, NEW s \in Seq(S), NEW t \in Seq(S)
  PROVE  /\ s \o t \in Seq(S) /\ Len(s \o t) = Len(s) + Len(t)
         /\ \A i \in DOMAIN (s \o t) :
              \/ i \in DOMAIN s /\ (s \o t)[i] = s[i]
              \/ i - Len(s) \in DOMAIN t /\ (s \o t)[i] = t[i - Len(s)]
         /\ \A i \in DOMAIN t : (s \o t)[Len(s) + i] = t[i]
OBVIOUS

\* RemoveAt takes one element out and keeps the order of the others.
LEMMA TakenOut ==
  ASSUME NEW S, NEW s \in Seq(S), NEW i \in DOMAIN s
  PROVE  /\ RemoveAt(s, i) \in Seq(S) /\ Len(RemoveAt(s, i)) = Len(s) - 1
         /\ \A j \in 1 .. Len(s) - 1 : RemoveAt(s, i)[j] = IF j < i THEN s[j] ELSE s[j + 1]
<1> DEFINE a == SubSeq(s, 1, i - 1)
           z == SubSeq(s, i + 1, Len(s))
<1>0. i \in 1..Len(s) /\ Len(s) \in Nat
  OBVIOUS
<1>1. a \in Seq(S) /\ Len(a) = i - 1 /\ \A j \in 1 .. i - 1 : a[j] = s[j]
  BY <1>0
<1>2. z \in Seq(S) /\ Len(z) = Len(s) - i /\ \A j \in 1 .. Len(s) - i : z[j] = s[i + j]
  BY <1>0
<1>3. RemoveAt(s, i) = a \o z
  BY DEF RemoveAt
<1> HIDE DEF a, z
<1>4. a \o z \in Seq(S) /\ Len(a \o z) = Len(s) - 1
  BY <1>0, <1>1, <1>2
<1>5. ASSUME NEW j \in 1 .. Len(s) - 1 PROVE (a \o z)[j] = IF j < i THEN s[j] ELSE s[j + 1]
  <2>1. CASE j < i
    <3>1. j \in 1 .. i - 1 /\ j \in 1 .. Len(a) /\ j \in 1 .. Len(a) + Len(z)
      BY <1>0, <1>1, <1>2, <2>1
    <3> QED
      BY <1>1, <1>2, <2>1, <3>1
  <2>2. CASE ~ (j < i)
    <3>0. i \in Nat /\ j \in Nat /\ Len(s) \in Nat /\ Len(a) = i - 1 /\ Len(z) = Len(s) - i
          /\ j <= Len(s) - 1 /\ i <= j /\ 1 <= i
      BY <1>0, <1>1, <1>2, <2>2
    <3>1. j - Len(a) \in 1 .. Len(z) /\ j - Len(a) = j - i + 1 /\ i + (j - i + 1) = j + 1
          /\ j \in 1 .. Len(a) + Len(z) /\ j \notin 1 .. Len(a)
      <4>1. j - Len(a) = j - i + 1 /\ i + (j - i + 1) = j + 1 /\ Len(a) + Len(z) = Len(s) - 1
        BY <3>0
      <4>2. j - i + 1 \in 1 .. Len(s) - i
        BY <3>0
      <4>3. j \in 1 .. Len(s) - 1
        BY <3>0
      <4>4. j \notin 1 .. i - 1
        BY <3>0
      <4> QED
        BY <3>0, <4>1, <4>2, <4>3, <4>4
    <3>2. (a \o z)[j] = z[j - Len(a)]
      BY <1>1, <1>2, <3>1
    <3> QED
      BY <1>0, <1>2, <2>2, <3>1, <3>2
  <2> QED
    BY <2>1, <2>2
<1> QED
  BY <1>3, <1>4, <1>5

\* No element, no sequence but <<>>.
LEMMA NothingIn ==
  ASSUME NEW S, NEW s \in Seq(S), Len(s) = 0
  PROVE  s = <<>>
OBVIOUS

Msg == [ts : Nat, turn : Int]
Copy == [Chats -> SUBSET Msg]

ChatTypeOK ==
  /\ clock \in Nat
  /\ page \in [Browsers -> {"closed", "loading", "open"}]
  /\ local \in [Browsers -> Copy]
  /\ pending \in [Browsers -> Seq(Copy)] /\ \A b \in Browsers : Len(pending[b]) <= 1
  /\ puts \in [Browsers -> Seq(Copy)]
  /\ answer \in [Browsers -> Seq(Copy)] /\ \A b \in Browsers : Len(answer[b]) <= 1
  /\ streams \in [Browsers -> SUBSET [chat : Chats, turn : Nat]]
  /\ stored \in Copy
  /\ authors \in [Chats -> SUBSET Browsers]
  /\ wrote \in [Browsers -> [Chats -> SUBSET Msg]]
  /\ clean \in [Browsers -> BOOLEAN]

In(x, s) == \E i \in DOMAIN s : s[i] = x

IsCopy(x) ==
  \/ x = stored
  \/ \E b \in Browsers : x = local[b] \/ In(x, pending[b]) \/ In(x, puts[b]) \/ In(x, answer[b])

Dated ==
  /\ \A x : IsCopy(x) => \A c \in Chats : \A m \in x[c] : m.ts <= clock /\ m.turn <= clock
  /\ \A b \in Browsers, c \in Chats : \A m \in wrote[b][c] : 0 < m.ts /\ m.ts <= clock

OnceIn(msgs) == \A m, n \in msgs : m.turn = n.turn /\ m.turn > 0 => m = n

TurnsOnce == \A x : IsCopy(x) => \A c \in Chats : OnceIn(x[c])

\* A turn under way is answered nowhere yet, and is under way once.
StreamsApart ==
  /\ \A b \in Browsers : \A s \in streams[b] : 0 < s.turn /\ s.turn <= clock
  /\ \A b, d \in Browsers : \A s \in streams[b], r \in streams[d] : s.turn = r.turn => b = d /\ s = r

Unanswered ==
  \A b \in Browsers : \A s \in streams[b] :
    \A x : IsCopy(x) => \A c \in Chats : \A m \in x[c] : m.turn # s.turn

OwnWords ==
  \A b \in Browsers, c \in Chats :
    /\ b \notin authors[c] => wrote[b][c] = {}
    /\ authors[c] = {b} =>
         \A w \in wrote[b][c] :
           /\ w \in local[b][c]
           /\ \A x : IsCopy(x) => w \in x[c] \/ \A m \in x[c] : m.ts < w.ts

\* What the server will have when all that is on its way has arrived in order.
ToBe(b) ==
  IF pending[b] # <<>> THEN pending[b][1]
  ELSE IF puts[b] # <<>> THEN puts[b][Len(puts[b])] ELSE stored

InStep ==
  \A b \in Browsers : clean[b] =>
    /\ page[b] = "open" => \A c \in Chats : local[b][c] = NoChat \/ local[b][c] \subseteq ToBe(b)[c]
    /\ page[b] = "loading" => answer[b] = <<stored>>

ChatInv == ChatTypeOK /\ Dated /\ TurnsOnce /\ StreamsApart /\ Unanswered /\ OwnWords /\ InStep

\* Nothing is written yet, and no copy is anywhere.
LEMMA ChatInitInv == ChatInit => ChatInv
<1> SUFFICES ASSUME ChatInit PROVE ChatInv
  OBVIOUS
<1>1. [ts |-> 0, turn |-> -1] \in Msg /\ NoChats \in Copy
  BY DEF Msg, Copy, NoChats, NoChat
<1>2. <<>> \in Seq(Copy) /\ Len(<<>>) <= 1 /\ DOMAIN <<>> = {}
  OBVIOUS
<1>3. ChatTypeOK
  BY <1>1, <1>2 DEF ChatInit, ChatTypeOK
<1>4. \A x : IsCopy(x) => x = NoChats
  BY <1>2 DEF ChatInit, IsCopy, In
<1>5. \A c \in Chats : \A m \in NoChats[c] : m.ts = 0 /\ m.turn = -1
  BY DEF NoChats, NoChat
<1>6. \A c \in Chats : \A m, n \in NoChats[c] : m = n
  BY DEF NoChats, NoChat
<1>7. Dated /\ TurnsOnce
  BY <1>4, <1>5, <1>6 DEF ChatInit, Dated, TurnsOnce, OnceIn
<1> QED
  BY <1>3, <1>7 DEF ChatInit, ChatInv, StreamsApart, Unanswered, OwnWords, InStep

-----------------------------------------------------------------------------
\* A page writes a chat: what is new is of this moment.
LEMMA WriteKeeps ==
  ASSUME ChatInv, NEW b \in Browsers, NEW c \in Chats,
         NEW msgs \in SUBSET Msg, NEW own \in SUBSET Msg, Write(b, c, msgs, own),
         clock' \in {clock, clock + 1},
         streams' \in [Browsers -> SUBSET [chat : Chats, turn : Nat]], StreamsApart',
         \A d \in Browsers : \A s \in streams'[d] : s \in streams[d] \/ s.turn > clock,
         \A m \in msgs : m.ts <= clock' /\ m.turn <= clock',
         \A m \in msgs, d \in Browsers : \A s \in streams'[d] : m.turn # s.turn,
         OnceIn(msgs),
         authors[c] \subseteq {b} => own \subseteq msgs,
         \A w \in own : w \in wrote[b][c] \/ (w.ts = clock' /\ clock' = clock + 1)
  PROVE  ChatInv'
<1> DEFINE new == [local[b] EXCEPT ![c] = msgs]
<1>1. /\ local' = [local EXCEPT ![b] = new] /\ pending' = [pending EXCEPT ![b] = <<new>>]
      /\ authors' = [authors EXCEPT ![c] = @ \cup {b}] /\ wrote' = [wrote EXCEPT ![b][c] = own]
      /\ UNCHANGED <<loads, page, puts, answer, stored, clean>>
  BY DEF Write, Save
<1>2. new \in Copy /\ new[c] = msgs /\ \A d \in Chats \ {c} : new[d] = local[b][d]
  BY DEF ChatInv, ChatTypeOK, Copy
<1> HIDE DEF new
<1>3. <<new>> \in Seq(Copy) /\ Len(<<new>>) = 1 /\ <<new>>[1] = new /\ <<new>> # <<>>
      /\ \A x : In(x, <<new>>) => x = new
  BY <1>2 DEF In
<1>4. /\ local'[b] = new /\ pending'[b] = <<new>> /\ wrote'[b][c] = own
      /\ \A d \in Browsers \ {b} : local'[d] = local[d] /\ pending'[d] = pending[d] /\ wrote'[d] = wrote[d]
      /\ \A e \in Chats \ {c} : authors'[e] = authors[e] /\ wrote'[b][e] = wrote[b][e]
      /\ authors'[c] = authors[c] \cup {b}
  BY <1>1 DEF ChatInv, ChatTypeOK
<1>5. wrote' \in [Browsers -> [Chats -> SUBSET Msg]]
  BY <1>1 DEF ChatInv, ChatTypeOK
<1>6. ChatTypeOK'
  BY <1>1, <1>2, <1>3, <1>4, <1>5 DEF ChatInv, ChatTypeOK
<1>7. \A x : IsCopy(x)' => IsCopy(x) \/ x = new
  <2> SUFFICES ASSUME NEW x, IsCopy(x)' PROVE IsCopy(x) \/ x = new
    OBVIOUS
  <2>1. CASE x = stored'
    BY <1>1, <2>1 DEF IsCopy
  <2>2. ASSUME NEW d \in Browsers, x = local'[d] \/ In(x, pending'[d]) \/ In(x, puts'[d]) \/ In(x, answer'[d])
        PROVE  IsCopy(x) \/ x = new
    BY <1>1, <1>3, <1>4, <2>2 DEF IsCopy
  <2>3. x = stored' \/ \E d \in Browsers : x = local'[d] \/ In(x, pending'[d]) \/ In(x, puts'[d]) \/ In(x, answer'[d])
    BY DEF IsCopy, In
  <2> QED
    BY <2>1, <2>2, <2>3
<1>8. IsCopy(local[b])
  BY DEF IsCopy
<1>9. clock \in Nat /\ clock' \in Nat /\ clock <= clock'
  BY DEF ChatInv, ChatTypeOK
<1>10. \A x : IsCopy(x)' => x \in Copy
  BY <1>6 DEF IsCopy, In, ChatTypeOK
<1>11. \A x : IsCopy(x) => x \in Copy
  BY DEF ChatInv, IsCopy, In, ChatTypeOK
<1>12. \A x : IsCopy(x)' => \A d \in Chats :
         (d = c /\ x[d] = msgs) \/ \E y : IsCopy(y) /\ y \in Copy /\ x[d] = y[d]
  BY <1>2, <1>7, <1>8, <1>11
<1>13. \A x \in Copy : \A d \in Chats : \A m \in x[d] : m.ts \in Nat /\ m.turn \in Int
  BY DEF Copy, Msg
<1>14. \A m \in msgs : m.ts \in Nat /\ m.turn \in Int
  BY DEF Msg
<1>15. \A m \in own : m.ts \in Nat
  BY DEF Msg
<1>16. \A d \in Browsers, e \in Chats : \A m \in wrote[d][e] : m.ts \in Nat
  BY DEF ChatInv, ChatTypeOK, Msg
<1>17. Dated'
  <2>1. ASSUME NEW x, IsCopy(x)', NEW d \in Chats, NEW m \in x[d] PROVE m.ts <= clock' /\ m.turn <= clock'
    <3>1. CASE x[d] = msgs
      BY <3>1
    <3>2. ASSUME NEW y, IsCopy(y), y \in Copy, x[d] = y[d] PROVE m.ts <= clock' /\ m.turn <= clock'
      BY <1>9, <1>13, <3>2 DEF ChatInv, Dated
    <3> QED
      BY <1>12, <2>1, <3>1, <3>2
  <2>2. ASSUME NEW d \in Browsers, NEW e \in Chats, NEW m \in wrote'[d][e] PROVE 0 < m.ts /\ m.ts <= clock'
    BY <1>4, <1>9, <1>15, <1>16, <2>2 DEF ChatInv, Dated
  <2> QED
    BY <2>1, <2>2 DEF Dated
<1>18. TurnsOnce'
  BY <1>12 DEF ChatInv, TurnsOnce
<1>19. Unanswered'
  <2> SUFFICES ASSUME NEW d \in Browsers, NEW s \in streams'[d], NEW x, IsCopy(x)',
                      NEW e \in Chats, NEW m \in x[e]
               PROVE  m.turn # s.turn
    BY DEF Unanswered
  <2>1. CASE x[e] = msgs
    BY <2>1
  <2>2. ASSUME NEW y, IsCopy(y), y \in Copy, x[e] = y[e] PROVE m.turn # s.turn
    <3>1. m.turn <= clock /\ m.turn \in Int /\ s.turn \in Nat
      BY <1>13, <2>2 DEF ChatInv, Dated
    <3> QED
      BY <1>9, <2>2, <3>1 DEF ChatInv, Unanswered
  <2> QED
    BY <1>12, <2>1, <2>2
<1>20. OwnWords'
  <2> SUFFICES ASSUME NEW d \in Browsers, NEW e \in Chats
               PROVE  /\ d \notin authors'[e] => wrote'[d][e] = {}
                      /\ authors'[e] = {d} =>
                           \A w \in wrote'[d][e] :
                             /\ w \in local'[d][e]
                             /\ \A x : IsCopy(x)' => w \in x[e] \/ \A m \in x[e] : m.ts < w.ts
    BY DEF OwnWords
  <2>1. CASE e # c
    <3>1. authors'[e] = authors[e] /\ wrote'[d][e] = wrote[d][e] /\ local'[d][e] = local[d][e]
      BY <1>2, <1>4, <2>1
    <3>2. \A x : IsCopy(x)' => \E y : IsCopy(y) /\ x[e] = y[e]
      BY <1>12, <2>1
    <3>3. /\ d \notin authors[e] => wrote[d][e] = {}
          /\ authors[e] = {d} =>
               \A w \in wrote[d][e] :
                 /\ w \in local[d][e]
                 /\ \A x : IsCopy(x) => w \in x[e] \/ \A m \in x[e] : m.ts < w.ts
      BY DEF ChatInv, OwnWords
    <3>4. ASSUME authors[e] = {d}, NEW w \in wrote[d][e], NEW x, IsCopy(x)'
          PROVE  w \in x[e] \/ \A m \in x[e] : m.ts < w.ts
      <4>1. PICK y : IsCopy(y) /\ x[e] = y[e]
        BY <3>2, <3>4
      <4> QED
        BY <3>3, <3>4, <4>1
    <3>5. d \notin authors'[e] => wrote'[d][e] = {}
      BY <3>1, <3>3
    <3>6. ASSUME authors'[e] = {d}, NEW w \in wrote'[d][e]
          PROVE  w \in local'[d][e] /\ \A x : IsCopy(x)' => w \in x[e] \/ \A m \in x[e] : m.ts < w.ts
      <4>1. authors[e] = {d} /\ w \in wrote[d][e]
        BY <3>1, <3>6
      <4>2. w \in local'[d][e]
        BY <3>1, <3>3, <4>1
      <4> QED
        BY <3>4, <4>1, <4>2
    <3> QED
      BY <3>5, <3>6, Zenon
  <2>2. CASE e = c /\ d # b
    BY <1>4, <2>2 DEF ChatInv, OwnWords
  <2>3. CASE e = c /\ d = b
    <3>1. b \in authors'[c] /\ wrote'[b][c] = own /\ local'[b][c] = msgs
      BY <1>2, <1>4
    <3>2. ASSUME authors'[c] = {b}, NEW w \in own, NEW x, IsCopy(x)'
          PROVE  w \in msgs /\ (w \in x[c] \/ \A m \in x[c] : m.ts < w.ts)
      <4>1. authors[c] \subseteq {b} /\ w \in msgs
        BY <1>4, <3>2
      <4>2. CASE x[c] = msgs
        BY <4>1, <4>2
      <4>3. ASSUME NEW y, IsCopy(y), y \in Copy, x[c] = y[c] PROVE w \in x[c] \/ \A m \in x[c] : m.ts < w.ts
        <5>1. CASE w \in wrote[b][c]
          <6>1. authors[c] = {b}
            BY <4>1, <5>1 DEF ChatInv, OwnWords
          <6> QED
            BY <4>3, <5>1, <6>1 DEF ChatInv, OwnWords
        <5>2. CASE w.ts = clock' /\ clock' = clock + 1
          BY <1>9, <1>13, <4>3, <5>2 DEF ChatInv, Dated
        <5> QED
          BY <5>1, <5>2
      <4> QED
        BY <1>12, <3>2, <4>1, <4>2, <4>3
    <3>3. /\ b \notin authors'[c] => wrote'[b][c] = {}
          /\ authors'[c] = {b} =>
               \A w \in wrote'[b][c] :
                 /\ w \in local'[b][c]
                 /\ \A x : IsCopy(x)' => w \in x[c] \/ \A m \in x[c] : m.ts < w.ts
      <4>1. ASSUME authors'[c] = {b}, NEW w \in wrote'[b][c]
            PROVE  w \in local'[b][c]
        <5>1. w \in own
          BY <3>1, <4>1
        <5>2. authors[c] \subseteq {b}
          BY <1>4, <4>1
        <5> QED
          BY <3>1, <5>1, <5>2
      <4>2. ASSUME authors'[c] = {b}, NEW w \in wrote'[b][c], NEW x, IsCopy(x)'
            PROVE  w \in x[c] \/ \A m \in x[c] : m.ts < w.ts
        BY <3>1, <3>2, <4>2
      <4> QED
        BY <3>1, <4>1, <4>2
    <3> QED
      BY <2>3, <3>3, Zenon
  <2> QED
    BY <2>1, <2>2, <2>3, Zenon
<1>21. InStep'
  <2> SUFFICES ASSUME NEW d \in Browsers, clean'[d]
               PROVE  /\ page'[d] = "open" => \A e \in Chats : local'[d][e] = NoChat \/ local'[d][e] \subseteq ToBe(d)'[e]
                      /\ page'[d] = "loading" => answer'[d] = <<stored'>>
    BY DEF InStep
  <2>1. CASE d = b
    <3>1. ToBe(b)' = new
      BY <1>3, <1>4 DEF ToBe
    <3>2. clean[b] /\ page'[b] = page[b] /\ answer'[b] = answer[b] /\ stored' = stored
      BY <1>1, <2>1
    <3>3. page[b] = "loading" => answer[b] = <<stored>>
      BY <3>2 DEF ChatInv, InStep
    <3> QED
      BY <1>4, <2>1, <3>1, <3>2, <3>3
  <2>2. CASE d # b
    <3>1. /\ local'[d] = local[d] /\ pending'[d] = pending[d] /\ puts'[d] = puts[d] /\ stored' = stored
          /\ page'[d] = page[d] /\ answer'[d] = answer[d] /\ clean'[d] = clean[d]
      BY <1>1, <1>4, <2>2
    <3>2. ToBe(d)' = ToBe(d)
      BY <3>1 DEF ToBe
    <3> QED
      BY <3>1, <3>2 DEF ChatInv, InStep
  <2> QED
    BY <2>1, <2>2
<1> QED
  BY <1>6, <1>17, <1>18, <1>19, <1>20, <1>21 DEF ChatInv

\* A page sends: the message, and the turn that is to answer it.
LEMMA SendKeeps ==
  ASSUME ChatInv, NEW b \in Browsers, NEW c \in Chats, Send(b, c)
  PROVE  ChatInv'
<1> DEFINE old == IF local[b][c] = NoChat THEN {} ELSE local[b][c]
           m == [ts |-> clock + 1, turn |-> 0]
           msgs == old \cup {m}
           own == wrote[b][c] \cup {m}
           s == [chat |-> c, turn |-> clock + 1]
<1>1. /\ Write(b, c, msgs, own) /\ clock' = clock + 1
      /\ streams' = [streams EXCEPT ![b] = @ \cup {s}]
      /\ local[b][c] = NoChat => authors[c] = {}
  BY DEF Send, Tick, Begin
<1>2. IsCopy(local[b]) /\ old \subseteq local[b][c]
  BY DEF IsCopy
<1>3. /\ clock \in Nat /\ local[b][c] \in SUBSET Msg /\ wrote[b][c] \in SUBSET Msg
      /\ m \in Msg /\ m.ts = clock + 1 /\ m.turn = 0
      /\ s \in [chat : Chats, turn : Nat] /\ s.turn = clock + 1
  BY DEF ChatInv, ChatTypeOK, Copy, Msg
<1>4. \A x \in old : x.ts <= clock /\ x.turn <= clock /\ x.ts \in Nat /\ x.turn \in Int
  BY <1>2, <1>3 DEF ChatInv, Dated, Msg
<1>5. OnceIn(old)
  BY <1>2 DEF ChatInv, TurnsOnce, OnceIn
<1>6. b \notin authors[c] => wrote[b][c] = {}
  BY DEF ChatInv, OwnWords
<1>7. authors[c] = {b} => wrote[b][c] \subseteq local[b][c]
  BY DEF ChatInv, OwnWords
<1> HIDE DEF old, m, s
<1>8. msgs \in SUBSET Msg /\ own \in SUBSET Msg /\ OnceIn(msgs)
  BY <1>2, <1>3, <1>5 DEF OnceIn
<1>9. authors[c] \subseteq {b} => own \subseteq msgs
  BY <1>1, <1>6, <1>7 DEF old
<1>10. /\ streams' \in [Browsers -> SUBSET [chat : Chats, turn : Nat]]
       /\ \A d \in Browsers : \A r \in streams'[d] : r \in streams[d] \/ (d = b /\ r = s)
  BY <1>1, <1>3 DEF ChatInv, ChatTypeOK
<1>11. \A d \in Browsers : \A r \in streams[d] : 0 < r.turn /\ r.turn <= clock /\ r.turn \in Nat
  BY DEF ChatInv, ChatTypeOK, StreamsApart
<1>12. StreamsApart'
  BY <1>1, <1>3, <1>10, <1>11 DEF ChatInv, StreamsApart
<1>13. \A d \in Browsers : \A r \in streams'[d] : r \in streams[d] \/ r.turn > clock
  BY <1>3, <1>10
<1>14. \A x \in msgs : x.ts <= clock' /\ x.turn <= clock'
  BY <1>1, <1>3, <1>4
<1>15. \A x \in msgs, d \in Browsers : \A r \in streams'[d] : x.turn # r.turn
  <2> SUFFICES ASSUME NEW x \in msgs, NEW d \in Browsers, NEW r \in streams'[d] PROVE x.turn # r.turn
    OBVIOUS
  <2>1. CASE x = m
    BY <1>3, <1>10, <1>11, <2>1
  <2>2. CASE x \in old /\ r \in streams[d]
    BY <1>2, <2>2 DEF ChatInv, Unanswered
  <2>3. CASE x \in old /\ r = s
    BY <1>3, <1>4, <2>3
  <2> QED
    BY <1>10, <2>1, <2>2, <2>3
<1>16. \A w \in own : w \in wrote[b][c] \/ (w.ts = clock' /\ clock' = clock + 1)
  BY <1>1, <1>3
<1> HIDE DEF msgs, own
<1> QED
  BY <1>1, <1>8, <1>9, <1>10, <1>12, <1>13, <1>14, <1>15, <1>16, WriteKeeps

\* A turn is asked for again: the answer to it goes, and another turn is under way.
LEMMA RegenerateKeeps ==
  ASSUME ChatInv, NEW b \in Browsers, NEW c \in Chats, Regenerate(b, c)
  PROVE  ChatInv'
<1> DEFINE asked == {m \in local[b][c] : m.turn = 0}
           msgs == {m \in local[b][c] : m.ts <= Newest(asked)}
           own == wrote[b][c] \cap msgs
           s == [chat |-> c, turn |-> clock + 1]
<1>1. /\ Write(b, c, msgs, own) /\ clock' = clock + 1
      /\ streams' = [streams EXCEPT ![b] = @ \cup {s}]
  BY DEF Regenerate, Tick, Begin
<1>2. IsCopy(local[b]) /\ msgs \subseteq local[b][c]
  BY DEF IsCopy
<1>3. /\ clock \in Nat /\ local[b][c] \in SUBSET Msg /\ wrote[b][c] \in SUBSET Msg
      /\ s \in [chat : Chats, turn : Nat] /\ s.turn = clock + 1
  BY DEF ChatInv, ChatTypeOK, Copy, Msg
<1> HIDE DEF asked, msgs, s
<1>4. \A x \in msgs : x.ts <= clock /\ x.turn <= clock /\ x.ts \in Nat /\ x.turn \in Int
  BY <1>2, <1>3 DEF ChatInv, Dated, Msg
<1>8. msgs \in SUBSET Msg /\ own \in SUBSET Msg /\ OnceIn(msgs)
  BY <1>2, <1>3 DEF ChatInv, TurnsOnce, OnceIn
<1>10. /\ streams' \in [Browsers -> SUBSET [chat : Chats, turn : Nat]]
       /\ \A d \in Browsers : \A r \in streams'[d] : r \in streams[d] \/ (d = b /\ r = s)
  BY <1>1, <1>3 DEF ChatInv, ChatTypeOK
<1>11. \A d \in Browsers : \A r \in streams[d] : 0 < r.turn /\ r.turn <= clock /\ r.turn \in Nat
  BY DEF ChatInv, ChatTypeOK, StreamsApart
<1>12. StreamsApart'
  BY <1>1, <1>3, <1>10, <1>11 DEF ChatInv, StreamsApart
<1>13. \A d \in Browsers : \A r \in streams'[d] : r \in streams[d] \/ r.turn > clock
  BY <1>3, <1>10
<1>14. \A x \in msgs : x.ts <= clock' /\ x.turn <= clock'
  BY <1>1, <1>3, <1>4
<1>15. \A x \in msgs, d \in Browsers : \A r \in streams'[d] : x.turn # r.turn
  <2> SUFFICES ASSUME NEW x \in msgs, NEW d \in Browsers, NEW r \in streams'[d] PROVE x.turn # r.turn
    OBVIOUS
  <2>2. CASE r \in streams[d]
    BY <1>2, <2>2 DEF ChatInv, Unanswered
  <2>3. CASE r = s
    BY <1>3, <1>4, <2>3
  <2> QED
    BY <1>10, <2>2, <2>3
<1> QED
  BY <1>1, <1>8, <1>10, <1>12, <1>13, <1>14, <1>15, WriteKeeps

\* A turn's end is the one message of that turn.
LEMMA ReplyKeeps ==
  ASSUME ChatInv, NEW b \in Browsers, NEW s \in streams[b], NEW how, Reply(b, s, how),
         local[b][s.chat] # NoChat
  PROVE  ChatInv'
<1> DEFINE c == s.chat
           m == [ts |-> clock + 1, turn |-> s.turn]
           msgs == local[b][c] \cup {m}
           own == wrote[b][c] \cup {m}
<1>0. s \in [chat : Chats, turn : Nat] /\ c \in Chats /\ s.turn \in Nat
  BY DEF ChatInv, ChatTypeOK
<1>1. /\ Write(b, c, msgs, own) /\ clock' = clock + 1
      /\ streams' = [streams EXCEPT ![b] = @ \ {s}]
  BY DEF Reply, Tick
<1>2. IsCopy(local[b])
  BY DEF IsCopy
<1>3. /\ clock \in Nat /\ local[b][c] \in SUBSET Msg /\ wrote[b][c] \in SUBSET Msg
      /\ m \in Msg /\ m.ts = clock + 1 /\ m.turn = s.turn
  BY <1>0 DEF ChatInv, ChatTypeOK, Copy, Msg
<1>4. \A x \in local[b][c] : /\ x.ts <= clock /\ x.turn <= clock /\ x.ts \in Nat /\ x.turn \in Int
                             /\ \A d \in Browsers : \A r \in streams[d] : x.turn # r.turn
  BY <1>0, <1>2, <1>3 DEF ChatInv, Dated, Msg, Unanswered
<1>5. OnceIn(local[b][c])
  BY <1>0, <1>2 DEF ChatInv, TurnsOnce
<1>6. b \notin authors[c] => wrote[b][c] = {}
  BY <1>0 DEF ChatInv, OwnWords
<1>7. authors[c] = {b} => wrote[b][c] \subseteq local[b][c]
  BY <1>0 DEF ChatInv, OwnWords
<1> HIDE DEF m, c
<1>8. msgs \in SUBSET Msg /\ own \in SUBSET Msg /\ OnceIn(msgs)
  BY <1>3, <1>4, <1>5 DEF OnceIn
<1>9. authors[c] \subseteq {b} => own \subseteq msgs
  BY <1>6, <1>7
<1>10. /\ streams' \in [Browsers -> SUBSET [chat : Chats, turn : Nat]]
       /\ \A d \in Browsers : \A r \in streams'[d] : r \in streams[d] /\ (d # b \/ r # s)
  BY <1>1 DEF ChatInv, ChatTypeOK
<1>11. \A d \in Browsers : \A r \in streams[d] : 0 < r.turn /\ r.turn <= clock /\ r.turn \in Nat
  BY DEF ChatInv, ChatTypeOK, StreamsApart
<1>12. StreamsApart'
  BY <1>1, <1>3, <1>10, <1>11 DEF ChatInv, StreamsApart
<1>13. \A d \in Browsers : \A r \in streams'[d] : r.turn # s.turn
  BY <1>10 DEF ChatInv, StreamsApart
<1>14. \A x \in msgs : x.ts <= clock' /\ x.turn <= clock'
  BY <1>1, <1>3, <1>4, <1>11
<1>15. \A x \in msgs, d \in Browsers : \A r \in streams'[d] : x.turn # r.turn
  BY <1>3, <1>4, <1>10, <1>13
<1>16. \A w \in own : w \in wrote[b][c] \/ (w.ts = clock' /\ clock' = clock + 1)
  BY <1>1, <1>3
<1>17. \A d \in Browsers : \A r \in streams'[d] : r \in streams[d] \/ r.turn > clock
  BY <1>10
<1>18. c \in Chats
  BY <1>0 DEF c
<1> HIDE DEF msgs, own
<1> QED
  BY <1>1, <1>8, <1>9, <1>10, <1>12, <1>14, <1>15, <1>16, <1>17, <1>18, WriteKeeps

\* A chat is emptied or deleted, and with it what was written.
LEMMA DropKeeps ==
  ASSUME ChatInv, NEW b \in Browsers, NEW c \in Chats, ClearChat(b, c) \/ Delete(b, c)
  PROVE  ChatInv'
<1>1. PICK msgs \in {{}, NoChat} : Write(b, c, msgs, {})
  BY DEF ClearChat, Delete
<1>2. UNCHANGED <<clock, streams>>
  BY DEF ClearChat, Delete
<1>3. /\ msgs \in SUBSET Msg /\ {} \in SUBSET Msg
      /\ \A m \in msgs : m.ts = 0 /\ m.turn = -1
      /\ OnceIn(msgs)
  BY DEF NoChat, Msg, OnceIn
<1>4. clock \in Nat /\ streams \in [Browsers -> SUBSET [chat : Chats, turn : Nat]]
  BY DEF ChatInv, ChatTypeOK
<1>5. \A m \in msgs, d \in Browsers : \A s \in streams'[d] : m.turn # s.turn
  BY <1>2, <1>3, <1>4
<1>6. StreamsApart'
  BY <1>2 DEF ChatInv, StreamsApart
<1>7. \A m \in msgs : m.ts <= clock' /\ m.turn <= clock'
  BY <1>2, <1>3, <1>4
<1> QED
  BY <1>1, <1>2, <1>3, <1>4, <1>5, <1>6, <1>7, WriteKeeps

-----------------------------------------------------------------------------
\* Copies are carried about, and of a chat there is no other copy than before.
Carried ==
  /\ UNCHANGED <<clock, authors, wrote>>
  /\ \A b \in Browsers : streams'[b] \subseteq streams[b]
  /\ \A x : IsCopy(x)' => \A c \in Chats : \E y : IsCopy(y) /\ x[c] = y[c]
  /\ \A b \in Browsers, c \in Chats : authors[c] = {b} => wrote[b][c] \subseteq local'[b][c]

\* Copies are carried about, and every chat of one is the chat of some copy before.
LEMMA CarryKeeps ==
  ASSUME ChatInv, Carried, ChatTypeOK', InStep'
  PROVE  ChatInv'
<1>1. Dated'
  BY DEF ChatInv, Carried, Dated
<1>2. TurnsOnce'
  <2> SUFFICES ASSUME NEW x, IsCopy(x)', NEW c \in Chats PROVE OnceIn(x[c])
    BY DEF TurnsOnce
  <2>1. PICK y : IsCopy(y) /\ x[c] = y[c]
    BY DEF Carried
  <2> QED
    BY <2>1 DEF ChatInv, TurnsOnce
<1>3. StreamsApart'
  BY DEF ChatInv, Carried, StreamsApart
<1>4. Unanswered'
  <2> SUFFICES ASSUME NEW b \in Browsers, NEW s \in streams'[b], NEW x, IsCopy(x)',
                      NEW c \in Chats, NEW m \in x[c]
               PROVE  m.turn # s.turn
    BY DEF Unanswered
  <2>1. PICK y : IsCopy(y) /\ x[c] = y[c]
    BY DEF Carried
  <2> QED
    BY <2>1 DEF ChatInv, Carried, Unanswered
<1>5. OwnWords'
  <2> SUFFICES ASSUME NEW b \in Browsers, NEW c \in Chats
               PROVE  /\ b \notin authors[c] => wrote[b][c] = {}
                      /\ authors[c] = {b} =>
                           \A w \in wrote[b][c] :
                             /\ w \in local'[b][c]
                             /\ \A x : IsCopy(x)' => w \in x[c] \/ \A m \in x[c] : m.ts < w.ts
    BY DEF OwnWords, Carried
  <2>1. ASSUME authors[c] = {b}, NEW w \in wrote[b][c], NEW x, IsCopy(x)'
        PROVE  w \in x[c] \/ \A m \in x[c] : m.ts < w.ts
    <3>1. PICK y : IsCopy(y) /\ x[c] = y[c]
      BY <2>1 DEF Carried
    <3>2. w \in y[c] \/ \A m \in y[c] : m.ts < w.ts
      BY <2>1, <3>1 DEF ChatInv, OwnWords
    <3> QED
      BY <3>1, <3>2
  <2>2. authors[c] = {b} => \A w \in wrote[b][c] : w \in local'[b][c]
    BY DEF Carried
  <2>3. b \notin authors[c] => wrote[b][c] = {}
    BY DEF ChatInv, OwnWords
  <2> QED
    BY <2>1, <2>2, <2>3
<1> QED
  BY <1>1, <1>2, <1>3, <1>4, <1>5 DEF ChatInv

\* What a step of no author leaves alone.
LEMMA CopiesOf ==
  ASSUME ChatInv, NEW x, IsCopy(x)
  PROVE  x \in Copy
BY DEF ChatInv, ChatTypeOK, IsCopy, In

\* The copies are the same, or fewer.
LEMMA FewerKeep ==
  ASSUME ChatInv, UNCHANGED <<clock, authors, wrote, local>>,
         \A b \in Browsers : streams'[b] \subseteq streams[b],
         \A x : IsCopy(x)' => IsCopy(x),
         ChatTypeOK', InStep'
  PROVE  ChatInv'
<1>1. \A b \in Browsers, c \in Chats : authors[c] = {b} => wrote[b][c] \subseteq local'[b][c]
  BY DEF ChatInv, OwnWords
<1>2. Carried
  BY <1>1 DEF Carried
<1> QED
  BY <1>2, CarryKeeps

\* A page opens and asks for the stored copy, or is not answered.
LEMMA OpenKeeps ==
  ASSUME ChatInv, NEW b \in Browsers, Open(b) \/ NotAnswered(b)
  PROVE  ChatInv'
<1>1. /\ UNCHANGED <<clock, authors, wrote, local, pending, puts, streams, stored>>
      /\ \E p \in {"loading", "open"} : page' = [page EXCEPT ![b] = p]
      /\ clean' = [clean EXCEPT ![b] = FALSE]
      /\ answer' = answer \/ answer' = [answer EXCEPT ![b] = <<>>]
  BY DEF Open, NotAnswered, NothingWritten
<1>2. <<>> \in Seq(Copy) /\ Len(<<>>) <= 1 /\ \A x : ~In(x, <<>>)
  BY DEF In
<1>3. ChatTypeOK'
  BY <1>1, <1>2 DEF ChatInv, ChatTypeOK
<1>4. \A d \in Browsers : answer'[d] = answer[d] \/ answer'[d] = <<>>
  BY <1>1 DEF ChatInv, ChatTypeOK
<1>5. \A x : IsCopy(x)' => IsCopy(x)
  <2>1. \A x, d : d \in Browsers /\ In(x, answer'[d]) => In(x, answer[d])
    BY <1>2, <1>4
  <2> QED
    BY <1>1, <2>1 DEF IsCopy, In
<1>6. \A d \in Browsers : clean'[d] => d # b /\ clean[d] /\ page'[d] = page[d] /\ answer'[d] = answer[d]
  BY <1>1 DEF ChatInv, ChatTypeOK
<1>7. InStep'
  BY <1>1, <1>6 DEF ChatInv, InStep, ToBe
<1> QED
  BY <1>1, <1>3, <1>5, <1>7, FewerKeep

\* The server answers a GET with what it stores at that moment.
LEMMA AnsweredKeeps ==
  ASSUME ChatInv, NEW b \in Browsers, Answered(b)
  PROVE  ChatInv'
<1>1. /\ UNCHANGED <<clock, authors, wrote, local, pending, puts, streams, stored, page>>
      /\ page[b] = "loading" /\ answer' = [answer EXCEPT ![b] = <<stored>>]
      /\ clean' = [clean EXCEPT ![b] = TRUE]
  BY DEF Answered, NothingWritten
<1>2. stored \in Copy /\ <<stored>> \in Seq(Copy) /\ Len(<<stored>>) <= 1
      /\ \A x : In(x, <<stored>>) => x = stored
  BY DEF In, ChatInv, ChatTypeOK
<1>3. ChatTypeOK'
  BY <1>1, <1>2 DEF ChatInv, ChatTypeOK
<1>4. answer'[b] = <<stored>> /\ \A d \in Browsers \ {b} : answer'[d] = answer[d] /\ clean'[d] = clean[d]
  BY <1>1 DEF ChatInv, ChatTypeOK
<1>5. \A x : IsCopy(x)' => IsCopy(x)
  <2>1. \A x, d : d \in Browsers /\ In(x, answer'[d]) => In(x, answer[d]) \/ x = stored
    BY <1>2, <1>4
  <2> QED
    BY <1>1, <2>1 DEF IsCopy, In
<1>7. InStep'
  BY <1>1, <1>4 DEF ChatInv, InStep, ToBe
<1> QED
  BY <1>1, <1>3, <1>5, <1>7, FewerKeep

\* Flushing, of a page that goes on or ends.
LEMMA FlushKeeps ==
  ASSUME ChatInv, NEW b \in Browsers, Flush(b) \/ ClosePage(b) \/ KillPage(b)
  PROVE  ChatInv'
<1>1. /\ UNCHANGED <<clock, authors, wrote, local, stored, clean>>
      /\ streams' = streams \/ streams' = [streams EXCEPT ![b] = {}]
      /\ page' = page \/ page' = [page EXCEPT ![b] = "closed"]
      /\ answer' = answer \/ answer' = [answer EXCEPT ![b] = <<>>]
      /\ pending' = [pending EXCEPT ![b] = <<>>]
      /\ \/ puts' = [puts EXCEPT ![b] = @ \o pending[b]] /\ page' = page /\ answer' = answer
         \/ puts' = [puts EXCEPT ![b] = @ \o pending[b]] /\ page' = [page EXCEPT ![b] = "closed"]
         \/ puts' = puts /\ page' = [page EXCEPT ![b] = "closed"]
  BY DEF Flush, ClosePage, KillPage, Flushed, NothingWritten
<1>2. <<>> \in Seq(Copy) /\ Len(<<>>) <= 1 /\ \A x : ~In(x, <<>>)
  BY DEF In
<1>30. puts[b] \in Seq(Copy) /\ pending[b] \in Seq(Copy)
  BY DEF ChatInv, ChatTypeOK
<1>31. Len(pending[b]) = 0 \/ Len(pending[b]) = 1
  <2>1. Len(pending[b]) \in Nat
    BY <1>30
  <2>2. Len(pending[b]) <= 1
    BY DEF ChatInv, ChatTypeOK
  <2>3. \A n \in Nat : n <= 1 => n = 0 \/ n = 1
    OBVIOUS
  <2> QED
    BY <2>1, <2>2, <2>3, Zenon
<1>32. Len(pending[b]) = 0 => pending[b] = <<>>
  BY <1>30, NothingIn, Zenon
<1>3. puts[b] \in Seq(Copy) /\ pending[b] \in Seq(Copy) /\ Len(pending[b]) \in {0, 1}
      /\ Len(<<>>) = 0 /\ (Len(pending[b]) = 0 => pending[b] = <<>>)
  BY <1>30, <1>31, <1>32
<1>33. /\ puts[b] \o pending[b] \in Seq(Copy)
       /\ Len(puts[b] \o pending[b]) = Len(puts[b]) + Len(pending[b])
       /\ \A i \in DOMAIN (puts[b] \o pending[b]) :
            \/ i \in DOMAIN puts[b] /\ (puts[b] \o pending[b])[i] = puts[b][i]
            \/ i - Len(puts[b]) \in DOMAIN pending[b] /\ (puts[b] \o pending[b])[i] = pending[b][i - Len(puts[b])]
       /\ \A i \in DOMAIN pending[b] : (puts[b] \o pending[b])[Len(puts[b]) + i] = pending[b][i]
  <2>1. ASSUME NEW s \in Seq(Copy), NEW t \in Seq(Copy)
        PROVE  /\ s \o t \in Seq(Copy) /\ Len(s \o t) = Len(s) + Len(t)
               /\ \A i \in DOMAIN (s \o t) :
                    \/ i \in DOMAIN s /\ (s \o t)[i] = s[i]
                    \/ i - Len(s) \in DOMAIN t /\ (s \o t)[i] = t[i - Len(s)]
               /\ \A i \in DOMAIN t : (s \o t)[Len(s) + i] = t[i]
    OBVIOUS
  <2> QED
    BY <1>30, <2>1, Zenon
<1>4. puts[b] \o pending[b] \in Seq(Copy)
      /\ \A x : In(x, puts[b] \o pending[b]) => In(x, puts[b]) \/ In(x, pending[b])
  BY <1>33 DEF In
<1>5. ChatTypeOK'
  <2>1. puts' \in [Browsers -> Seq(Copy)]
    BY <1>1, <1>4 DEF ChatInv, ChatTypeOK
  <2>2. streams' \in [Browsers -> SUBSET [chat : Chats, turn : Nat]]
    BY <1>1 DEF ChatInv, ChatTypeOK
  <2>3. page' \in [Browsers -> {"closed", "loading", "open"}]
    BY <1>1 DEF ChatInv, ChatTypeOK
  <2>4. /\ answer' \in [Browsers -> Seq(Copy)] /\ \A d \in Browsers : Len(answer'[d]) <= 1
        /\ pending' \in [Browsers -> Seq(Copy)] /\ \A d \in Browsers : Len(pending'[d]) <= 1
    BY <1>1, <1>2 DEF ChatInv, ChatTypeOK
  <2> QED
    BY <1>1, <2>1, <2>2, <2>3, <2>4 DEF ChatInv, ChatTypeOK
<1>6. \A d \in Browsers : /\ streams'[d] \subseteq streams[d]
                          /\ answer'[d] = answer[d] \/ answer'[d] = <<>>
  BY <1>1 DEF ChatInv, ChatTypeOK
<1>7. /\ pending'[b] = <<>> /\ puts'[b] \in {puts[b] \o pending[b], puts[b]}
      /\ \A d \in Browsers \ {b} : /\ pending'[d] = pending[d] /\ puts'[d] = puts[d]
                                   /\ page'[d] = page[d] /\ answer'[d] = answer[d]
  BY <1>1 DEF ChatInv, ChatTypeOK
<1>8. \A x : IsCopy(x)' => IsCopy(x)
  <2>1. \A x, d : d \in Browsers /\ In(x, answer'[d]) => In(x, answer[d])
    BY <1>2, <1>6
  <2>2. \A x, d : d \in Browsers /\ In(x, pending'[d]) => In(x, pending[d])
    BY <1>2, <1>7
  <2>3. \A x, d : d \in Browsers /\ In(x, puts'[d]) => In(x, puts[d]) \/ In(x, pending[d])
    BY <1>4, <1>7
  <2>4. \A x : IsCopy(x)' <=> \/ x = stored'
                              \/ \E d \in Browsers : x = local'[d] \/ In(x, pending'[d]) \/ In(x, puts'[d]) \/ In(x, answer'[d])
    BY DEF IsCopy, In
  <2> QED
    BY <1>1, <2>1, <2>2, <2>3, <2>4 DEF IsCopy
<1>9. InStep'
  <2> SUFFICES ASSUME NEW d \in Browsers, clean[d]
               PROVE  /\ page'[d] = "open" => \A e \in Chats : local[d][e] = NoChat \/ local[d][e] \subseteq ToBe(d)'[e]
                      /\ page'[d] = "loading" => answer'[d] = <<stored>>
    BY <1>1 DEF InStep
  <2>1. CASE d # b
    BY <1>1, <1>7, <2>1 DEF ChatInv, InStep, ToBe
  <2>2. CASE d = b /\ page'[b] = "closed"
    BY <2>2
  <2>3. CASE d = b /\ page'[b] # "closed"
    <3>1. page' = page /\ answer' = answer /\ puts'[b] = puts[b] \o pending[b]
      BY <1>1, <2>3 DEF ChatInv, ChatTypeOK
    <3>2. ToBe(b)' = ToBe(b)
      <4>1. CASE pending[b] = <<>>
        BY <1>1, <1>3, <1>7, <3>1, <4>1 DEF ToBe
      <4>2. CASE pending[b] # <<>>
        <5>1. Len(pending[b]) = 1
          BY <1>3, <4>2
        <5>2. /\ Len(puts'[b]) = Len(puts[b]) + 1 /\ Len(puts[b]) \in Nat
              /\ puts'[b][Len(puts[b]) + 1] = pending[b][1]
          <6>2. 1 \in DOMAIN pending[b] /\ Len(puts[b]) \in Nat
            BY <1>3, <5>1
          <6> QED
            BY <1>33, <3>1, <5>1, <6>2
        <5>3. puts'[b] # <<>>
          BY <5>2
        <5> QED
          BY <1>7, <4>2, <5>2, <5>3 DEF ToBe
      <4> QED
        BY <4>1, <4>2
    <3> QED
      BY <2>3, <3>1, <3>2 DEF ChatInv, InStep
  <2> QED
    BY <2>1, <2>2, <2>3
<1> QED
  BY <1>1, <1>5, <1>6, <1>8, <1>9, FewerKeep

-----------------------------------------------------------------------------
\* The answer to the GET: of two copies the later one, and that has the words of a sole
\* author.
LEMMA NewestIs ==
  ASSUME NEW k \in Nat, NEW msgs \in SUBSET Msg, \A m \in msgs : m.ts <= k
  PROVE  /\ Newest(msgs) \in Nat /\ \A m \in msgs : m.ts <= Newest(msgs)
         /\ Newest(msgs) = 0 \/ \E m \in msgs : m.ts = Newest(msgs)
<1> DEFINE S == {0} \cup {m.ts : m \in msgs}
<1>1. \A m \in msgs : m.ts \in Nat
  BY DEF Msg
<1>2. S \in SUBSET (0..k) /\ S # {}
  BY <1>1
<1>3. Newest(msgs) = Max(S)
  BY DEF Newest
<1>4. Max(S) \in S /\ \A m \in S : Max(S) >= m
  <2> HIDE DEF S
  <2> QED
    BY <1>2, SomeGreatest
<1>5. Max(S) \in Nat /\ \A m \in msgs : m.ts <= Max(S)
  <2>1. \A m \in msgs : m.ts \in S
    OBVIOUS
  <2> HIDE DEF S
  <2>2. Max(S) \in Nat
    <3>1. S \subseteq Nat
      BY <1>2
    <3> QED
      BY <1>4, <3>1
  <2>3. \A m \in msgs : Max(S) >= m.ts
    BY <1>4, <2>1
  <2> QED
    BY <1>1, <2>2, <2>3
<1>6. Max(S) = 0 \/ \E m \in msgs : m.ts = Max(S)
  BY <1>4
<1> QED
  BY <1>3, <1>5, <1>6

\* A copy with words later than all of the other's is the fresher one.
LEMMA FresherIs ==
  ASSUME NEW k \in Nat, NEW mine \in SUBSET Msg, NEW theirs \in SUBSET Msg,
         \A m \in mine \cup theirs : m.ts <= k,
         NEW w \in mine, 0 < w.ts, \A m \in theirs : m.ts < w.ts
  PROVE  Fresher(mine, theirs) /\ mine # NoChat
<1>1. /\ Newest(mine) \in Nat /\ \A m \in mine : m.ts <= Newest(mine)
      /\ Newest(theirs) \in Nat
      /\ Newest(theirs) = 0 \/ \E m \in theirs : m.ts = Newest(theirs)
  BY NewestIs
<1>2. \A m \in mine \cup theirs : m.ts \in Nat
  BY DEF Msg
<1>3. \A m \in NoChat : m.ts = 0
  BY DEF NoChat
<1>4. Newest(mine) > Newest(theirs)
  BY <1>1, <1>2
<1> QED
  BY <1>3, <1>4 DEF Fresher

\* A page takes, chat by chat, the fresher of its own copy and the answer.
LEMMA HydrateKeeps ==
  ASSUME ChatInv, NEW b \in Browsers, Hydrate(b)
  PROVE  ChatInv'
<1> DEFINE their == Head(answer[b])
           new == Adopted(b, their)
           keep == {c \in Held(local[b]) : Fresher(local[b][c], their[c])}
<1>1. /\ UNCHANGED <<clock, authors, wrote, streams, stored>>
      /\ page' = [page EXCEPT ![b] = "open"] /\ answer' = [answer EXCEPT ![b] = <<>>]
      /\ clean' = [clean EXCEPT ![b] = @ /\ puts[b] = <<>> /\ pending[b] = <<>>]
      /\ page[b] = "loading" /\ answer[b] # <<>>
  BY DEF Hydrate, NothingWritten
<1>2. \/ /\ new.differs /\ Held(their) # {} /\ local' = [local EXCEPT ![b] = new.chats]
         /\ pending' = [pending EXCEPT ![b] = <<new.chats>>] /\ puts' = puts
      \/ /\ ~new.differs /\ Held(their) # {} /\ local' = [local EXCEPT ![b] = new.chats]
         /\ pending' = pending /\ puts' = puts
      \/ /\ Held(local[b]) = {} /\ UNCHANGED <<local, pending, puts>>
      \/ /\ UNCHANGED <<local, pending>> /\ puts' = [puts EXCEPT ![b] = Append(@, local[b])]
  <2>1. CASE Held(their) # {}
    BY <2>1 DEF Hydrate, Save
  <2>2. CASE Held(their) = {}
    <3>1. /\ puts' = [puts EXCEPT ![b] = IF Held(local[b]) = {} THEN puts[b] ELSE Append(puts[b], local[b])]
          /\ UNCHANGED <<local, pending>>
      BY <2>2 DEF Hydrate
    <3>2. [puts EXCEPT ![b] = puts[b]] = puts
      BY DEF ChatInv, ChatTypeOK
    <3> QED
      BY <3>1, <3>2
  <2> QED
    BY <2>1, <2>2
<1>3. answer[b] \in Seq(Copy) /\ answer[b] # <<>> /\ local[b] \in Copy /\ puts[b] \in Seq(Copy)
  BY <1>1 DEF ChatInv, ChatTypeOK
<1>4. their \in Copy /\ their = answer[b][1] /\ 1 \in DOMAIN answer[b]
  BY <1>3
<1>5. IsCopy(their) /\ IsCopy(local[b])
  BY <1>4 DEF IsCopy, In
<1>6. /\ new.chats \in Copy /\ new.differs = (keep # {})
      /\ \A c \in Chats : new.chats[c] = IF c \in keep THEN local[b][c] ELSE their[c]
  BY <1>3, <1>4 DEF Adopted, Copy
<1> HIDE DEF their, new
<1>7. <<new.chats>> \in Seq(Copy) /\ Len(<<new.chats>>) = 1 /\ <<new.chats>>[1] = new.chats
      /\ <<new.chats>> # <<>> /\ \A x : In(x, <<new.chats>>) => x = new.chats
  BY <1>6 DEF In
<1>8. /\ Append(puts[b], local[b]) \in Seq(Copy) /\ Append(puts[b], local[b]) # <<>>
      /\ Append(puts[b], local[b])[Len(Append(puts[b], local[b]))] = local[b]
      /\ \A x : In(x, Append(puts[b], local[b])) => In(x, puts[b]) \/ x = local[b]
  <2>1. /\ Append(puts[b], local[b]) \in Seq(Copy)
        /\ Len(Append(puts[b], local[b])) = Len(puts[b]) + 1 /\ Len(puts[b]) \in Nat
        /\ \A i \in DOMAIN Append(puts[b], local[b]) :
             \/ i \in DOMAIN puts[b] /\ Append(puts[b], local[b])[i] = puts[b][i]
             \/ i = Len(puts[b]) + 1 /\ Append(puts[b], local[b])[i] = local[b]
        /\ Append(puts[b], local[b])[Len(puts[b]) + 1] = local[b]
    BY <1>3
  <2>2. Append(puts[b], local[b]) # <<>>
    BY <2>1
  <2> QED
    BY <2>1, <2>2 DEF In
<1>9. <<>> \in Seq(Copy) /\ Len(<<>>) <= 1 /\ \A x : ~In(x, <<>>)
  BY DEF In
<1>10. /\ local'[b] \in {local[b], new.chats} /\ pending'[b] \in {pending[b], <<new.chats>>}
       /\ puts'[b] \in {puts[b], Append(puts[b], local[b])} /\ answer'[b] = <<>>
       /\ \A d \in Browsers \ {b} : /\ local'[d] = local[d] /\ pending'[d] = pending[d]
                                    /\ puts'[d] = puts[d] /\ answer'[d] = answer[d]
                                    /\ page'[d] = page[d] /\ clean'[d] = clean[d]
       /\ DOMAIN puts' = Browsers /\ DOMAIN local' = Browsers /\ DOMAIN pending' = Browsers
  BY <1>1, <1>2 DEF ChatInv, ChatTypeOK
<1>11. ChatTypeOK'
  <2>1. local' \in [Browsers -> Copy]
    BY <1>2, <1>6 DEF ChatInv, ChatTypeOK
  <2>2. pending' \in [Browsers -> Seq(Copy)] /\ \A d \in Browsers : Len(pending'[d]) <= 1
    <3>1. \A d \in Browsers : pending'[d] \in Seq(Copy) /\ Len(pending'[d]) <= 1
      <4>1. \A d \in Browsers : pending[d] \in Seq(Copy) /\ Len(pending[d]) <= 1
        BY DEF ChatInv, ChatTypeOK
      <4>2. Len(<<new.chats>>) <= 1
        BY <1>7
      <4> QED
        BY <1>7, <1>10, <4>1, <4>2, Zenon
    <3>2. pending' \in [Browsers -> Seq(Copy)]
      BY <1>2, <1>7 DEF ChatInv, ChatTypeOK
    <3> QED
      BY <3>1, <3>2
  <2>3. puts' \in [Browsers -> Seq(Copy)]
    BY <1>2, <1>8 DEF ChatInv, ChatTypeOK
  <2>4. answer' \in [Browsers -> Seq(Copy)] /\ \A d \in Browsers : Len(answer'[d]) <= 1
    BY <1>1, <1>9 DEF ChatInv, ChatTypeOK
  <2>5. page' \in [Browsers -> {"closed", "loading", "open"}] /\ clean' \in [Browsers -> BOOLEAN]
    BY <1>1 DEF ChatInv, ChatTypeOK
  <2> QED
    BY <1>1, <2>1, <2>2, <2>3, <2>4, <2>5 DEF ChatInv, ChatTypeOK
<1>12. \A x : IsCopy(x)' => IsCopy(x) \/ x = new.chats
  <2>1. \A x, d : d \in Browsers /\ In(x, answer'[d]) => In(x, answer[d])
    BY <1>9, <1>10
  <2>2. \A x, d : d \in Browsers /\ In(x, pending'[d]) => In(x, pending[d]) \/ x = new.chats
    BY <1>7, <1>10
  <2>3. \A x, d : d \in Browsers /\ In(x, puts'[d]) => In(x, puts[d]) \/ x = local[b]
    BY <1>8, <1>10
  <2>4. \A x, d : d \in Browsers /\ x = local'[d] => x = local[d] \/ x = new.chats
    BY <1>10
  <2>5. \A x : IsCopy(x)' <=> \/ x = stored'
                              \/ \E d \in Browsers : x = local'[d] \/ In(x, pending'[d]) \/ In(x, puts'[d]) \/ In(x, answer'[d])
    BY DEF IsCopy, In
  <2> QED
    BY <1>1, <2>1, <2>2, <2>3, <2>4, <2>5 DEF IsCopy
<1>13. \A x : IsCopy(x)' => \A c \in Chats : \E y : IsCopy(y) /\ x[c] = y[c]
  BY <1>5, <1>6, <1>12
<1>14. ASSUME NEW d \in Browsers, NEW c \in Chats, authors[c] = {d}
       PROVE  wrote[d][c] \subseteq local'[d][c]
  <2>1. wrote[d][c] \subseteq local[d][c]
    BY <1>14 DEF ChatInv, OwnWords
  <2>2. CASE local'[d] = local[d]
    BY <2>1, <2>2
  <2>3. CASE d = b /\ local'[d] = new.chats
    <3> SUFFICES ASSUME NEW w \in wrote[b][c] PROVE w \in new.chats[c]
      BY <2>3
    <3>1. w \in local[b][c] /\ (w \in their[c] \/ \A m \in their[c] : m.ts < w.ts)
      BY <1>5, <1>14, <2>3 DEF ChatInv, OwnWords
    <3>2. clock \in Nat /\ local[b][c] \in SUBSET Msg /\ their[c] \in SUBSET Msg
          /\ (\A m \in local[b][c] \cup their[c] : m.ts <= clock) /\ 0 < w.ts
      BY <1>3, <1>4, <1>5 DEF ChatInv, ChatTypeOK, Dated, Copy
    <3>3. CASE \A m \in their[c] : m.ts < w.ts
      <4>1. Fresher(local[b][c], their[c]) /\ local[b][c] # NoChat
        BY <3>1, <3>2, <3>3, FresherIs
      <4> QED
        BY <1>6, <3>1, <4>1 DEF Held
    <3>4. CASE w \in their[c]
      BY <1>6, <3>1, <3>4
    <3> QED
      BY <3>1, <3>3, <3>4
  <2> QED
    BY <1>10, <2>2, <2>3
<1>15. InStep'
  <2> SUFFICES ASSUME NEW d \in Browsers, clean'[d]
               PROVE  /\ page'[d] = "open" => \A e \in Chats : local'[d][e] = NoChat \/ local'[d][e] \subseteq ToBe(d)'[e]
                      /\ page'[d] = "loading" => answer'[d] = <<stored>>
    BY <1>1 DEF InStep
  <2>1. CASE d # b
    BY <1>1, <1>10, <2>1 DEF ChatInv, InStep, ToBe
  <2>2. CASE d = b
    <3>1. clean[b] /\ puts[b] = <<>> /\ pending[b] = <<>> /\ answer[b] = <<stored>> /\ page'[b] = "open"
      BY <1>1, <2>2 DEF ChatInv, ChatTypeOK, InStep
    <3>2. their = stored
      BY <1>4, <3>1
    <3>3. CASE local' = [local EXCEPT ![b] = new.chats] /\ pending' = [pending EXCEPT ![b] = <<new.chats>>]
      <4>1. local'[b] = new.chats /\ pending'[b] = <<new.chats>>
        BY <3>3 DEF ChatInv, ChatTypeOK
      <4> QED
        BY <1>7, <2>2, <3>1, <4>1 DEF ToBe
    <3>4. CASE ~new.differs /\ local' = [local EXCEPT ![b] = new.chats] /\ pending' = pending /\ puts' = puts
      <4>1. local'[b] = new.chats /\ \A c \in Chats : new.chats[c] = stored[c]
        BY <1>6, <3>2, <3>4 DEF ChatInv, ChatTypeOK
      <4>2. ToBe(b)' = stored
        BY <1>1, <3>1, <3>4 DEF ToBe
      <4> QED
        BY <2>2, <3>1, <4>1, <4>2
    <3>5. CASE Held(local[b]) = {} /\ UNCHANGED <<local, pending, puts>>
      BY <2>2, <3>1, <3>5 DEF Held
    <3>6. CASE UNCHANGED <<local, pending>> /\ puts' = [puts EXCEPT ![b] = Append(@, local[b])]
      <4>1. puts'[b] = Append(puts[b], local[b])
        BY <3>6 DEF ChatInv, ChatTypeOK
      <4>2. ToBe(b)' = local[b]
        BY <1>8, <3>1, <3>6, <4>1 DEF ToBe
      <4> QED
        BY <2>2, <3>1, <3>6, <4>2
    <3> QED
      BY <1>2, <3>3, <3>4, <3>5, <3>6
  <2> QED
    BY <2>1, <2>2
<1>16. Carried
  BY <1>1, <1>13, <1>14 DEF Carried
<1> QED
  BY <1>11, <1>15, <1>16, CarryKeeps

\* A PUT arrives or is lost: the last one of a page that is in step is what it shows.
LEMMA PutKeeps ==
  ASSUME ChatInv, NEW b \in Browsers, NEW i \in DOMAIN puts[b], NEW arrives \in BOOLEAN,
         Put(b, i, arrives)
  PROVE  ChatInv'
<1> DEFINE p == puts[b]
           rest == RemoveAt(p, i)
<1>1. /\ UNCHANGED <<clock, authors, wrote, page, local, pending, answer, streams>>
      /\ puts' = [puts EXCEPT ![b] = rest] /\ stored' = IF arrives THEN p[i] ELSE stored
      /\ clean' = IF arrives
                  THEN [d \in Browsers |-> clean[d] /\ d = b /\ i = 1 /\ page[d] = "open"]
                  ELSE [clean EXCEPT ![b] = FALSE]
  BY DEF Put, NothingWritten
<1>2. p \in Seq(Copy) /\ i \in 1..Len(p) /\ Len(p) \in Nat /\ p[i] \in Copy /\ stored \in Copy
  BY DEF ChatInv, ChatTypeOK
<1>3. /\ rest \in Seq(Copy) /\ Len(rest) = Len(p) - 1
      /\ \A j \in 1 .. Len(p) - 1 : rest[j] = IF j < i THEN p[j] ELSE p[j + 1]
  BY <1>2, TakenOut
<1>4. \A x : In(x, rest) => In(x, p)
  <2>1. \A j \in DOMAIN rest : \E k \in DOMAIN p : rest[j] = p[k]
    <3> SUFFICES ASSUME NEW j \in DOMAIN rest PROVE \E k \in DOMAIN p : rest[j] = p[k]
      OBVIOUS
    <3> HIDE DEF rest, p
    <3>1. DOMAIN rest = 1 .. Len(p) - 1 /\ DOMAIN p = 1 .. Len(p)
      BY <1>2, <1>3
    <3>2. j \in DOMAIN p /\ j + 1 \in DOMAIN p
      BY <1>2, <3>1
    <3> QED
      BY <1>3, <3>1, <3>2
  <2> QED
    BY <2>1 DEF In
<1>5. clean' \in [Browsers -> BOOLEAN]
  BY <1>1 DEF ChatInv, ChatTypeOK
<1>6. puts'[b] = rest /\ \A d \in Browsers \ {b} : puts'[d] = puts[d]
  BY <1>1 DEF ChatInv, ChatTypeOK
<1>7. IsCopy(p[i])
  BY DEF IsCopy, In
<1> HIDE DEF rest
<1>8. ChatTypeOK'
  <2>1. puts' \in [Browsers -> Seq(Copy)]
    BY <1>1, <1>3 DEF ChatInv, ChatTypeOK
  <2> QED
    BY <1>1, <1>2, <1>5, <2>1 DEF ChatInv, ChatTypeOK
<1>9. \A x : IsCopy(x)' => IsCopy(x)
  <2>1. \A x, d : d \in Browsers /\ In(x, puts'[d]) => In(x, puts[d])
    BY <1>4, <1>6
  <2>2. \A x : IsCopy(x)' => \/ x = stored'
                             \/ \E d \in Browsers : x = local[d] \/ In(x, pending[d]) \/ In(x, puts'[d]) \/ In(x, answer[d])
    BY <1>1 DEF IsCopy, In
  <2>3. \A x : x = stored' => IsCopy(x)
    BY <1>1, <1>7 DEF IsCopy
  <2> QED
    BY <2>1, <2>2, <2>3 DEF IsCopy
<1>10. InStep'
  <2> SUFFICES ASSUME NEW d \in Browsers, clean'[d]
               PROVE  /\ page[d] = "open" => \A e \in Chats : local[d][e] = NoChat \/ local[d][e] \subseteq ToBe(d)'[e]
                      /\ page[d] = "loading" => answer[d] = <<stored'>>
    BY <1>1 DEF InStep
  <2>1. CASE ~arrives
    <3>1. d # b /\ clean[d] /\ stored' = stored
      BY <1>1, <2>1 DEF ChatInv, ChatTypeOK
    <3>2. ToBe(d)' = ToBe(d)
      BY <1>1, <1>6, <3>1 DEF ToBe
    <3> QED
      BY <3>1, <3>2 DEF ChatInv, InStep
  <2>2. CASE arrives
    <3>1. d = b /\ clean[b] /\ i = 1 /\ page[b] = "open" /\ stored' = p[1]
      BY <1>1, <2>2
    <3>2. ToBe(b)' = ToBe(b)
      <4>1. CASE pending[b] # <<>>
        BY <1>1, <4>1 DEF ToBe
      <4>2. CASE pending[b] = <<>> /\ Len(p) = 1
        <5>1. rest = <<>>
          BY <1>3, <4>2, NothingIn
        <5>2. p # <<>>
          BY <1>2
        <5> QED
          BY <1>1, <1>6, <3>1, <4>2, <5>1, <5>2 DEF ToBe
      <4>3. CASE pending[b] = <<>> /\ Len(p) # 1
        <5>0. \A n \in Nat : n # 1 /\ i \in 1..n => n - 1 \in 1 .. n - 1 /\ n - 1 + 1 = n
          BY <3>1
        <5>1. Len(rest) \in 1 .. Len(p) - 1 /\ Len(rest) + 1 = Len(p)
          BY <1>2, <1>3, <4>3, <5>0, Zenon
        <5>2. rest[Len(rest)] = p[Len(p)]
          BY <1>2, <1>3, <3>1, <5>1
        <5>3. p # <<>> /\ rest # <<>>
          BY <1>2, <1>3, <5>1
        <5> QED
          BY <1>1, <1>6, <4>3, <5>2, <5>3 DEF ToBe
      <4> QED
        BY <4>1, <4>2, <4>3
    <3> QED
      BY <3>1, <3>2 DEF ChatInv, InStep
  <2> QED
    BY <2>1, <2>2
<1>11. \A d \in Browsers : streams'[d] \subseteq streams[d]
  BY <1>1
<1> QED
  BY <1>1, <1>8, <1>9, <1>10, <1>11, FewerKeep

\* A turn that ends in a chat that is gone.
LEMMA LostReplyKeeps ==
  ASSUME ChatInv, NEW b \in Browsers, NEW s \in streams[b], NEW how, Reply(b, s, how),
         local[b][s.chat] = NoChat
  PROVE  ChatInv'
<1>1. /\ clock' = clock + 1 /\ streams' = [streams EXCEPT ![b] = @ \ {s}]
      /\ UNCHANGED <<local, pending, authors, wrote, loads, page, puts, answer, stored, clean>>
  BY DEF Reply, Tick
<1>2. clock \in Nat /\ clock' \in Nat /\ clock <= clock'
  BY <1>1 DEF ChatInv, ChatTypeOK
<1>3. \A d \in Browsers : streams'[d] \subseteq streams[d]
  BY <1>1 DEF ChatInv, ChatTypeOK
<1>4. ChatTypeOK'
  BY <1>1, <1>2 DEF ChatInv, ChatTypeOK
<1>5. \A x : IsCopy(x)' <=> IsCopy(x)
  BY <1>1 DEF IsCopy, In
<1>6. Dated'
  <2>1. ASSUME NEW x, IsCopy(x), NEW c \in Chats, NEW m \in x[c] PROVE m.ts <= clock' /\ m.turn <= clock'
    <3>1. m \in Msg
      BY <2>1, CopiesOf DEF Copy
    <3>2. m.ts <= clock /\ m.turn <= clock
      BY <2>1 DEF ChatInv, Dated
    <3> QED
      BY <1>2, <3>1, <3>2 DEF Msg
  <2>2. ASSUME NEW d \in Browsers, NEW c \in Chats, NEW m \in wrote[d][c] PROVE 0 < m.ts /\ m.ts <= clock'
    <3>1. m \in Msg
      BY <2>2 DEF ChatInv, ChatTypeOK
    <3>2. 0 < m.ts /\ m.ts <= clock
      BY <2>2 DEF ChatInv, Dated
    <3> QED
      BY <1>2, <3>1, <3>2 DEF Msg
  <2> QED
    BY <1>1, <1>5, <2>1, <2>2 DEF Dated
<1>7. TurnsOnce' /\ Unanswered'
  BY <1>3, <1>5 DEF ChatInv, TurnsOnce, Unanswered
<1>8. StreamsApart'
  <2>1. \A d \in Browsers : \A r \in streams[d] : 0 < r.turn /\ r.turn <= clock /\ r.turn \in Nat
    BY DEF ChatInv, ChatTypeOK, StreamsApart
  <2>2. \A d \in Browsers : \A r \in streams'[d] : 0 < r.turn /\ r.turn <= clock'
    BY <1>2, <1>3, <2>1
  <2> QED
    BY <1>3, <2>2 DEF ChatInv, StreamsApart
<1>9. OwnWords'
  BY <1>1, <1>5 DEF ChatInv, OwnWords
<1>10. InStep'
  BY <1>1 DEF ChatInv, InStep, ToBe
<1> QED
  BY <1>4, <1>6, <1>7, <1>8, <1>9, <1>10 DEF ChatInv

\* One step of any kind keeps the invariant.
LEMMA ChatStepInv == ChatInv /\ [ChatNext]_chatVars => ChatInv'
<1> SUFFICES ASSUME ChatInv, [ChatNext]_chatVars PROVE ChatInv'
  OBVIOUS
<1>1. CASE UNCHANGED chatVars
  <2>1. UNCHANGED <<clock, loads, page, local, pending, puts, answer, streams, stored, authors, wrote, clean>>
    BY <1>1 DEF chatVars
  <2>2. \A x : IsCopy(x)' <=> IsCopy(x)
    BY <2>1 DEF IsCopy, In
  <2>3. ChatTypeOK' /\ StreamsApart' /\ InStep'
    BY <2>1 DEF ChatInv, ChatTypeOK, StreamsApart, InStep, ToBe
  <2> QED
    BY <2>1, <2>2, <2>3 DEF ChatInv, Dated, TurnsOnce, Unanswered, OwnWords
<1>2. ASSUME NEW b \in Browsers, NEW s \in streams[b], NEW how, Reply(b, s, how)
      PROVE  ChatInv'
  BY <1>2, ReplyKeeps, LostReplyKeeps
<1> QED
  BY <1>1, <1>2, SendKeeps, RegenerateKeeps, DropKeeps, OpenKeeps, AnsweredKeeps, HydrateKeeps,
     FlushKeeps, PutKeeps DEF ChatNext

(***************************************************************************)
(* Whatever pages open, write, close or are killed, and whatever PUTs are  *)
(* late, lost or overtaken: what one browser alone wrote stays in its copy,*)
(* no turn is answered twice, and a page at rest whose PUTs arrived in     *)
(* order shows nothing the server lacks.                                   *)
(***************************************************************************)
THEOREM ChatsAreKept == ChatSpec => []ChatsKept
<1>1. ChatInv => ChatsKept
  <2> SUFFICES ASSUME ChatInv PROVE ChatsKept
    OBVIOUS
  <2>1. \A b \in Browsers : IsCopy(local[b])
    BY DEF IsCopy
  <2>2. WordsKept
    BY DEF ChatInv, OwnWords, WordsKept
  <2>3. AnsweredOnce
    BY <2>1 DEF ChatInv, TurnsOnce, OnceIn, AnsweredOnce
  <2>4. RestingInStep
    BY DEF ChatInv, InStep, ToBe, RestingInStep
  <2> QED
    BY <2>2, <2>3, <2>4 DEF ChatsKept
<1> QED
  BY <1>1, ChatInitInv, ChatStepInv, PTL DEF ChatSpec

-----------------------------------------------------------------------------
\* Inductions over what a sequence is read into.

\* So what holds of 0, and of n when of n - 1, holds up to any bound.
LEMMA UpTo ==
  ASSUME NEW N \in Nat, NEW Good, 0 \in Good, \A n \in 1..N : n - 1 \in Good => n \in Good
  PROVE  0..N \subseteq Good
<1> DEFINE Bad == (0..N) \ Good
<1> SUFFICES ASSUME Bad # {} PROVE FALSE
  OBVIOUS
<1>1. PICK n \in Bad : \A m \in Bad : n <= m
  <2>1. Bad \in SUBSET Nat
    OBVIOUS
  <2> HIDE DEF Bad
  <2> QED
    BY <2>1, SomeLeast
<1>2. n \in 1..N
  BY <1>1
<1>3. n - 1 \in 0..N /\ ~(n <= n - 1)
  BY <1>2
<1>4. n - 1 \notin Bad
  BY <1>1, <1>3
<1> QED
  BY <1>1, <1>2, <1>3, <1>4

\* The first N iterates of a function on what they count and on a value.
Iterated(f, a, N, F) == \A n \in 0..N : f[n] = IF n = 0 THEN a ELSE F[<<n, f[n - 1]>>]

\* A function whose value at n follows from the one at n - 1 exists.
LEMMA Iterates ==
  ASSUME NEW A, NEW a \in A, NEW N \in Nat, NEW F \in [(1..N) \X A -> A]
  PROVE  \E f \in [0..N -> A] : Iterated(f, a, N, F)
<1> DEFINE Good == {m \in 0..N : \E f \in [0..m -> A] :
                      \A n \in 0..m : f[n] = IF n = 0 THEN a ELSE F[<<n, f[n - 1]>>]}
<1>1. 0 \in Good
  <2> DEFINE f == [k \in 0..0 |-> a]
  <2>1. f \in [0..0 -> A] /\ \A n \in 0..0 : f[n] = IF n = 0 THEN a ELSE F[<<n, f[n - 1]>>]
    OBVIOUS
  <2> HIDE DEF f
  <2> QED
    BY <2>1
<1>2. ASSUME NEW m \in 1..N, m - 1 \in Good PROVE m \in Good
  <2>1. PICK f \in [0..m - 1 -> A] : \A n \in 0..m - 1 : f[n] = IF n = 0 THEN a ELSE F[<<n, f[n - 1]>>]
    BY <1>2
  <2> DEFINE x == F[<<m, f[m - 1]>>]
             g == [k \in 0..m |-> IF k = m THEN x ELSE f[k]]
  <2>2. x \in A
    <3>1. f[m - 1] \in A /\ <<m, f[m - 1]>> \in (1..N) \X A
      BY <2>1
    <3> QED
      BY <3>1
  <2> HIDE DEF x
  <2>3. g \in [0..m -> A] /\ g[m] = x /\ \A k \in 0..m - 1 : g[k] = f[k]
    BY <2>1, <2>2
  <2> HIDE DEF g
  <2>4. ASSUME NEW n \in 0..m PROVE g[n] = IF n = 0 THEN a ELSE F[<<n, g[n - 1]>>]
    <3>1. CASE n = m
      <4>1. g[m - 1] = f[m - 1] /\ m # 0
        BY <2>3
      <4> QED
        BY <2>3, <3>1, <4>1 DEF x
    <3>2. CASE n # m
      <4>1. n \in 0..m - 1 /\ (n # 0 => n - 1 \in 0..m - 1)
        BY <3>2
      <4> QED
        BY <2>1, <2>3, <4>1
    <3> QED
      BY <3>1, <3>2
  <2> QED
    BY <2>3, <2>4
<1>3. 0..N \subseteq Good
  <2> HIDE DEF Good
  <2> QED
    BY <1>1, <1>2, UpTo
<1> QED
  BY <1>3 DEF Iterated

-----------------------------------------------------------------------------
\* The sink, the stream and the page's copy.

-----------------------------------------------------------------------------
\* The store.

\* The lines of each session are in the order of their numbers.
Rising(l) == \A i, j \in 1..Len(l) : i < j /\ l[i].session = l[j].session => l[i].seq < l[j].seq

\* Lines are events.
LEMMA LineIs ==
  ASSUME NEW l \in Lines
  PROVE  /\ Len(l) \in Nat /\ DOMAIN l = 1..Len(l)
         /\ \A i \in 1..Len(l) : /\ l[i] \in Event /\ l[i].session \in Lanes /\ l[i].seq \in Nat
                                 /\ l[i] \in ToSet(l)
         /\ \A ev \in ToSet(l) : /\ ev \in Event /\ ev.session \in Lanes /\ ev.seq \in Nat
                                 /\ \E i \in 1..Len(l) : ev = l[i]
<1>1. Len(l) \in Nat /\ DOMAIN l = 1..Len(l) /\ \A i \in 1..Len(l) : l[i] \in Event
  BY DEF Lines
<1>2. \A ev \in Event : ev.session \in Lanes /\ ev.seq \in Nat
  BY DEF Event
<1> QED
  BY <1>1, <1>2 DEF ToSet

Adding == {a \in [store : Lines, new : Lines] : Len(a.store) <= Cap}

\* A store is never over its size.
LEMMA AddedIs ==
  ASSUME NEW a \in Adding, NEW ev \in Event
  PROVE  /\ Added(a, ev) \in Adding
         /\ (\A old \in ToSet(a.store) : Key(old) # Key(ev)) =>
              LET kept == IF Len(a.store) = Cap THEN Tail(a.store) ELSE a.store IN
              /\ Added(a, ev).new = Append(a.new, ev) /\ Added(a, ev).store = Append(kept, ev)
              /\ kept \in Lines /\ Len(kept) = IF Len(a.store) = Cap THEN Cap - 1 ELSE Len(a.store)
              /\ \A i \in 1..Len(kept) : kept[i] = IF Len(a.store) = Cap THEN a.store[i + 1] ELSE a.store[i]
<1> DEFINE st == a.store
           kept == IF Len(st) = Cap THEN Tail(st) ELSE st
           L == Len(st)
<1>1. st \in Lines /\ a.new \in Lines /\ L \in Nat /\ L <= Cap /\ Cap \in Nat /\ Cap # 0
  BY EventFeedAssumption DEF Adding, Lines
<1>2. kept \in Lines /\ Len(kept) = (IF L = Cap THEN Cap - 1 ELSE L)
      /\ \A i \in 1..Len(kept) : kept[i] = IF L = Cap THEN st[i + 1] ELSE st[i]
  <2>1. CASE L = Cap
    <3>1. st # <<>>
      BY <1>1, <2>1
    <3> HIDE DEF st
    <3>2. Tail(st) \in Seq(Event) /\ Len(Tail(st)) = Len(st) - 1 /\ \A i \in 1..Len(Tail(st)) : Tail(st)[i] = st[i + 1]
      BY <1>1, <3>1, HeadTailProperties DEF Lines
    <3> QED
      BY <2>1, <3>2 DEF Lines
  <2>2. CASE L # Cap
    BY <1>1, <2>2
  <2> QED
    BY <2>1, <2>2
<1>3. Len(kept) + 1 <= Cap /\ Len(kept) \in Nat
  BY <1>1, <1>2
<1>4. a.new \in Seq(Event)
  BY <1>1 DEF Lines
<1>5. [store |-> Append(kept, ev), new |-> Append(a.new, ev)] \in Adding
  <2>1. Append(kept, ev) \in Lines /\ Len(Append(kept, ev)) = Len(kept) + 1 /\ Append(a.new, ev) \in Lines
    <3> HIDE DEF kept
    <3> QED
      BY <1>2, <1>4, AppendProperties DEF Lines
  <2> HIDE DEF kept
  <2> QED
    BY <1>3, <2>1 DEF Adding
<1>6. CASE \E old \in ToSet(st) : Key(old) = Key(ev)
  BY <1>6 DEF Added
<1>7. CASE ~ \E old \in ToSet(st) : Key(old) = Key(ev)
  <2>1. Added(a, ev) = [store |-> Append(kept, ev), new |-> Append(a.new, ev)]
    BY <1>7 DEF Added
  <2> HIDE DEF kept, L
  <2> QED
    BY <1>2, <1>5, <2>1 DEF kept, L
<1> QED
  BY <1>6, <1>7

\* What is added is added line by line.
LEMMA AddedAllIs ==
  ASSUME NEW st \in Lines, Len(st) <= Cap, NEW lines \in Lines
  PROVE  LET all == AddedAll(st, lines) IN
         \A n \in 0..Len(lines) :
           /\ all[n] \in Adding
           /\ all[n] = IF n = 0 THEN [store |-> st, new |-> <<>>] ELSE Added(all[n - 1], lines[n])
<1> DEFINE N == Len(lines)
           F == [m \in (1..N) \X Adding |-> Added(m[2], lines[m[1]])]
           start == [store |-> st, new |-> <<>>]
<1>1. N \in Nat /\ start \in Adding
  <2>1. <<>> \in Lines
    BY DEF Lines
  <2> QED
    BY <2>1, LineIs DEF Adding
<1>2. F \in [(1..N) \X Adding -> Adding]
  <2> SUFFICES ASSUME NEW m \in (1..N) \X Adding PROVE Added(m[2], lines[m[1]]) \in Adding
    OBVIOUS
  <2>1. m[1] \in 1..N /\ m[2] \in Adding
    OBVIOUS
  <2>2. lines[m[1]] \in Event
    BY <2>1, LineIs
  <2> QED
    BY <2>1, <2>2, AddedIs
<1>3. \A n \in 1..N, x \in Adding : F[<<n, x>>] = Added(x, lines[n])
  OBVIOUS
<1> HIDE DEF F, start
<1>4. PICK u \in [0..N -> Adding] : Iterated(u, start, N, F)
  <2> HIDE DEF N
  <2> HIDE DEF Adding
  <2> QED
    BY <1>1, <1>2, Iterates
<1>5. u = [n \in 0..N |-> IF n = 0 THEN start ELSE Added(u[n - 1], lines[n])]
  <2>1. ASSUME NEW n \in 0..N PROVE u[n] = IF n = 0 THEN start ELSE Added(u[n - 1], lines[n])
    <3>1. CASE n = 0
      BY <1>4, <3>1 DEF Iterated
    <3>2. CASE n # 0
      <4>1. n \in 1..N /\ n - 1 \in 0..N
        BY <1>1, <3>2
      <4> QED
        BY <1>3, <1>4, <3>2, <4>1 DEF Iterated
    <3> QED
      BY <3>1, <3>2
  <2> QED
    BY <1>4, <2>1
<1> DEFINE v == AddedAll(st, lines)
<1>6. v = [n \in 0..N |-> IF n = 0 THEN start ELSE Added(v[n - 1], lines[n])]
  BY <1>5 DEF AddedAll, start
<1> HIDE DEF N, v
<1>7. \A n \in 0..N : v[n] = IF n = 0 THEN start ELSE Added(v[n - 1], lines[n])
  BY <1>6
<1> DEFINE Good == {n \in 0..N : v[n] \in Adding}
<1>8. 0..N \subseteq Good
  <2>1. 0 \in Good
    BY <1>1, <1>7
  <2>2. ASSUME NEW n \in 1..N, n - 1 \in Good PROVE n \in Good
    <3>1. n \in 0..N /\ n # 0 /\ lines[n] \in Event
      BY <1>1, LineIs DEF N
    <3>2. v[n] = Added(v[n - 1], lines[n]) /\ v[n - 1] \in Adding
      BY <1>7, <2>2, <3>1
    <3> QED
      BY <3>1, <3>2, AddedIs
  <2> HIDE DEF Good
  <2> QED
    BY <1>1, <2>1, <2>2, UpTo
<1>9. \A n \in 0..N : v[n] \in Adding /\ v[n] = IF n = 0 THEN start ELSE Added(v[n - 1], lines[n])
  BY <1>7, <1>8
<1> QED
  BY <1>9 DEF v, N, start

\* The last of the first m lines of w, as many as the store holds.
LastOnes(st, w, m) ==
  /\ st \in Lines /\ Len(st) = IF m <= Cap THEN m ELSE Cap
  /\ \A d \in 0..Len(st) - 1 : st[Len(st) - d] = w[m - d]

\* Lines that all come after what is held are all new, and the store then holds the last.
LEMMA StoredIs ==
  ASSUME NEW st \in Lines, Len(st) <= Cap, NEW lines \in Lines, Rising(st \o lines)
  PROVE  /\ Stored(st, lines).new = lines
         /\ LastOnes(Stored(st, lines).store, st \o lines, Len(st) + Len(lines))
<1> DEFINE N == Len(lines)
           S == Len(st)
           w == st \o lines
           v == AddedAll(st, lines)
           Right(a, n) == /\ Len(a.new) = n /\ \A i \in 1..n : a.new[i] = lines[i]
                          /\ LastOnes(a.store, w, S + n)
           Good == {n \in 0..N : Right(v[n], n)}
<1>1. N \in Nat /\ S \in Nat /\ S <= Cap /\ Cap \in Nat /\ Cap # 0
  BY LineIs, EventFeedAssumption
<1>2. /\ w \in Lines /\ Len(w) = S + N /\ \A i \in 1..S : w[i] = st[i]
      /\ \A i \in 1..N : w[S + i] = lines[i]
  <2>1. st \in Seq(Event) /\ lines \in Seq(Event)
    BY DEF Lines
  <2>2. w \in Seq(Event) /\ Len(w) = Len(st) + Len(lines)
        /\ \A i \in 1..Len(st) + Len(lines) : w[i] = IF i <= Len(st) THEN st[i] ELSE lines[i - Len(st)]
    BY <2>1, ConcatProperties
  <2> HIDE DEF w
  <2>3. \A i \in 1..S : i \in 1..S + N /\ i <= S
    BY <1>1
  <2>4. \A i \in 1..N : S + i \in 1..S + N /\ ~(S + i <= S) /\ S + i - S = i
    BY <1>1
  <2> QED
    BY <2>2, <2>3, <2>4 DEF Lines
<1>3. \A n \in 0..N : v[n] \in Adding /\ v[n] = IF n = 0 THEN [store |-> st, new |-> <<>>] ELSE Added(v[n - 1], lines[n])
  BY AddedAllIs
<1> HIDE DEF N, S, w, v
<1>4. 0 \in Good
  <2>1. 0 \in 0..N /\ v[0] = [store |-> st, new |-> <<>>]
    BY <1>1, <1>3
  <2>2. v[0].store = st /\ v[0].new = <<>> /\ S + 0 = S
    BY <1>1, <2>1
  <2>3. LastOnes(st, w, S)
    <3>1. \A d \in 0..S - 1 : S - d \in 1..S
      BY <1>1
    <3> QED
      BY <1>1, <1>2, <3>1 DEF LastOnes, S
  <2> QED
    BY <2>1, <2>2, <2>3
<1>5. ASSUME NEW n \in 1..N, n - 1 \in Good PROVE n \in Good
  <2> DEFINE a == v[n - 1]
             ev == lines[n]
             m == S + n
             k == Len(a.store)
             kept == IF k = Cap THEN Tail(a.store) ELSE a.store
  <2>1. /\ n \in 0..N /\ n # 0 /\ n - 1 \in 0..N /\ ev \in Event /\ ev = w[m] /\ m \in 1..S + N
        /\ S + (n - 1) = m - 1 /\ m \in Nat \ {0}
    <3>1. n \in 0..N /\ n # 0 /\ n - 1 \in 0..N /\ m \in 1..S + N /\ S + (n - 1) = m - 1 /\ m \in Nat \ {0}
      BY <1>1
    <3>2. lines[n] \in Event
      BY LineIs DEF N
    <3>3. w[m] = lines[n]
      BY <1>2
    <3> QED
      BY <3>1, <3>2, <3>3
  <2>2. v[n] = Added(a, ev) /\ a \in Adding /\ Right(a, n - 1)
    BY <1>3, <1>5, <2>1
  <2> HIDE DEF a, ev, m
  <2>3. /\ a.store \in Lines /\ a.new \in Lines /\ k = (IF m - 1 <= Cap THEN m - 1 ELSE Cap) /\ k \in Nat
        /\ \A d \in 0..k - 1 : a.store[k - d] = w[m - 1 - d]
        /\ Len(a.new) = n - 1 /\ \A i \in 1..n - 1 : a.new[i] = lines[i]
    <3>1. LastOnes(a.store, w, m - 1)
      BY <2>1, <2>2
    <3>2. a.store \in Lines /\ a.new \in Lines
      BY <2>2 DEF Adding
    <3> QED
      BY <2>2, <3>1, <3>2, LineIs DEF LastOnes
  <2>4. ASSUME NEW old \in ToSet(a.store) PROVE Key(old) # Key(ev)
    <3>1. PICK i \in 1..k : old = a.store[i]
      BY <2>3, LineIs
    <3>2. k - i \in 0..k - 1 /\ k - (k - i) = i /\ m - 1 - (k - i) \in 1..m - 1
      BY <1>1, <2>1, <2>3
    <3> DEFINE j == m - 1 - (k - i)
    <3>3. old = w[j]
      <4>1. a.store[k - (k - i)] = w[m - 1 - (k - i)]
        BY <2>3, <3>2
      <4> QED
        BY <3>1, <3>2, <4>1
    <3>4a. j \in 1..S + N /\ m \in 1..S + N /\ j < m
      <4>1. j \in 1..m - 1
        BY <3>2
      <4> HIDE DEF j
      <4> QED
        BY <1>1, <2>1, <4>1
    <3>4. j \in 1..Len(w) /\ m \in 1..Len(w) /\ j < m
      BY <1>2, <3>4a
    <3> HIDE DEF j
    <3>5. w[j].session = w[m].session => w[j].seq < w[m].seq
      BY <3>4 DEF Rising, w
    <3>6. w[j].seq \in Nat /\ w[m].seq \in Nat
      BY <1>2, <3>4, LineIs
    <3> QED
      BY <2>1, <3>3, <3>5, <3>6 DEF Key
  <2>5. /\ v[n].new = Append(a.new, ev) /\ v[n].store = Append(kept, ev)
        /\ kept \in Lines /\ Len(kept) = (IF k = Cap THEN Cap - 1 ELSE k)
        /\ \A i \in 1..Len(kept) : kept[i] = IF k = Cap THEN a.store[i + 1] ELSE a.store[i]
    BY <2>1, <2>2, <2>4, AddedIs
  <2> DEFINE q == Len(kept)
             st2 == Append(kept, ev)
  <2> HIDE DEF kept
  <2>6. q \in Nat /\ q + 1 = (IF m <= Cap THEN m ELSE Cap)
    BY <1>1, <2>1, <2>3, <2>5
  <2>7. st2 \in Lines /\ Len(st2) = q + 1 /\ st2[q + 1] = ev /\ \A i \in 1..q : st2[i] = kept[i]
    <3>1. kept \in Seq(Event)
      BY <2>5 DEF Lines
    <3> QED
      BY <2>1, <3>1, AppendProperties DEF Lines
  <2> HIDE DEF st2
  <2>8. ASSUME NEW d \in 0..q PROVE st2[q + 1 - d] = w[m - d]
    <3>1. CASE d = 0
      BY <2>1, <2>6, <2>7, <3>1
    <3>2. CASE d # 0
      <4> DEFINE i == q + 1 - d
      <4>1. i \in 1..q
        BY <2>6, <3>2
      <4>2. st2[i] = IF k = Cap THEN a.store[i + 1] ELSE a.store[i]
        BY <2>5, <2>7, <4>1
      <4>3. CASE k = Cap
        <5>1. d - 1 \in 0..k - 1 /\ i + 1 = k - (d - 1) /\ m - 1 - (d - 1) = m - d
          BY <1>1, <2>1, <2>3, <2>5, <2>6, <3>2, <4>3
        <5>2. a.store[k - (d - 1)] = w[m - 1 - (d - 1)]
          BY <2>3, <5>1
        <5> HIDE DEF i
        <5>3. st2[i] = w[m - d]
          BY <4>2, <4>3, <5>1, <5>2
        <5> QED
          BY <5>3 DEF i
      <4>4. CASE k # Cap
        <5>1. d - 1 \in 0..k - 1 /\ i = k - (d - 1) /\ m - 1 - (d - 1) = m - d
          BY <1>1, <2>1, <2>3, <2>5, <2>6, <3>2, <4>4
        <5>2. a.store[k - (d - 1)] = w[m - 1 - (d - 1)]
          BY <2>3, <5>1
        <5> HIDE DEF i
        <5>3. st2[i] = w[m - d]
          BY <4>2, <4>4, <5>1, <5>2
        <5> QED
          BY <5>3 DEF i
      <4> QED
        BY <4>3, <4>4
    <3> QED
      BY <3>1, <3>2
  <2>9. LastOnes(st2, w, m)
    <3>1. \A d \in 0..Len(st2) - 1 : d \in 0..q
      BY <2>6, <2>7
    <3> HIDE DEF q
    <3> QED
      BY <2>6, <2>7, <2>8, <3>1 DEF LastOnes
  <2>10. Len(v[n].new) = n /\ \A i \in 1..n : v[n].new[i] = lines[i]
    <3>1. a.new \in Seq(Event)
      BY <2>3 DEF Lines
    <3>2. /\ Len(Append(a.new, ev)) = Len(a.new) + 1 /\ Append(a.new, ev)[Len(a.new) + 1] = ev
          /\ \A i \in 1..Len(a.new) : Append(a.new, ev)[i] = a.new[i]
      BY <2>1, <3>1, AppendProperties
    <3>3. (n - 1) + 1 = n /\ \A i \in 1..n : i \in 1..n - 1 \/ i = n
      BY <2>1
    <3> QED
      BY <2>3, <2>5, <3>2, <3>3 DEF ev
  <2> QED
    BY <2>1, <2>5, <2>9, <2>10 DEF st2, m
<1>6. N \in Good
  <2>1. 0..N \subseteq Good
    <3> HIDE DEF Good
    <3> QED
      BY <1>1, <1>4, <1>5, UpTo
  <2>2. N \in 0..N
    BY <1>1
  <2> HIDE DEF Good
  <2> QED
    BY <2>1, <2>2
<1>7. Stored(st, lines) = v[N]
  BY DEF Stored, v, N
<1>8. v[N].new = lines
  <2>1. N \in 0..N /\ Len(v[N].new) = N /\ \A i \in 1..N : v[N].new[i] = lines[i]
    BY <1>1, <1>6
  <2>2. v[N].new \in Seq(Event) /\ lines \in Seq(Event)
    BY <1>3, <2>1 DEF Adding, Lines
  <2> QED
    BY <2>1, <2>2, SeqEqual DEF N
<1> QED
  BY <1>6, <1>7, <1>8 DEF S, N, w

\* Whatever lines are read, the store keeps its size.
LEMMA StoredTypes ==
  ASSUME NEW st \in Lines, Len(st) <= Cap, NEW lines \in Lines
  PROVE  /\ Stored(st, lines).store \in Lines /\ Len(Stored(st, lines).store) <= Cap
         /\ Stored(st, lines).new \in Lines
<1>1. Len(lines) \in 0..Len(lines)
  BY LineIs
<1>2. AddedAll(st, lines)[Len(lines)] \in Adding
  BY <1>1, AddedAllIs
<1> QED
  BY <1>2 DEF Stored, Adding

-----------------------------------------------------------------------------
\* The inductive invariant.

\* The lines that a server that starts reads, of those its store holds.
Back == IF Cap <= PrimeTail THEN Cap ELSE PrimeTail

\* The lines of the file that are yet to be read.
Unread == IF missed = "no" THEN cursor + 1..Len(file) ELSE 1..Len(file)

\* The numbers of a session that have been told.
Out(s) == {ev.seq : ev \in {e \in ToSet(store) \cup ToSet(wire) : e.session = s}} \cup {mark[s]}

FeedTypes ==
  /\ proc \in [Lanes -> {"alive", "ended", "killed"}] /\ next \in [Lanes -> Nat]
  /\ file \in Lines /\ rotations \in 0..MaxRotations
  /\ cursor \in Nat /\ store \in Lines /\ Len(store) <= Cap
  /\ missed \in {"no", "emptied", "yes"} /\ restarts \in 0..MaxRestarts
  /\ conn \in {"open", "closed"} /\ wire \in Lines /\ (conn = "closed" => wire = <<>>)
  /\ mark \in [Lanes -> Nat \cup {-1}] /\ got \subseteq Lanes \X Nat

\* The file is in order, and what is to be written comes after it.
Filed ==
  /\ Rising(file)
  /\ \A i \in 1..Len(file) : proc[file[i].session] = "alive" => file[i].seq < next[file[i].session]

\* The copy is in order up to its marks; the answer that replaces it is.
Copied ==
  /\ cache \in Lines /\ hw \in [Lanes -> Nat \cup {-1}] /\ seeded \in BOOLEAN /\ Rising(cache)
  /\ seeded => \A i \in 1..Len(cache) : cache[i].seq <= hw[cache[i].session]
  /\ poll = None \/ \E l \in Lines : poll = <<l>> /\ Rising(l)

\* What is to be read or written comes after all that was told, and so does the end that is
\* put to a session that the file has from its start.
Numbered == \A s \in Lanes :
  /\ \A i \in Unread : file[i].session = s => \A n \in Out(s) : n < file[i].seq
  /\ proc[s] = "alive" => \A n \in Out(s) : n < next[s]
  /\ (\E i \in 1..Len(file) : file[i].session = s /\ file[i].seq = 0) =>
       \A n \in Out(s) : \E j \in 1..Len(file) : file[j].session = s /\ n <= file[j].seq

\* What the store holds up to a mark has been passed on; the rest is on its way to a page that
\* is connected.
StoreTold ==
  /\ Rising(store) /\ Rising(wire)
  /\ \A ev \in ToSet(store) : ev.seq <= mark[ev.session] => Key(ev) \in got
  /\ conn = "open" => \A ev \in ToSet(store) : Key(ev) \in got \/ ev \in ToSet(wire)

\* The last lines that were read are the last of the store.
Primed ==
  missed = "no" =>
    /\ cursor <= Len(file)
    /\ \A d \in 0..Back - 1 : d < cursor => d < Len(store) /\ store[Len(store) - d] = file[cursor - d]

FeedInv == FeedTypes /\ Filed /\ Copied /\ (missed # "yes" => Numbered /\ StoreTold /\ Primed)

\* What is told are numbers.
LEMMA OutIs ==
  ASSUME FeedTypes, NEW s \in Lanes
  PROVE  /\ \A n \in Out(s) : n \in Nat \cup {-1}
         /\ mark[s] \in Out(s)
         /\ \A ev \in ToSet(store) \cup ToSet(wire) : ev.session = s => ev.seq \in Out(s)
<1>1. \A ev \in ToSet(store) \cup ToSet(wire) : ev.seq \in Nat
  BY LineIs DEF FeedTypes
<1>2. mark[s] \in Nat \cup {-1}
  BY DEF FeedTypes
<1> QED
  BY <1>1, <1>2 DEF Out

\* The invariant holds at first.
LEMMA FeedInvInit == FeedInit => FeedInv
<1> SUFFICES ASSUME FeedInit PROVE FeedInv
  OBVIOUS
<1> USE DEF FeedInit
<1>1. <<>> \in Lines /\ Len(<<>>) = 0 /\ Rising(<<>>) /\ ToSet(<<>>) = {}
  BY DEF Lines, Rising, ToSet
<1>2. FeedTypes
  BY <1>1, EventFeedAssumption DEF FeedTypes, Unseen
<1>3. Filed
  BY <1>1 DEF Filed
<1>4. Copied
  BY <1>1 DEF Copied, Unseen
<1>5. Numbered
  <2>1. \A s \in Lanes : Out(s) = {-1}
    BY <1>1 DEF Out, Unseen
  <2>2. Unread = {}
    BY <1>1 DEF Unread
  <2> QED
    BY <1>1, <2>1, <2>2 DEF Numbered
<1>6. StoreTold
  BY <1>1 DEF StoreTold
<1>7. Primed
  BY <1>1 DEF Primed
<1> QED
  BY <1>2, <1>3, <1>4, <1>5, <1>6, <1>7 DEF FeedInv

-----------------------------------------------------------------------------
\* The steps.

\* Nothing more is told, and nothing more is to be told.
LEMMA NothingMoreTold ==
  ASSUME Numbered, file' = file, next' = next, Unread' \subseteq Unread,
         \A s \in Lanes : (proc'[s] = "alive" => proc[s] = "alive") /\ Out(s)' \subseteq Out(s)
  PROVE  Numbered'
BY DEF Numbered

\* Another line in the file, which comes after all that was told.
LEMMA LineKeeps ==
  ASSUME FeedInv, NEW ev \in Event, file' = Append(file, ev),
         UNCHANGED <<rotations, server, stream, copy, poll>>,
         proc' \in [Lanes -> {"alive", "ended", "killed"}], next' \in [Lanes -> Nat],
         \A i \in 1..Len(file) : file[i].session = ev.session => file[i].seq < ev.seq,
         missed # "yes" => \A n \in Out(ev.session) : n < ev.seq,
         \A s \in Lanes : proc'[s] = "alive" => /\ proc[s] = "alive" /\ next[s] <= next'[s]
                                                /\ s = ev.session => ev.seq < next'[s]
  PROVE  FeedInv'
<1> DEFINE N == Len(file)
<1> USE DEF server, stream, copy
<1>0. FeedTypes
  BY DEF FeedInv
<1>1. N \in Nat /\ file \in Lines /\ ev.session \in Lanes /\ ev.seq \in Nat
  BY <1>0, LineIs DEF FeedTypes, Event
<1>2. file' \in Lines /\ Len(file') = N + 1 /\ file'[N + 1] = ev /\ \A i \in 1..N : file'[i] = file[i]
  <2>1. file \in Seq(Event)
    BY <1>1 DEF Lines
  <2> QED
    BY <2>1, AppendProperties DEF Lines
<1>3. \A i \in 1..N : file[i].session \in Lanes /\ file[i].seq \in Nat
  BY <1>1, LineIs
<1> HIDE DEF N
<1>4. \A i \in 1..N + 1 : i \in 1..N \/ i = N + 1
  BY <1>1
<1>5. FeedTypes'
  BY <1>0, <1>2 DEF FeedTypes
<1>6. Filed'
  <2>1. Rising(file')
    <3> SUFFICES ASSUME NEW i \in 1..N + 1, NEW j \in 1..N + 1, i < j, file'[i].session = file'[j].session
                 PROVE  file'[i].seq < file'[j].seq
      BY <1>2 DEF Rising
    <3>1. i \in 1..N
      BY <1>1
    <3>2. CASE j \in 1..N
      BY <1>2, <3>1, <3>2 DEF FeedInv, Filed, Rising, N
    <3>3. CASE j = N + 1
      BY <1>2, <3>1, <3>3 DEF N
    <3> QED
      BY <1>4, <3>2, <3>3
  <2>2. ASSUME NEW i \in 1..N + 1, proc'[file'[i].session] = "alive"
        PROVE  file'[i].seq < next'[file'[i].session]
    <3>1. CASE i \in 1..N
      <4> DEFINE s == file[i].session
      <4>1. file'[i] = file[i] /\ s \in Lanes /\ file[i].seq \in Nat
        BY <1>2, <1>3, <3>1
      <4>2. proc[s] = "alive" /\ next[s] <= next'[s]
        BY <2>2, <4>1
      <4>3. file[i].seq < next[s]
        BY <3>1, <4>2 DEF FeedInv, Filed, N
      <4>4. next[s] \in Nat /\ next'[s] \in Nat
        BY <1>0, <4>1 DEF FeedTypes
      <4> HIDE DEF s
      <4>5. file[i].seq < next'[s]
        BY <4>1, <4>2, <4>3, <4>4
      <4> QED
        BY <4>1, <4>5 DEF s
    <3>2. CASE i = N + 1
      BY <1>1, <1>2, <2>2, <3>2
    <3> QED
      BY <1>4, <3>1, <3>2
  <2> QED
    BY <1>2, <2>1, <2>2 DEF Filed
<1>7. Copied'
  BY DEF FeedInv, Copied
<1>8. ASSUME missed' # "yes" PROVE Numbered' /\ StoreTold' /\ Primed'
  <2>1. Numbered /\ StoreTold /\ Primed /\ missed' = missed /\ \A n \in Out(ev.session) : n < ev.seq
    BY <1>8 DEF FeedInv
  <2>2. \A s : Out(s)' = Out(s)
    BY DEF Out
  <2>3. \A i \in Unread' : i \in Unread \/ i = N + 1
    BY <1>0, <1>1, <1>2, <1>4 DEF Unread, FeedTypes, N
  <2>4. \A i \in Unread : i \in 1..N
    BY <1>0, <1>1 DEF Unread, FeedTypes, N
  <2>5. ASSUME NEW s \in Lanes
        PROVE  /\ \A i \in Unread' : file'[i].session = s => \A n \in Out(s) : n < file'[i].seq
               /\ proc'[s] = "alive" => \A n \in Out(s) : n < next'[s]
               /\ (\E i \in 1..Len(file') : file'[i].session = s /\ file'[i].seq = 0) =>
                    \A n \in Out(s) : \E j \in 1..Len(file') : file'[j].session = s /\ n <= file'[j].seq
    <3>1. ASSUME NEW i \in Unread', file'[i].session = s, NEW n \in Out(s) PROVE n < file'[i].seq
      <4>1. CASE i \in Unread
        BY <1>2, <2>1, <2>4, <3>1, <4>1 DEF Numbered
      <4>2. CASE i = N + 1
        BY <1>2, <2>1, <3>1, <4>2
      <4> QED
        BY <2>3, <4>1, <4>2
    <3>2. ASSUME proc'[s] = "alive", NEW n \in Out(s) PROVE n < next'[s]
      <4>1. n < next[s] /\ next[s] <= next'[s]
        BY <2>1, <3>2 DEF Numbered
      <4>2. n \in Int /\ next[s] \in Nat /\ next'[s] \in Nat
        BY <1>0, OutIs DEF FeedTypes
      <4> QED
        BY <4>1, <4>2
    <3>3. ASSUME NEW i \in 1..Len(file'), file'[i].session = s, file'[i].seq = 0, NEW n \in Out(s)
          PROVE  \E j \in 1..Len(file') : file'[j].session = s /\ n <= file'[j].seq
      <4>1. CASE i \in 1..N
        <5>1. file[i].session = s /\ file[i].seq = 0
          BY <1>2, <3>3, <4>1
        <5>2. PICK j \in 1..N : file[j].session = s /\ n <= file[j].seq
          BY <2>1, <4>1, <5>1 DEF Numbered, N
        <5>3. j \in 1..N + 1 /\ file'[j] = file[j]
          BY <1>1, <1>2
        <5> QED
          BY <1>2, <5>2, <5>3
      <4>2. CASE i = N + 1
        <5>1. n < ev.seq /\ n \in Int /\ s = ev.session
          BY <1>0, <1>2, <2>1, <3>3, <4>2, OutIs
        <5>2. N + 1 \in 1..N + 1 /\ n <= ev.seq
          BY <1>1, <5>1
        <5> QED
          BY <1>2, <5>1, <5>2
      <4> QED
        BY <1>2, <1>4, <3>3, <4>1, <4>2
    <3> QED
      BY <3>1, <3>2, <3>3
  <2>6. Numbered'
    BY <2>2, <2>5 DEF Numbered
  <2>7. StoreTold'
    BY <2>1 DEF StoreTold
  <2>8. Primed'
    <3> SUFFICES ASSUME missed = "no"
                 PROVE  /\ cursor <= N + 1
                        /\ \A d \in 0..Back - 1 : d < cursor => d < Len(store) /\ store[Len(store) - d] = file'[cursor - d]
      BY <1>2, <2>1 DEF Primed, Back
    <3>1. cursor <= N /\ cursor \in Nat
      BY <1>0, <2>1 DEF Primed, FeedTypes, N
    <3>2. \A d \in 0..Back - 1 : d < cursor => d < Len(store) /\ store[Len(store) - d] = file[cursor - d]
      BY <2>1 DEF Primed
    <3>3. \A d \in 0..Back - 1 : d < cursor => cursor - d \in 1..N
      BY <1>1, <3>1
    <3> QED
      BY <1>1, <1>2, <3>1, <3>2, <3>3
  <2> QED
    BY <2>6, <2>7, <2>8
<1> QED
  BY <1>5, <1>6, <1>7, <1>8 DEF FeedInv
\* A line of an agent that runs has the number it has come to.
LEMMA OwnLineKeeps ==
  ASSUME FeedInv, NEW s \in Lanes, proc[s] = "alive", NEW e \in BOOLEAN, AppendLine(s, next[s], e),
         next' = [next EXCEPT ![s] = @ + 1], proc' = proc \/ proc' = [proc EXCEPT ![s] = "ended"],
         UNCHANGED <<rotations, server, stream, copy, poll>>
  PROVE  FeedInv'
<1> DEFINE ev == [session |-> s, seq |-> next[s], end |-> e]
<1>1. FeedTypes /\ Filed /\ (missed # "yes" => Numbered)
  BY DEF FeedInv
<1>2. next[s] \in Nat /\ next' \in [Lanes -> Nat] /\ proc' \in [Lanes -> {"alive", "ended", "killed"}]
  BY <1>1 DEF FeedTypes
<1>3. ev \in Event /\ ev.session = s /\ ev.seq = next[s] /\ file' = Append(file, ev)
  BY <1>2 DEF Event, AppendLine
<1>4. \A i \in 1..Len(file) : file[i].session = ev.session => file[i].seq < ev.seq
  BY <1>1, <1>3 DEF Filed
<1>5. missed # "yes" => \A n \in Out(ev.session) : n < ev.seq
  BY <1>1, <1>3 DEF Numbered
<1>6. \A x \in Lanes : proc'[x] = "alive" => /\ proc[x] = "alive" /\ next[x] <= next'[x]
                                             /\ x = ev.session => ev.seq < next'[x]
  <2> SUFFICES ASSUME NEW x \in Lanes, proc'[x] = "alive"
               PROVE  proc[x] = "alive" /\ next[x] <= next'[x] /\ (x = ev.session => ev.seq < next'[x])
    OBVIOUS
  <2>1. proc[x] = "alive"
    BY <1>1 DEF FeedTypes
  <2>2. next'[x] = IF x = s THEN next[s] + 1 ELSE next[x]
    BY <1>1 DEF FeedTypes
  <2>3. next[x] \in Nat
    BY <1>1 DEF FeedTypes
  <2> QED
    BY <1>2, <1>3, <2>1, <2>2, <2>3
<1> HIDE DEF ev
<1> QED
  BY <1>2, <1>3, <1>4, <1>5, <1>6, LineKeeps

\* In order, the lines of a session have a last one.
LEMMA LastOf ==
  ASSUME NEW l \in Lines, Rising(l), NEW s \in Lanes, {ev \in ToSet(l) : ev.session = s} # {}
  PROVE  \E k \in 1..Len(l) : l[k].session = s /\ \A i \in 1..Len(l) : l[i].session = s => l[i].seq <= l[k].seq
<1> DEFINE N == Len(l)
           Is == {i \in 1..N : l[i].session = s}
           Js == {d \in Nat : N - d \in Is}
           OfLane == {ev \in ToSet(l) : ev.session = s}
<1>1. /\ N \in Nat
      /\ \A i \in 1..N : l[i].seq \in Nat /\ l[i] \in ToSet(l)
      /\ \A ev \in ToSet(l) : ev.seq \in Nat /\ \E i \in 1..N : ev = l[i]
  BY LineIs
<1>2. \A ev \in OfLane : ev.session = s /\ ev.seq \in Nat /\ \E i \in Is : ev = l[i]
  BY <1>1
<1>3. \A i \in Is : i \in 1..N /\ l[i].session = s /\ l[i] \in OfLane
  BY <1>1
<1> HIDE DEF N, Is
<1>4. Js \in SUBSET Nat /\ Js # {}
  <2>1. PICK i \in Is : TRUE
    BY <1>2
  <2>2. N - i \in Nat /\ N - (N - i) = i
    BY <1>1, <1>3, <2>1
  <2>3. N - i \in Js
    BY <2>1, <2>2
  <2> QED
    BY <2>3
<1>5. PICK d \in Js : \A c \in Js : d <= c
  <2> HIDE DEF Js
  <2> QED
    BY <1>4, SomeLeast
<1> DEFINE j == N - d
<1>6. j \in Is /\ \A i \in Is : i <= j
  <2>1. \A i \in Is : N - i \in Nat /\ N - (N - i) = i
    BY <1>1, <1>3
  <2>2. \A i \in Is : d <= N - i
    BY <1>5, <2>1
  <2>3. d \in Nat /\ N - d \in Is
    BY <1>5
  <2> HIDE DEF Js
  <2> QED
    BY <1>1, <1>3, <2>2, <2>3
<1> HIDE DEF j
<1>7. \A i \in Is : l[i].seq <= l[j].seq
  <2> SUFFICES ASSUME NEW i \in Is PROVE l[i].seq <= l[j].seq
    OBVIOUS
  <2>1. i \in 1..N /\ j \in 1..N /\ l[i].session = s /\ l[j].session = s /\ i <= j
    BY <1>3, <1>6
  <2>2. l[i].seq \in Nat /\ l[j].seq \in Nat
    BY <1>1, <2>1
  <2>3. i < j => l[i].seq < l[j].seq
    BY <2>1 DEF Rising, N
  <2>4. i < j \/ i = j
    BY <1>1, <2>1
  <2> QED
    BY <2>2, <2>3, <2>4
<1> QED
  BY <1>3, <1>6, <1>7 DEF N, Is

\* So a lane that has a line has a greatest number.
LEMMA LastOfLane ==
  ASSUME file \in Lines, Rising(file), NEW s \in Lanes, Lane(s) # {}
  PROVE  LET last == CHOOSE n \in {ev.seq : ev \in Lane(s)} : \A ev \in Lane(s) : ev.seq <= n
         IN last \in Nat /\ \A ev \in Lane(s) : ev.seq <= last
<1>1. PICK j \in 1..Len(file) : /\ file[j].session = s
                                /\ \A i \in 1..Len(file) : file[i].session = s => file[i].seq <= file[j].seq
  BY LastOf DEF Lane
<1>2. file[j] \in Lane(s) /\ \A ev \in Lane(s) : ev.seq \in Nat /\ ev.seq <= file[j].seq
  BY <1>1, LineIs DEF Lane
<1>3. \E n \in {ev.seq : ev \in Lane(s)} : \A ev \in Lane(s) : ev.seq <= n
  BY <1>2
<1> DEFINE last == CHOOSE n \in {ev.seq : ev \in Lane(s)} : \A ev \in Lane(s) : ev.seq <= n
<1>4. last \in {ev.seq : ev \in Lane(s)} /\ \A ev \in Lane(s) : ev.seq <= last
  BY <1>3
<1> HIDE DEF last
<1>5. last \in Nat
  BY <1>2, <1>4
<1> QED
  BY <1>4, <1>5 DEF last

\* The end that is put to a lane comes after its lines, and so after what was told of it; of a
\* session that has a channel it is put to none that runs.
LEMMA ReapKeeps ==
  ASSUME Steerable = Lanes, FeedInv, NEW s \in Lanes, Reap(s)
  PROVE  FeedInv'
<1> DEFINE last == CHOOSE n \in {ev.seq : ev \in Lane(s)} : \A ev \in Lane(s) : ev.seq <= n
           ev == [session |-> s, seq |-> last + 1, end |-> TRUE]
<1>1. FeedTypes /\ Filed /\ (missed # "yes" => Numbered) /\ file \in Lines
  BY DEF FeedInv, FeedTypes
<1>2. PICK first \in Lane(s) : first.seq = 0
  BY DEF Reap, Orphan
<1>3. last \in Nat /\ \A e \in Lane(s) : e.seq <= last
  BY <1>1, <1>2, LastOfLane DEF Filed
<1>4. proc[s] # "alive"
  BY DEF Reap, Orphan
<1>5. file' = Append(file, ev) /\ UNCHANGED <<agents, rotations, server, stream, copy, poll>>
  BY DEF Reap, AppendLine
<1> HIDE DEF last
<1>6. ev \in Event /\ ev.session = s /\ ev.seq = last + 1
  BY <1>3 DEF Event
<1> HIDE DEF ev
<1>7. \A i \in 1..Len(file) : file[i].session = s => file[i].seq \in Nat /\ file[i].seq <= last
  BY <1>1, <1>3, LineIs DEF Lane
<1>8. \A i \in 1..Len(file) : file[i].session = ev.session => file[i].seq < ev.seq
  BY <1>3, <1>6, <1>7
<1>9. ASSUME missed # "yes", NEW n \in Out(s) PROVE n < ev.seq
  <2>1. PICK i \in 1..Len(file) : file[i].session = s /\ file[i].seq = 0
    BY <1>1, <1>2, LineIs DEF Lane
  <2>2. PICK j \in 1..Len(file) : file[j].session = s /\ n <= file[j].seq
    BY <1>1, <1>9, <2>1 DEF Numbered
  <2>3. n \in Int
    BY <1>1, <1>9, OutIs
  <2> QED
    BY <1>3, <1>6, <1>7, <2>2, <2>3
<1>10. proc' = proc /\ next' = next
  BY <1>5 DEF agents
<1>11. proc' \in [Lanes -> {"alive", "ended", "killed"}] /\ next' \in [Lanes -> Nat]
  BY <1>1, <1>10 DEF FeedTypes
<1>12. \A x \in Lanes : proc'[x] = "alive" => /\ proc[x] = "alive" /\ next[x] <= next'[x]
                                              /\ x = ev.session => ev.seq < next'[x]
  BY <1>1, <1>4, <1>6, <1>10 DEF FeedTypes
<1> QED
  BY <1>5, <1>6, <1>8, <1>9, <1>11, <1>12, LineKeeps
\* An agent that is killed writes no more.
LEMMA KillKeeps ==
  ASSUME FeedInv, NEW s \in Lanes, KillAgent(s)
  PROVE  FeedInv'
<1> USE DEF KillAgent, sink, server, stream, copy
<1>1. FeedTypes /\ Filed /\ Copied
  BY DEF FeedInv
<1>2. proc' \in [Lanes -> {"alive", "ended", "killed"}] /\ \A x \in Lanes : proc'[x] = "alive" => proc[x] = "alive"
  BY <1>1 DEF FeedTypes
<1>3. FeedTypes'
  BY <1>1, <1>2 DEF FeedTypes
<1>4. Filed'
  <2>1. \A i \in 1..Len(file) : file[i].session \in Lanes
    BY <1>1, LineIs DEF FeedTypes
  <2> QED
    BY <1>1, <1>2, <2>1 DEF Filed
<1>5. Copied'
  BY <1>1 DEF Copied
<1>6. ASSUME missed' # "yes" PROVE Numbered' /\ StoreTold' /\ Primed'
  <2>1. Numbered /\ StoreTold /\ Primed
    BY <1>6 DEF FeedInv
  <2>2. Unread' \subseteq Unread /\ \A x \in Lanes : Out(x)' \subseteq Out(x)
    BY DEF Unread, Out
  <2>3. Numbered'
    BY <1>2, <2>1, <2>2, NothingMoreTold
  <2>4. StoreTold' /\ Primed'
    BY <2>1 DEF StoreTold, Primed, Back
  <2> QED
    BY <2>3, <2>4
<1> QED
  BY <1>3, <1>4, <1>5, <1>6 DEF FeedInv

\* A file that is emptied leaves nothing to read.
LEMMA RotateKeeps ==
  ASSUME FeedInv, Rotate
  PROVE  FeedInv'
<1> USE DEF Rotate, agents, server, stream, copy
<1>1. FeedTypes /\ Filed /\ Copied
  BY DEF FeedInv
<1>2. <<>> \in Lines /\ Len(<<>>) = 0 /\ 1..0 = {} /\ Rising(<<>>)
  BY DEF Lines, Rising
<1>3. missed' \in {"emptied", "yes"} /\ (missed' # "yes" => missed # "yes")
  BY <1>1 DEF FeedTypes
<1>4. rotations' \in 0..MaxRotations
  BY <1>1, EventFeedAssumption DEF FeedTypes
<1>5. FeedTypes'
  BY <1>1, <1>2, <1>3, <1>4 DEF FeedTypes
<1>6. Filed'
  BY <1>2 DEF Filed
<1>7. Copied'
  BY <1>1 DEF Copied
<1>8. ASSUME missed' # "yes" PROVE Numbered' /\ StoreTold' /\ Primed'
  <2>1. Numbered /\ StoreTold
    BY <1>3, <1>8 DEF FeedInv
  <2>2. Unread' = {} /\ \A x \in Lanes : Out(x)' = Out(x)
    BY <1>2, <1>3 DEF Unread, Out
  <2>3. Numbered'
    BY <1>2, <2>1, <2>2 DEF Numbered
  <2>4. StoreTold' /\ Primed'
    BY <1>3, <2>1 DEF StoreTold, Primed
  <2> QED
    BY <2>3, <2>4
<1> QED
  BY <1>5, <1>6, <1>7, <1>8 DEF FeedInv

\* A page that connects is sent the store.
LEMMA ConnectKeeps ==
  ASSUME FeedInv, Connect \/ StreamDrops
  PROVE  FeedInv'
<1> USE DEF Connect, StreamDrops, Replay, agents, sink, server, copy
<1>1. FeedTypes /\ Filed /\ Copied
  BY DEF FeedInv
<1>2. <<>> \in Lines /\ Rising(<<>>) /\ ToSet(<<>>) = {}
  BY DEF Lines, Rising, ToSet
<1>3. FeedTypes'
  BY <1>1, <1>2 DEF FeedTypes
<1>4. Filed' /\ Copied'
  BY <1>1 DEF Filed, Copied
<1>5. ASSUME missed' # "yes" PROVE Numbered' /\ StoreTold' /\ Primed'
  <2>1. Numbered /\ StoreTold /\ Primed
    BY <1>5 DEF FeedInv
  <2>2. ToSet(wire)' \subseteq ToSet(store)
    BY <1>2
  <2>3. Unread' \subseteq Unread /\ \A x \in Lanes : Out(x)' \subseteq Out(x)
    BY <2>2 DEF Unread, Out
  <2>4. Numbered'
    BY <2>1, <2>3, NothingMoreTold
  <2>5. StoreTold'
    BY <1>2, <2>1 DEF StoreTold
  <2>6. Primed'
    BY <2>1 DEF Primed, Back
  <2> QED
    BY <2>4, <2>5, <2>6
<1> QED
  BY <1>3, <1>4, <1>5 DEF FeedInv

\* A poll is answered from the file, and its answer replaces the copy.
LEMMA PollKeeps ==
  ASSUME FeedInv, PollStart \/ PollReply
  PROVE  FeedInv'
<1> USE DEF PollStart, PollReply, agents, sink, server, stream
<1>1. FeedTypes /\ Filed /\ Copied
  BY DEF FeedInv
<1>2. FeedTypes' /\ Filed'
  BY <1>1 DEF FeedTypes, Filed, copy
<1>3. Copied'
  <2>1. CASE PollStart
    <3>1. file \in Lines /\ Rising(file)
      BY <1>1 DEF FeedTypes, Filed
    <3> QED
      BY <1>1, <2>1, <3>1 DEF Copied, copy
  <2>2. CASE PollReply
    <3>1. PICK l \in Lines : poll = <<l>> /\ Rising(l)
      BY <1>1, <2>2 DEF Copied
    <3> QED
      BY <1>1, <2>2, <3>1 DEF Copied
  <2> QED
    BY <2>1, <2>2
<1>4. ASSUME missed' # "yes" PROVE Numbered' /\ StoreTold' /\ Primed'
  <2>1. Numbered /\ StoreTold /\ Primed
    BY <1>4 DEF FeedInv
  <2>2. UNCHANGED <<proc, next, file, cursor, store, missed, conn, wire, mark, got>>
    OBVIOUS
  <2>3. Unread' \subseteq Unread /\ \A x \in Lanes : Out(x)' \subseteq Out(x)
    BY <2>2 DEF Unread, Out
  <2>4. Numbered'
    BY <2>1, <2>2, <2>3, NothingMoreTold
  <2>5. StoreTold' /\ Primed'
    BY <2>1, <2>2 DEF StoreTold, Primed, Back
  <2> QED
    BY <2>4, <2>5
<1> QED
  BY <1>2, <1>3, <1>4 DEF FeedInv

\* The first frame and those behind it.
LEMMA FrameIs ==
  ASSUME NEW l \in Lines, l # <<>>
  PROVE  /\ Tail(l) \in Lines /\ Head(l) \in Event /\ Head(l) \in ToSet(l)
         /\ \A ev \in ToSet(l) : ev = Head(l) \/ ev \in ToSet(Tail(l))
         /\ \A ev \in ToSet(Tail(l)) : ev \in ToSet(l)
         /\ Rising(l) => /\ Rising(Tail(l))
                         /\ \A ev \in ToSet(Tail(l)) : ev.session = Head(l).session => Head(l).seq < ev.seq
<1> DEFINE N == Len(l)
           M == Len(Tail(l))
<1>1. /\ N \in Nat /\ \A i \in 1..N : l[i] \in Event /\ l[i] \in ToSet(l)
      /\ \A ev \in ToSet(l) : \E i \in 1..N : ev = l[i]
  BY LineIs
<1>2. Tail(l) \in Lines /\ Head(l) = l[1] /\ M = N - 1 /\ N # 0 /\ \A i \in 1..M : Tail(l)[i] = l[i + 1]
  <2>1. l \in Seq(Event) /\ l # <<>>
    BY DEF Lines
  <2>2. Tail(l) \in Seq(Event) /\ Head(l) = l[1] /\ Len(Tail(l)) = Len(l) - 1 /\ \A i \in 1..Len(Tail(l)) : Tail(l)[i] = l[i + 1]
    BY <2>1, HeadTailProperties
  <2>3. Len(l) # 0
    BY <2>1, EmptySeq
  <2> QED
    BY <2>2, <2>3 DEF Lines
<1>3. /\ \A i \in 1..M : Tail(l)[i] \in ToSet(Tail(l))
      /\ \A ev \in ToSet(Tail(l)) : \E i \in 1..M : ev = Tail(l)[i]
  BY <1>2, LineIs
<1> HIDE DEF N, M
<1>4. 1 \in 1..N /\ \A i \in 1..M : i + 1 \in 1..N /\ 1 < i + 1
  BY <1>1, <1>2
<1>5. \A i \in 1..N : i # 1 => i - 1 \in 1..M /\ (i - 1) + 1 = i
  BY <1>1, <1>2
<1>6. \A ev \in ToSet(l) : ev = Head(l) \/ ev \in ToSet(Tail(l))
  <2> SUFFICES ASSUME NEW ev \in ToSet(l), ev # Head(l) PROVE ev \in ToSet(Tail(l))
    OBVIOUS
  <2>1. PICK i \in 1..N : ev = l[i]
    BY <1>1
  <2>2. i # 1
    BY <1>2, <2>1
  <2>3. Tail(l)[i - 1] = l[i]
    BY <1>2, <1>5, <2>2
  <2> QED
    BY <1>3, <1>5, <2>1, <2>2, <2>3
<1>7. ASSUME NEW ev \in ToSet(Tail(l)) PROVE ev \in ToSet(l)
  <2>1. PICK i \in 1..M : ev = Tail(l)[i]
    BY <1>3
  <2> QED
    BY <1>1, <1>2, <1>4, <2>1
<1>8. ASSUME Rising(l) PROVE Rising(Tail(l))
  <2> SUFFICES ASSUME NEW i \in 1..M, NEW j \in 1..M, i < j, Tail(l)[i].session = Tail(l)[j].session
               PROVE  Tail(l)[i].seq < Tail(l)[j].seq
    BY DEF Rising, M
  <2>1. i + 1 < j + 1
    OBVIOUS
  <2> QED
    BY <1>2, <1>4, <1>8, <2>1 DEF Rising, N
<1>9. ASSUME Rising(l), NEW ev \in ToSet(Tail(l)), ev.session = Head(l).session PROVE Head(l).seq < ev.seq
  BY <1>2, <1>3, <1>4, <1>9 DEF Rising, N
<1> QED
  BY <1>1, <1>2, <1>4, <1>6, <1>7, <1>8, <1>9
\* The marks of the copy are at or above all it has.
LEMMA MarksAre ==
  ASSUME Copied
  PROVE  /\ Marks \in [Lanes -> Nat \cup {-1}]
         /\ \A i \in 1..Len(cache) : cache[i].seq <= Marks[cache[i].session]
<1>1. CASE seeded
  BY <1>1 DEF Copied, Marks
<1>2. CASE ~seeded
  <2>1. cache \in Lines /\ Rising(cache)
    BY DEF Copied
  <2> DEFINE OfLane(s) == {ev.seq : ev \in {e \in ToSet(cache) : e.session = s}}
             Top(s) == IF OfLane(s) = {} THEN -1 ELSE CHOOSE n \in OfLane(s) : \A m \in OfLane(s) : m <= n
  <2>2. Marks = [s \in Lanes |-> Top(s)]
    BY <1>2 DEF Marks, SeedHighWater
  <2>3. ASSUME NEW s \in Lanes PROVE Top(s) \in Nat \cup {-1} /\ \A n \in OfLane(s) : n <= Top(s)
    <3>1. CASE OfLane(s) = {}
      BY <3>1
    <3>2. CASE OfLane(s) # {}
      <4>1. \E n \in OfLane(s) : \A m \in OfLane(s) : m <= n
        <5>1. PICK k \in 1..Len(cache) : cache[k].session = s /\ \A i \in 1..Len(cache) : cache[i].session = s => cache[i].seq <= cache[k].seq
          <6>1. {ev \in ToSet(cache) : ev.session = s} # {}
            BY <3>2
          <6> QED
            BY <2>1, <6>1, LastOf
        <5>2. cache[k].seq \in OfLane(s)
          BY <2>1, <5>1, LineIs
        <5>3. \A m \in OfLane(s) : m <= cache[k].seq
          <6> SUFFICES ASSUME NEW ev \in ToSet(cache), ev.session = s PROVE ev.seq <= cache[k].seq
            OBVIOUS
          <6>1. PICK i \in 1..Len(cache) : ev = cache[i]
            BY <2>1, LineIs
          <6> QED
            BY <5>1, <6>1
        <5> HIDE DEF OfLane
        <5> QED
          BY <5>2, <5>3
      <4>2. OfLane(s) \subseteq Nat
        BY <2>1, LineIs
      <4> HIDE DEF OfLane
      <4>3. Top(s) \in OfLane(s) /\ \A m \in OfLane(s) : m <= Top(s)
        BY <3>2, <4>1
      <4> HIDE DEF Top
      <4> QED
        BY <4>2, <4>3
    <3> QED
      BY <3>1, <3>2
  <2>4. ASSUME NEW i \in 1..Len(cache)
        PROVE  cache[i].session \in Lanes /\ cache[i].seq \in OfLane(cache[i].session)
    <3>1. cache[i] \in ToSet(cache) /\ cache[i].session \in Lanes
      BY <2>1, LineIs
    <3> QED
      BY <3>1
  <2> HIDE DEF Top, OfLane
  <2>5. \A i \in 1..Len(cache) : cache[i].seq <= Top(cache[i].session)
    BY <2>3, <2>4
  <2> QED
    BY <2>2, <2>3, <2>4, <2>5
<1> QED
  BY <1>1, <1>2

\* A frame is passed on and merged into the copy, unless it is at or below the mark.
LEMMA DeliverKeeps ==
  ASSUME FeedInv, Deliver
  PROVE  FeedInv'
<1> USE DEF agents, sink, server
<1> DEFINE h == Head(wire)
           s == h.session
           Past == mark' = [mark EXCEPT ![s] = h.seq] /\ got' = got \cup {Key(h)} /\ Merge(h)
<1>1. FeedTypes /\ Filed /\ Copied /\ wire \in Lines /\ wire # <<>> /\ store \in Lines
  BY DEF FeedInv, FeedTypes, Deliver
<1>2. /\ wire' = Tail(wire) /\ UNCHANGED <<proc, next, file, rotations, cursor, store, missed, restarts, conn, poll>>
      /\ IF h.seq <= mark[s] THEN UNCHANGED <<mark, got, cache, hw, seeded>> ELSE Past
  BY DEF Deliver, copy
<1>3. /\ Tail(wire) \in Lines /\ h \in Event /\ h \in ToSet(wire)
      /\ \A ev \in ToSet(wire) : ev = h \/ ev \in ToSet(Tail(wire))
      /\ \A ev \in ToSet(Tail(wire)) : ev \in ToSet(wire)
      /\ Rising(wire) => /\ Rising(Tail(wire))
                         /\ \A ev \in ToSet(Tail(wire)) : ev.session = s => h.seq < ev.seq
  BY <1>1, FrameIs
<1> HIDE DEF h
<1>4. s \in Lanes /\ h.seq \in Nat /\ Key(h) \in Lanes \X Nat
  BY <1>3 DEF Event, Key
<1>5. \A x \in Lanes : mark[x] \in Int
  BY <1>1 DEF FeedTypes
<1> HIDE DEF Past
<1>6. FeedTypes'
  <2>1. mark' \in [Lanes -> Nat \cup {-1}] /\ got' \subseteq Lanes \X Nat
    BY <1>1, <1>2, <1>4 DEF FeedTypes, Past
  <2>2. conn' = "closed" => wire' = <<>>
    BY <1>1, <1>2 DEF FeedTypes
  <2> QED
    BY <1>1, <1>2, <1>3, <2>1, <2>2 DEF FeedTypes
<1>7. Filed'
  BY <1>1, <1>2 DEF Filed
<1>8. Copied'
  <2>1. CASE h.seq <= mark[s]
    BY <1>1, <1>2, <2>1 DEF Copied
  <2>2. CASE ~(h.seq <= mark[s])
    <3>1. Merge(h)
      BY <1>2, <2>2 DEF Past
    <3>2. /\ Marks \in [Lanes -> Nat \cup {-1}]
          /\ \A i \in 1..Len(cache) : cache[i].seq <= Marks[cache[i].session]
      BY <1>1, MarksAre
    <3>3. cache \in Lines /\ Rising(cache)
      BY <1>1 DEF Copied
    <3>4. poll' = None \/ \E l \in Lines : poll' = <<l>> /\ Rising(l)
      BY <1>1, <1>2 DEF Copied
    <3>5. CASE h.seq <= Marks[s]
      <4>1. hw' = Marks /\ cache' = cache /\ seeded' = TRUE
        BY <3>1, <3>5 DEF Merge
      <4> QED
        BY <3>2, <3>3, <3>4, <4>1 DEF Copied
    <3>6. CASE ~(h.seq <= Marks[s])
      <4> DEFINE N == Len(cache)
      <4>1. hw' = [Marks EXCEPT ![s] = h.seq] /\ cache' = Append(cache, h) /\ seeded' = TRUE
        BY <3>1, <3>6 DEF Merge
      <4>2. cache' \in Lines /\ Len(cache') = N + 1 /\ cache'[N + 1] = h /\ \A i \in 1..N : cache'[i] = cache[i]
        <5>1. cache \in Seq(Event)
          BY <3>3 DEF Lines
        <5> QED
          BY <1>3, <4>1, <5>1, AppendProperties DEF Lines
      <4>3. N \in Nat /\ \A i \in 1..N : cache[i].session \in Lanes /\ cache[i].seq \in Nat
        BY <3>3, LineIs
      <4> HIDE DEF N
      <4>4. \A i \in 1..N + 1 : i \in 1..N \/ i = N + 1
        BY <4>3
      <4>5. hw' \in [Lanes -> Nat \cup {-1}] /\ hw'[s] = h.seq /\ \A x \in Lanes : Marks[x] <= hw'[x] /\ Marks[x] \in Int /\ hw'[x] \in Int
        BY <1>4, <3>2, <3>6, <4>1
      <4>6. \A i \in 1..N : cache[i].seq <= Marks[cache[i].session]
        BY <3>2 DEF N
      <4>7. Rising(cache')
        <5> SUFFICES ASSUME NEW i \in 1..N + 1, NEW j \in 1..N + 1, i < j, cache'[i].session = cache'[j].session
                     PROVE  cache'[i].seq < cache'[j].seq
          BY <4>2 DEF Rising
        <5>1. i \in 1..N
          BY <4>3
        <5>2. CASE j \in 1..N
          BY <3>3, <4>2, <5>1, <5>2 DEF Rising, N
        <5>3. CASE j = N + 1
          <6>1. cache'[i] = cache[i] /\ cache'[j] = h /\ cache[i].session = s
            BY <4>2, <5>1, <5>3
          <6>2. cache[i].seq <= Marks[s] /\ cache[i].seq \in Nat /\ Marks[s] \in Int
            BY <1>4, <4>3, <4>5, <4>6, <5>1, <6>1
          <6> QED
            BY <1>4, <3>6, <6>1, <6>2
        <5> QED
          BY <4>4, <5>2, <5>3
      <4>8. ASSUME NEW i \in 1..N + 1 PROVE cache'[i].seq <= hw'[cache'[i].session]
        <5>1. CASE i \in 1..N
          <6> DEFINE x == cache[i].session
          <6>1. x \in Lanes /\ cache[i].seq \in Nat /\ cache[i].seq <= Marks[x] /\ cache'[i] = cache[i]
            BY <4>2, <4>3, <4>6, <5>1
          <6> HIDE DEF x
          <6>2. cache[i].seq <= hw'[x]
            BY <4>5, <6>1
          <6> QED
            BY <6>1, <6>2 DEF x
        <5>2. CASE i = N + 1
          BY <1>4, <4>2, <4>5, <5>2
        <5> QED
          BY <4>4, <5>1, <5>2
      <4> QED
        BY <3>4, <4>1, <4>2, <4>5, <4>7, <4>8 DEF Copied
    <3> QED
      BY <3>5, <3>6
  <2> QED
    BY <2>1, <2>2
<1>9. ASSUME missed' # "yes" PROVE Numbered' /\ StoreTold' /\ Primed'
  <2>1. Numbered /\ StoreTold /\ Primed
    BY <1>2, <1>9 DEF FeedInv
  <2>2. conn = "open"
    BY <1>1 DEF FeedTypes
  <2>3. /\ \A x \in Lanes : x # s => mark'[x] = mark[x]
        /\ mark'[s] = IF h.seq <= mark[s] THEN mark[s] ELSE h.seq
        /\ got \subseteq got' /\ (~(h.seq <= mark[s]) => Key(h) \in got')
    BY <1>1, <1>2, <1>4 DEF Past, FeedTypes
  <2>4. Numbered'
    <3>1. ASSUME NEW x \in Lanes PROVE Out(x)' \subseteq Out(x)
      <4>1. mark'[x] \in Out(x)
        <5>1. mark[x] \in Out(x) /\ (x = s => h.seq \in Out(x))
          BY <1>1, <1>3, OutIs
        <5> QED
          BY <2>3, <5>1
      <4>2. \A ev \in ToSet(store') \cup ToSet(wire') : ev \in ToSet(store) \cup ToSet(wire)
        BY <1>2, <1>3
      <4> QED
        BY <4>1, <4>2 DEF Out
    <3>2. Unread' \subseteq Unread
      BY <1>2 DEF Unread
    <3> QED
      BY <1>2, <2>1, <3>1, <3>2, NothingMoreTold
  <2>5. StoreTold'
    <3>1. Rising(store') /\ Rising(wire')
      BY <1>2, <1>3, <2>1 DEF StoreTold
    <3>2. \A ev \in ToSet(store) : ev.session \in Lanes /\ ev.seq \in Nat
      BY <1>1, LineIs
    <3>3. ASSUME NEW ev \in ToSet(store), ev.seq <= mark'[ev.session] PROVE Key(ev) \in got'
      <4>1. CASE ev.seq <= mark[ev.session]
        BY <2>1, <2>3, <4>1 DEF StoreTold
      <4>2. CASE ~(ev.seq <= mark[ev.session])
        <5>1. ev.session = s /\ ~(h.seq <= mark[s]) /\ ev.seq <= h.seq
          BY <2>3, <3>2, <3>3, <4>2
        <5>2. CASE ev.seq = h.seq
          BY <2>3, <5>1, <5>2 DEF Key
        <5>3. CASE ev.seq # h.seq
          <6>1. ~(h.seq < ev.seq)
            BY <1>4, <3>2, <5>1
          <6>2. ev \notin ToSet(wire)
            BY <1>3, <2>1, <5>1, <5>3, <6>1 DEF StoreTold
          <6> QED
            BY <2>1, <2>2, <2>3, <6>2 DEF StoreTold
        <5> QED
          BY <5>2, <5>3
      <4> QED
        BY <4>1, <4>2
    <3>4. ASSUME NEW ev \in ToSet(store) PROVE Key(ev) \in got' \/ ev \in ToSet(wire')
      <4>1. CASE Key(ev) \in got
        BY <2>3, <4>1
      <4>2. CASE ev \in ToSet(wire) /\ ev # h
        BY <1>2, <1>3, <4>2
      <4>3. CASE ev = h
        BY <2>1, <2>3, <4>3 DEF StoreTold
      <4> QED
        BY <2>1, <2>2, <4>1, <4>2, <4>3 DEF StoreTold
    <3> QED
      BY <1>2, <3>1, <3>3, <3>4 DEF StoreTold
  <2>6. Primed'
    BY <1>2, <2>1 DEF Primed, Back
  <2> QED
    BY <2>4, <2>5, <2>6
<1> QED
  BY <1>6, <1>7, <1>8, <1>9 DEF FeedInv
-----------------------------------------------------------------------------
\* The reads of the file.

\* What comes after r lines.
Rest(r) == SubSeq(file, r + 1, Len(file))

\* It is the rest of the lines.
LEMMA RestIs ==
  ASSUME file \in Lines, NEW r \in 0..Len(file)
  PROVE  /\ Rest(r) \in Lines /\ Len(Rest(r)) = Len(file) - r
         /\ \A k \in 1..Len(file) - r : Rest(r)[k] = file[r + k] /\ r + k \in r + 1..Len(file)
         /\ Rising(file) => Rising(Rest(r))
<1> DEFINE N == Len(file)
           l == Rest(r)
<1>1. N \in Nat /\ file \in Seq(Event)
  BY LineIs DEF Lines
<1>2. r + 1 \in 1..N + 1 /\ N \in (r + 1) - 1..N /\ N - (r + 1) + 1 = N - r /\ N - r \in Nat
  BY <1>1
<1>3. /\ SubSeq(file, r + 1, N) \in Seq(Event) /\ Len(SubSeq(file, r + 1, N)) = N - (r + 1) + 1
      /\ \A k \in 1..N - (r + 1) + 1 : SubSeq(file, r + 1, N)[k] = file[r + 1 + k - 1]
  <2>1. r + 1 \in Int /\ N \in Int /\ \A i \in r + 1..N : file[i] \in Event
    <3>1. \A i \in r + 1..N : i \in 1..N
      BY <1>1, <1>2
    <3> QED
      BY <1>1, <1>2, <3>1, LineIs
  <2> DEFINE m == r + 1
  <2> HIDE DEF N, m
  <2>2. m \in Int /\ N \in Int /\ \A i \in m..N : file[i] \in Event
    BY <2>1 DEF m
  <2>3. /\ SubSeq(file, m, N) \in Seq(Event)
        /\ Len(SubSeq(file, m, N)) = IF m <= N THEN N - m + 1 ELSE 0
        /\ \A k \in 1..N - m + 1 : SubSeq(file, m, N)[k] = file[m + k - 1]
    BY <2>2, SubSeqProperties
  <2>4. (IF m <= N THEN N - m + 1 ELSE 0) = N - m + 1
    BY <1>1, <1>2 DEF m
  <2> QED
    BY <2>3, <2>4 DEF m
<1>4. l = SubSeq(file, r + 1, N)
  BY DEF Rest
<1> HIDE DEF l, N
<1>5. \A k \in 1..N - r : r + 1 + k - 1 = r + k /\ r + k \in r + 1..N /\ r + k \in 1..N
  BY <1>1, <1>2
<1>6. l \in Lines /\ Len(l) = N - r /\ \A k \in 1..N - r : l[k] = file[r + k]
  BY <1>2, <1>3, <1>4, <1>5 DEF Lines
<1>7. ASSUME Rising(file) PROVE Rising(l)
  <2> SUFFICES ASSUME NEW i \in 1..N - r, NEW j \in 1..N - r, i < j, l[i].session = l[j].session
               PROVE  l[i].seq < l[j].seq
    BY <1>6 DEF Rising
  <2>1. r + i < r + j
    BY <1>2
  <2>2. r + i \in 1..N /\ r + j \in 1..N
    BY <1>5
  <2> QED
    BY <1>6, <1>7, <2>1, <2>2 DEF Rising, N
<1> QED
  BY <1>5, <1>6, <1>7 DEF N, l

\* Lines after lines.
LEMMA InARow ==
  ASSUME NEW a \in Lines, NEW b \in Lines
  PROVE  /\ a \o b \in Lines /\ Len(a \o b) = Len(a) + Len(b)
         /\ \A i \in 1..Len(a) : (a \o b)[i] = a[i]
         /\ \A i \in 1..Len(b) : (a \o b)[Len(a) + i] = b[i]
         /\ \A i \in 1..Len(a) + Len(b) : i \in 1..Len(a) \/ \E j \in 1..Len(b) : i = Len(a) + j
<1> DEFINE S == Len(a)
           N == Len(b)
           w == a \o b
<1>1. S \in Nat /\ N \in Nat /\ a \in Seq(Event) /\ b \in Seq(Event)
  BY LineIs DEF Lines
<1>2. w \in Seq(Event) /\ Len(w) = Len(a) + Len(b)
      /\ \A i \in 1..Len(a) + Len(b) : w[i] = IF i <= Len(a) THEN a[i] ELSE b[i - Len(a)]
  BY <1>1, ConcatProperties
<1> HIDE DEF w
<1>3. \A i \in 1..S : i \in 1..S + N /\ i <= S
  BY <1>1
<1>4. \A i \in 1..N : S + i \in 1..S + N /\ ~(S + i <= S) /\ S + i - S = i
  BY <1>1
<1>5. ASSUME NEW i \in 1..S + N PROVE i \in 1..S \/ \E j \in 1..N : i = S + j
  <2>1. i \notin 1..S => i - S \in 1..N /\ i = S + (i - S)
    BY <1>1
  <2> QED
    BY <2>1
<1>6. w \in Lines
  BY <1>2 DEF Lines
<1>7. (\A i \in 1..S : w[i] = a[i]) /\ (\A i \in 1..N : w[S + i] = b[i])
  BY <1>2, <1>3, <1>4
<1> QED
  BY <1>2, <1>5, <1>6, <1>7 DEF w

\* They are in order when each part is, and the second comes after the first.
LEMMA RowRises ==
  ASSUME NEW a \in Lines, NEW b \in Lines, Rising(a), Rising(b),
         \A x \in ToSet(a), k \in 1..Len(b) : x.session = b[k].session => x.seq < b[k].seq
  PROVE  /\ Rising(a \o b)
         /\ \A ev \in ToSet(a \o b) : ev \in ToSet(a) \/ \E k \in 1..Len(b) : ev = b[k]
         /\ \A ev \in ToSet(a) : ev \in ToSet(a \o b)
         /\ \A k \in 1..Len(b) : b[k] \in ToSet(a \o b)
<1> DEFINE S == Len(a)
           N == Len(b)
           w == a \o b
<1>1. S \in Nat /\ N \in Nat
  BY LineIs
<1>2. /\ w \in Lines /\ Len(w) = S + N /\ \A i \in 1..S : w[i] = a[i]
      /\ \A i \in 1..N : w[S + i] = b[i]
      /\ \A i \in 1..S + N : i \in 1..S \/ \E j \in 1..N : i = S + j
  BY InARow
<1>3. /\ \A i \in 1..S : a[i] \in ToSet(a)
      /\ \A ev \in ToSet(a) : \E i \in 1..S : ev = a[i]
      /\ \A i \in 1..Len(w) : w[i] \in ToSet(w)
      /\ \A ev \in ToSet(w) : \E i \in 1..Len(w) : ev = w[i]
  BY <1>2, LineIs
<1>4. \A x \in ToSet(a), k \in 1..N : x.session = b[k].session => x.seq < b[k].seq
  OBVIOUS
<1>5. Rising(a) /\ Rising(b)
  OBVIOUS
<1> HIDE DEF w, S, N
<1>6. Rising(w)
  <2> SUFFICES ASSUME NEW i \in 1..S + N, NEW j \in 1..S + N, i < j, w[i].session = w[j].session
               PROVE  w[i].seq < w[j].seq
    BY <1>2 DEF Rising
  <2>1. CASE i \in 1..S /\ j \in 1..S
    BY <1>2, <1>5, <2>1 DEF Rising, S
  <2>2. CASE i \in 1..S /\ j \notin 1..S
    <3>1. PICK k \in 1..N : j = S + k
      BY <1>2, <2>2
    <3>2. w[j] = b[k]
      BY <1>2, <3>1
    <3>3. w[i] = a[i] /\ a[i] \in ToSet(a)
      BY <1>2, <1>3, <2>2
    <3>4. a[i].session = b[k].session
      BY <3>2, <3>3
    <3>5. a[i].seq < b[k].seq
      BY <1>4, <3>3, <3>4
    <3> QED
      BY <3>2, <3>3, <3>5
  <2>3. CASE i \notin 1..S
    <3>1. PICK k \in 1..N : i = S + k
      BY <1>2, <2>3
    <3>2. j \notin 1..S
      BY <1>1, <3>1
    <3>3. PICK m \in 1..N : j = S + m
      BY <1>2, <3>2
    <3>4. k < m
      BY <1>1, <3>1, <3>3
    <3>5. w[i] = b[k] /\ w[j] = b[m]
      BY <1>2, <3>1, <3>3
    <3> QED
      BY <1>5, <3>4, <3>5 DEF Rising, N
  <2> QED
    BY <2>1, <2>2, <2>3
<1>7. \A i \in 1..S : i \in 1..Len(w)
  BY <1>1, <1>2
<1>8. \A i \in 1..N : S + i \in 1..Len(w)
  BY <1>1, <1>2
<1>9. ASSUME NEW ev \in ToSet(w) PROVE ev \in ToSet(a) \/ \E k \in 1..N : ev = b[k]
  <2>1. PICK i \in 1..S + N : ev = w[i]
    BY <1>2, <1>3
  <2>2. i \in 1..S \/ \E j \in 1..N : i = S + j
    BY <1>2
  <2> QED
    BY <1>2, <1>3, <2>1, <2>2
<1>10. \A ev \in ToSet(a) : ev \in ToSet(w)
  BY <1>2, <1>3, <1>7
<1>11. \A k \in 1..N : b[k] \in ToSet(w)
  BY <1>2, <1>3, <1>8
<1> QED
  BY <1>6, <1>9, <1>10, <1>11 DEF w, S, N

\* The last lines are in order as all are.
LEMMA LastOnesRise ==
  ASSUME NEW w \in Lines, Rising(w), NEW st, LastOnes(st, w, Len(w))
  PROVE  /\ Rising(st) /\ \A ev \in ToSet(st) : ev \in ToSet(w)
         /\ \A ev \in ToSet(st) : \E d \in 0..Len(st) - 1 : ev = st[Len(st) - d]
<1> DEFINE M == Len(w)
           L == Len(st)
<1>1. st \in Lines /\ M \in Nat /\ L \in Nat /\ L <= M /\ \A d \in 0..L - 1 : st[L - d] = w[M - d]
  <2>1. st \in Lines /\ L = (IF M <= Cap THEN M ELSE Cap) /\ \A d \in 0..L - 1 : st[L - d] = w[M - d]
    BY DEF LastOnes
  <2>2. M \in Nat /\ Cap \in Nat
    BY LineIs, EventFeedAssumption
  <2> HIDE DEF M, L
  <2> QED
    BY <2>1, <2>2
<1>2. /\ \A i \in 1..M : w[i] \in ToSet(w)
      /\ \A ev \in ToSet(st) : \E i \in 1..L : ev = st[i]
  BY <1>1, LineIs
<1> HIDE DEF M, L
<1>3. ASSUME NEW i \in 1..L PROVE L - i \in 0..L - 1 /\ L - (L - i) = i /\ M - (L - i) \in 1..M /\ st[i] = w[M - (L - i)]
  <2>1. L - i \in 0..L - 1 /\ L - (L - i) = i /\ M - (L - i) \in 1..M
    BY <1>1
  <2>2. st[L - (L - i)] = w[M - (L - i)]
    BY <1>1, <2>1
  <2> QED
    BY <2>1, <2>2
<1>4. Rising(st)
  <2> SUFFICES ASSUME NEW i \in 1..L, NEW j \in 1..L, i < j, st[i].session = st[j].session
               PROVE  st[i].seq < st[j].seq
    BY DEF Rising, L
  <2>1. M - (L - i) < M - (L - j)
    BY <1>1
  <2> QED
    BY <1>3, <2>1 DEF Rising, M
<1>5. \A ev \in ToSet(st) : ev \in ToSet(w) /\ \E d \in 0..L - 1 : ev = st[L - d]
  <2> SUFFICES ASSUME NEW ev \in ToSet(st) PROVE ev \in ToSet(w) /\ \E d \in 0..L - 1 : ev = st[L - d]
    OBVIOUS
  <2>1. PICK i \in 1..L : ev = st[i]
    BY <1>2
  <2> QED
    BY <1>2, <1>3, <2>1
<1> QED
  BY <1>4, <1>5 DEF L
\* What is read comes after what was told, and is told.
LEMMA ReadDeltaKeeps ==
  ASSUME FeedInv, ReadDelta
  PROVE  FeedInv'
<1> USE DEF agents, sink, copy
<1> DEFINE N == Len(file)
           r == ReadFrom
           lines == Rest(r)
           read == Stored(store, lines)
<1>1. FeedTypes /\ Filed /\ Copied /\ file \in Lines /\ store \in Lines /\ Len(store) <= Cap /\ wire \in Lines
      /\ cursor \in Nat /\ missed \in {"no", "emptied", "yes"} /\ Rising(file)
  BY DEF FeedInv, FeedTypes, Filed
<1>2. N \in Nat /\ N # cursor /\ r \in 0..N /\ r = IF N < cursor THEN 0 ELSE cursor
  <2>1. N \in Nat
    BY <1>1, LineIs
  <2> QED
    BY <1>1, <2>1 DEF ReadDelta, ReadFrom
<1>3. /\ store' = read.store /\ wire' = (IF conn = "open" THEN wire \o read.new ELSE wire) /\ cursor' = N
      /\ missed' = IF missed = "emptied" THEN IF N < cursor THEN "no" ELSE "yes" ELSE missed
      /\ UNCHANGED <<proc, next, file, rotations, restarts, conn, mark, got, cache, hw, seeded, poll>>
  BY DEF ReadDelta, Rest
<1> HIDE DEF N, r
<1>4. /\ lines \in Lines /\ Len(lines) = N - r
      /\ \A k \in 1..N - r : lines[k] = file[r + k] /\ r + k \in r + 1..N
      /\ Rising(lines)
  BY <1>1, <1>2, RestIs DEF N
<1> HIDE DEF lines
<1>5. read.store \in Lines /\ Len(read.store) <= Cap /\ read.new \in Lines
  BY <1>1, <1>4, StoredTypes
<1> HIDE DEF read
<1>6. FeedTypes'
  <2>1. wire \o read.new \in Lines
    BY <1>1, <1>5, InARow
  <2>2. wire' \in Lines /\ (conn' = "closed" => wire' = <<>>)
    BY <1>1, <1>3, <2>1 DEF FeedTypes
  <2>3. missed' \in {"no", "emptied", "yes"}
    BY <1>1, <1>3
  <2> QED
    BY <1>1, <1>2, <1>3, <1>5, <2>2, <2>3 DEF FeedTypes
<1>7. Filed' /\ Copied'
  BY <1>1, <1>3 DEF Filed, Copied
<1>8. ASSUME missed' # "yes" PROVE Numbered' /\ StoreTold' /\ Primed'
  <2>1. Numbered /\ StoreTold /\ Primed
    BY <1>3, <1>8 DEF FeedInv
  <2>2. /\ missed' = "no" /\ (r # 0 => missed = "no" /\ r = cursor)
        /\ missed = "no" => r = cursor
    <3>1. missed = "no" => cursor <= N
      BY <2>1 DEF Primed, N
    <3>2. missed = "emptied" => N < cursor
      BY <1>3, <1>8
    <3> QED
      BY <1>1, <1>2, <1>3, <1>8, <3>1, <3>2
  <2>3. Unread = r + 1..N
    BY <1>1, <2>2, <1>2 DEF Unread, N
  <2>4. \A k \in 1..N - r : /\ lines[k].session \in Lanes /\ lines[k].seq \in Nat
                            /\ \A n \in Out(lines[k].session) : n < lines[k].seq
    <3> SUFFICES ASSUME NEW k \in 1..N - r
                 PROVE  /\ lines[k].session \in Lanes /\ lines[k].seq \in Nat
                        /\ \A n \in Out(lines[k].session) : n < lines[k].seq
      OBVIOUS
    <3>1. lines[k] = file[r + k] /\ r + k \in Unread
      BY <1>4, <2>3
    <3>2. lines[k].session \in Lanes /\ lines[k].seq \in Nat
      BY <1>4, LineIs
    <3> QED
      BY <2>1, <3>1, <3>2 DEF Numbered
  <2>5. /\ \A x \in ToSet(store) : x.session \in Lanes /\ x.seq \in Out(x.session)
        /\ \A x \in ToSet(wire) : x.session \in Lanes /\ x.seq \in Out(x.session)
    BY <1>1, LineIs, OutIs
  <2>6. /\ Rising(store \o lines)
        /\ \A ev \in ToSet(store \o lines) : ev \in ToSet(store) \/ \E k \in 1..N - r : ev = lines[k]
    <3>1. \A x \in ToSet(store), k \in 1..Len(lines) : x.session = lines[k].session => x.seq < lines[k].seq
      BY <1>4, <2>4, <2>5
    <3> QED
      BY <1>1, <1>4, <2>1, <3>1, RowRises DEF StoreTold
  <2>7. /\ Rising(wire \o lines)
        /\ \A ev \in ToSet(wire \o lines) : ev \in ToSet(wire) \/ \E k \in 1..N - r : ev = lines[k]
        /\ \A ev \in ToSet(wire) : ev \in ToSet(wire \o lines)
        /\ \A k \in 1..N - r : lines[k] \in ToSet(wire \o lines)
    <3>1. \A x \in ToSet(wire), k \in 1..Len(lines) : x.session = lines[k].session => x.seq < lines[k].seq
      BY <1>4, <2>4, <2>5
    <3> QED
      BY <1>1, <1>4, <2>1, <3>1, RowRises DEF StoreTold
  <2> DEFINE S == Len(store)
             w == store \o lines
  <2>8. read.new = lines /\ LastOnes(read.store, w, S + Len(lines))
    BY <1>1, <1>4, <2>6, StoredIs DEF read
  <2>9. /\ w \in Lines /\ Len(w) = S + (N - r) /\ S \in Nat
        /\ \A i \in 1..S : w[i] = store[i]
        /\ \A i \in 1..N - r : w[S + i] = lines[i]
    <3>1. /\ w \in Lines /\ Len(w) = S + Len(lines) /\ S \in Nat
          /\ \A i \in 1..S : w[i] = store[i]
          /\ \A i \in 1..Len(lines) : w[S + i] = lines[i]
      <4>1. S \in Nat
        BY <1>1, LineIs
      <4>2. store \in Lines /\ lines \in Lines
        BY <1>1, <1>4
      <4> HIDE DEF w
      <4> QED
        BY <4>1, <4>2, InARow DEF w
    <3> HIDE DEF w, S
    <3> QED
      BY <1>4, <3>1
  <2> HIDE DEF S
  <2>10. LastOnes(store', w, Len(w))
    BY <1>3, <1>4, <2>8, <2>9
  <2>11. Rising(store') /\ \A ev \in ToSet(store') : ev \in ToSet(store) \/ \E k \in 1..N - r : ev = lines[k]
    <3>1. Rising(w) /\ \A ev \in ToSet(w) : ev \in ToSet(store) \/ \E k \in 1..N - r : ev = lines[k]
      BY <2>6
    <3> HIDE DEF w
    <3> QED
      BY <2>9, <2>10, <3>1, LastOnesRise
  <2>12. wire' = IF conn = "open" THEN wire \o lines ELSE wire
    BY <1>3, <2>8
  <2>13. \A ev \in ToSet(wire') : ev \in ToSet(wire) \/ \E k \in 1..N - r : ev = lines[k]
    BY <2>7, <2>12
  <2>14. StoreTold'
    <3>1. Rising(wire')
      BY <2>1, <2>7, <2>12 DEF StoreTold
    <3>2. ASSUME NEW ev \in ToSet(store'), ev.seq <= mark[ev.session] PROVE Key(ev) \in got
      <4>1. CASE ev \in ToSet(store)
        BY <2>1, <3>2, <4>1 DEF StoreTold
      <4>2. ASSUME NEW k \in 1..N - r, ev = lines[k] PROVE FALSE
        <5>1. mark[ev.session] \in Out(ev.session) /\ ev.session \in Lanes /\ ev.seq \in Nat
          BY <1>1, <2>4, <4>2, OutIs
        <5>2. mark[ev.session] \in Int /\ mark[ev.session] < ev.seq
          BY <1>1, <2>4, <4>2, <5>1, OutIs
        <5> QED
          BY <3>2, <5>1, <5>2
      <4> QED
        BY <2>11, <4>1, <4>2
    <3>3. ASSUME conn = "open", NEW ev \in ToSet(store') PROVE Key(ev) \in got \/ ev \in ToSet(wire')
      <4>1. CASE ev \in ToSet(store)
        BY <2>1, <2>7, <2>12, <3>3, <4>1 DEF StoreTold
      <4>2. CASE \E k \in 1..N - r : ev = lines[k]
        BY <2>7, <2>12, <3>3, <4>2
      <4> QED
        BY <2>11, <3>3, <4>1, <4>2
    <3> QED
      BY <1>3, <2>11, <3>1, <3>2, <3>3 DEF StoreTold
  <2>15. Numbered'
    <3>1. Unread' = {}
      BY <1>2, <1>3, <2>2 DEF Unread, N
    <3>2. \A k \in 1..N - r : r + k \in 1..N
      BY <1>2
    <3>3. ASSUME NEW s \in Lanes, NEW n \in Out(s)'
          PROVE  n \in Out(s) \/ \E i \in 1..N : file[i].session = s /\ n = file[i].seq
      <4>1. CASE n = mark[s]
        BY <4>1 DEF Out
      <4>2. CASE \E ev \in ToSet(store') \cup ToSet(wire') : ev.session = s /\ n = ev.seq
        <5>1. PICK ev \in ToSet(store') \cup ToSet(wire') : ev.session = s /\ n = ev.seq
          BY <4>2
        <5>2. CASE ev \in ToSet(store) \cup ToSet(wire)
          BY <2>5, <5>1, <5>2
        <5>3. ASSUME NEW k \in 1..N - r, ev = lines[k] PROVE \E i \in 1..N : file[i].session = s /\ n = file[i].seq
          <6>1. ev = file[r + k] /\ r + k \in 1..N
            BY <1>4, <3>2, <5>3
          <6> QED
            BY <5>1, <6>1
        <5> QED
          BY <2>11, <2>13, <5>2, <5>3
      <4> QED
        BY <1>3, <3>3, <4>1, <4>2 DEF Out
    <3>4. ASSUME NEW s \in Lanes, proc[s] = "alive", NEW n \in Out(s)' PROVE n < next[s]
      <4>1. CASE n \in Out(s)
        BY <2>1, <3>4, <4>1 DEF Numbered
      <4>2. CASE \E i \in 1..N : file[i].session = s /\ n = file[i].seq
        BY <1>1, <3>4, <4>2 DEF Filed, N
      <4> QED
        BY <3>3, <3>4, <4>1, <4>2
    <3>5. ASSUME NEW s \in Lanes, NEW i \in 1..N, file[i].session = s, file[i].seq = 0, NEW n \in Out(s)'
          PROVE  \E j \in 1..N : file[j].session = s /\ n <= file[j].seq
      <4>1. CASE n \in Out(s)
        BY <2>1, <3>5, <4>1 DEF Numbered, N
      <4>2. ASSUME NEW j \in 1..N, file[j].session = s, n = file[j].seq
            PROVE  \E k \in 1..N : file[k].session = s /\ n <= file[k].seq
        <5>1. n \in Nat
          BY <1>1, <4>2, LineIs DEF N
        <5> QED
          BY <4>2, <5>1
      <4> QED
        BY <3>3, <3>5, <4>1, <4>2
    <3> QED
      BY <1>3, <3>1, <3>4, <3>5 DEF Numbered, N
  <2>16. Primed'
    <3> DEFINE L == Len(store')
               M == S + (N - r)
    <3>1. L = (IF M <= Cap THEN M ELSE Cap) /\ \A d \in 0..L - 1 : store'[L - d] = w[M - d]
      <4>1. Len(w) = M
        BY <2>9
      <4>2. L = (IF Len(w) <= Cap THEN Len(w) ELSE Cap) /\ \A d \in 0..L - 1 : store'[L - d] = w[Len(w) - d]
        BY <2>10 DEF LastOnes
      <4> HIDE DEF L, w, M
      <4> QED
        BY <4>1, <4>2
    <3>2. Cap \in Nat /\ PrimeTail \in Nat /\ Back \in Nat /\ Back <= Cap
      BY EventFeedAssumption DEF Back
    <3>0. M = S + (N - r) /\ M \in Nat /\ S \in Nat /\ N \in Nat /\ r \in 0..N
      BY <1>2, <2>9
    <3> HIDE DEF L, w, M
    <3>3. ASSUME NEW d \in 0..Back - 1, d < N PROVE d < L /\ store'[L - d] = file[N - d]
      <4>1. CASE d < N - r
        <5>1. d \in 0..L - 1 /\ N - r - d \in 1..N - r /\ M - d = S + (N - r - d) /\ r + (N - r - d) = N - d /\ d < L
          BY <3>0, <3>1, <3>2, <4>1
        <5>2. store'[L - d] = w[S + (N - r - d)] /\ w[S + (N - r - d)] = lines[N - r - d] /\ lines[N - r - d] = file[N - d]
          <6>1. store'[L - d] = w[M - d]
            BY <3>1, <5>1
          <6>2. w[S + (N - r - d)] = lines[N - r - d]
            BY <2>9, <5>1
          <6>3. lines[N - r - d] = file[r + (N - r - d)]
            BY <1>4, <5>1
          <6> QED
            BY <5>1, <6>1, <6>2, <6>3
        <5> QED
          BY <5>1, <5>2
      <4>2. CASE ~(d < N - r)
        <5> DEFINE c == d - (N - r)
        <5>1. r # 0 /\ c \in 0..Back - 1 /\ c < r /\ r - c = N - d
          BY <1>2, <3>2, <3>3, <4>2
        <5>2. missed = "no" /\ r = cursor
          BY <2>2, <5>1
        <5>3. c < S /\ store[S - c] = file[r - c]
          BY <2>1, <5>1, <5>2 DEF Primed, S
        <5>4. d \in 0..L - 1 /\ S - c \in 1..S /\ M - d = S - c /\ d < L
          <6>1. c \in Nat /\ c < S
            BY <3>2, <5>1, <5>3
          <6> QED
            BY <3>0, <3>1, <3>2, <3>3, <4>2, <6>1
        <5> HIDE DEF c
        <5>5. store'[L - d] = w[M - d]
          BY <3>1, <5>4
        <5>6. w[S - c] = store[S - c]
          BY <2>9, <5>4
        <5> QED
          BY <5>1, <5>3, <5>4, <5>5, <5>6
      <4> QED
        BY <4>1, <4>2
    <3>4. cursor' = N /\ file' = file /\ Back' = Back /\ N <= N
      BY <1>2, <1>3 DEF Back
    <3> QED
      BY <3>3, <3>4 DEF Primed, N, L
  <2> QED
    BY <2>14, <2>15, <2>16
<1> QED
  BY <1>6, <1>7, <1>8 DEF FeedInv

\* A server that starts has in its store what the one before had, or what is yet to be told.
LEMMA RestartKeeps ==
  ASSUME FeedInv, Restart
  PROVE  FeedInv'
<1> USE DEF agents, sink, copy
<1> DEFINE N == Len(file)
           r == IF N > PrimeTail THEN N - PrimeTail ELSE 0
           lines == Rest(r)
           read == Stored(<<>>, lines)
<1>1. FeedTypes /\ Filed /\ Copied /\ file \in Lines /\ store \in Lines
      /\ cursor \in Nat /\ missed \in {"no", "emptied", "yes"} /\ Rising(file)
  BY DEF FeedInv, FeedTypes, Filed
<1>2. Cap \in Nat /\ PrimeTail \in Nat /\ Back = IF Cap <= PrimeTail THEN Cap ELSE PrimeTail
  BY EventFeedAssumption DEF Back
<1>3. N \in Nat
  BY <1>1, LineIs
<1>4. /\ store' = read.store /\ wire' = <<>> /\ conn' = "closed" /\ poll' = None /\ cursor' = N
      /\ missed' = (IF missed = "emptied" /\ N >= cursor THEN "yes" ELSE IF missed = "emptied" THEN "no" ELSE missed)
      /\ restarts < MaxRestarts /\ restarts' = restarts + 1
      /\ UNCHANGED <<proc, next, file, rotations, mark, got, cache, hw, seeded>>
  BY DEF Restart, Rest
<1> HIDE DEF N
<1>5. r \in 0..N /\ N - r = IF N > PrimeTail THEN PrimeTail ELSE N
  BY <1>2, <1>3
<1> HIDE DEF r
<1>6. /\ lines \in Lines /\ Len(lines) = N - r
      /\ \A k \in 1..N - r : lines[k] = file[r + k] /\ r + k \in r + 1..N
      /\ Rising(lines)
  BY <1>1, <1>5, RestIs DEF N
<1> HIDE DEF lines
<1>7. <<>> \in Lines /\ Len(<<>>) = 0 /\ Len(<<>>) <= Cap /\ Rising(<<>>) /\ ToSet(<<>>) = {} /\ <<>> \o lines = lines
  <2>1. lines \in Seq(Event)
    BY <1>6 DEF Lines
  <2> QED
    BY <1>2, <2>1, ConcatEmptySeq DEF Lines, Rising, ToSet
<1>8. read.store \in Lines /\ Len(read.store) <= Cap
  BY <1>6, <1>7, StoredTypes
<1>9. LastOnes(read.store, lines, Len(lines))
  <2>1. 0 + Len(lines) = Len(lines)
    BY <1>6, LineIs
  <2>2. LastOnes(Stored(<<>>, lines).store, <<>> \o lines, Len(<<>>) + Len(lines))
    <3>1. Rising(<<>> \o lines)
      BY <1>6, <1>7
    <3> QED
      BY <1>6, <1>7, <3>1, StoredIs
  <2> QED
    BY <1>7, <2>1, <2>2
<1> HIDE DEF read
<1>10. FeedTypes'
  <2>1. restarts' \in 0..MaxRestarts /\ missed' \in {"no", "emptied", "yes"}
    BY <1>1, <1>4, EventFeedAssumption DEF FeedTypes
  <2> QED
    BY <1>1, <1>3, <1>4, <1>7, <1>8, <2>1 DEF FeedTypes
<1>11. Filed' /\ Copied'
  BY <1>1, <1>4 DEF Filed, Copied
<1>12. ASSUME missed' # "yes" PROVE Numbered' /\ StoreTold' /\ Primed'
  <2>1. Numbered /\ StoreTold /\ Primed /\ missed' = "no"
    BY <1>1, <1>4, <1>12 DEF FeedInv
  <2> DEFINE L == Len(store')
  <2>2. Rising(store') /\ \A ev \in ToSet(store') : \E d \in 0..L - 1 : ev = store'[L - d]
    BY <1>4, <1>6, <1>9, LastOnesRise
  <2>3. L = (IF N - r <= Cap THEN N - r ELSE Cap) /\ \A d \in 0..L - 1 : store'[L - d] = lines[N - r - d]
    BY <1>4, <1>6, <1>9 DEF LastOnes
  <2> HIDE DEF L
  <2>4. ASSUME NEW d \in 0..L - 1 PROVE store'[L - d] = file[N - d] /\ N - d \in 1..N /\ d \in 0..Back - 1
    <3>1. N - r - d \in 1..N - r /\ r + (N - r - d) = N - d /\ N - d \in 1..N /\ d \in 0..Back - 1
      BY <1>2, <1>3, <1>5, <2>3
    <3>2. lines[N - r - d] = file[r + (N - r - d)]
      BY <1>6, <3>1
    <3> QED
      BY <2>3, <3>1, <3>2
  <2>5. ASSUME NEW ev \in ToSet(store') PROVE \E d \in 0..Back - 1 : N - d \in 1..N /\ ev = file[N - d]
    BY <2>2, <2>4
  <2>6. StoreTold'
    <3>1. ASSUME NEW ev \in ToSet(store'), ev.seq <= mark[ev.session] PROVE Key(ev) \in got
      <4>1. PICK d \in 0..Back - 1 : N - d \in 1..N /\ ev = file[N - d]
        BY <2>5, <3>1
      <4>2. ev.session \in Lanes /\ ev.seq \in Nat
        BY <1>1, <4>1, LineIs DEF N
      <4>3. mark[ev.session] \in Out(ev.session) /\ mark[ev.session] \in Int
        BY <1>1, <4>2, OutIs
      <4>4. N - d \notin Unread
        BY <2>1, <3>1, <4>1, <4>2, <4>3 DEF Numbered
      <4> DEFINE c == cursor - (N - d)
      <4>5. missed = "no" /\ c \in 0..Back - 1 /\ c < cursor /\ cursor - c = N - d
        <5>1. missed = "no" /\ ~(N - d \in cursor + 1..N)
          BY <4>1, <4>4 DEF Unread, N
        <5>2. cursor <= N
          BY <2>1, <5>1 DEF Primed, N
        <5>3. Back \in Nat
          BY <1>2
        <5> QED
          BY <1>1, <1>3, <4>1, <5>1, <5>2, <5>3
      <4>6. c < Len(store) /\ store[Len(store) - c] = file[cursor - c]
        BY <2>1, <4>5 DEF Primed
      <4>7. c \in Nat
        BY <1>2, <4>5
      <4> HIDE DEF c
      <4>8. Len(store) - c \in 1..Len(store)
        BY <1>1, <4>6, <4>7, LineIs
      <4>9. ev \in ToSet(store)
        BY <1>1, <4>1, <4>5, <4>6, <4>8, LineIs
      <4> QED
        BY <2>1, <3>1, <4>9 DEF StoreTold
    <3> QED
      BY <1>4, <1>7, <2>2, <3>1 DEF StoreTold
  <2>7. Numbered'
    <3>1. Unread' = {}
      BY <1>3, <1>4, <2>1 DEF Unread, N
    <3>2. ASSUME NEW s \in Lanes, NEW n \in Out(s)'
          PROVE  n \in Out(s) \/ \E i \in 1..N : file[i].session = s /\ n = file[i].seq
      <4>1. CASE n = mark[s]
        BY <4>1 DEF Out
      <4>2. CASE \E ev \in ToSet(store') : ev.session = s /\ n = ev.seq
        BY <2>5, <4>2
      <4> QED
        BY <1>4, <1>7, <3>2, <4>1, <4>2 DEF Out
    <3>4. ASSUME NEW s \in Lanes, proc[s] = "alive", NEW n \in Out(s)' PROVE n < next[s]
      <4>1. CASE n \in Out(s)
        BY <2>1, <3>4, <4>1 DEF Numbered
      <4>2. CASE \E i \in 1..N : file[i].session = s /\ n = file[i].seq
        BY <1>1, <3>4, <4>2 DEF Filed, N
      <4> QED
        BY <3>2, <3>4, <4>1, <4>2
    <3>5. ASSUME NEW s \in Lanes, NEW i \in 1..N, file[i].session = s, file[i].seq = 0, NEW n \in Out(s)'
          PROVE  \E j \in 1..N : file[j].session = s /\ n <= file[j].seq
      <4>1. CASE n \in Out(s)
        BY <2>1, <3>5, <4>1 DEF Numbered, N
      <4>2. ASSUME NEW j \in 1..N, file[j].session = s, n = file[j].seq
            PROVE  \E k \in 1..N : file[k].session = s /\ n <= file[k].seq
        <5>1. n \in Nat
          BY <1>1, <4>2, LineIs DEF N
        <5> QED
          BY <4>2, <5>1
      <4> QED
        BY <3>2, <3>5, <4>1, <4>2
    <3> QED
      BY <1>4, <3>1, <3>4, <3>5 DEF Numbered, N
  <2>8. Primed'
    <3>1. ASSUME NEW d \in 0..Back - 1, d < N PROVE d < L /\ store'[L - d] = file[N - d]
      <4>1. d \in 0..L - 1 /\ d < L
        BY <1>2, <1>3, <1>5, <2>3, <3>1
      <4> QED
        BY <2>4, <4>1
    <3>2. cursor' = N /\ file' = file /\ Back' = Back /\ N <= N
      BY <1>3, <1>4 DEF Back
    <3> QED
      BY <3>1, <3>2 DEF Primed, N, L
  <2> QED
    BY <2>6, <2>7, <2>8
<1> QED
  BY <1>10, <1>11, <1>12 DEF FeedInv

-----------------------------------------------------------------------------
\* Every step keeps the invariant, for sessions that each have a channel.
LEMMA FeedInvStep ==
  ASSUME Steerable = Lanes, FeedInv, [FeedNext]_feedVars
  PROVE  FeedInv'
<1>1. ASSUME NEW s \in Lanes, Emit(s) PROVE FeedInv'
  BY <1>1, OwnLineKeeps DEF Emit
<1>2. ASSUME NEW s \in Lanes, EndSession(s) PROVE FeedInv'
  BY <1>2, OwnLineKeeps DEF EndSession
<1>3. ASSUME NEW s \in Lanes, KillAgent(s) \/ Reap(s) PROVE FeedInv'
  BY <1>3, KillKeeps, ReapKeeps
<1>4. CASE UNCHANGED feedVars
  BY <1>4 DEF feedVars, agents, sink, server, stream, copy, FeedInv, FeedTypes, Filed, Copied, Numbered, Unread,
              Out, StoreTold, Primed, Back
<1> QED
  BY <1>1, <1>2, <1>3, <1>4, RotateKeeps, ReadDeltaKeeps, RestartKeeps, ConnectKeeps, DeliverKeeps, PollKeeps
     DEF FeedNext

\* OfLane sessions that each published a channel: a page that is connected has been given all that
\* the store holds, and its copy of a run is in order, through lost connections, restarts of the
\* server, rotations of the file, and polls that overtake the stream.
THEOREM FeedIsRead ==
  ASSUME Steerable = Lanes
  PROVE  FeedSpec => []FeedHolds
<1>1. FeedInit => FeedInv
  BY FeedInvInit
<1>2. FeedInv /\ [FeedNext]_feedVars => FeedInv'
  BY FeedInvStep
<1>3. FeedInv => FeedHolds
  <2> SUFFICES ASSUME FeedInv PROVE FeedHolds
    OBVIOUS
  <2>1. FeedTypeOK
    <3>1. FeedTypes /\ Copied
      BY DEF FeedInv
    <3>2. poll = None \/ \E l \in {poll[1]} : poll = <<l>>
      BY <3>1 DEF Copied
    <3>3. poll = None \/ \E lines \in {SubSeq(file, 1, k) : k \in 0..Len(file)} \cup {poll[1]} : poll = <<lines>>
      BY <3>2
    <3> QED
      BY <3>1, <3>3 DEF FeedTypes, Copied, FeedTypeOK
  <2>2. StreamCatchesUp
    <3>1. ToSet(<<>>) = {}
      BY DEF ToSet
    <3> QED
      BY <3>1 DEF FeedInv, StoreTold, StreamCatchesUp, PassedOver
  <2>3. CopyInOrder
    BY DEF FeedInv, Copied, Rising, CopyInOrder
  <2> QED
    BY <2>1, <2>2, <2>3 DEF FeedHolds
<1> QED
  BY <1>1, <1>2, <1>3, PTL DEF FeedSpec

-----------------------------------------------------------------------------
\* The index of the runs.

\* What is scanned of a file.

Halves == {Half(h, ev) : h \in {1, 2}, ev \in ObsEvent}
Bytes == Halves \cup {Newline}
RunRec == [events : Nat, last : Nat, verdict : Nat, start : Nat, end : Nat]
Scanners == [base : Nat, left : Seq(Halves), runs : UNION {[D -> RunRec] : D \in SUBSET Runs}]
Scans == [left : Seq(Halves), found : Seq(ObsEvent)]

\* Halves say of what event they are.
LEMMA HalfIs ==
  ASSUME NEW b \in Halves
  PROVE  b.half \in {1, 2} /\ b.of \in ObsEvent /\ b # Newline /\ b = Half(b.half, b.of)
BY DEF Halves, Half, Newline

\* A line that is an event is the two halves of it.
LEMMA EventIs ==
  ASSUME NEW line \in Seq(Halves), IsEvent(line)
  PROVE  Len(line) = 2 /\ line[1] \in Halves /\ line[2] \in Halves /\ line[1].of \in ObsEvent
<1>1. Len(line) = 2 /\ line[1] \in Halves /\ line[2] \in Halves
  BY DEF IsEvent
<1> QED
  BY <1>1, HalfIs

\* One more byte.
LEMMA ByteIs ==
  ASSUME NEW sc \in Scanners, NEW b \in Bytes
  PROVE  Byte(sc, b) \in Scanners /\ Offset(Byte(sc, b)) = Offset(sc) + 1 /\ Offset(sc) \in Nat
<1>1. sc.base \in Nat /\ sc.left \in Seq(Halves) /\ Len(sc.left) \in Nat /\ Offset(sc) \in Nat
  BY DEF Scanners, Offset
<1>2. CASE b # Newline
  <2>1. b \in Halves
    BY <1>2 DEF Bytes
  <2> DEFINE left == Append(sc.left, b)
  <2>2. left \in Seq(Halves) /\ Len(left) = Len(sc.left) + 1
    BY <1>1, <2>1, AppendProperties
  <2> HIDE DEF left
  <2>3. Byte(sc, b) = [sc EXCEPT !.left = left]
    BY <1>2 DEF Byte, left
  <2>4. Byte(sc, b).base = sc.base /\ Byte(sc, b).left = left /\ Byte(sc, b) \in Scanners
    BY <2>2, <2>3 DEF Scanners
  <2> QED
    BY <1>1, <2>2, <2>4 DEF Offset
<1>3. CASE b = Newline
  <2> DEFINE end == Offset(sc) + 1
             runs == OnLine(sc.runs, sc.left, sc.base, end)
  <2>1. end \in Nat
    BY <1>1
  <2> HIDE DEF end
  <2>2. runs \in UNION {[D -> RunRec] : D \in SUBSET Runs}
    <3>1. sc.runs \in UNION {[D -> RunRec] : D \in SUBSET Runs}
      BY DEF Scanners
    <3>2. CASE ~IsEvent(sc.left)
      BY <3>1, <3>2 DEF OnLine
    <3>3. CASE IsEvent(sc.left)
      <4> DEFINE ev == sc.left[1].of
                 old == IF ev.run \in DOMAIN sc.runs THEN sc.runs[ev.run] ELSE NewRun(ev, sc.base)
                 new == [old EXCEPT !.events = @ + 1, !.end = end,
                              !.verdict = IF RunVerdict(ev) THEN ev.ts ELSE @,
                              !.last = IF ev.kind = "event" THEN ev.ts ELSE @]
      <4>1. ev \in ObsEvent
        BY <1>1, <3>3, EventIs
      <4> HIDE DEF ev
      <4>2. ev.run \in Runs /\ ev.ts \in Nat
        BY <4>1 DEF ObsEvent
      <4>3. NewRun(ev, sc.base) \in RunRec
        BY <1>1, <4>2 DEF NewRun, RunRec
      <4>4. PICK D \in SUBSET Runs : sc.runs \in [D -> RunRec]
        BY <3>1
      <4>5. old \in RunRec
        BY <4>3, <4>4
      <4> HIDE DEF old
      <4>6. new \in RunRec
        <5> DEFINE vd == IF RunVerdict(ev) THEN ev.ts ELSE old.verdict
                   la == IF ev.kind = "event" THEN ev.ts ELSE old.last
        <5>1. vd \in Nat /\ la \in Nat /\ old.events + 1 \in Nat
          BY <4>2, <4>5 DEF RunRec
        <5>2. new = [old EXCEPT !.events = old.events + 1, !.end = end, !.verdict = vd, !.last = la]
          BY <4>5 DEF RunRec
        <5> HIDE DEF vd, la, new
        <5> QED
          BY <2>1, <4>5, <5>1, <5>2 DEF RunRec
      <4> HIDE DEF new
      <4>7. runs = [q \in D \cup {ev.run} |-> IF q = ev.run THEN new ELSE sc.runs[q]]
        BY <3>3, <4>4 DEF OnLine, ev, old, new
      <4>8. runs \in [D \cup {ev.run} -> RunRec]
        BY <4>4, <4>6, <4>7
      <4> QED
        BY <4>2, <4>4, <4>8
    <3> QED
      BY <3>2, <3>3
  <2> HIDE DEF runs
  <2>3. Byte(sc, b) = [base |-> end, left |-> <<>>, runs |-> runs]
    BY <1>3 DEF Byte, end, runs
  <2>4. Byte(sc, b).base = end /\ Len(Byte(sc, b).left) = 0 /\ Byte(sc, b) \in Scanners
    BY <2>1, <2>2, <2>3 DEF Scanners
  <2> QED
    BY <1>1, <2>4 DEF Offset, end
<1> QED
  BY <1>2, <1>3

\* The bytes of a chunk, one by one.
LEMMA PushedIs ==
  ASSUME NEW sc \in Scanners, NEW chunk \in Seq(Bytes)
  PROVE  LET after == Pushed(sc, chunk) IN
         \A n \in 0..Len(chunk) :
           after[n] \in Scanners /\ after[n] = IF n = 0 THEN sc ELSE Byte(after[n - 1], chunk[n])
<1> DEFINE N == Len(chunk)
           F == [m \in (1..N) \X Scanners |-> Byte(m[2], chunk[m[1]])]
           v == Pushed(sc, chunk)
<1>1. N \in Nat /\ \A n \in 1..N : chunk[n] \in Bytes
  OBVIOUS
<1> HIDE DEF N
<1>2. F \in [(1..N) \X Scanners -> Scanners]
  <2> SUFFICES ASSUME NEW m \in (1..N) \X Scanners PROVE Byte(m[2], chunk[m[1]]) \in Scanners
    OBVIOUS
  <2>1. m[1] \in 1..N /\ m[2] \in Scanners
    OBVIOUS
  <2> QED
    BY <1>1, <2>1, ByteIs
<1>3. \A n \in 1..N, x \in Scanners : F[<<n, x>>] = Byte(x, chunk[n])
  OBVIOUS
<1> HIDE DEF F
<1>4. PICK u \in [0..N -> Scanners] : Iterated(u, sc, N, F)
  <2> HIDE DEF Scanners
  <2> QED
    BY <1>1, <1>2, Iterates
<1>5. u = [n \in 0..N |-> IF n = 0 THEN sc ELSE Byte(u[n - 1], chunk[n])]
  <2>1. ASSUME NEW n \in 0..N PROVE u[n] = IF n = 0 THEN sc ELSE Byte(u[n - 1], chunk[n])
    <3>1. CASE n = 0
      BY <1>4, <3>1 DEF Iterated
    <3>2. CASE n # 0
      <4>1. n \in 1..N /\ n - 1 \in 0..N
        BY <1>1, <3>2
      <4> QED
        BY <1>3, <1>4, <3>2, <4>1 DEF Iterated
    <3> QED
      BY <3>1, <3>2
  <2> QED
    BY <1>4, <2>1
<1>6. v = [n \in 0..N |-> IF n = 0 THEN sc ELSE Byte(v[n - 1], chunk[n])]
  BY <1>5 DEF Pushed, N
<1> HIDE DEF v
<1>7. \A n \in 0..N : v[n] = IF n = 0 THEN sc ELSE Byte(v[n - 1], chunk[n])
  BY <1>6
<1> DEFINE Good == {n \in 0..N : v[n] \in Scanners}
<1>8. 0..N \subseteq Good
  <2>1. 0 \in Good
    BY <1>1, <1>7
  <2>2. ASSUME NEW n \in 1..N, n - 1 \in Good PROVE n \in Good
    <3>1. n \in 0..N /\ n # 0 /\ chunk[n] \in Bytes
      BY <1>1
    <3>2. v[n] = Byte(v[n - 1], chunk[n]) /\ v[n - 1] \in Scanners
      BY <1>7, <2>2, <3>1
    <3> QED
      BY <3>1, <3>2, ByteIs
  <2> HIDE DEF Good
  <2> QED
    BY <1>1, <2>1, <2>2, UpTo
<1>9. \A n \in 0..N : v[n] \in Scanners /\ v[n] = IF n = 0 THEN sc ELSE Byte(v[n - 1], chunk[n])
  BY <1>7, <1>8
<1> QED
  BY <1>9 DEF v, N
-----------------------------------------------------------------------------
\* The index of a file that is read in parts.

\* What is made of the first n bytes of a file.
ReadTo(text, n) == Pushed(NoIndex, text)[n]

\* An index that has read nothing is a scanner.
LEMMA NothingRead == NoIndex \in Scanners /\ Offset(NoIndex) = 0
<1>1. <<>> \in [{} -> RunRec] /\ <<>> \in Seq(Halves) /\ Len(<<>>) = 0
  OBVIOUS
<1>2. <<>> \in UNION {[D -> RunRec] : D \in SUBSET Runs}
  BY <1>1
<1> QED
  BY <1>1, <1>2 DEF NoIndex, Scanners, Offset

\* It has read as many bytes as it was given.
LEMMA AtIs ==
  ASSUME NEW text \in Seq(Bytes)
  PROVE  /\ \A n \in 0..Len(text) : ReadTo(text, n) \in Scanners /\ Offset(ReadTo(text, n)) = n
         /\ ReadTo(text, 0) = NoIndex
         /\ \A n \in 1..Len(text) : ReadTo(text, n) = Byte(ReadTo(text, n - 1), text[n])
<1> DEFINE N == Len(text)
<1>1. N \in Nat /\ \A n \in 1..N : text[n] \in Bytes /\ n \in 0..N /\ n - 1 \in 0..N /\ n # 0
  OBVIOUS
<1>2. \A n \in 0..N : ReadTo(text, n) \in Scanners /\ ReadTo(text, n) = IF n = 0 THEN NoIndex ELSE Byte(ReadTo(text, n - 1), text[n])
  BY NothingRead, PushedIs DEF ReadTo
<1> HIDE DEF N
<1>3. ReadTo(text, 0) = NoIndex
  BY <1>1, <1>2
<1>4. \A n \in 1..N : ReadTo(text, n) = Byte(ReadTo(text, n - 1), text[n])
  BY <1>1, <1>2
<1> DEFINE Good == {n \in 0..N : Offset(ReadTo(text, n)) = n}
<1>5. 0..N \subseteq Good
  <2>1. 0 \in Good
    BY <1>1, <1>3, NothingRead
  <2>2. ASSUME NEW n \in 1..N, n - 1 \in Good PROVE n \in Good
    <3>1. Offset(Byte(ReadTo(text, n - 1), text[n])) = Offset(ReadTo(text, n - 1)) + 1
      BY <1>1, <1>2, ByteIs
    <3>2. Offset(ReadTo(text, n - 1)) = n - 1
      BY <2>2
    <3> QED
      BY <1>1, <1>4, <3>1, <3>2
  <2> HIDE DEF Good
  <2> QED
    BY <1>1, <2>1, <2>2, UpTo
<1>6. \A n \in 0..N : Offset(ReadTo(text, n)) = n
  BY <1>5
<1> QED
  BY <1>2, <1>3, <1>4, <1>6 DEF N

\* A chunk takes it on from where it was.
LEMMA ChunkIs ==
  ASSUME NEW text \in Seq(Bytes), NEW from \in 0..Len(text), NEW to \in from..Len(text)
  PROVE  Push(ReadTo(text, from), SubSeq(text, from + 1, to)) = ReadTo(text, to)
<1> DEFINE chunk == SubSeq(text, from + 1, to)
           N == to - from
           v == Pushed(ReadTo(text, from), chunk)
           Good == {n \in 0..N : v[n] = ReadTo(text, from + n)}
<1>1. Len(text) \in Nat /\ N \in Nat /\ from \in Nat /\ to \in Nat
  OBVIOUS
<1>2. chunk \in Seq(Bytes) /\ Len(chunk) = N /\ \A n \in 1..N : chunk[n] = text[from + n]
  <2>1. from + 1 \in Int /\ to \in Int /\ \A i \in from + 1..to : text[i] \in Bytes
    BY <1>1
  <2> DEFINE m == from + 1
  <2> HIDE DEF m
  <2>2. m \in Int /\ to \in Int /\ \A i \in m..to : text[i] \in Bytes
    BY <2>1 DEF m
  <2>3. /\ SubSeq(text, m, to) \in Seq(Bytes)
        /\ Len(SubSeq(text, m, to)) = IF m <= to THEN to - m + 1 ELSE 0
        /\ \A k \in 1..to - m + 1 : SubSeq(text, m, to)[k] = text[m + k - 1]
    BY <2>2, SubSeqProperties
  <2>4. (IF m <= to THEN to - m + 1 ELSE 0) = N /\ to - m + 1 = N /\ \A k \in 1..N : m + k - 1 = from + k
    BY <1>1 DEF m
  <2> QED
    BY <2>3, <2>4 DEF m
<1>3. ReadTo(text, from) \in Scanners
  BY AtIs
<1>4. \A n \in 0..N : v[n] = IF n = 0 THEN ReadTo(text, from) ELSE Byte(v[n - 1], chunk[n])
  BY <1>2, <1>3, PushedIs
<1> HIDE DEF v, chunk
<1> HIDE DEF N
<1>5. 0..N \subseteq Good
  <2>1. 0 \in Good
    BY <1>1, <1>4
  <2>2. ASSUME NEW n \in 1..N, n - 1 \in Good PROVE n \in Good
    <3>1. n \in 0..N /\ n # 0 /\ from + n \in 1..Len(text) /\ from + (n - 1) = from + n - 1
      BY <1>1 DEF N
    <3>2. v[n] = Byte(v[n - 1], text[from + n]) /\ v[n - 1] = ReadTo(text, from + n - 1)
      BY <1>2, <1>4, <2>2, <3>1
    <3> QED
      BY <3>1, <3>2, AtIs
  <2> HIDE DEF Good
  <2> QED
    BY <1>1, <2>1, <2>2, UpTo
<1>6. N \in 0..N /\ from + N = to
  BY <1>1 DEF N
<1>7. v[N] = ReadTo(text, to)
  BY <1>5, <1>6
<1>8. Push(ReadTo(text, from), chunk) = v[N]
  BY <1>2 DEF Push, v
<1> QED
  BY <1>7, <1>8 DEF chunk

\* So a file is read to its end.
LEMMA FeedIs ==
  ASSUME NEW text \in Seq(Bytes), NEW from \in 0..Len(text)
  PROVE  Feed(ReadTo(text, from), text) = ReadTo(text, Len(text))
<1> DEFINE N == Len(text)
           Ats == {ReadTo(text, n) : n \in 0..N}
           F == [m \in (1..N) \X Ats |-> FeedOne(m[2], text)]
           sc == ReadTo(text, from)
           v == Fed(sc, text)
           One(p) == IF p + Chunk <= N THEN p + Chunk ELSE N
<1>1. N \in Nat /\ from \in 0..N /\ Chunk \in Nat /\ Chunk # 0
  BY RunIndexAssumption
<1>2. \A n \in 0..N : Offset(ReadTo(text, n)) = n
  BY AtIs
<1>3. ASSUME NEW p \in 0..N PROVE One(p) \in 0..N /\ One(p) >= p /\ (p < N => One(p) >= p + 1) /\ FeedOne(ReadTo(text, p), text) = ReadTo(text, One(p))
  <2>1. One(p) \in 0..N /\ One(p) >= p /\ (p < N => One(p) >= p + 1) /\ One(p) \in p..N
    BY <1>1
  <2>2. CASE p >= N
    <3>1. p = N /\ One(p) = N
      BY <1>1, <2>2
    <3>2. FeedOne(ReadTo(text, p), text) = ReadTo(text, p)
      BY <1>2, <2>2 DEF FeedOne
    <3> QED
      BY <2>1, <3>1, <3>2
  <2>3. CASE ~(p >= N)
    <3>1. Min({p + Chunk, N}) = One(p)
      <4>1. \A x \in {p + Chunk, N} : One(p) <= x
        BY <1>1
      <4>2. One(p) \in {p + Chunk, N}
        OBVIOUS
      <4>3. \A x \in {p + Chunk, N} : x \in Int
        BY <1>1
      <4> HIDE DEF One
      <4> QED
        BY <2>1, <4>1, <4>2, <4>3 DEF Min
    <3>2. FeedOne(ReadTo(text, p), text) = Push(ReadTo(text, p), SubSeq(text, p + 1, One(p)))
      BY <1>2, <2>3, <3>1 DEF FeedOne
    <3> HIDE DEF One
    <3>3. Push(ReadTo(text, p), SubSeq(text, p + 1, One(p))) = ReadTo(text, One(p))
      BY <2>1, ChunkIs
    <3> QED
      BY <2>1, <3>2, <3>3
  <2> QED
    BY <2>2, <2>3
<1> HIDE DEF N, One
<1>4. F \in [(1..N) \X Ats -> Ats]
  <2> SUFFICES ASSUME NEW m \in (1..N) \X Ats PROVE FeedOne(m[2], text) \in Ats
    OBVIOUS
  <2>1. PICK p \in 0..N : m[2] = ReadTo(text, p)
    OBVIOUS
  <2> QED
    BY <1>3, <2>1
<1>5. \A n \in 1..N, x \in Ats : F[<<n, x>>] = FeedOne(x, text)
  OBVIOUS
<1>6. sc \in Ats
  BY <1>1
<1> HIDE DEF F, sc, Ats
<1>7. PICK u \in [0..N -> Ats] : Iterated(u, sc, N, F)
  BY <1>1, <1>4, <1>6, Iterates
<1>8. u = [n \in 0..N |-> IF n = 0 THEN sc ELSE FeedOne(u[n - 1], text)]
  <2>1. ASSUME NEW n \in 0..N PROVE u[n] = IF n = 0 THEN sc ELSE FeedOne(u[n - 1], text)
    <3>1. CASE n = 0
      BY <1>7, <3>1 DEF Iterated
    <3>2. CASE n # 0
      <4>1. n \in 1..N /\ n - 1 \in 0..N
        BY <1>1, <3>2
      <4> QED
        BY <1>5, <1>7, <3>2, <4>1 DEF Iterated
    <3> QED
      BY <3>1, <3>2
  <2> QED
    BY <1>7, <2>1
<1>9. v = [n \in 0..N |-> IF n = 0 THEN sc ELSE FeedOne(v[n - 1], text)]
  BY <1>8 DEF Fed, N
<1> HIDE DEF v
<1>10. \A n \in 0..N : v[n] = IF n = 0 THEN sc ELSE FeedOne(v[n - 1], text)
  BY <1>9
<1> DEFINE Good == {n \in 0..N : \E p \in 0..N : v[n] = ReadTo(text, p) /\ (p >= n \/ p = N)}
<1>11. 0..N \subseteq Good
  <2>1. 0 \in Good
    BY <1>1, <1>10 DEF sc
  <2>2. ASSUME NEW n \in 1..N, n - 1 \in Good PROVE n \in Good
    <3>1. n \in 0..N /\ n # 0
      BY <1>1
    <3>2. PICK p \in 0..N : v[n - 1] = ReadTo(text, p) /\ (p >= n - 1 \/ p = N)
      BY <2>2
    <3>3. v[n] = ReadTo(text, One(p))
      BY <1>3, <1>10, <3>1, <3>2
    <3>4. One(p) \in 0..N /\ (One(p) >= n \/ One(p) = N)
      BY <1>1, <1>3, <3>2
    <3> QED
      BY <3>1, <3>3, <3>4
  <2> HIDE DEF Good
  <2> QED
    BY <1>1, <2>1, <2>2, UpTo
<1>12. PICK p \in 0..N : v[N] = ReadTo(text, p) /\ (p >= N \/ p = N)
  BY <1>1, <1>11
<1>13. p = N
  BY <1>1, <1>12
<1> QED
  BY <1>12, <1>13 DEF Feed, v, sc, N
-----------------------------------------------------------------------------
\* What a file says.

\* A scan that has read nothing.
NoScan == [left |-> <<>>, found |-> <<>>]

\* One more byte, of a scan.
LEMMA ScanLineIs ==
  ASSUME NEW acc \in Scans, NEW b \in Bytes
  PROVE  ScanLine(acc, b) \in Scans
<1>1. acc.left \in Seq(Halves) /\ acc.found \in Seq(ObsEvent)
  BY DEF Scans
<1>2. CASE b # Newline
  <2>1. b \in Halves
    BY <1>2 DEF Bytes
  <2> DEFINE left == Append(acc.left, b)
  <2>2. left \in Seq(Halves)
    BY <1>1, <2>1, AppendProperties
  <2>3. ScanLine(acc, b) = [acc EXCEPT !.left = left]
    BY <1>2 DEF ScanLine
  <2> HIDE DEF left
  <2> QED
    BY <2>2, <2>3 DEF Scans
<1>3. CASE b = Newline
  <2> DEFINE found == IF IsEvent(acc.left) THEN Append(acc.found, acc.left[1].of) ELSE acc.found
  <2>1. found \in Seq(ObsEvent)
    <3>1. CASE IsEvent(acc.left)
      <4> DEFINE e == acc.left[1].of
      <4>1. e \in ObsEvent
        BY <1>1, <3>1, EventIs
      <4> HIDE DEF e
      <4>2. Append(acc.found, e) \in Seq(ObsEvent)
        BY <1>1, <4>1, AppendProperties
      <4> QED
        BY <3>1, <4>2 DEF e
    <3>2. CASE ~IsEvent(acc.left)
      BY <1>1, <3>2
    <3> QED
      BY <3>1, <3>2
  <2>2. ScanLine(acc, b) = [left |-> <<>>, found |-> found]
    BY <1>3 DEF ScanLine
  <2> HIDE DEF found
  <2>3. <<>> \in Seq(Halves)
    OBVIOUS
  <2> QED
    BY <2>1, <2>2, <2>3 DEF Scans
<1> QED
  BY <1>2, <1>3

\* The bytes of a part, one by one.
LEMMA ScannedIs ==
  ASSUME NEW part \in Seq(Bytes)
  PROVE  /\ \A n \in 0..Len(part) : Scanned(part)[n] \in Scans
         /\ Scanned(part)[0] = NoScan
         /\ \A n \in 1..Len(part) : Scanned(part)[n] = ScanLine(Scanned(part)[n - 1], part[n])
<1> DEFINE N == Len(part)
           F == [m \in (1..N) \X Scans |-> ScanLine(m[2], part[m[1]])]
           v == Scanned(part)
<1>1. N \in Nat /\ \A n \in 1..N : part[n] \in Bytes /\ n \in 0..N /\ n - 1 \in 0..N /\ n # 0
  OBVIOUS
<1> HIDE DEF N
<1>2. F \in [(1..N) \X Scans -> Scans]
  <2> SUFFICES ASSUME NEW m \in (1..N) \X Scans PROVE ScanLine(m[2], part[m[1]]) \in Scans
    OBVIOUS
  <2>1. m[1] \in 1..N /\ m[2] \in Scans
    OBVIOUS
  <2> QED
    BY <1>1, <2>1, ScanLineIs
<1>3. \A n \in 1..N, x \in Scans : F[<<n, x>>] = ScanLine(x, part[n])
  OBVIOUS
<1>4. NoScan \in Scans
  <2>1. <<>> \in Seq(Halves) /\ <<>> \in Seq(ObsEvent)
    OBVIOUS
  <2> QED
    BY <2>1 DEF NoScan, Scans
<1> HIDE DEF F
<1>5. PICK u \in [0..N -> Scans] : Iterated(u, NoScan, N, F)
  <2> HIDE DEF Scans
  <2> QED
    BY <1>1, <1>2, <1>4, Iterates
<1>6. u = [n \in 0..N |-> IF n = 0 THEN NoScan ELSE ScanLine(u[n - 1], part[n])]
  <2>1. ASSUME NEW n \in 0..N PROVE u[n] = IF n = 0 THEN NoScan ELSE ScanLine(u[n - 1], part[n])
    <3>1. CASE n = 0
      BY <1>5, <3>1 DEF Iterated
    <3>2. CASE n # 0
      <4>1. n \in 1..N /\ n - 1 \in 0..N
        BY <1>1, <3>2
      <4> QED
        BY <1>3, <1>5, <3>2, <4>1 DEF Iterated
    <3> QED
      BY <3>1, <3>2
  <2> QED
    BY <1>5, <2>1
<1>7. v = [n \in 0..N |-> IF n = 0 THEN NoScan ELSE ScanLine(v[n - 1], part[n])]
  BY <1>6 DEF Scanned, N, NoScan
<1> HIDE DEF v
<1>8. v[0] = NoScan /\ \A n \in 1..N : v[n] = ScanLine(v[n - 1], part[n])
  BY <1>1, <1>7
<1> DEFINE Good == {n \in 0..N : v[n] \in Scans}
<1>9. 0..N \subseteq Good
  <2>1. 0 \in Good
    BY <1>1, <1>4, <1>8
  <2>2. ASSUME NEW n \in 1..N, n - 1 \in Good PROVE n \in Good
    <3>1. v[n] = ScanLine(v[n - 1], part[n]) /\ v[n - 1] \in Scans /\ n \in 0..N
      BY <1>1, <1>8, <2>2
    <3> QED
      BY <1>1, <3>1, ScanLineIs
  <2> HIDE DEF Good
  <2> QED
    BY <1>1, <2>1, <2>2, UpTo
<1>10. \A n \in 0..N : v[n] \in Scans
  BY <1>9
<1> QED
  BY <1>8, <1>10 DEF v, N

\* The events of a run among the first n, one by one.
LEMMA FilteredIs ==
  ASSUME NEW r \in Runs, NEW evs \in Seq(ObsEvent)
  PROVE  /\ Filtered(r, evs)[0] = <<>>
         /\ \A n \in 0..Len(evs) : Filtered(r, evs)[n] \in Seq(ObsEvent)
         /\ \A n \in 1..Len(evs) :
              Filtered(r, evs)[n] = IF evs[n].run = r THEN Append(Filtered(r, evs)[n - 1], evs[n])
                                    ELSE Filtered(r, evs)[n - 1]
<1> DEFINE N == Len(evs)
           S == Seq(ObsEvent)
           One(x, n) == IF evs[n].run = r THEN Append(x, evs[n]) ELSE x
           F == [m \in (1..N) \X S |-> One(m[2], m[1])]
           v == Filtered(r, evs)
<1>1. N \in Nat /\ \A n \in 1..N : evs[n] \in ObsEvent /\ n \in 0..N /\ n - 1 \in 0..N /\ n # 0
  OBVIOUS
<1> HIDE DEF N
<1>2. ASSUME NEW x \in S, NEW n \in 1..N PROVE One(x, n) \in S
  <2>1. evs[n] \in ObsEvent
    BY <1>1
  <2> QED
    BY <2>1, AppendProperties
<1>3. <<>> \in S
  OBVIOUS
<1> HIDE DEF S, One
<1>4. F \in [(1..N) \X S -> S]
  <2> SUFFICES ASSUME NEW m \in (1..N) \X S PROVE One(m[2], m[1]) \in S
    OBVIOUS
  <2>1. m[1] \in 1..N /\ m[2] \in S
    OBVIOUS
  <2> QED
    BY <1>2, <2>1
<1>5. \A n \in 1..N, x \in S : F[<<n, x>>] = One(x, n)
  OBVIOUS
<1> HIDE DEF F
<1>6. PICK u \in [0..N -> S] : Iterated(u, <<>>, N, F)
  BY <1>1, <1>3, <1>4, Iterates
<1>7. u = [n \in 0..N |-> IF n = 0 THEN <<>> ELSE One(u[n - 1], n)]
  <2>1. ASSUME NEW n \in 0..N PROVE u[n] = IF n = 0 THEN <<>> ELSE One(u[n - 1], n)
    <3>1. CASE n = 0
      BY <1>6, <3>1 DEF Iterated
    <3>2. CASE n # 0
      <4>1. n \in 1..N /\ n - 1 \in 0..N
        BY <1>1, <3>2
      <4> QED
        BY <1>5, <1>6, <3>2, <4>1 DEF Iterated
    <3> QED
      BY <3>1, <3>2
  <2> QED
    BY <1>6, <2>1
<1>8. u = [n \in 0..N |-> IF n = 0 THEN <<>>
                         ELSE IF evs[n].run = r THEN Append(u[n - 1], evs[n]) ELSE u[n - 1]]
  BY <1>7 DEF One
<1>9. v = [n \in 0..N |-> IF n = 0 THEN <<>>
                         ELSE IF evs[n].run = r THEN Append(v[n - 1], evs[n]) ELSE v[n - 1]]
  BY <1>8 DEF Filtered, N
<1> HIDE DEF v
<1>10. v[0] = <<>> /\ \A n \in 1..N : v[n] = One(v[n - 1], n)
  <2>1. v[0] = <<>>
    BY <1>1, <1>9
  <2>2. ASSUME NEW n \in 1..N PROVE v[n] = One(v[n - 1], n)
    BY <1>1, <1>9 DEF One
  <2> QED
    BY <2>1, <2>2
<1> DEFINE Good == {n \in 0..N : v[n] \in S}
<1>11. 0..N \subseteq Good
  <2>1. 0 \in Good
    BY <1>1, <1>3, <1>10
  <2>2. ASSUME NEW n \in 1..N, n - 1 \in Good PROVE n \in Good
    <3>1. v[n] = One(v[n - 1], n) /\ v[n - 1] \in S /\ n \in 0..N
      BY <1>1, <1>10, <2>2
    <3> QED
      BY <1>2, <3>1
  <2> HIDE DEF Good
  <2> QED
    BY <1>1, <2>1, <2>2, UpTo
<1>12. \A n \in 0..N : v[n] \in S
  BY <1>11
<1>13. \A n \in 1..N : v[n] = IF evs[n].run = r THEN Append(v[n - 1], evs[n]) ELSE v[n - 1]
  BY <1>10 DEF One
<1> QED
  BY <1>10, <1>12, <1>13 DEF v, N, S
\* What is found, of a run: of nothing nothing, of one more event that one if it is of the run.
LEMMA OfRunIs ==
  ASSUME NEW r \in Runs
  PROVE  /\ OfRun(r, <<>>) = <<>>
         /\ \A a \in Seq(ObsEvent) : OfRun(r, a) \in Seq(ObsEvent)
         /\ \A a \in Seq(ObsEvent), e \in ObsEvent :
              OfRun(r, Append(a, e)) = IF e.run = r THEN Append(OfRun(r, a), e) ELSE OfRun(r, a)
<1>1. OfRun(r, <<>>) = <<>>
  <2>1. <<>> \in Seq(ObsEvent) /\ Len(<<>>) = 0
    OBVIOUS
  <2> QED
    BY <2>1, FilteredIs DEF OfRun
<1>2. ASSUME NEW a \in Seq(ObsEvent) PROVE OfRun(r, a) \in Seq(ObsEvent)
  <2>1. Len(a) \in 0..Len(a)
    OBVIOUS
  <2> QED
    BY <2>1, FilteredIs DEF OfRun
<1>3. ASSUME NEW a \in Seq(ObsEvent), NEW e \in ObsEvent
      PROVE  OfRun(r, Append(a, e)) = IF e.run = r THEN Append(OfRun(r, a), e) ELSE OfRun(r, a)
  <2> DEFINE b == Append(a, e)
             N == Len(a)
             M == Len(b)
             u == Filtered(r, a)
             v == Filtered(r, b)
  <2>1. /\ N \in Nat /\ b \in Seq(ObsEvent) /\ M = N + 1 /\ b[N + 1] = e
        /\ \A n \in 1..N : b[n] = a[n]
    BY AppendProperties
  <2>2. u[0] = <<>> /\ \A n \in 1..N : u[n] = IF a[n].run = r THEN Append(u[n - 1], a[n]) ELSE u[n - 1]
    BY FilteredIs
  <2>3. v[0] = <<>> /\ \A n \in 1..M : v[n] = IF b[n].run = r THEN Append(v[n - 1], b[n]) ELSE v[n - 1]
    BY <2>1, FilteredIs
  <2>4. OfRun(r, b) = v[M] /\ OfRun(r, a) = u[N]
    BY DEF OfRun
  <2> HIDE DEF u, v, b, N, M
  <2> DEFINE Good == {n \in 0..N : u[n] = v[n]}
  <2>5. 0..N \subseteq Good
    <3>1. 0 \in Good
      BY <2>1, <2>2, <2>3
    <3>2. ASSUME NEW n \in 1..N, n - 1 \in Good PROVE n \in Good
      <4>1. n \in 1..M /\ n \in 0..N
        BY <2>1
      <4>2. u[n - 1] = v[n - 1]
        BY <3>2
      <4> QED
        BY <2>1, <2>2, <2>3, <4>1, <4>2
    <3> HIDE DEF Good
    <3> QED
      BY <2>1, <3>1, <3>2, UpTo
  <2>6. N \in 0..N /\ N + 1 \in 1..M /\ N + 1 - 1 = N
    BY <2>1
  <2>7. u[N] = v[N]
    BY <2>5, <2>6
  <2>8. v[N + 1] = IF e.run = r THEN Append(v[N], e) ELSE v[N]
    BY <2>1, <2>3, <2>6
  <2> QED
    BY <2>1, <2>4, <2>7, <2>8 DEF b
<1> QED
  BY <1>1, <1>2, <1>3

\* A sequence with one more holds one more.
LEMMA AppendHolds ==
  ASSUME NEW S, NEW a \in Seq(S), NEW e \in S
  PROVE  ToSet(Append(a, e)) = ToSet(a) \cup {e} /\ ToSet(<<>>) = {}
<1> DEFINE b == Append(a, e)
           N == Len(a)
<1>1. N \in Nat /\ DOMAIN b = 1..N + 1 /\ DOMAIN a = 1..N /\ b[N + 1] = e /\ \A n \in 1..N : b[n] = a[n]
  BY AppendProperties
<1> HIDE DEF b, N
<1>2. ToSet(b) = {b[n] : n \in 1..N + 1} /\ ToSet(a) = {a[n] : n \in 1..N}
  BY <1>1 DEF ToSet
<1>3. ToSet(b) \subseteq ToSet(a) \cup {e}
  BY <1>1, <1>2
<1>4. ToSet(a) \subseteq ToSet(b) /\ e \in ToSet(b)
  BY <1>1, <1>2
<1>5. ToSet(<<>>) = {}
  BY DEF ToSet
<1> QED
  BY <1>3, <1>4, <1>5 DEF b

\* Exactly the events of the run are found to be of it.
LEMMA OfRunHolds ==
  ASSUME NEW r \in Runs, NEW evs \in Seq(ObsEvent)
  PROVE  ToSet(OfRun(r, evs)) = {ev \in ToSet(evs) : ev.run = r}
<1> DEFINE N == Len(evs)
           u == Filtered(r, evs)
           Upto(n) == {evs[i] : i \in 1..n}
           Own(n) == {ev \in Upto(n) : ev.run = r}
           Good == {n \in 0..N : ToSet(u[n]) = Own(n)}
<1>1. N \in Nat /\ \A n \in 1..N : evs[n] \in ObsEvent /\ n \in 0..N /\ n - 1 \in 0..N
  OBVIOUS
<1>2. /\ u[0] = <<>> /\ \A n \in 0..N : u[n] \in Seq(ObsEvent)
      /\ \A n \in 1..N : u[n] = IF evs[n].run = r THEN Append(u[n - 1], evs[n]) ELSE u[n - 1]
  BY FilteredIs
<1>3. OfRun(r, evs) = u[N] /\ ToSet(evs) = Upto(N)
  BY DEF OfRun, ToSet
<1> HIDE DEF u, N
<1>4. ASSUME NEW n \in 1..N PROVE Upto(n) = Upto(n - 1) \cup {evs[n]}
  <2>1. 1..n = 1..(n - 1) \cup {n}
    BY <1>1
  <2> QED
    BY <2>1
<1>5. 0..N \subseteq Good
  <2>1. 0 \in Good
    <3>1. Own(0) = {} /\ ToSet(u[0]) = {}
      BY <1>2 DEF ToSet
    <3> QED
      BY <1>1, <3>1
  <2>2. ASSUME NEW n \in 1..N, n - 1 \in Good PROVE n \in Good
    <3>1. ToSet(u[n - 1]) = Own(n - 1) /\ u[n - 1] \in Seq(ObsEvent) /\ evs[n] \in ObsEvent /\ n \in 0..N
      BY <1>1, <1>2, <2>2
    <3>2. Upto(n) = Upto(n - 1) \cup {evs[n]}
      BY <1>4
    <3> HIDE DEF Upto
    <3>3. CASE evs[n].run = r
      <4>1. ToSet(Append(u[n - 1], evs[n])) = ToSet(u[n - 1]) \cup {evs[n]}
        BY <3>1, AppendHolds
      <4>2. ToSet(u[n]) = ToSet(u[n - 1]) \cup {evs[n]}
        BY <1>2, <3>3, <4>1
      <4>3. Own(n) = Own(n - 1) \cup {evs[n]}
        BY <3>2, <3>3
      <4> QED
        BY <3>1, <4>2, <4>3
    <3>4. CASE evs[n].run # r
      <4>1. u[n] = u[n - 1]
        BY <1>2, <3>4
      <4>2. Own(n) = Own(n - 1)
        BY <3>2, <3>4
      <4> QED
        BY <3>1, <4>1, <4>2
    <3> QED
      BY <3>3, <3>4
  <2> HIDE DEF Good
  <2> QED
    BY <1>1, <2>1, <2>2, UpTo
<1>6. ToSet(u[N]) = Own(N)
  BY <1>1, <1>5
<1> QED
  BY <1>3, <1>6
-----------------------------------------------------------------------------
\* The first bytes of a file are the same when more are written.

\* What is said of them too.
LEMMA MoreIsWritten ==
  ASSUME NEW text \in Seq(Bytes), NEW more \in Seq(Bytes)
  PROVE  \A n \in 0..Len(text) : ReadTo(text \o more, n) = ReadTo(text, n)
<1> DEFINE N == Len(text)
           M == Len(text \o more)
           Good == {n \in 0..N : ReadTo(text \o more, n) = ReadTo(text, n)}
<1>1. N \in Nat /\ M \in Nat /\ N <= M /\ text \o more \in Seq(Bytes) /\ \A n \in 1..N : (text \o more)[n] = text[n]
  BY ConcatProperties
<1>2. ReadTo(text, 0) = NoIndex /\ \A n \in 1..N : ReadTo(text, n) = Byte(ReadTo(text, n - 1), text[n])
  BY AtIs
<1> HIDE DEF N
<1>3. ReadTo(text \o more, 0) = NoIndex /\ \A n \in 1..M : ReadTo(text \o more, n) = Byte(ReadTo(text \o more, n - 1), (text \o more)[n])
  BY <1>1, AtIs
<1> HIDE DEF M
<1>4. 0 \in Good
  BY <1>1, <1>2, <1>3
<1>5. ASSUME NEW n \in 1..N, n - 1 \in Good PROVE n \in Good
  <2>1. n \in 1..M /\ n \in 0..N
    BY <1>1
  <2>2. (text \o more)[n] = text[n]
    BY <1>1
  <2>3. ReadTo(text \o more, n - 1) = ReadTo(text, n - 1)
    BY <1>5
  <2> QED
    BY <1>2, <1>3, <2>1, <2>2, <2>3
<1> HIDE DEF Good
<1>6. 0..N \subseteq Good
  BY <1>1, <1>4, <1>5, UpTo
<1> QED
  BY <1>6 DEF Good, N
-----------------------------------------------------------------------------
\* What an index says of a run, against the events of the run.

Greatest(x, S) == x \in S /\ \A y \in S : x >= y

LastTimes(own) == {own[1].ts} \cup Times({ev \in ToSet(own) : ev.kind = "event"})
VerdictTimes(own) == {0} \cup Times({ev \in ToSet(own) : ev.kind = "verdict"})

Tells(run, own) ==
  /\ own # <<>> /\ run.events = Len(own)
  /\ Greatest(run.last, LastTimes(own))
  /\ Greatest(run.verdict, VerdictTimes(own))
  /\ \E ev \in ToSet(own) : run.events <= ev.ts

\* The greatest of a set is the one that Max names.
LEMMA GreatestIs ==
  ASSUME NEW S \in SUBSET Nat, NEW x, Greatest(x, S)
  PROVE  Max(S) = x
<1>1. x \in S /\ \A y \in S : x >= y
  BY DEF Greatest
<1>2. Max(S) \in S /\ \A y \in S : Max(S) >= y
  BY <1>1 DEF Max
<1>3. x >= Max(S) /\ Max(S) >= x /\ x \in Nat /\ Max(S) \in Nat
  BY <1>1, <1>2
<1> QED
  BY <1>3

\* With one event more, the latest so far, it tells of one more.
LEMMA OneMoreTold ==
  ASSUME NEW own \in Seq(ObsEvent), NEW e \in ObsEvent, NEW old \in RunRec, NEW new \in RunRec,
         IF own = <<>> THEN old.events = 0 /\ old.last = e.ts /\ old.verdict = 0 ELSE Tells(old, own),
         \A ev \in ToSet(own) : ev.ts < e.ts,
         new.events = old.events + 1,
         new.verdict = IF RunVerdict(e) THEN e.ts ELSE old.verdict,
         new.last = IF e.kind = "event" THEN e.ts ELSE old.last
  PROVE  Tells(new, Append(own, e))
<1> DEFINE more == Append(own, e)
           N == Len(own)
           Evs(S) == {ev \in S : ev.kind = "event"}
           Vds(S) == {ev \in S : ev.kind = "verdict"}
<1>1. /\ N \in Nat /\ more \in Seq(ObsEvent) /\ Len(more) = N + 1 /\ more # <<>>
      /\ more[N + 1] = e /\ \A n \in 1..N : more[n] = own[n] /\ own[n] \in ObsEvent
  BY AppendProperties
<1>2. ToSet(more) = ToSet(own) \cup {e}
  BY AppendHolds
<1>3. \A ev \in ToSet(own) : ev \in ObsEvent
  BY DEF ToSet
<1>4. own = <<>> <=> N = 0
  BY EmptySeq
<1>5. own # <<>> => own[1] \in ToSet(own) /\ more[1] = own[1]
  <2>1. own # <<>> => 1 \in 1..N
    BY <1>1, <1>4
  <2>2. DOMAIN own = 1..N
    OBVIOUS
  <2> QED
    BY <1>1, <2>1, <2>2 DEF ToSet
<1>6. own = <<>> => ToSet(own) = {} /\ more[1] = e
  <2>1. own = <<>> => N + 1 = 1
    BY <1>4
  <2> QED
    BY <1>1, <2>1 DEF ToSet
<1> HIDE DEF more, N
<1>7. e.ts \in Nat /\ e.ts > 0 /\ \A ev \in ToSet(own) : ev.ts \in Nat
  <2>1. ASSUME NEW ev \in ObsEvent PROVE ev.ts \in Nat \ {0}
    BY DEF ObsEvent
  <2>2. e.ts \in Nat \ {0}
    BY <2>1
  <2>3. \A ev \in ToSet(own) : ev.ts \in Nat
    BY <1>3, <2>1
  <2> QED
    BY <2>2, <2>3
<1>8. ToSet(own) # {} <=> own # <<>>
  BY <1>5, <1>6
<1>9. Times(Evs(ToSet(more))) = Times(Evs(ToSet(own))) \cup IF e.kind = "event" THEN {e.ts} ELSE {}
  BY <1>2 DEF Times
<1>10. Times(Vds(ToSet(more))) = Times(Vds(ToSet(own))) \cup IF e.kind = "verdict" THEN {e.ts} ELSE {}
  BY <1>2 DEF Times
<1>11. LastTimes(own) = {own[1].ts} \cup Times(Evs(ToSet(own))) /\ LastTimes(more) = {more[1].ts} \cup Times(Evs(ToSet(more)))
  BY DEF LastTimes
<1>12. VerdictTimes(own) = {0} \cup Times(Vds(ToSet(own))) /\ VerdictTimes(more) = {0} \cup Times(Vds(ToSet(more)))
  BY DEF VerdictTimes
<1>13. \A t \in Times(Evs(ToSet(own))) \cup Times(Vds(ToSet(own))) : t < e.ts /\ t \in Nat
  BY <1>7 DEF Times
<1>14. own = <<>> => Times(Evs(ToSet(own))) = {} /\ Times(Vds(ToSet(own))) = {}
  BY <1>6 DEF Times
<1> HIDE DEF Evs, Vds
<1>15. old.last \in Nat /\ old.verdict \in Nat /\ old.events \in Nat
  BY DEF RunRec
<1>16. Greatest(new.last, LastTimes(more))
  <2>1. CASE own = <<>>
    <3>1. new.last = e.ts /\ LastTimes(more) = {e.ts}
      BY <1>6, <1>9, <1>11, <1>14, <2>1
    <3> QED
      BY <1>7, <3>1 DEF Greatest
  <2>2. CASE own # <<>>
    <3>1. LastTimes(more) = LastTimes(own) \cup IF e.kind = "event" THEN {e.ts} ELSE {}
      BY <1>5, <1>9, <1>11, <2>2
    <3>2. \A t \in LastTimes(own) : t < e.ts /\ t \in Nat
      BY <1>5, <1>7, <1>11, <1>13, <2>2
    <3>3. old.last \in LastTimes(own) /\ \A t \in LastTimes(own) : old.last >= t
      BY <2>2 DEF Tells, Greatest
    <3>4. CASE e.kind = "event"
      <4>1. new.last = e.ts /\ LastTimes(more) = LastTimes(own) \cup {e.ts}
        BY <3>1, <3>4
      <4> QED
        BY <1>7, <3>2, <4>1 DEF Greatest
    <3>5. CASE e.kind # "event"
      <4>1. new.last = old.last /\ LastTimes(more) = LastTimes(own)
        BY <3>1, <3>5
      <4> QED
        BY <3>3, <4>1 DEF Greatest
    <3> QED
      BY <3>4, <3>5
  <2> QED
    BY <2>1, <2>2
<1>17. Greatest(new.verdict, VerdictTimes(more))
  <2>1. Greatest(old.verdict, VerdictTimes(own))
    <3>1. CASE own = <<>>
      <4>1. VerdictTimes(own) = {0} /\ old.verdict = 0
        BY <1>12, <1>14, <3>1
      <4> QED
        BY <4>1 DEF Greatest
    <3>2. CASE own # <<>>
      BY <3>2 DEF Tells
    <3> QED
      BY <3>1, <3>2
  <2>2. VerdictTimes(more) = VerdictTimes(own) \cup IF e.kind = "verdict" THEN {e.ts} ELSE {}
    BY <1>10, <1>12
  <2>3. \A t \in VerdictTimes(own) : t < e.ts /\ t \in Nat
    BY <1>7, <1>12, <1>13
  <2>4. CASE e.kind = "verdict"
    <3>1. new.verdict = e.ts /\ VerdictTimes(more) = VerdictTimes(own) \cup {e.ts}
      BY <2>2, <2>4 DEF RunVerdict
    <3> QED
      BY <1>7, <2>3, <3>1 DEF Greatest
  <2>5. CASE e.kind # "verdict"
    <3>1. new.verdict = old.verdict
      BY <2>5 DEF RunVerdict
    <3>2. VerdictTimes(more) = VerdictTimes(own)
      BY <2>2, <2>5
    <3> QED
      BY <2>1, <3>1, <3>2
  <2> QED
    BY <2>4, <2>5
<1>18. new.events = N + 1
  <2>1. CASE own = <<>>
    BY <1>4, <2>1
  <2>2. CASE own # <<>>
    BY <2>2 DEF Tells, N
  <2> QED
    BY <2>1, <2>2
<1>19. \E ev \in ToSet(more) : new.events <= ev.ts
  <2>1. old.events + 1 <= e.ts
    <3>1. CASE own = <<>>
      BY <1>7, <3>1
    <3>2. CASE own # <<>>
      <4>1. PICK ev \in ToSet(own) : old.events <= ev.ts
        BY <3>2 DEF Tells
      <4> QED
        BY <1>7, <1>15, <4>1
    <3> QED
      BY <3>1, <3>2
  <2> QED
    BY <1>2, <2>1
<1>20. new.events = Len(more)
  BY <1>1, <1>18
<1> QED
  BY <1>1, <1>16, <1>17, <1>19, <1>20 DEF Tells, more

\* What was known of the run of an event.
Old(D, runs, e, start) == IF e.run \in D THEN runs[e.run] ELSE NewRun(e, start)

\* What a line that is an event does to what is known of the runs.
LEMMA OnLineIs ==
  ASSUME NEW D \in SUBSET Runs, NEW runs \in [D -> RunRec], NEW line \in Seq(Halves), IsEvent(line),
         NEW start \in Nat, NEW end \in Nat
  PROVE  LET e == line[1].of
             old == Old(D, runs, e, start)
             now == OnLine(runs, line, start, end)
             new == now[e.run]
         IN /\ e \in ObsEvent /\ old \in RunRec /\ new \in RunRec
            /\ DOMAIN now = D \cup {e.run} /\ \A q \in D \ {e.run} : now[q] = runs[q]
            /\ new.events = old.events + 1 /\ new.start = old.start /\ new.end = end
            /\ new.verdict = IF RunVerdict(e) THEN e.ts ELSE old.verdict
            /\ new.last = IF e.kind = "event" THEN e.ts ELSE old.last
<1> DEFINE e == line[1].of
           old == IF e.run \in D THEN runs[e.run] ELSE NewRun(e, start)
           now == OnLine(runs, line, start, end)
           vd == IF RunVerdict(e) THEN e.ts ELSE old.verdict
           la == IF e.kind = "event" THEN e.ts ELSE old.last
           new == [old EXCEPT !.events = old.events + 1, !.end = end, !.verdict = vd, !.last = la]
<1>1. e \in ObsEvent /\ e.run \in Runs /\ e.ts \in Nat
  <2>1. e \in ObsEvent
    BY EventIs
  <2> HIDE DEF e
  <2> QED
    BY <2>1 DEF ObsEvent
<1>2. D = DOMAIN runs
  OBVIOUS
<1>3. now = [q \in D \cup {e.run} |-> IF q = e.run
              THEN [old EXCEPT !.events = @ + 1, !.end = end,
                              !.verdict = IF RunVerdict(e) THEN e.ts ELSE @,
                              !.last = IF e.kind = "event" THEN e.ts ELSE @] ELSE runs[q]]
  BY <1>2 DEF OnLine
<1> HIDE DEF e, now
<1>4. old \in RunRec
  <2>1. NewRun(e, start) \in RunRec
    BY <1>1 DEF NewRun, RunRec
  <2> QED
    BY <2>1
<1> HIDE DEF old
<1>5. [old EXCEPT !.events = @ + 1, !.end = end,
                  !.verdict = IF RunVerdict(e) THEN e.ts ELSE @,
                  !.last = IF e.kind = "event" THEN e.ts ELSE @] = new
  BY <1>4 DEF RunRec
<1>6. vd \in Nat /\ la \in Nat /\ old.events + 1 \in Nat
  BY <1>1, <1>4 DEF RunRec
<1>7. now = [q \in D \cup {e.run} |-> IF q = e.run THEN new ELSE runs[q]]
  BY <1>3, <1>5
<1> HIDE DEF vd, la
<1>8. /\ new \in RunRec /\ new.events = old.events + 1 /\ new.start = old.start /\ new.end = end
      /\ new.verdict = vd /\ new.last = la
  BY <1>4, <1>6 DEF RunRec
<1> HIDE DEF new
<1>9. now[e.run] = new /\ DOMAIN now = D \cup {e.run} /\ \A q \in D \ {e.run} : now[q] = runs[q]
  BY <1>7
<1> QED
  BY <1>1, <1>4, <1>8, <1>9 DEF e, old, now, vd, la, Old
-----------------------------------------------------------------------------
\* What the index says of a file, against what the file says.

\* The halves of a file are in the order in which they were written.
Before(a, b) == a.of.ts < b.of.ts \/ (a.of.ts = b.of.ts /\ a.half < b.half)
Written(text) == \A i, j \in 1..Len(text) :
                   i < j /\ text[i] # Newline /\ text[j] # Newline => Before(text[i], text[j])

Found(text, n) == Scanned(text)[n].found

\* The line that has begun is the file since the last newline.
LineTold(text, n) ==
  LET u == ReadTo(text, n)
  IN /\ u.left = Scanned(text)[n].left
     /\ u.base \in 0..n /\ Scanned(text)[u.base].left = <<>> /\ Found(text, u.base) = Found(text, n)
     /\ \A i \in 1..Len(u.left) : u.left[i] = text[u.base + i]

\* What was found was written before what is not read yet.
PastTold(text, n) ==
  \A ev \in ToSet(Found(text, n)) : \A m \in ReadTo(text, n).base + 1..Len(text) :
     text[m] # Newline => ev.ts < text[m].of.ts

\* The part of the file that is kept of a run has all of the run.
Ranged(text, n, r, run) ==
  /\ run.start \in 0..n /\ run.end \in run.start..n
  /\ Scanned(text)[run.start].left = <<>> /\ OfRun(r, Found(text, run.start)) = <<>>
  /\ OfRun(r, Found(text, run.end)) = OfRun(r, Found(text, n))

RunsTold(text, n) ==
  /\ DOMAIN ReadTo(text, n).runs = {ev.run : ev \in ToSet(Found(text, n))}
  /\ \A r \in DOMAIN ReadTo(text, n).runs :
       Tells(ReadTo(text, n).runs[r], OfRun(r, Found(text, n))) /\ Ranged(text, n, r, ReadTo(text, n).runs[r])

Told(text, n) == LineTold(text, n) /\ PastTold(text, n) /\ RunsTold(text, n)

\* The parts of an index are of their kinds.
LEMMA ScannerIs ==
  ASSUME NEW sc \in Scanners
  PROVE  /\ sc.base \in Nat /\ sc.left \in Seq(Halves) /\ Len(sc.left) \in Nat
         /\ DOMAIN sc.runs \in SUBSET Runs /\ sc.runs \in [DOMAIN sc.runs -> RunRec]
<1>1. sc.base \in Nat /\ sc.left \in Seq(Halves) /\ sc.runs \in UNION {[D -> RunRec] : D \in SUBSET Runs}
  BY DEF Scanners
<1>2. Len(sc.left) \in Nat
  BY <1>1
<1> QED
  BY <1>1, <1>2

\* A half more.
LEMMA HalfTold ==
  ASSUME NEW text \in Seq(Bytes), NEW n \in 1..Len(text), text[n] # Newline, Told(text, n - 1)
  PROVE  Told(text, n)
<1> DEFINE u0 == ReadTo(text, n - 1)
           u == ReadTo(text, n)
           v0 == Scanned(text)[n - 1]
           v == Scanned(text)[n]
           L == Len(u0.left)
           left == Append(u0.left, text[n])
<1>1. n \in Nat /\ n - 1 \in 0..Len(text) /\ n \in 0..Len(text) /\ Len(text) \in Nat
  OBVIOUS
<1>2. u0 \in Scanners /\ Offset(u0) = n - 1 /\ u = Byte(u0, text[n])
  BY <1>1, AtIs
<1>3. v0 \in Scans /\ v = ScanLine(v0, text[n])
  BY <1>1, ScannedIs
<1>4. text[n] \in Halves
  <2>1. text[n] \in Bytes
    OBVIOUS
  <2> QED
    BY <2>1 DEF Bytes
<1>5. u = [u0 EXCEPT !.left = left] /\ v = [v0 EXCEPT !.left = Append(v0.left, text[n])]
  BY <1>2, <1>3 DEF Byte, ScanLine
<1>6. LineTold(text, n - 1) /\ PastTold(text, n - 1) /\ RunsTold(text, n - 1)
  BY DEF Told
<1>7. u0.left = v0.left /\ u0.base \in 0..n - 1 /\ Scanned(text)[u0.base].left = <<>> /\ Found(text, u0.base) = v0.found
      /\ \A i \in 1..L : u0.left[i] = text[u0.base + i]
  BY <1>6 DEF LineTold, Found
<1> HIDE DEF u0, v0, u, v
<1>8. u.left = left /\ u.base = u0.base /\ u.runs = u0.runs
  BY <1>2, <1>5 DEF Scanners
<1>9. v.left = Append(v0.left, text[n]) /\ v.found = v0.found
  BY <1>3, <1>5 DEF Scans
<1>10. u0.left \in Seq(Halves) /\ L \in Nat /\ u0.base \in Nat /\ u0.base + L = n - 1
  BY <1>2, ScannerIs DEF Offset
<1>11. Len(left) = L + 1 /\ left[L + 1] = text[n] /\ \A i \in 1..L : left[i] = u0.left[i]
  BY <1>4, <1>10, AppendProperties
<1>12. Found(text, n) = Found(text, n - 1)
  BY <1>9 DEF Found, v, v0
<1>13. LineTold(text, n)
  <2>1. u.left = v.left
    BY <1>7, <1>8, <1>9
  <2>2. u.base \in 0..n
    BY <1>1, <1>7, <1>8
  <2>3. Scanned(text)[u.base].left = <<>> /\ Found(text, u.base) = Found(text, n)
    BY <1>7, <1>8, <1>9 DEF Found, v
  <2> HIDE DEF left
  <2>4. ASSUME NEW i \in 1..Len(u.left) PROVE u.left[i] = text[u.base + i]
    <3>1. i \in 1..L + 1
      BY <1>8, <1>11, <2>4
    <3>2. CASE i = L + 1
      <4> HIDE DEF L
      <4>1. u0.base + i = n
        BY <1>1, <1>10, <3>2
      <4> QED
        BY <1>8, <1>11, <3>2, <4>1
    <3>3. CASE i # L + 1
      <4> HIDE DEF L
      <4>1. i \in 1..L
        BY <1>10, <3>1, <3>3
      <4> QED
        BY <1>7, <1>8, <1>11, <4>1
    <3> QED
      BY <3>2, <3>3
  <2> QED
    BY <2>1, <2>2, <2>3, <2>4 DEF LineTold, u, v
<1>14. PastTold(text, n)
  <2>1. ReadTo(text, n).base = ReadTo(text, n - 1).base
    BY <1>8 DEF u, u0
  <2> QED
    BY <1>6, <1>12, <2>1 DEF PastTold
<1>15. RunsTold(text, n)
  <2>1. ReadTo(text, n).runs = ReadTo(text, n - 1).runs
    BY <1>8 DEF u, u0
  <2>2. ASSUME NEW r, NEW run, Ranged(text, n - 1, r, run) PROVE Ranged(text, n, r, run)
    <3>1. run.start \in 0..n - 1 /\ run.end \in run.start..n - 1
      BY <2>2 DEF Ranged
    <3>2. run.start \in 0..n /\ run.end \in run.start..n
      BY <1>1, <3>1
    <3> QED
      BY <1>12, <2>2, <3>2 DEF Ranged
  <2> QED
    BY <1>6, <1>12, <2>1, <2>2 DEF RunsTold
<1> QED
  BY <1>13, <1>14, <1>15 DEF Told
\* The end of a line: nothing is left, and all of the runs is kept but what the line tells.
LEMMA LineEnds ==
  ASSUME NEW text \in Seq(Bytes), NEW n \in 1..Len(text), text[n] = Newline, Told(text, n - 1)
  PROVE  /\ LineTold(text, n)
         /\ ReadTo(text, n).base = n
         /\ Found(text, n) = IF IsEvent(ReadTo(text, n - 1).left)
                             THEN Append(Found(text, n - 1), ReadTo(text, n - 1).left[1].of) ELSE Found(text, n - 1)
         /\ ReadTo(text, n).runs = OnLine(ReadTo(text, n - 1).runs, ReadTo(text, n - 1).left, ReadTo(text, n - 1).base, n)
<1> DEFINE u0 == ReadTo(text, n - 1)
           u == ReadTo(text, n)
           v0 == Scanned(text)[n - 1]
           v == Scanned(text)[n]
<1>1. n \in Nat /\ n - 1 \in 0..Len(text) /\ n \in 0..n
  OBVIOUS
<1>2. u0 \in Scanners /\ Offset(u0) = n - 1 /\ u = Byte(u0, text[n]) /\ Offset(u0) + 1 = n
  BY <1>1, AtIs
<1>3. v = ScanLine(v0, text[n])
  BY <1>1, ScannedIs
<1>4. u0.left = v0.left
  BY DEF Told, LineTold
<1> HIDE DEF u0, v0, u, v
<1>5. u = [base |-> n, left |-> <<>>, runs |-> OnLine(u0.runs, u0.left, u0.base, n)]
  BY <1>2 DEF Byte
<1>6. u.base = n /\ u.left = <<>> /\ u.runs = OnLine(u0.runs, u0.left, u0.base, n)
  BY <1>5
<1>7. v = [left |-> <<>>, found |-> IF IsEvent(v0.left) THEN Append(v0.found, v0.left[1].of) ELSE v0.found]
  BY <1>3 DEF ScanLine
<1>8. v.left = <<>> /\ v.found = IF IsEvent(v0.left) THEN Append(v0.found, v0.left[1].of) ELSE v0.found
  BY <1>7
<1>9. LineTold(text, n)
  <2>1. u.left = v.left /\ u.base \in 0..n /\ v.left = <<>>
    BY <1>1, <1>6, <1>8
  <2>2. Scanned(text)[u.base].left = <<>> /\ Found(text, u.base) = Found(text, n)
    BY <1>6, <1>8 DEF v
  <2>3. Len(u.left) = 0
    BY <1>6
  <2>4. 1..Len(u.left) = {}
    BY <2>3
  <2> QED
    BY <2>1, <2>2, <2>4 DEF LineTold, u, v
<1> QED
  BY <1>4, <1>6, <1>8, <1>9 DEF Found, u, u0, v, v0

\* A line that is not an event ends.
LEMMA OtherTold ==
  ASSUME NEW text \in Seq(Bytes), NEW n \in 1..Len(text), text[n] = Newline, Told(text, n - 1),
         ~IsEvent(ReadTo(text, n - 1).left)
  PROVE  Told(text, n)
<1>1. n \in Nat /\ n - 1 \in 0..Len(text) /\ Len(text) \in Nat
  OBVIOUS
<1>2. LineTold(text, n) /\ ReadTo(text, n).base = n /\ Found(text, n) = Found(text, n - 1)
  BY LineEnds
<1>3. ReadTo(text, n).runs = ReadTo(text, n - 1).runs
  BY LineEnds DEF OnLine
<1>4. LineTold(text, n - 1) /\ PastTold(text, n - 1) /\ RunsTold(text, n - 1)
  BY DEF Told
<1>5. PastTold(text, n)
  <2> DEFINE base == ReadTo(text, n - 1).base
  <2>1. base \in 0..n - 1
    BY <1>4 DEF LineTold
  <2>2. \A ev \in ToSet(Found(text, n - 1)) : \A m \in base + 1..Len(text) : text[m] # Newline => ev.ts < text[m].of.ts
    BY <1>4 DEF PastTold
  <2> HIDE DEF base
  <2>3. n + 1..Len(text) \subseteq base + 1..Len(text)
    BY <1>1, <2>1
  <2>4. \A ev \in ToSet(Found(text, n)) : \A m \in n + 1..Len(text) : text[m] # Newline => ev.ts < text[m].of.ts
    BY <1>2, <2>2, <2>3
  <2> QED
    BY <1>2, <2>4 DEF PastTold
<1>6. RunsTold(text, n)
  <2>1. ASSUME NEW r, NEW run, Ranged(text, n - 1, r, run) PROVE Ranged(text, n, r, run)
    <3>1. run.start \in 0..n - 1 /\ run.end \in run.start..n - 1
      BY <2>1 DEF Ranged
    <3>2. run.start \in 0..n /\ run.end \in run.start..n
      BY <1>1, <3>1
    <3> QED
      BY <1>2, <2>1, <3>2 DEF Ranged
  <2> QED
    BY <1>2, <1>3, <1>4, <2>1 DEF RunsTold
<1> QED
  BY <1>2, <1>5, <1>6 DEF Told

\* The index of a part of a file has its runs.
LEMMA RunsAre ==
  ASSUME NEW text \in Seq(Bytes), NEW n \in 0..Len(text), RunsTold(text, n), NEW r \in Runs
  PROVE  r \in DOMAIN ReadTo(text, n).runs <=> OfRun(r, Found(text, n)) # <<>>
<1> DEFINE found == Found(text, n)
           own == OfRun(r, found)
<1>1. found \in Seq(ObsEvent)
  BY ScannedIs DEF Found, Scans
<1>2. DOMAIN ReadTo(text, n).runs = {ev.run : ev \in ToSet(found)}
  BY DEF RunsTold
<1> HIDE DEF found
<1>3. own \in Seq(ObsEvent) /\ ToSet(own) = {ev \in ToSet(found) : ev.run = r}
  BY <1>1, OfRunIs, OfRunHolds
<1>4. ToSet(own) # {} <=> r \in DOMAIN ReadTo(text, n).runs
  BY <1>2, <1>3
<1> HIDE DEF own
<1>5. ToSet(own) # {} <=> own # <<>>
  <2>1. own = <<>> => ToSet(own) = {}
    BY DEF ToSet
  <2>2. own # <<>> => 1 \in DOMAIN own
    BY <1>3, EmptySeq
  <2> QED
    BY <2>1, <2>2 DEF ToSet
<1> QED
  BY <1>4, <1>5 DEF own, found
\* An event's line ends: it is the latest of what was found, and was written before the rest.
LEMMA EventIsNew ==
  ASSUME NEW text \in Seq(Bytes), Written(text), NEW n \in 1..Len(text), text[n] = Newline, Told(text, n - 1),
         IsEvent(ReadTo(text, n - 1).left)
  PROVE  LET e == ReadTo(text, n - 1).left[1].of IN
         /\ e \in ObsEvent
         /\ \A ev \in ToSet(Found(text, n - 1)) : ev.ts < e.ts
         /\ \A m \in n + 1..Len(text) : text[m] # Newline => e.ts < text[m].of.ts
<1> DEFINE u0 == ReadTo(text, n - 1)
           base == u0.base
           line == u0.left
           e == line[1].of
           N == Len(text)
<1>1. n \in Nat /\ n - 1 \in 0..N /\ N \in Nat /\ n \in 1..N
  OBVIOUS
<1>2. u0 \in Scanners /\ Offset(u0) = n - 1
  BY <1>1, AtIs
<1>3. line \in Seq(Halves) /\ base \in Nat
  BY <1>2, ScannerIs
<1>4. Len(line) = 2 /\ line[1] \in Halves /\ line[2] \in Halves /\ e \in ObsEvent
  BY <1>3, EventIs
<1>5. base + 2 = n - 1
  BY <1>2, <1>4 DEF Offset
<1>6. \A i \in 1..Len(line) : line[i] = text[base + i]
  BY DEF Told, LineTold
<1>7. \A ev \in ToSet(Found(text, n - 1)) : \A m \in base + 1..N : text[m] # Newline => ev.ts < text[m].of.ts
  BY DEF Told, PastTold
<1>8. line[1] = text[base + 1] /\ line[2] = text[base + 2]
  BY <1>4, <1>6
<1>9. line[2].of = e /\ line[2].half = 2
  BY DEF IsEvent
<1>10. line[1] # Newline /\ line[2] # Newline
  BY <1>4, HalfIs
<1> HIDE DEF u0, base, N, line, e
<1>11. \A ev \in ToSet(Found(text, n - 1)) : ev.ts < e.ts
  <2>1. base + 1 \in base + 1..N
    BY <1>1, <1>3, <1>5
  <2>2. text[base + 1] # Newline
    BY <1>8, <1>10
  <2>3. \A ev \in ToSet(Found(text, n - 1)) : ev.ts < text[base + 1].of.ts
    BY <1>7, <2>1, <2>2
  <2> QED
    BY <1>8, <2>3 DEF e
<1>12. ASSUME NEW m \in n + 1..N, text[m] # Newline PROVE e.ts < text[m].of.ts
  <2>1. m \in 1..N /\ base + 2 \in 1..N /\ base + 2 < m
    BY <1>1, <1>3, <1>5
  <2>2. text[m] \in Bytes
    BY <2>1 DEF N
  <2>3. text[m] \in Halves
    BY <1>12, <2>2 DEF Bytes
  <2>4. text[m].half \in {1, 2}
    BY <2>3, HalfIs
  <2>5. Before(text[base + 2], text[m])
    BY <1>8, <1>10, <1>12, <2>1 DEF Written, N
  <2>6. text[base + 2].of.ts = e.ts /\ text[base + 2].half = 2
    BY <1>8, <1>9
  <2>7. ~(2 < text[m].half)
    BY <2>4
  <2> QED
    BY <2>5, <2>6, <2>7 DEF Before
<1> QED
  BY <1>4, <1>11, <1>12 DEF e, line, u0, N

\* An event's line ends, and the index tells of it too.
LEMMA EventTold ==
  ASSUME NEW text \in Seq(Bytes), Written(text), NEW n \in 1..Len(text), text[n] = Newline, Told(text, n - 1),
         IsEvent(ReadTo(text, n - 1).left)
  PROVE  Told(text, n)
<1> DEFINE u0 == ReadTo(text, n - 1)
           base == u0.base
           e == u0.left[1].of
           D == DOMAIN u0.runs
           old == Old(D, u0.runs, e, base)
           runs == ReadTo(text, n).runs
           found0 == Found(text, n - 1)
           found == Found(text, n)
<1>1. n \in Nat /\ n - 1 \in 0..Len(text) /\ Len(text) \in Nat /\ n \in 0..Len(text)
  OBVIOUS
<1>2. LineTold(text, n - 1) /\ PastTold(text, n - 1) /\ RunsTold(text, n - 1)
  BY DEF Told
<1>3. LineTold(text, n) /\ ReadTo(text, n).base = n /\ found = Append(found0, e) /\ runs = OnLine(u0.runs, u0.left, base, n)
  BY LineEnds
<1>4. e \in ObsEvent /\ (\A ev \in ToSet(found0) : ev.ts < e.ts) /\ (\A m \in n + 1..Len(text) : text[m] # Newline => e.ts < text[m].of.ts)
  BY EventIsNew
<1>5. u0 \in Scanners
  BY <1>1, AtIs
<1>6. base \in Nat /\ u0.left \in Seq(Halves) /\ D \in SUBSET Runs /\ u0.runs \in [D -> RunRec]
  BY <1>5, ScannerIs
<1>7. base \in 0..n - 1 /\ Scanned(text)[base].left = <<>> /\ Found(text, base) = found0
  BY <1>2 DEF LineTold
<1>8. found0 \in Seq(ObsEvent)
  BY <1>1, ScannedIs DEF Found, Scans
<1>9. /\ old \in RunRec /\ runs[e.run] \in RunRec
      /\ DOMAIN runs = D \cup {e.run} /\ \A q \in D \ {e.run} : runs[q] = u0.runs[q]
      /\ runs[e.run].events = old.events + 1 /\ runs[e.run].start = old.start /\ runs[e.run].end = n
      /\ runs[e.run].verdict = IF RunVerdict(e) THEN e.ts ELSE old.verdict
      /\ runs[e.run].last = IF e.kind = "event" THEN e.ts ELSE old.last
  <2> DEFINE line == u0.left
             rs == u0.runs
  <2>1. line \in Seq(Halves) /\ IsEvent(line) /\ base \in Nat /\ n \in Nat /\ D \in SUBSET Runs /\ rs \in [D -> RunRec]
    BY <1>1, <1>6
  <2>2. runs = OnLine(rs, line, base, n) /\ e = line[1].of /\ old = Old(D, rs, e, base)
    BY <1>3
  <2>3. \A q \in D \ {e.run} : rs[q] = u0.runs[q]
    OBVIOUS
  <2> HIDE DEF line, rs, base, D, e, old, runs
  <2>4. LET x == line[1].of
            was == Old(D, rs, x, base)
            now == OnLine(rs, line, base, n)
            new == now[x.run]
        IN /\ x \in ObsEvent /\ was \in RunRec /\ new \in RunRec
           /\ DOMAIN now = D \cup {x.run} /\ \A q \in D \ {x.run} : now[q] = rs[q]
           /\ new.events = was.events + 1 /\ new.start = was.start /\ new.end = n
           /\ new.verdict = IF RunVerdict(x) THEN x.ts ELSE was.verdict
           /\ new.last = IF x.kind = "event" THEN x.ts ELSE was.last
    BY <2>1, OnLineIs
  <2> QED
    BY <2>2, <2>3, <2>4
<1>10. /\ D = {ev.run : ev \in ToSet(found0)}
       /\ \A r \in D : Tells(u0.runs[r], OfRun(r, found0)) /\ Ranged(text, n - 1, r, u0.runs[r])
  BY <1>2 DEF RunsTold
<1>11. \A ev \in ToSet(found0) : \A m \in base + 1..Len(text) : text[m] # Newline => ev.ts < text[m].of.ts
  BY <1>2 DEF PastTold
<1>12. e.run \in Runs
  BY <1>4 DEF ObsEvent
<1>13. e.run \in D <=> OfRun(e.run, found0) # <<>>
  BY <1>1, <1>2, <1>12, RunsAre
<1> HIDE DEF e, old, runs, found0, D, base
<1>14. ToSet(found) = ToSet(found0) \cup {e}
  BY <1>3, <1>4, <1>8, AppendHolds
<1>15. PastTold(text, n)
  <2>1. n + 1..Len(text) \subseteq base + 1..Len(text)
    BY <1>1, <1>6, <1>7
  <2>2. \A ev \in ToSet(found) : \A m \in n + 1..Len(text) : text[m] # Newline => ev.ts < text[m].of.ts
    BY <1>4, <1>11, <1>14, <2>1
  <2> QED
    BY <1>3, <2>2 DEF PastTold
<1>16. DOMAIN runs = {ev.run : ev \in ToSet(found)}
  BY <1>9, <1>10, <1>14
<1>17. \A r \in Runs : OfRun(r, found) = IF e.run = r THEN Append(OfRun(r, found0), e) ELSE OfRun(r, found0)
  BY <1>3, <1>4, <1>8, OfRunIs
<1>18. Tells(runs[e.run], OfRun(e.run, found))
  <2> DEFINE own == OfRun(e.run, found0)
  <2>1. own \in Seq(ObsEvent)
    BY <1>8, <1>12, OfRunIs
  <2>2. ToSet(own) = {ev \in ToSet(found0) : ev.run = e.run}
    BY <1>8, <1>12, OfRunHolds
  <2>3. \A ev \in ToSet(own) : ev.ts < e.ts
    BY <1>4, <2>2
  <2>4. IF own = <<>> THEN old.events = 0 /\ old.last = e.ts /\ old.verdict = 0 ELSE Tells(old, own)
    <3>1. CASE own = <<>>
      <4>1. old = NewRun(e, base)
        BY <1>13, <3>1 DEF old, Old
      <4> QED
        BY <3>1, <4>1 DEF NewRun
    <3>2. CASE own # <<>>
      <4>1. e.run \in D /\ old = u0.runs[e.run]
        BY <1>13, <3>2 DEF old, Old
      <4> QED
        BY <1>10, <3>2, <4>1
    <3> QED
      BY <3>1, <3>2
  <2> HIDE DEF own
  <2>5. Tells(runs[e.run], Append(own, e))
    BY <1>4, <1>9, <2>1, <2>3, <2>4, OneMoreTold
  <2> QED
    BY <1>12, <1>17, <2>5 DEF own
<1>19. Ranged(text, n, e.run, runs[e.run])
  <2>1. /\ old.start \in 0..n - 1 /\ Scanned(text)[old.start].left = <<>>
        /\ OfRun(e.run, Found(text, old.start)) = <<>>
    <3>1. CASE e.run \in D
      <4>1. old = u0.runs[e.run] /\ Ranged(text, n - 1, e.run, old)
        BY <1>10, <3>1 DEF old, Old
      <4> QED
        BY <4>1 DEF Ranged
    <3>2. CASE e.run \notin D
      <4>1. old = NewRun(e, base)
        BY <3>2 DEF old, Old
      <4>2. old.start = base
        BY <4>1 DEF NewRun
      <4> QED
        BY <1>7, <1>13, <3>2, <4>2
    <3> QED
      BY <3>1, <3>2
  <2>2. old.start \in 0..n /\ n \in old.start..n
    BY <1>1, <2>1
  <2> QED
    BY <1>9, <2>1, <2>2 DEF Ranged
<1>20. ASSUME NEW q \in D, q # e.run PROVE Tells(runs[q], OfRun(q, found)) /\ Ranged(text, n, q, runs[q])
  <2>1. runs[q] = u0.runs[q] /\ q \in Runs
    BY <1>6, <1>9, <1>20
  <2>2. OfRun(q, found) = OfRun(q, found0)
    BY <1>17, <1>20, <2>1
  <2>3. Tells(runs[q], OfRun(q, found0)) /\ Ranged(text, n - 1, q, runs[q])
    BY <1>10, <2>1
  <2>4. runs[q].start \in 0..n - 1 /\ runs[q].end \in runs[q].start..n - 1
    BY <2>3 DEF Ranged
  <2>5. runs[q].start \in 0..n /\ runs[q].end \in runs[q].start..n
    BY <1>1, <2>4
  <2>6. OfRun(q, Found(text, runs[q].end)) = OfRun(q, found)
    BY <2>2, <2>3 DEF Ranged, found0
  <2>7. Ranged(text, n, q, runs[q])
    BY <2>3, <2>5, <2>6 DEF Ranged
  <2> QED
    BY <2>2, <2>3, <2>7
<1>21. \A r \in DOMAIN runs : Tells(runs[r], OfRun(r, found)) /\ Ranged(text, n, r, runs[r])
  BY <1>9, <1>18, <1>19, <1>20
<1>22. RunsTold(text, n)
  BY <1>16, <1>21 DEF RunsTold, runs
<1> QED
  BY <1>3, <1>15, <1>22 DEF Told

\* So it tells what the file says, at every byte.
LEMMA AllTold ==
  ASSUME NEW text \in Seq(Bytes), Written(text)
  PROVE  \A n \in 0..Len(text) : Told(text, n)
<1> DEFINE N == Len(text)
           Good == {n \in 0..N : Told(text, n)}
<1>1. N \in Nat
  OBVIOUS
<1>2. 0 \in Good
  <2>1. ReadTo(text, 0) = NoIndex /\ Scanned(text)[0] = NoScan /\ 0 \in 0..N
    BY <1>1, AtIs, ScannedIs
  <2>2. ReadTo(text, 0).base = 0 /\ ReadTo(text, 0).left = <<>> /\ ReadTo(text, 0).runs = <<>>
    BY <2>1 DEF NoIndex
  <2>3. Scanned(text)[0].left = <<>> /\ Found(text, 0) = <<>>
    BY <2>1 DEF NoScan, Found
  <2>4. ToSet(<<>>) = {} /\ 1..Len(<<>>) = {} /\ DOMAIN <<>> = {}
    BY DEF ToSet
  <2>5. LineTold(text, 0)
    BY <2>2, <2>3, <2>4 DEF LineTold
  <2>6. PastTold(text, 0)
    BY <2>3, <2>4 DEF PastTold
  <2>7. RunsTold(text, 0)
    BY <2>2, <2>3, <2>4 DEF RunsTold
  <2> QED
    BY <2>1, <2>5, <2>6, <2>7 DEF Told
<1>3. ASSUME NEW n \in 1..N, n - 1 \in Good PROVE n \in Good
  <2>1. Told(text, n - 1) /\ n \in 0..N
    BY <1>3
  <2>2. CASE text[n] # Newline
    BY <2>1, <2>2, HalfTold
  <2>3. CASE text[n] = Newline /\ IsEvent(ReadTo(text, n - 1).left)
    BY <2>1, <2>3, EventTold
  <2>4. CASE text[n] = Newline /\ ~IsEvent(ReadTo(text, n - 1).left)
    BY <2>1, <2>4, OtherTold
  <2> QED
    BY <2>1, <2>2, <2>3, <2>4
<1> HIDE DEF Good, N
<1>4. 0..N \subseteq Good
  BY <1>1, <1>2, <1>3, UpTo
<1> QED
  BY <1>4 DEF Good, N
\* A part that starts where a line does is read as the whole file is, for a run that has nothing before it.
LEMMA RangeRead ==
  ASSUME NEW text \in Seq(Bytes), NEW r \in Runs, NEW start \in 0..Len(text), NEW end \in start..Len(text),
         Scanned(text)[start].left = <<>>, OfRun(r, Found(text, start)) = <<>>
  PROVE  OfRun(r, EventsIn(SubSeq(text, start + 1, end))) = OfRun(r, Found(text, end))
<1> DEFINE part == SubSeq(text, start + 1, end)
           N == end - start
           v == Scanned(text)
           w == Scanned(part)
           Same(n) == w[n].left = v[start + n].left /\ OfRun(r, w[n].found) = OfRun(r, v[start + n].found)
           Good == {n \in 0..N : Same(n)}
<1>1. Len(text) \in Nat /\ N \in Nat /\ start \in Nat /\ end \in Nat
  OBVIOUS
<1>2. part \in Seq(Bytes) /\ Len(part) = N /\ \A n \in 1..N : part[n] = text[start + n]
  <2> DEFINE m == start + 1
  <2>1. \A i \in m..end : text[i] \in Bytes
    BY <1>1
  <2>2. m \in Int /\ end \in Int
    BY <1>1
  <2> HIDE DEF m
  <2>3. /\ SubSeq(text, m, end) \in Seq(Bytes)
        /\ Len(SubSeq(text, m, end)) = IF m <= end THEN end - m + 1 ELSE 0
        /\ \A k \in 1..end - m + 1 : SubSeq(text, m, end)[k] = text[m + k - 1]
    BY <2>1, <2>2, SubSeqProperties
  <2>4. (IF m <= end THEN end - m + 1 ELSE 0) = N /\ end - m + 1 = N /\ \A k \in 1..N : m + k - 1 = start + k
    BY <1>1 DEF m
  <2> QED
    BY <2>3, <2>4 DEF m
<1> HIDE DEF part
<1>3. /\ \A n \in 0..N : w[n] \in Scans
      /\ w[0] = NoScan /\ \A n \in 1..N : w[n] = ScanLine(w[n - 1], text[start + n])
  BY <1>2, ScannedIs
<1>4. /\ \A n \in 0..Len(text) : v[n] \in Scans
      /\ \A n \in 1..Len(text) : v[n] = ScanLine(v[n - 1], text[n])
  BY ScannedIs
<1>5. v[start].left = <<>> /\ OfRun(r, v[start].found) = <<>>
  BY DEF Found
<1> HIDE DEF v, w
<1>6. 0 \in Good
  <2>1. w[0].left = <<>> /\ w[0].found = <<>>
    BY <1>3 DEF NoScan
  <2>2. OfRun(r, <<>>) = <<>>
    BY OfRunIs
  <2>3. 0 \in 0..N /\ start + 0 = start
    BY <1>1
  <2> QED
    BY <1>5, <2>1, <2>2, <2>3
<1>7. ASSUME NEW n \in 1..N, n - 1 \in Good PROVE n \in Good
  <2> DEFINE k == start + n
             b == text[k]
             w0 == w[n - 1]
             v0 == v[k - 1]
  <2>1. k \in 1..Len(text) /\ k - 1 \in 0..Len(text) /\ start + (n - 1) = k - 1 /\ n - 1 \in 0..N /\ n \in 0..N
    BY <1>1
  <2>2. w0.left = v0.left /\ OfRun(r, w0.found) = OfRun(r, v0.found)
    BY <1>7, <2>1
  <2>3. w[n] = ScanLine(w0, b) /\ v[k] = ScanLine(v0, b)
    BY <1>3, <1>4, <2>1
  <2>4. w0 \in Scans /\ v0 \in Scans
    BY <1>3, <1>4, <2>1
  <2>5. w0.left \in Seq(Halves) /\ w0.found \in Seq(ObsEvent) /\ v0.found \in Seq(ObsEvent)
    BY <2>4 DEF Scans
  <2> HIDE DEF w0, v0, b
  <2>6. w[n].left = v[k].left /\ OfRun(r, w[n].found) = OfRun(r, v[k].found)
    <3>1. CASE b # Newline
      <4>1. w[n] = [w0 EXCEPT !.left = Append(w0.left, b)] /\ v[k] = [v0 EXCEPT !.left = Append(v0.left, b)]
        BY <2>3, <3>1 DEF ScanLine
      <4>2. w[n].left = Append(w0.left, b) /\ w[n].found = w0.found /\ v[k].left = Append(v0.left, b) /\ v[k].found = v0.found
        BY <2>4, <4>1 DEF Scans
      <4> QED
        BY <2>2, <4>2
    <3>2. CASE b = Newline
      <4>1. /\ w[n] = [left |-> <<>>, found |-> IF IsEvent(w0.left) THEN Append(w0.found, w0.left[1].of) ELSE w0.found]
            /\ v[k] = [left |-> <<>>, found |-> IF IsEvent(v0.left) THEN Append(v0.found, v0.left[1].of) ELSE v0.found]
        BY <2>3, <3>2 DEF ScanLine
      <4>2. w[n].left = <<>> /\ v[k].left = <<>>
        BY <4>1
      <4>3. CASE IsEvent(w0.left)
        <5> DEFINE e == w0.left[1].of
        <5>1. e \in ObsEvent
          BY <2>5, <4>3, EventIs
        <5>2. w[n].found = Append(w0.found, e) /\ v[k].found = Append(v0.found, e)
          BY <2>2, <4>1, <4>3
        <5> HIDE DEF e
        <5>3. OfRun(r, Append(w0.found, e)) = IF e.run = r THEN Append(OfRun(r, w0.found), e) ELSE OfRun(r, w0.found)
          BY <2>5, <5>1, OfRunIs
        <5>4. OfRun(r, Append(v0.found, e)) = IF e.run = r THEN Append(OfRun(r, v0.found), e) ELSE OfRun(r, v0.found)
          BY <2>5, <5>1, OfRunIs
        <5> QED
          BY <2>2, <4>2, <5>2, <5>3, <5>4
      <4>4. CASE ~IsEvent(w0.left)
        <5>1. w[n].found = w0.found /\ v[k].found = v0.found
          BY <2>2, <4>1, <4>4
        <5> QED
          BY <2>2, <4>2, <5>1
      <4> QED
        BY <4>3, <4>4
    <3> QED
      BY <3>1, <3>2
  <2> QED
    BY <2>1, <2>6
<1> HIDE DEF N, Good
<1>8. 0..N \subseteq Good
  BY <1>1, <1>6, <1>7, UpTo
<1>9. N \in 0..N /\ start + N = end
  BY <1>1 DEF N
<1>10. OfRun(r, w[N].found) = OfRun(r, v[end].found)
  BY <1>8, <1>9 DEF Good
<1> QED
  BY <1>2, <1>10 DEF EventsIn, Found, v, w, part
-----------------------------------------------------------------------------
\* What the index has of a file is what the file says, up to where it was read.

FilesWritten ==
  /\ bytes \in [Sinks -> Seq(Bytes)] /\ written \in Nat /\ emptied \in [Sinks -> Nat]
  /\ \A s \in Sinks : Written(bytes[s])
  /\ \A s \in Sinks : \A i \in 1..Len(bytes[s]) : bytes[s][i] # Newline => bytes[s][i].of.ts <= written

\* Of a file that was not emptied and grown again unseen.
ReadRight(s) ==
  /\ idx[s] \in Scanners
  /\ IF Len(bytes[s]) < Offset(idx[s]) THEN emptied[s] > 0 ELSE idx[s] = ReadTo(bytes[s], Offset(idx[s]))

ReadToEnd(s) == idx[s] = ReadTo(bytes[s], Len(bytes[s]))

IndexInv ==
  /\ FilesWritten
  /\ idx = [s \in Sinks |-> idx[s]]
  /\ blind \in SUBSET Sinks
  /\ \A s \in Sinks \ blind : ReadRight(s)
  /\ looked => merged = Merged(idx) /\ \A s \in Sinks \ blind : ReadToEnd(s)

\* With a line, or what a killed process left of one, a file is still in order.
LEMMA LineWritten ==
  ASSUME NEW text \in Seq(Bytes), Written(text), NEW k \in Nat,
         \A i \in 1..Len(text) : text[i] # Newline => text[i].of.ts <= k,
         NEW ev \in ObsEvent, ev.ts = k + 1,
         NEW more \in {<< Half(1, ev) >>, << Half(1, ev), Half(2, ev), Newline >>}
  PROVE  /\ more \in Seq(Bytes) /\ text \o more \in Seq(Bytes) /\ Written(text \o more)
         /\ Len(text \o more) \in Nat /\ Len(text) <= Len(text \o more)
         /\ \A i \in 1..Len(text \o more) : (text \o more)[i] # Newline => (text \o more)[i].of.ts <= k + 1
<1> DEFINE N == Len(text)
           K == Len(more)
           all == text \o more
<1>1. Half(1, ev) \in Halves /\ Half(2, ev) \in Halves
  BY DEF Halves
<1>2. Half(1, ev) \in Bytes /\ Half(2, ev) \in Bytes /\ Newline \in Bytes
  BY <1>1 DEF Bytes
<1> DEFINE h1 == Half(1, ev)
           h2 == Half(2, ev)
<1>3. h1 # Newline /\ h2 # Newline /\ h1.of = ev /\ h2.of = ev /\ h1.half = 1 /\ h2.half = 2
  <2>1. h1 # Newline /\ h2 # Newline
    BY <1>1, HalfIs
  <2> QED
    BY <2>1 DEF Half
<1> HIDE DEF h1, h2
<1>4. more \in {<<h1>>, <<h1, h2, Newline>>}
  BY DEF h1, h2
<1>5. more \in Seq(Bytes) /\ K \in Nat /\ \A i \in 1..K : more[i] \in Bytes
  <2>1. h1 \in Bytes /\ h2 \in Bytes
    BY <1>2 DEF h1, h2
  <2>2. Newline \in Bytes
    BY <1>2
  <2>3. <<h1>> \in Seq(Bytes) /\ <<h1, h2, Newline>> \in Seq(Bytes)
    BY <2>1, <2>2
  <2>4. more \in Seq(Bytes)
    BY <1>4, <2>3
  <2> QED
    BY <2>4
<1>6. ASSUME NEW i \in 1..K, more[i] # Newline PROVE more[i].of.ts = k + 1 /\ more[i].half = i
  <2>1. CASE more = <<h1>>
    <3>1. i = 1 /\ more[1] = h1
      BY <2>1
    <3> QED
      BY <1>3, <3>1
  <2>2. CASE more = <<h1, h2, Newline>>
    <3>1. more[1] = h1 /\ more[2] = h2 /\ more[3] = Newline /\ K = 3
      BY <2>2
    <3>2. i \in 1..3
      BY <3>1
    <3>3. i = 1 \/ i = 2
      BY <1>6, <3>1, <3>2
    <3> QED
      BY <1>3, <3>1, <3>3
  <2> QED
    BY <1>4, <2>1, <2>2
<1>7. /\ N \in Nat /\ all \in Seq(Bytes) /\ Len(all) = N + K
      /\ \A i \in 1..N + K : all[i] = IF i <= N THEN text[i] ELSE more[i - N]
  BY <1>5, ConcatProperties
<1>8. \A i \in 1..N : text[i] \in Bytes /\ (text[i] # Newline => text[i].of.ts <= k)
  OBVIOUS
<1>9. \A i, j \in 1..N : i < j /\ text[i] # Newline /\ text[j] # Newline => Before(text[i], text[j])
  BY DEF Written
<1> HIDE DEF N, K, all
<1>10. ASSUME NEW i \in 1..N + K, NEW j \in 1..N + K, i < j, all[i] # Newline, all[j] # Newline
       PROVE  Before(all[i], all[j])
  <2>1. CASE j <= N
    <3>1. i \in 1..N /\ j \in 1..N /\ i <= N
      BY <1>7, <1>10, <2>1
    <3>2. all[i] = text[i] /\ all[j] = text[j]
      BY <1>7, <2>1, <3>1
    <3> QED
      BY <1>9, <1>10, <3>1, <3>2
  <2>2. CASE ~(j <= N)
    <3>1. j - N \in 1..K
      BY <1>5, <1>7, <2>2
    <3>2. all[j] = more[j - N]
      BY <1>7, <2>2
    <3>3. all[j].of.ts = k + 1 /\ all[j].half = j - N
      BY <1>6, <1>10, <3>1, <3>2
    <3>4. CASE i <= N
      <4>1. i \in 1..N
        BY <1>7, <3>4
      <4>2. all[i] = text[i]
        BY <1>7, <3>4
      <4>3. all[i].of.ts <= k
        BY <1>8, <1>10, <4>1, <4>2
      <4>4. all[i].of.ts \in Nat
        <5>1. text[i] \in Bytes
          BY <1>8, <4>1
        <5>2. text[i] \in Halves
          BY <1>10, <4>2, <5>1 DEF Bytes
        <5>3. text[i].of \in ObsEvent
          BY <5>2, HalfIs
        <5>4. text[i].of.ts \in Nat \ {0}
          BY <5>3 DEF ObsEvent
        <5> QED
          BY <4>2, <5>4
      <4> QED
        BY <3>3, <4>3, <4>4 DEF Before
    <3>5. CASE ~(i <= N)
      <4>1. i - N \in 1..K /\ i - N < j - N
        BY <1>5, <1>7, <1>10, <3>5
      <4>2. all[i] = more[i - N]
        BY <1>7, <3>5
      <4>3. all[i].of.ts = k + 1 /\ all[i].half = i - N
        BY <1>6, <1>10, <4>1, <4>2
      <4> QED
        BY <3>3, <4>1, <4>3 DEF Before
    <3> QED
      BY <3>4, <3>5
  <2> QED
    BY <2>1, <2>2
<1>11. ASSUME NEW i \in 1..N + K, all[i] # Newline PROVE all[i].of.ts <= k + 1
  <2>1. CASE i <= N
    <3>1. i \in 1..N
      BY <1>7, <2>1
    <3>2. all[i] = text[i]
      BY <1>7, <2>1
    <3>3. all[i].of.ts <= k
      BY <1>8, <1>11, <3>1, <3>2
    <3>4. all[i].of.ts \in Nat
      <4>1. text[i] \in Bytes
        BY <1>8, <3>1
      <4>2. text[i] \in Halves
        BY <1>11, <3>2, <4>1 DEF Bytes
      <4>3. text[i].of \in ObsEvent
        BY <4>2, HalfIs
      <4>4. text[i].of.ts \in Nat \ {0}
        BY <4>3 DEF ObsEvent
      <4> QED
        BY <3>2, <4>4
    <3> QED
      BY <3>3, <3>4
  <2>2. CASE ~(i <= N)
    <3>1. i - N \in 1..K
      BY <1>5, <1>7, <2>2
    <3>2. all[i] = more[i - N]
      BY <1>7, <2>2
    <3>3. all[i].of.ts = k + 1
      BY <1>6, <1>11, <3>1, <3>2
    <3> QED
      BY <3>3
  <2> QED
    BY <2>1, <2>2
<1>12. Len(all) \in Nat /\ N <= Len(all)
  BY <1>5, <1>7
<1>13. Written(all)
  BY <1>7, <1>10 DEF Written
<1>14. \A i \in 1..Len(all) : all[i] # Newline => all[i].of.ts <= k + 1
  BY <1>7, <1>11
<1> QED
  BY <1>5, <1>7, <1>12, <1>13, <1>14 DEF all, N
\* The server looks at a file.
LEMMA LookReads ==
  ASSUME IndexInv, NEW s \in Sinks, s \notin blind
  PROVE  Indexed(s) = ReadTo(bytes[s], Len(bytes[s]))
<1> DEFINE text == bytes[s]
           sc == idx[s]
           N == Len(text)
<1>1. text \in Seq(Bytes) /\ N \in Nat
  BY DEF IndexInv, FilesWritten
<1>2. sc \in Scanners /\ IF N < Offset(sc) THEN emptied[s] > 0 ELSE sc = ReadTo(text, Offset(sc))
  BY DEF IndexInv, ReadRight
<1>3. Offset(sc) \in Nat
  <2>1. sc.base \in Nat /\ Len(sc.left) \in Nat
    BY <1>2, ScannerIs
  <2> QED
    BY <2>1 DEF Offset
<1>4. Indexed(s) = Feed(IF N < Offset(sc) THEN NoIndex ELSE sc, text)
  BY DEF Indexed
<1> HIDE DEF text, sc
<1>5. CASE N < Offset(sc)
  <2>1. 0 \in 0..Len(text) /\ ReadTo(text, 0) = NoIndex
    BY <1>1, AtIs
  <2>2. Feed(ReadTo(text, 0), text) = ReadTo(text, N)
    BY <1>1, <2>1, FeedIs
  <2> QED
    BY <1>4, <1>5, <2>1, <2>2 DEF text
<1>6. CASE ~(N < Offset(sc))
  <2> DEFINE from == Offset(sc)
  <2>1. from \in 0..Len(text)
    BY <1>1, <1>3, <1>6
  <2>2. Feed(ReadTo(text, from), text) = ReadTo(text, N)
    BY <1>1, <2>1, FeedIs
  <2> QED
    BY <1>2, <1>4, <1>6, <2>2 DEF text
<1> QED
  BY <1>5, <1>6

\* The invariant holds at the start.
LEMMA InitIndexed == IndexInit => IndexInv
<1> SUFFICES ASSUME IndexInit PROVE IndexInv
  OBVIOUS
<1>1. FilesWritten
  <2>1. <<>> \in Seq(Bytes) /\ Len(<<>>) = 0 /\ 1..Len(<<>>) = {}
    OBVIOUS
  <2>2. \A s \in Sinks : bytes[s] = <<>>
    BY DEF IndexInit
  <2>3. Written(<<>>)
    BY <2>1 DEF Written
  <2>4. bytes \in [Sinks -> Seq(Bytes)] /\ written \in Nat /\ emptied \in [Sinks -> Nat]
    BY <2>1 DEF IndexInit
  <2> QED
    BY <2>1, <2>2, <2>3, <2>4 DEF FilesWritten
<1>2. ASSUME NEW s \in Sinks PROVE ReadRight(s)
  <2>1. idx[s] = NoIndex /\ bytes[s] = <<>>
    BY DEF IndexInit
  <2>2. <<>> \in Seq(Bytes) /\ Len(<<>>) = 0
    OBVIOUS
  <2>3. ReadTo(<<>>, 0) = NoIndex
    BY <2>2, AtIs
  <2> QED
    BY <2>1, <2>2, <2>3, NothingRead DEF ReadRight
<1> QED
  BY <1>1, <1>2 DEF IndexInv, IndexInit

\* And every step keeps it.
LEMMA NextIndexed == IndexInv /\ [IndexNext]_indexVars => IndexInv'
<1> SUFFICES ASSUME IndexInv, [IndexNext]_indexVars PROVE IndexInv'
  OBVIOUS
<1>1. FilesWritten /\ blind \in SUBSET Sinks
  BY DEF IndexInv
<1>2. \A s \in Sinks : bytes[s] \in Seq(Bytes) /\ Len(bytes[s]) \in Nat
  BY <1>1 DEF FilesWritten
<1>3. CASE EnsureRunIndex
  <2>1. /\ idx' = [s \in Sinks |-> Indexed(s)] /\ merged' = Merged(idx') /\ looked' = TRUE
        /\ bytes' = bytes /\ written' = written /\ emptied' = emptied /\ blind' = blind
    BY <1>3 DEF EnsureRunIndex
  <2>2. FilesWritten'
    BY <1>1, <2>1 DEF FilesWritten
  <2>3. ASSUME NEW s \in Sinks, s \notin blind PROVE ReadRight(s)' /\ ReadToEnd(s)'
    <3>1. idx'[s] = ReadTo(bytes[s], Len(bytes[s]))
      BY <2>1, <2>3, LookReads
    <3>2. Len(bytes[s]) \in 0..Len(bytes[s])
      BY <1>2
    <3>3. idx'[s] \in Scanners /\ Offset(idx'[s]) = Len(bytes[s])
      BY <1>2, <3>1, <3>2, AtIs
    <3>4. ~(Len(bytes[s]) < Offset(idx'[s]))
      BY <1>2, <3>3
    <3>5. Offset(idx[s])' = Offset(idx'[s])
      BY DEF Offset
    <3> QED
      BY <2>1, <3>1, <3>3, <3>4, <3>5 DEF ReadRight, ReadToEnd, ReadTo
  <2>4. idx' = [s \in Sinks |-> idx'[s]]
    BY <2>1
  <2>5. Merged(idx)' = Merged(idx')
    BY DEF Merged, Holders, LaterVerdict
  <2> QED
    BY <1>1, <2>1, <2>2, <2>3, <2>4, <2>5 DEF IndexInv
<1>4. CASE ForgetIndex
  <2>1. /\ idx' = [s \in Sinks |-> NoIndex] /\ blind' = {} /\ looked' = FALSE
        /\ bytes' = bytes /\ written' = written /\ emptied' = emptied
    BY <1>4 DEF ForgetIndex
  <2>2. FilesWritten'
    BY <1>1, <2>1 DEF FilesWritten
  <2>3. ASSUME NEW s \in Sinks PROVE ReadRight(s)'
    <3>1. idx'[s] = NoIndex /\ NoIndex \in Scanners /\ Offset(NoIndex) = 0
      BY <2>1, NothingRead
    <3>2. ReadTo(bytes[s], 0) = NoIndex /\ ~(Len(bytes[s]) < 0)
      BY <1>2, AtIs
    <3>3. Offset(idx[s])' = Offset(idx'[s])
      BY DEF Offset
    <3> QED
      BY <2>1, <3>1, <3>2, <3>3 DEF ReadRight, ReadTo
  <2> QED
    BY <2>1, <2>2, <2>3 DEF IndexInv
<1>5. ASSUME NEW s \in Sinks, AppendTo(s) PROVE IndexInv'
  <2> DEFINE text == bytes[s]
             N == Len(text)
             off == Offset(idx[s])
  <2>1. PICK r \in Runs, k \in Kinds :
          LET ev == [ts |-> written + 1, run |-> r, kind |-> k]
              more == IF k = "torn" THEN << Half(1, ev) >> ELSE << Half(1, ev), Half(2, ev), Newline >>
          IN /\ bytes' = [bytes EXCEPT ![s] = @ \o more]
             /\ blind' = IF emptied[s] > 0 /\ Len(bytes[s]) < Offset(idx[s]) /\ Offset(idx[s]) <= Len(bytes'[s])
                         THEN blind \cup {s} ELSE blind
    BY <1>5 DEF AppendTo
  <2> DEFINE ev == [ts |-> written + 1, run |-> r, kind |-> k]
             more == IF k = "torn" THEN << Half(1, ev) >> ELSE << Half(1, ev), Half(2, ev), Newline >>
             all == text \o more
             M == Len(all)
  <2>2. written' = written + 1 /\ looked' = FALSE /\ idx' = idx /\ emptied' = emptied
    BY <1>5 DEF AppendTo
  <2>3. bytes' = [bytes EXCEPT ![s] = all]
    BY <2>1
  <2>4. blind' = IF emptied[s] > 0 /\ N < off /\ off <= Len(bytes'[s]) THEN blind \cup {s} ELSE blind
    BY <2>1
  <2>5. ev \in ObsEvent /\ ev.ts = written + 1
    BY <1>1 DEF ObsEvent, FilesWritten
  <2>6. more \in {<< Half(1, ev) >>, << Half(1, ev), Half(2, ev), Newline >>}
    OBVIOUS
  <2>7. text \in Seq(Bytes) /\ Written(text) /\ written \in Nat /\ \A i \in 1..Len(text) : text[i] # Newline => text[i].of.ts <= written
    BY <1>1 DEF FilesWritten
  <2> HIDE DEF ev, more, text
  <2>8. /\ more \in Seq(Bytes) /\ all \in Seq(Bytes) /\ Written(all) /\ M \in Nat /\ N <= M
        /\ \A i \in 1..M : all[i] # Newline => all[i].of.ts <= written + 1
    BY <2>5, <2>6, <2>7, LineWritten
  <2>9. \A n \in 0..N : ReadTo(all, n) = ReadTo(text, n)
    BY <2>7, <2>8, MoreIsWritten
  <2> HIDE DEF all, M
  <2>10. bytes'[s] = all /\ \A t \in Sinks \ {s} : bytes'[t] = bytes[t]
    BY <1>1, <2>3 DEF FilesWritten
  <2>11. FilesWritten'
    <3>1. bytes' \in [Sinks -> Seq(Bytes)] /\ written' \in Nat
      BY <1>1, <2>2, <2>3, <2>8 DEF FilesWritten
    <3>2. ASSUME NEW t \in Sinks
          PROVE  Written(bytes'[t]) /\ \A i \in 1..Len(bytes'[t]) : bytes'[t][i] # Newline => bytes'[t][i].of.ts <= written'
      <4>1. CASE t = s
        BY <2>2, <2>8, <2>10, <4>1 DEF M
      <4>2. CASE t # s
        <5>1. bytes'[t] = bytes[t]
          BY <2>10, <4>2
        <5>2. Written(bytes[t]) /\ bytes[t] \in Seq(Bytes) /\ \A i \in 1..Len(bytes[t]) : bytes[t][i] # Newline => bytes[t][i].of.ts <= written
          BY <1>1 DEF FilesWritten
        <5>3. ASSUME NEW i \in 1..Len(bytes[t]), bytes[t][i] # Newline PROVE bytes[t][i].of.ts <= written'
          <6> DEFINE b == bytes[t][i]
          <6>1. b \in Bytes /\ b.of.ts <= written /\ b # Newline
            BY <5>2, <5>3
          <6> HIDE DEF b
          <6>2. b \in Halves
            BY <6>1 DEF Bytes
          <6>3. b.of \in ObsEvent
            BY <6>2, HalfIs
          <6>4. b.of.ts \in Nat \ {0}
            BY <6>3 DEF ObsEvent
          <6>5. b.of.ts <= written'
            BY <2>2, <2>7, <6>1, <6>4
          <6> QED
            BY <6>5 DEF b
        <5> QED
          BY <5>1, <5>2, <5>3
      <4> QED
        BY <4>1, <4>2
    <3>3. emptied' \in [Sinks -> Nat]
      BY <1>1, <2>2 DEF FilesWritten
    <3>4. \A t \in Sinks : Written(bytes[t])'
      BY <3>2 DEF Written
    <3> QED
      BY <3>1, <3>2, <3>3, <3>4 DEF FilesWritten
  <2>12. ASSUME NEW t \in Sinks, t \notin blind' PROVE ReadRight(t)'
    <3>1. t \notin blind
      BY <2>4, <2>12
    <3>2. ReadRight(t)
      BY <3>1 DEF IndexInv
    <3>3. Offset(idx[t])' = Offset(idx[t])
      BY <2>2 DEF Offset
    <3>4. CASE t # s
      BY <2>2, <2>10, <3>2, <3>3, <3>4 DEF ReadRight, ReadTo
    <3>5. CASE t = s
      <4>1. idx[s] \in Scanners /\ IF N < off THEN emptied[s] > 0 ELSE idx[s] = ReadTo(text, off)
        BY <3>2, <3>5 DEF ReadRight, text
      <4>2. off \in Nat
        <5>1. idx[s].base \in Nat /\ Len(idx[s].left) \in Nat
          BY <4>1, ScannerIs
        <5> QED
          BY <5>1 DEF Offset
      <4>3. IF M < off THEN emptied[s] > 0 ELSE idx[s] = ReadTo(all, off)
        <5> HIDE DEF off
        <5>1. CASE N < off
          <6>1. ~(off <= M)
            BY <2>4, <2>10, <2>12, <3>5, <4>1, <5>1 DEF M
          <6>2. M < off
            BY <2>8, <4>2, <6>1
          <6> QED
            BY <4>1, <5>1, <6>2
        <5>2. CASE ~(N < off)
          <6> DEFINE L == N
          <6>1. L \in Nat /\ L = N
            BY <2>7
          <6> HIDE DEF L
          <6>2. off \in 0..L /\ ~(M < off)
            BY <2>8, <4>2, <5>2, <6>1
          <6> QED
            BY <2>9, <4>1, <5>2, <6>1, <6>2
        <5> QED
          BY <5>1, <5>2
      <4> QED
        BY <2>2, <2>10, <3>3, <3>5, <4>1, <4>3 DEF ReadRight, ReadTo, M
    <3> QED
      BY <3>4, <3>5
  <2>13. blind' \in SUBSET Sinks
    BY <1>1, <2>4
  <2>14. idx' = [t \in Sinks |-> idx'[t]]
    BY <2>2 DEF IndexInv
  <2> QED
    BY <2>2, <2>11, <2>12, <2>13, <2>14 DEF IndexInv
<1>6. ASSUME NEW s \in Sinks, Empty(s) PROVE IndexInv'
  <2>1. /\ bytes' = [bytes EXCEPT ![s] = <<>>] /\ emptied' = [emptied EXCEPT ![s] = @ + 1]
        /\ looked' = FALSE /\ written' = written /\ idx' = idx /\ blind' = blind
    BY <1>6 DEF Empty
  <2>2. bytes'[s] = <<>> /\ emptied'[s] = emptied[s] + 1 /\ emptied[s] \in Nat
        /\ \A t \in Sinks \ {s} : bytes'[t] = bytes[t] /\ emptied'[t] = emptied[t]
    BY <1>1, <2>1 DEF FilesWritten
  <2>3. <<>> \in Seq(Bytes) /\ Len(<<>>) = 0 /\ 1..Len(<<>>) = {}
    OBVIOUS
  <2>4. FilesWritten'
    <3>1. bytes' \in [Sinks -> Seq(Bytes)] /\ emptied' \in [Sinks -> Nat] /\ written' \in Nat
      BY <1>1, <2>1, <2>3 DEF FilesWritten
    <3>2. Written(<<>>)
      BY <2>3 DEF Written
    <3>3. ASSUME NEW t \in Sinks
          PROVE  Written(bytes'[t]) /\ \A i \in 1..Len(bytes'[t]) : bytes'[t][i] # Newline => bytes'[t][i].of.ts <= written'
      <4>1. CASE t = s
        BY <2>2, <2>3, <3>2, <4>1
      <4>2. CASE t # s
        BY <1>1, <2>1, <2>2, <4>2 DEF FilesWritten
      <4> QED
        BY <4>1, <4>2
    <3>4. \A t \in Sinks : Written(bytes[t])'
      BY <3>3 DEF Written
    <3> QED
      BY <3>1, <3>3, <3>4 DEF FilesWritten
  <2>5. ASSUME NEW t \in Sinks, t \notin blind PROVE ReadRight(t)'
    <3>1. ReadRight(t)
      BY <2>5 DEF IndexInv
    <3>2. Offset(idx[t])' = Offset(idx[t])
      BY <2>1 DEF Offset
    <3>3. CASE t # s
      BY <2>1, <2>2, <3>1, <3>2, <3>3 DEF ReadRight, ReadTo
    <3>4. CASE t = s
      <4> DEFINE off == Offset(idx[s])
      <4>1. idx[s] \in Scanners /\ IF Len(bytes[s]) < off THEN emptied[s] > 0 ELSE idx[s] = ReadTo(bytes[s], off)
        BY <3>1, <3>4 DEF ReadRight
      <4>2. off \in Nat
        <5>1. idx[s].base \in Nat /\ Len(idx[s].left) \in Nat
          BY <4>1, ScannerIs
        <5> QED
          BY <5>1 DEF Offset
      <4> HIDE DEF off
      <4>3. IF 0 < off THEN emptied'[s] > 0 ELSE idx[s] = ReadTo(<<>>, off)
        <5>1. CASE off = 0
          <6>1. ~(Len(bytes[s]) < off)
            BY <1>2, <5>1
          <6>2. ReadTo(bytes[s], 0) = NoIndex /\ ReadTo(<<>>, 0) = NoIndex
            BY <1>2, <2>3, AtIs
          <6> QED
            BY <4>1, <5>1, <6>1, <6>2
        <5>2. CASE off # 0
          BY <2>2, <4>2, <5>2
        <5> QED
          BY <5>1, <5>2
      <4> QED
        BY <2>1, <2>2, <2>3, <3>2, <3>4, <4>1, <4>3 DEF ReadRight, ReadTo, off
    <3> QED
      BY <3>3, <3>4
  <2>6. idx' = [t \in Sinks |-> idx'[t]]
    BY <2>1 DEF IndexInv
  <2> QED
    BY <1>1, <2>1, <2>4, <2>5, <2>6 DEF IndexInv
<1>7. CASE UNCHANGED indexVars
  <2>1. /\ bytes' = bytes /\ written' = written /\ idx' = idx /\ merged' = merged
        /\ emptied' = emptied /\ blind' = blind /\ looked' = looked
    BY <1>7 DEF indexVars
  <2>2. ASSUME NEW s \in Sinks PROVE (ReadRight(s) => ReadRight(s)') /\ (ReadToEnd(s) => ReadToEnd(s)')
    BY <2>1 DEF ReadRight, ReadToEnd, Offset, ReadTo
  <2>3. FilesWritten'
    BY <1>1, <2>1 DEF FilesWritten
  <2>4. Merged(idx)' = Merged(idx)
    BY <2>1 DEF Merged, Holders, LaterVerdict
  <2> QED
    BY <1>1, <2>1, <2>2, <2>3, <2>4 DEF IndexInv
<1> QED
  BY <1>3, <1>4, <1>5, <1>6, <1>7 DEF IndexNext
-----------------------------------------------------------------------------
\* So what the server knows after it looked is what the files say.

\* What the index of a file that was read to its end has of it.
LEMMA FileKnown ==
  ASSUME IndexInv, looked, NEW s \in Sinks, s \notin blind
  PROVE  /\ All(s) \in Seq(ObsEvent)
         /\ DOMAIN idx[s].runs \in SUBSET Runs
         /\ DOMAIN idx[s].runs = {ev.run : ev \in ToSet(All(s))}
         /\ \A r \in DOMAIN idx[s].runs :
              /\ idx[s].runs[r] \in RunRec
              /\ Tells(idx[s].runs[r], OfRun(r, All(s)))
              /\ Ranged(bytes[s], Len(bytes[s]), r, idx[s].runs[r])
         /\ \A ev \in ToSet(All(s)) : ev \in ObsEvent /\ ev.ts <= written
<1> DEFINE text == bytes[s]
           N == Len(text)
<1>1. /\ text \in Seq(Bytes) /\ N \in Nat /\ Written(text) /\ written \in Nat
      /\ \A i \in 1..N : text[i] # Newline => text[i].of.ts <= written
  BY DEF IndexInv, FilesWritten
<1>2. idx[s] = ReadTo(text, N)
  BY DEF IndexInv, ReadToEnd
<1>3. All(s) = Found(text, N)
  BY DEF All, EventsIn, Found
<1> HIDE DEF text
<1>4. Told(text, N) /\ ReadTo(text, N) \in Scanners
  BY <1>1, AllTold, AtIs
<1>5. Found(text, N) \in Seq(ObsEvent)
  BY <1>1, ScannedIs DEF Found, Scans
<1>6. DOMAIN idx[s].runs \in SUBSET Runs /\ idx[s].runs \in [DOMAIN idx[s].runs -> RunRec]
  BY <1>2, <1>4, ScannerIs
<1>7. /\ DOMAIN idx[s].runs = {ev.run : ev \in ToSet(All(s))}
      /\ \A r \in DOMAIN idx[s].runs : Tells(idx[s].runs[r], OfRun(r, All(s))) /\ Ranged(text, N, r, idx[s].runs[r])
  BY <1>2, <1>3, <1>4 DEF Told, RunsTold
<1>8. \A r \in DOMAIN idx[s].runs : idx[s].runs[r] \in RunRec
  BY <1>6
<1>9. \A ev \in ToSet(Found(text, N)) : ev \in ObsEvent /\ ev.ts <= written
  <2> DEFINE Good == {n \in 0..N : \A ev \in ToSet(Found(text, n)) : ev \in ObsEvent /\ ev.ts <= written}
  <2>1. 0 \in Good
    <3>1. Found(text, 0) = <<>> /\ ToSet(<<>>) = {}
      BY <1>1, ScannedIs DEF Found, NoScan, ToSet
    <3> QED
      BY <1>1, <3>1
  <2>2. ASSUME NEW n \in 1..N, n - 1 \in Good PROVE n \in Good
    <3>1. n \in 0..N /\ n - 1 \in 0..N
      BY <1>1
    <3>2. \A ev \in ToSet(Found(text, n - 1)) : ev \in ObsEvent /\ ev.ts <= written
      BY <2>2
    <3>3. CASE text[n] = Newline /\ IsEvent(ReadTo(text, n - 1).left)
      <4> DEFINE line == ReadTo(text, n - 1).left
                 e == line[1].of
      <4>1. Told(text, n - 1)
        BY <1>1, <3>1, AllTold
      <4>2. Found(text, n) = Append(Found(text, n - 1), e)
        BY <1>1, <3>3, <4>1, LineEnds
      <4>3. e \in ObsEvent
        BY <1>1, <3>3, <4>1, EventIsNew
      <4>4. Found(text, n - 1) \in Seq(ObsEvent)
        BY <1>1, <3>1, ScannedIs DEF Found, Scans
      <4>5. ReadTo(text, n - 1) \in Scanners /\ Offset(ReadTo(text, n - 1)) = n - 1
        BY <1>1, <3>1, AtIs
      <4> DEFINE base == ReadTo(text, n - 1).base
      <4>6. line \in Seq(Halves) /\ base \in Nat
        BY <4>5, ScannerIs
      <4>7. Len(line) = 2 /\ line[1] \in Halves
        BY <3>3, <4>6, EventIs
      <4>8. line[1] = text[base + 1]
        BY <4>1, <4>7 DEF Told, LineTold
      <4>9. base + 2 = n - 1
        BY <4>5, <4>7 DEF Offset
      <4> HIDE DEF base, line, N
      <4>10. base + 1 \in 1..N
        BY <1>1, <4>6, <4>9
      <4>11. line[1] # Newline
        BY <4>7, HalfIs
      <4>12. e.ts <= written
        BY <1>1, <4>8, <4>10, <4>11
      <4> HIDE DEF e
      <4>13. ToSet(Found(text, n)) = ToSet(Found(text, n - 1)) \cup {e}
        BY <4>2, <4>3, <4>4, AppendHolds
      <4> QED
        BY <3>1, <3>2, <4>3, <4>12, <4>13
    <3>4. CASE text[n] = Newline /\ ~IsEvent(ReadTo(text, n - 1).left)
      <4>1. Told(text, n - 1)
        BY <1>1, <3>1, AllTold
      <4>2. Found(text, n) = Found(text, n - 1)
        BY <1>1, <3>4, <4>1, LineEnds
      <4> QED
        BY <3>1, <3>2, <4>2
    <3>5. CASE text[n] # Newline
      <4>1. Scanned(text)[n] = ScanLine(Scanned(text)[n - 1], text[n]) /\ Scanned(text)[n - 1] \in Scans
        BY <1>1, <3>1, ScannedIs
      <4> DEFINE acc == Scanned(text)[n - 1]
      <4>2. Scanned(text)[n] = [acc EXCEPT !.left = Append(@, text[n])] /\ acc \in Scans
        BY <3>5, <4>1 DEF ScanLine
      <4>3. Found(text, n - 1) = acc.found
        BY DEF Found
      <4> HIDE DEF acc
      <4>4. Scanned(text)[n].found = acc.found
        BY <4>2 DEF Scans
      <4>5. Found(text, n) = Found(text, n - 1)
        BY <4>3, <4>4 DEF Found
      <4> QED
        BY <3>1, <3>2, <4>5
    <3> QED
      BY <3>3, <3>4, <3>5
  <2> HIDE DEF Good, N
  <2>3. 0..N \subseteq Good
    BY <1>1, <2>1, <2>2, UpTo
  <2>4. N \in Good
    BY <1>1, <2>3
  <2> QED
    BY <2>4 DEF Good
<1> QED
  BY <1>3, <1>5, <1>6, <1>7, <1>8, <1>9 DEF text

\* What is known of each run in it is what the file says.
LEMMA RunKnown ==
  ASSUME IndexInv, looked, NEW s \in Sinks, s \notin blind, NEW r \in DOMAIN idx[s].runs
  PROVE  Known(s, r)
<1> DEFINE own == OfRun(r, All(s))
           run == idx[s].runs[r]
<1>1. /\ All(s) \in Seq(ObsEvent) /\ r \in Runs /\ Tells(run, own)
      /\ \A ev \in ToSet(All(s)) : ev \in ObsEvent
  BY FileKnown
<1>2. own \in Seq(ObsEvent) /\ ToSet(own) = {ev \in ToSet(All(s)) : ev.run = r}
  BY <1>1, OfRunIs, OfRunHolds
<1> HIDE DEF own, run
<1>3. own # <<>> /\ run.events = Len(own) /\ Greatest(run.last, LastTimes(own)) /\ Greatest(run.verdict, VerdictTimes(own))
  BY <1>1 DEF Tells
<1>4. ASSUME NEW ev \in ToSet(own) PROVE ev.ts \in Nat
  <2>1. ev \in ObsEvent
    BY <1>1, <1>2
  <2>2. ev.ts \in Nat \ {0}
    BY <2>1 DEF ObsEvent
  <2> QED
    BY <2>2
<1>5. own[1] \in ToSet(own)
  <2>1. 1 \in DOMAIN own
    BY <1>2, <1>3, EmptySeq
  <2> QED
    BY <2>1 DEF ToSet
<1>6. LastTimes(own) \in SUBSET Nat
  BY <1>4, <1>5 DEF LastTimes, Times
<1>7. VerdictTimes(own) \in SUBSET Nat
  BY <1>4 DEF VerdictTimes, Times
<1>8. run.last = Max(LastTimes(own)) /\ run.verdict = Max(VerdictTimes(own))
  BY <1>3, <1>6, <1>7, GreatestIs
<1> QED
  BY <1>3, <1>8 DEF Known, own, run, LastTimes, VerdictTimes

\* A run is read from a file that holds it, and all of it in that file is read.
LEMMA MergedReads ==
  ASSUME IndexInv, looked, blind = {}, NEW r \in DOMAIN merged
  PROVE  /\ r \in Runs /\ merged[r].sink \in Holders(idx, r)
         /\ merged[r].verdict = LaterVerdict(idx, r, merged[r].sink)
         /\ ReadRunEvents(r) = OfRun(r, All(merged[r].sink))
<1> DEFINE H == Holders(idx, r)
           Events(s) == idx[s].runs[r].events
           main == CHOOSE s \in H : \A t \in H : idx[t].runs[r].events <= idx[s].runs[r].events
<1>1. merged = Merged(idx)
  BY DEF IndexInv
<1>2. r \in Runs /\ H # {}
  BY <1>1 DEF Merged
<1>3. merged[r] = [sink |-> main, verdict |-> LaterVerdict(idx, r, main)]
  BY <1>1 DEF Merged
<1>4. merged[r].sink = main /\ merged[r].verdict = LaterVerdict(idx, r, main)
  BY <1>3
<1>5. H \subseteq Sinks /\ \A s \in H : r \in DOMAIN idx[s].runs
  BY DEF Holders
<1>6. written \in Nat
  BY DEF IndexInv, FilesWritten
<1>7. ASSUME NEW s \in H PROVE Events(s) \in 0..written
  <2>1. s \in Sinks /\ s \notin blind /\ r \in DOMAIN idx[s].runs
    BY <1>5
  <2>2. idx[s].runs[r] \in RunRec /\ Tells(idx[s].runs[r], OfRun(r, All(s)))
    BY <2>1, FileKnown
  <2>3. All(s) \in Seq(ObsEvent) /\ \A ev \in ToSet(All(s)) : ev \in ObsEvent /\ ev.ts <= written
    BY <2>1, FileKnown
  <2>4. PICK ev \in ToSet(OfRun(r, All(s))) : Events(s) <= ev.ts
    BY <2>2 DEF Tells
  <2>5. ev \in ToSet(All(s))
    BY <1>2, <2>3, OfRunHolds
  <2>6. ev \in ObsEvent /\ ev.ts <= written
    BY <2>3, <2>5
  <2>7. ev.ts \in Nat \ {0}
    BY <2>6 DEF ObsEvent
  <2>8. Events(s) \in Nat
    BY <2>2 DEF RunRec
  <2> HIDE DEF Events
  <2> QED
    BY <1>6, <2>4, <2>6, <2>7, <2>8
<1>8. main \in H
  <2> DEFINE S == {Events(s) : s \in H}
  <2>1. S \in SUBSET (0..written) /\ S # {}
    BY <1>2, <1>7
  <2> HIDE DEF S
  <2>2. Max(S) \in S /\ \A m \in S : Max(S) >= m
    BY <1>6, <2>1, SomeGreatest
  <2>3. PICK s \in H : Max(S) = Events(s)
    BY <2>2 DEF S
  <2>4. \A t \in H : Events(t) <= Events(s)
    <3>1. ASSUME NEW t \in H PROVE Events(t) <= Events(s)
      <4>1. Events(t) \in S
        BY DEF S
      <4>2. Events(s) >= Events(t) /\ Events(s) \in 0..written /\ Events(t) \in 0..written
        BY <1>7, <2>2, <2>3, <4>1
      <4> HIDE DEF Events
      <4> QED
        BY <1>6, <4>2
    <3> QED
      BY <3>1
  <2>5. \E x \in H : \A t \in H : idx[t].runs[r].events <= idx[x].runs[r].events
    BY <2>4
  <2> HIDE DEF H
  <2> QED
    BY <2>5
<1>9. ReadRunEvents(r) = OfRun(r, All(main))
  <2> HIDE DEF main
  <2> DEFINE text == bytes[main]
             run == idx[main].runs[r]
  <2>1. main \in Sinks /\ main \notin blind /\ r \in DOMAIN idx[main].runs
    BY <1>5, <1>8
  <2>2. Ranged(text, Len(text), r, run)
    BY <2>1, FileKnown
  <2>3. text \in Seq(Bytes)
    BY <2>1 DEF IndexInv, FilesWritten
  <2>4. All(main) = Found(text, Len(text))
    BY DEF All, EventsIn, Found
  <2>5. ReadRunEvents(r) = OfRun(r, EventsIn(SubSeq(text, run.start + 1, run.end)))
    BY <1>4 DEF ReadRunEvents, ByteRange
  <2> HIDE DEF text, run
  <2> DEFINE start == run.start
             end == run.end
  <2>6. /\ start \in 0..Len(text) /\ end \in start..Len(text) /\ Scanned(text)[start].left = <<>>
        /\ OfRun(r, Found(text, start)) = <<>> /\ OfRun(r, Found(text, end)) = OfRun(r, Found(text, Len(text)))
    BY <2>2 DEF Ranged
  <2>7. ReadRunEvents(r) = OfRun(r, EventsIn(SubSeq(text, start + 1, end)))
    BY <2>5
  <2> HIDE DEF start, end
  <2>8. OfRun(r, EventsIn(SubSeq(text, start + 1, end))) = OfRun(r, Found(text, end))
    BY <1>2, <2>3, <2>6, RangeRead
  <2> QED
    BY <2>4, <2>6, <2>7, <2>8
<1> QED
  BY <1>2, <1>4, <1>8, <1>9

\* Of a run's verdicts in all files, the one that is kept is the latest.
LEMMA LatestVerdict ==
  ASSUME IndexInv, looked, blind = {}, NEW r \in Runs, Holders(idx, r) # {}, NEW main
  PROVE  LaterVerdict(idx, r, main) =
           Max({0} \cup Times({ev \in UNION {ToSet(All(s)) : s \in Sinks} : ev.run = r /\ ev.kind = "verdict"}))
<1> DEFINE H == Holders(idx, r)
           Verdict(s) == idx[s].runs[r].verdict
           own(s) == OfRun(r, All(s))
           S == {Verdict(s) : s \in H}
           T == {0} \cup Times({ev \in UNION {ToSet(All(s)) : s \in Sinks} : ev.run = r /\ ev.kind = "verdict"})
<1>1. H \subseteq Sinks /\ (\A s \in H : r \in DOMAIN idx[s].runs) /\ \A s \in Sinks : r \in DOMAIN idx[s].runs => s \in H
  BY DEF Holders
<1>2. written \in Nat
  BY DEF IndexInv, FilesWritten
<1>3. ASSUME NEW s \in Sinks
      PROVE  /\ ToSet(own(s)) = {ev \in ToSet(All(s)) : ev.run = r}
             /\ DOMAIN idx[s].runs = {ev.run : ev \in ToSet(All(s))}
             /\ \A ev \in ToSet(All(s)) : ev.ts \in 0..written
  <2>1. /\ All(s) \in Seq(ObsEvent) /\ DOMAIN idx[s].runs = {ev.run : ev \in ToSet(All(s))}
        /\ \A ev \in ToSet(All(s)) : ev \in ObsEvent /\ ev.ts <= written
    BY FileKnown
  <2>2. ToSet(own(s)) = {ev \in ToSet(All(s)) : ev.run = r}
    BY <2>1, OfRunHolds
  <2>3. ASSUME NEW ev \in ToSet(All(s)) PROVE ev.ts \in 0..written
    <3>1. ev \in ObsEvent /\ ev.ts <= written
      BY <2>1
    <3>2. ev.ts \in Nat \ {0}
      BY <3>1 DEF ObsEvent
    <3> QED
      BY <1>2, <3>1, <3>2
  <2> QED
    BY <2>1, <2>2, <2>3
<1>4. ASSUME NEW s \in H
      PROVE  Verdict(s) \in VerdictTimes(own(s)) /\ \A y \in VerdictTimes(own(s)) : Verdict(s) >= y
  <2>1. s \in Sinks /\ s \notin blind /\ r \in DOMAIN idx[s].runs
    BY <1>1
  <2>2. Tells(idx[s].runs[r], own(s))
    BY <2>1, FileKnown
  <2> QED
    BY <2>2 DEF Tells, Greatest
<1> HIDE DEF H, Verdict, own
<1>5. T \in SUBSET (0..written)
  <2>1. ASSUME NEW ev \in UNION {ToSet(All(s)) : s \in Sinks} PROVE ev.ts \in 0..written
    BY <1>3
  <2>2. 0 \in 0..written
    BY <1>2
  <2> QED
    BY <2>1, <2>2 DEF Times
<1>6. ASSUME NEW s \in H PROVE VerdictTimes(own(s)) \subseteq T
  <2>1. s \in Sinks
    BY <1>1
  <2>2. ToSet(own(s)) = {ev \in ToSet(All(s)) : ev.run = r}
    BY <1>3, <2>1
  <2>3. {ev \in ToSet(own(s)) : ev.kind = "verdict"} \subseteq {ev \in UNION {ToSet(All(t)) : t \in Sinks} : ev.run = r /\ ev.kind = "verdict"}
    BY <2>1, <2>2
  <2> QED
    BY <2>3 DEF VerdictTimes, Times
<1>7. ASSUME NEW y \in T PROVE \E s \in H : y \in VerdictTimes(own(s))
  <2>1. CASE y = 0
    <3>1. PICK s \in H : TRUE
      BY DEF H
    <3> QED
      BY <2>1, <3>1 DEF VerdictTimes
  <2>2. CASE y # 0
    <3>1. PICK ev \in UNION {ToSet(All(s)) : s \in Sinks} : ev.run = r /\ ev.kind = "verdict" /\ y = ev.ts
      BY <2>2 DEF Times
    <3>2. PICK s \in Sinks : ev \in ToSet(All(s))
      BY <3>1
    <3>3. s \in H
      BY <1>1, <1>3, <3>1, <3>2
    <3>4. ev \in ToSet(own(s))
      BY <1>3, <3>1, <3>2
    <3> QED
      BY <3>1, <3>3, <3>4 DEF VerdictTimes, Times
  <2> QED
    BY <2>1, <2>2
<1>8. S \in SUBSET (0..written) /\ S # {} /\ S \subseteq T
  BY <1>4, <1>5, <1>6 DEF H
<1> HIDE DEF T
<1>9. Max(S) \in S /\ \A m \in S : Max(S) >= m
  <2> HIDE DEF S
  <2> QED
    BY <1>2, <1>8, SomeGreatest
<1>10. ASSUME NEW y \in T PROVE Max(S) >= y
  <2>1. PICK s \in H : y \in VerdictTimes(own(s))
    BY <1>7
  <2>2. Verdict(s) >= y /\ Verdict(s) \in S
    BY <1>4, <2>1
  <2>3. Max(S) >= Verdict(s)
    BY <1>9, <2>2
  <2>4. Max(S) \in 0..written /\ Verdict(s) \in 0..written /\ y \in 0..written
    BY <1>5, <1>8, <1>9, <2>2
  <2> QED
    BY <1>2, <2>2, <2>3, <2>4
<1>11. Greatest(Max(S), T) /\ T \in SUBSET Nat
  <2>1. Max(S) \in T
    BY <1>8, <1>9
  <2>2. \A y \in T : y \in Nat
    BY <1>2, <1>5
  <2> QED
    BY <1>10, <2>1, <2>2 DEF Greatest
<1>12. Max(T) = Max(S)
  BY <1>11, GreatestIs
<1> QED
  BY <1>12 DEF LaterVerdict, S, T, H, Verdict

\* All of it.
LEMMA IndexedIsTrue == IndexInv => IndexTrue
<1> SUFFICES ASSUME IndexInv, looked, blind = {} PROVE Fresh
  BY DEF IndexTrue
<1>1. \A s \in Sinks : DOMAIN idx[s].runs = {ev.run : ev \in ToSet(All(s))}
  BY FileKnown
<1>2. ASSUME NEW s \in Sinks, NEW r \in DOMAIN idx[s].runs PROVE Known(s, r)
  BY RunKnown
<1>3. ASSUME NEW r \in DOMAIN merged
      PROVE  /\ ReadRunEvents(r) = OfRun(r, All(merged[r].sink))
             /\ merged[r].verdict =
                  Max({0} \cup Times({ev \in UNION {ToSet(All(s)) : s \in Sinks} : ev.run = r /\ ev.kind = "verdict"}))
  <2> DEFINE main == merged[r].sink
  <2>1. /\ r \in Runs /\ Holders(idx, r) # {} /\ merged[r].verdict = LaterVerdict(idx, r, main)
        /\ ReadRunEvents(r) = OfRun(r, All(main))
    BY MergedReads
  <2> HIDE DEF main
  <2>2. LaterVerdict(idx, r, main) =
          Max({0} \cup Times({ev \in UNION {ToSet(All(s)) : s \in Sinks} : ev.run = r /\ ev.kind = "verdict"}))
    BY <2>1, LatestVerdict
  <2> QED
    BY <2>1, <2>2 DEF main
<1> QED
  BY <1>1, <1>2, <1>3 DEF Fresh

\* However often the server looks while files are written on, torn and emptied, what it knows of every run and what
\* it reads of it is what the files say; and the verdict it shows is the latest in any file.
THEOREM IndexIsTrue == IndexSpec => []IndexTrue
<1>1. IndexInit => IndexInv
  BY InitIndexed
<1>2. IndexInv /\ [IndexNext]_indexVars => IndexInv'
  BY NextIndexed
<1>3. IndexInv => IndexTrue
  BY IndexedIsTrue
<1> QED
  BY <1>1, <1>2, <1>3, PTL DEF IndexSpec

-----------------------------------------------------------------------------
\* What is made of a run's events.

TurnBegan == <<"turn", "start">>
TurnEnded == <<"turn", "end">>
CallBegan == <<"tool", "start">>
CallEnded == <<"tool", "end">>
SessionBegan == <<"session", "start">>
SessionEnded == <<"session", "end">>
TraceKinds == {TurnBegan, TurnEnded, CallBegan, CallEnded, SessionBegan, SessionEnded}

Origins == {<<>>} \cup (Logs \X Nat)
CallRec == [nested : Nat, wrapper : BOOLEAN]
TraceEvent == [s : Logs, type : TraceKinds, key : Nat, nested : Nat, wrapper : BOOLEAN, parent : Origins]
LaneRec == [at : {"new", "idle", "prompt", "over"}, by : Origins, turn : Nat \cup {-1}, next : Nat,
         calls : Seq(CallRec), open : SUBSET Nat, prompted : BOOLEAN]

TraceTypes == events \in Seq(TraceEvent) /\ lane \in [Logs -> LaneRec]

\* Event n is of a session and type.
Says(n, s, type) == events[n].s = s /\ events[n].type = type
BeginsCall(n, s, c) == Says(n, s, CallBegan) /\ events[n].key = c
OfTurn(n, s) == Says(n, s, TurnBegan) \/ Says(n, s, TurnEnded)

\* A session that is new has said nothing; another was dispatched by one that had.
Born(s) ==
  /\ lane[s].at = "new" => lane[s] = NewLane /\ \A n \in Seen : events[n].s # s
  /\ lane[s].at # "new" => \E n \in Seen : events[n].s = s
  /\ lane[s].by # <<>> =>
       \E m \in Seen : events[m].s = lane[s].by[1] /\ \A n \in Seen : events[n].s = s => m < n

\* A call is numbered as it begins, after the one that makes it.
Called(s) ==
  /\ \A c \in 1..Len(lane[s].calls) : lane[s].calls[c].nested < c /\ \E n \in Seen : BeginsCall(n, s, c)
  /\ \A n \in Seen : Says(n, s, CallBegan) =>
       /\ events[n].key \in 1..Len(lane[s].calls)
       /\ events[n].nested = lane[s].calls[events[n].key].nested
  /\ \A m, n \in Seen : Says(m, s, CallBegan) /\ Says(n, s, CallBegan) /\ m < n => events[m].key < events[n].key
  /\ lane[s].open \subseteq 1..Len(lane[s].calls)

\* It ends once, after it began.
Returned(s) ==
  /\ \A n \in Seen : Says(n, s, CallEnded) =>
       events[n].key \notin lane[s].open /\ \E m \in Seen : m < n /\ BeginsCall(m, s, events[n].key)
  /\ \A m, n \in Seen : Says(m, s, CallEnded) /\ Says(n, s, CallEnded) /\ m # n => events[m].key # events[n].key

\* A turn ends before the next begins, and after the calls it made.
Turned(s) ==
  /\ \A n \in Seen : Says(n, s, TurnEnded) =>
       \E m \in Seen : /\ m < n /\ Says(m, s, TurnBegan) /\ events[m].key = events[n].key
                       /\ \A k \in Seen : m < k /\ k < n => ~OfTurn(k, s)
  /\ lane[s].turn >= 0 =>
       \E m \in Seen : Says(m, s, TurnBegan) /\ events[m].key = lane[s].turn /\ \A k \in Seen : m < k => ~OfTurn(k, s)
  /\ \A c \in lane[s].open : \A m, n \in Seen : BeginsCall(m, s, c) /\ Says(n, s, TurnEnded) => n < m
  /\ \A k, m, n \in Seen : Says(n, s, TurnEnded) /\ Says(k, s, CallEnded) /\ n < k /\ BeginsCall(m, s, events[k].key) => n < m

TraceInv == TraceTypes /\ \A s \in Logs : Born(s) /\ Called(s) /\ Returned(s) /\ Turned(s)

LEMMA KindsDiffer ==
  /\ TurnBegan # TurnEnded /\ TurnBegan # CallBegan /\ TurnBegan # CallEnded /\ TurnBegan # SessionBegan /\ TurnBegan # SessionEnded
  /\ TurnEnded # CallBegan /\ TurnEnded # CallEnded /\ TurnEnded # SessionBegan /\ TurnEnded # SessionEnded
  /\ CallBegan # CallEnded /\ CallBegan # SessionBegan /\ CallBegan # SessionEnded
  /\ CallEnded # SessionBegan /\ CallEnded # SessionEnded
BY DEF TurnBegan, TurnEnded, CallBegan, CallEnded, SessionBegan, SessionEnded

\* What a step may do to the events: nothing, or one more is said.
SaidOne(e) == e \in TraceEvent /\ events' = Append(events, e)

LEMMA OneMore ==
  ASSUME TraceTypes, NEW e, SaidOne(e)
  PROVE  \E N \in Nat :
           /\ events' \in Seq(TraceEvent) /\ N = Len(events) + 1
           /\ Seen' = Seen \cup {N} /\ N \notin Seen /\ \A n \in Seen : n < N /\ n \in Nat
           /\ events'[N] = e /\ \A n \in Seen : events'[n] = events[n]
<1>1. /\ events' \in Seq(TraceEvent) /\ Len(events) + 1 \in Nat
      /\ Seen' = Seen \cup {Len(events) + 1} /\ Len(events) + 1 \notin Seen
      /\ \A n \in Seen : n < Len(events) + 1 /\ n \in Nat
      /\ events'[Len(events) + 1] = e /\ \A n \in Seen : events'[n] = events[n]
  BY DEF TraceTypes, SaidOne, Seen
<1> QED
  BY <1>1

LEMMA SaidIs ==
  ASSUME TraceTypes, NEW s \in Logs, NEW type \in TraceKinds, NEW key \in Nat, NEW nested \in Nat,
         NEW wrapper \in BOOLEAN, lane' \in [Logs -> LaneRec], Said(s, type, key, nested, wrapper)
  PROVE  SaidOne([s |-> s, type |-> type, key |-> key, nested |-> nested, wrapper |-> wrapper, parent |-> lane'[s].by])
<1>1. lane'[s].by \in Origins
  BY DEF LaneRec
<1> DEFINE e == [s |-> s, type |-> type, key |-> key, nested |-> nested, wrapper |-> wrapper, parent |-> lane'[s].by]
<1>2. e \in TraceEvent
  BY <1>1 DEF TraceEvent
<1>3. events' = Append(events, e)
  BY DEF Said
<1> QED
  BY <1>2, <1>3 DEF SaidOne

LaneInv(s) == Born(s) /\ Called(s) /\ Returned(s) /\ Turned(s)

\* A step of one session leaves the others what they are.
LEMMA OthersKept ==
  ASSUME TraceInv, NEW e, NEW t \in Logs, lane'[t] = lane[t],
         (SaidOne(e) /\ e.s # t) \/ UNCHANGED events
  PROVE  LaneInv(t)'
<1>1. CASE UNCHANGED events
  BY <1>1 DEF TraceInv, LaneInv, Born, Called, Returned, Turned, Seen, Says, BeginsCall, OfTurn
<1>2. CASE SaidOne(e) /\ e.s # t
  <2>1. PICK N \in Nat : /\ Seen' = Seen \cup {N} /\ N \notin Seen /\ \A n \in Seen : n < N /\ n \in Nat
                        /\ events'[N] = e /\ \A n \in Seen : events'[n] = events[n]
    BY <1>2, OneMore DEF TraceInv
  <2>2. Born(t)'
    BY <1>2, <2>1 DEF TraceInv, Born
  <2>3. Called(t)'
    <3>1. Called(t)
      BY DEF TraceInv
    <3>2. \A n \in Seen' : ~ Says(n, t, CallBegan)' \/ n \in Seen
      BY <1>2, <2>1 DEF Says
    <3>3. \A n \in Seen : events'[n] = events[n] /\ n \in Seen'
      BY <2>1
    <3>4. \A c \in 1..Len(lane[t].calls) : lane[t].calls[c].nested < c /\ (\E n \in Seen : BeginsCall(n, t, c))'
      <4> SUFFICES ASSUME NEW c \in 1..Len(lane[t].calls)
                   PROVE  lane[t].calls[c].nested < c /\ (\E n \in Seen : BeginsCall(n, t, c))'
        OBVIOUS
      <4>1. PICK n \in Seen : BeginsCall(n, t, c)
        BY <3>1 DEF Called
      <4>2. n \in Seen' /\ BeginsCall(n, t, c)'
        BY <4>1, <3>3 DEF BeginsCall, Says
      <4> QED
        BY <3>1, <4>2 DEF Called
    <3>5. \A n \in Seen' : Says(n, t, CallBegan)' =>
            events'[n].key \in 1..Len(lane[t].calls) /\ events'[n].nested = lane[t].calls[events'[n].key].nested
      BY <3>1, <3>2, <3>3 DEF Called, Says
    <3>6. \A m, n \in Seen' : Says(m, t, CallBegan)' /\ Says(n, t, CallBegan)' /\ m < n
                              => events'[m].key < events'[n].key
      BY <3>1, <3>2, <3>3 DEF Called, Says
    <3>7. lane[t].open \subseteq 1..Len(lane[t].calls)
      BY <3>1 DEF Called
    <3> QED
      BY <3>4, <3>5, <3>6, <3>7 DEF Called
  <2>4. Returned(t)'
    <3>1. Returned(t)
      BY DEF TraceInv
    <3> QED
      BY <1>2, <2>1, <3>1 DEF Returned, Says, BeginsCall
  <2>5. Turned(t)'
    <3>1. Turned(t)
      BY DEF TraceInv
    <3> QED
      BY <1>2, <2>1, <3>1 DEF Turned, Says, BeginsCall, OfTurn
  <2> QED
    BY <2>2, <2>3, <2>4, <2>5 DEF LaneInv
<1> QED
  BY <1>1, <1>2

LEMMA TraceInitInv == TraceInit => TraceInv
<1> SUFFICES ASSUME TraceInit PROVE TraceInv
  OBVIOUS
<1>1. events = <<>> /\ Seen = {} /\ Len(events) = 0
  BY DEF TraceInit, Seen
<1>2. NewLane \in LaneRec
  BY DEF NewLane, LaneRec, Origins
<1>3. TraceTypes
  BY <1>1, <1>2 DEF TraceInit, TraceTypes
<1>4. ASSUME NEW s \in Logs PROVE Born(s) /\ Called(s) /\ Returned(s) /\ Turned(s)
  <2>1. lane[s] = NewLane /\ lane[s].by = <<>> /\ lane[s].calls = <<>> /\ lane[s].open = {} /\ lane[s].turn = -1 /\ lane[s].at = "new"
    BY DEF TraceInit, NewLane
  <2>2. Born(s)
    BY <1>1, <2>1 DEF Born
  <2>3. Called(s)
    BY <1>1, <2>1 DEF Called
  <2>4. Returned(s)
    BY <1>1, <2>1 DEF Returned
  <2>5. Turned(s)
    BY <1>1, <2>1 DEF Turned
  <2> QED
    BY <2>2, <2>3, <2>4, <2>5
<1> QED
  BY <1>3, <1>4 DEF TraceInv

\* What a step of session s has to keep.
LEMMA StepOf ==
  ASSUME TraceInv, NEW s \in Logs, NEW e, (SaidOne(e) /\ e.s = s) \/ UNCHANGED events,
         lane' \in [Logs -> LaneRec], \A t \in Logs \ {s} : lane'[t] = lane[t], LaneInv(s)'
  PROVE  TraceInv'
<1>1. TraceTypes'
  BY OneMore DEF TraceInv, TraceTypes
<1>2. ASSUME NEW t \in Logs PROVE LaneInv(t)'
  <2>1. CASE t # s
    BY <2>1, OthersKept DEF TraceInv
  <2>2. CASE t = s
    BY <2>2
  <2> QED
    BY <2>1, <2>2
<1> QED
  BY <1>1, <1>2 DEF TraceInv, LaneInv

\* s is told of as before, and what it is at has not changed.
LEMMA SameCalls ==
  ASSUME TraceInv, NEW s \in Logs, NEW e, (SaidOne(e) /\ e.type # CallBegan /\ e.type # CallEnded) \/ UNCHANGED events,
         lane'[s].calls = lane[s].calls, lane'[s].open \subseteq lane[s].open
  PROVE  Called(s)' /\ Returned(s)'
<1>1. Called(s) /\ Returned(s)
  BY DEF TraceInv
<1>2. CASE UNCHANGED events
  BY <1>1, <1>2 DEF Called, Returned, Seen, Says, BeginsCall
<1>3. CASE SaidOne(e) /\ e.type # CallBegan /\ e.type # CallEnded
  <2>1. PICK N \in Nat : /\ Seen' = Seen \cup {N} /\ N \notin Seen /\ \A n \in Seen : n < N /\ n \in Nat
                        /\ events'[N] = e /\ \A n \in Seen : events'[n] = events[n]
    BY <1>3, OneMore DEF TraceInv
  <2>2. Called(s)'
    BY <1>1, <1>3, <2>1, SMTT(40) DEF Called, Says, BeginsCall
  <2>3. Returned(s)'
    BY <1>1, <1>3, <2>1 DEF Returned, Says, BeginsCall
  <2> QED
    BY <2>2, <2>3
<1> QED
  BY <1>2, <1>3

LEMMA SameTurns ==
  ASSUME TraceInv, NEW s \in Logs, NEW e, (SaidOne(e) /\ e.type \in {SessionBegan, SessionEnded}) \/ UNCHANGED events,
         lane'[s].turn \in {-1, lane[s].turn}, lane'[s].open \subseteq lane[s].open
  PROVE  Turned(s)'
<1>1. Turned(s) /\ ~(-1 >= 0)
  BY DEF TraceInv
<1>2. CASE UNCHANGED events
  BY <1>1, <1>2 DEF Turned, Seen, Says, BeginsCall, OfTurn
<1>3. CASE SaidOne(e) /\ e.type \in {SessionBegan, SessionEnded}
  <2>1. PICK N \in Nat : /\ Seen' = Seen \cup {N} /\ N \notin Seen /\ \A n \in Seen : n < N /\ n \in Nat
                        /\ events'[N] = e /\ \A n \in Seen : events'[n] = events[n]
    BY <1>3, OneMore DEF TraceInv
  <2>2. /\ ~Says(N, s, TurnBegan)' /\ ~Says(N, s, TurnEnded)' /\ ~Says(N, s, CallBegan)' /\ ~Says(N, s, CallEnded)'
    <3>1. events'[N].type # TurnBegan /\ events'[N].type # TurnEnded /\ events'[N].type # CallBegan /\ events'[N].type # CallEnded
      BY <1>3, <2>1, KindsDiffer
    <3> QED
      BY <3>1 DEF Says
  <2>6. ~OfTurn(N, s)'
    BY <2>2 DEF OfTurn
  <2>3. \A n \in Seen : /\ \A k \in TraceKinds : Says(n, s, k)' <=> Says(n, s, k)
                        /\ OfTurn(n, s)' <=> OfTurn(n, s)
                        /\ \A c : BeginsCall(n, s, c)' <=> BeginsCall(n, s, c)
    BY <2>1 DEF Says, BeginsCall, OfTurn
  <2>4. \A c : ~BeginsCall(N, s, c)'
    BY <2>2 DEF BeginsCall
  <2>5. TurnBegan \in TraceKinds /\ TurnEnded \in TraceKinds /\ CallEnded \in TraceKinds
    BY DEF TraceKinds
  <2> QED
    BY <1>1, <2>1, <2>2, <2>3, <2>4, <2>5, <2>6 DEF Turned
<1> QED
  BY <1>2, <1>3

\* A session that is heard of stays so.
LEMMA SameBirth ==
  ASSUME TraceInv, NEW s \in Logs, NEW e, SaidOne(e) \/ UNCHANGED events,
         lane[s].at # "new", lane'[s].at # "new", lane'[s].by = lane[s].by
  PROVE  Born(s)'
<1>1. Born(s)
  BY DEF TraceInv
<1>2. CASE UNCHANGED events
  BY <1>1, <1>2 DEF Born, Seen
<1>3. CASE SaidOne(e)
  <2>1. PICK N \in Nat : /\ Seen' = Seen \cup {N} /\ N \notin Seen /\ \A n \in Seen : n < N /\ n \in Nat
                        /\ events'[N] = e /\ \A n \in Seen : events'[n] = events[n]
    BY <1>3, OneMore DEF TraceInv
  <2> QED
    BY <1>1, <2>1 DEF Born
<1> QED
  BY <1>2, <1>3

LEMMA SessionStartKeeps ==
  ASSUME TraceInv, NEW s \in Logs, SessionStart(s)
  PROVE  TraceInv'
<1>1. PICK by \in IF s = Terminal THEN {<<>>} ELSE {d \in Logs \X (1..MaxCallIds) : DispatchOpen(d[1], d[2])} :
        lane' = [lane EXCEPT ![s].at = "idle", ![s].by = by]
  BY DEF SessionStart
<1>6. TraceTypes
  BY DEF TraceInv
<1>7. by \in Origins /\ (by # <<>> => by[1] \in Logs /\ DispatchOpen(by[1], by[2]))
  BY RunTraceAssumption DEF Origins
<1>2. /\ lane' \in [Logs -> LaneRec] /\ \A t \in Logs \ {s} : lane'[t] = lane[t]
      /\ lane'[s].at = "idle" /\ lane'[s].by = by /\ lane'[s].calls = lane[s].calls
      /\ lane'[s].open = lane[s].open /\ lane'[s].turn = lane[s].turn
  BY <1>1, <1>6, <1>7 DEF TraceTypes, LaneRec
<1> DEFINE e == [s |-> s, type |-> SessionBegan, key |-> 0, nested |-> 0, wrapper |-> FALSE, parent |-> lane'[s].by]
<1>3. SaidOne(e) /\ e.s = s /\ e.type = SessionBegan
  <2>1. Said(s, SessionBegan, 0, 0, FALSE) /\ SessionBegan \in TraceKinds
    BY DEF SessionStart, SessionBegan, TraceKinds
  <2> QED
    BY <1>2, <1>6, <2>1, SaidIs
<1> HIDE DEF e
<1>4. Called(s)' /\ Returned(s)' /\ Turned(s)'
  BY <1>2, <1>3, SameCalls, SameTurns, KindsDiffer
<1>5. Born(s)'
  <2>1. PICK N \in Nat : /\ Seen' = Seen \cup {N} /\ N \notin Seen /\ \A n \in Seen : n < N /\ n \in Nat
                        /\ events'[N] = e /\ \A n \in Seen : events'[n] = events[n]
    BY <1>3, OneMore DEF TraceInv
  <2>2. \A n \in Seen : events[n].s # s
    BY DEF TraceInv, Born, SessionStart
  <2>3. CASE by = <<>>
    BY <1>2, <1>3, <2>1, <2>3 DEF Born
  <2>4. CASE by # <<>>
    <3>1. PICK m \in Seen : events[m].s = by[1]
      <4>1. by[1] \in Logs /\ by[2] \in lane[by[1]].open
        BY <1>7, <2>4 DEF DispatchOpen
      <4>2. Called(by[1])
        BY <4>1 DEF TraceInv
      <4>3. by[2] \in 1..Len(lane[by[1]].calls)
        BY <4>1, <4>2 DEF Called
      <4> QED
        BY <4>2, <4>3 DEF Called, BeginsCall, Says
    <3>2. \A n \in Seen' : events'[n].s = s => n = N
      BY <2>1, <2>2
    <3>3. m < N /\ m \in Seen' /\ events'[m].s = by[1] /\ N \in Seen' /\ events'[N].s = s
      BY <1>3, <2>1, <3>1
    <3> QED
      BY <1>2, <3>2, <3>3 DEF Born
  <2> QED
    BY <2>3, <2>4
<1> QED
  BY <1>2, <1>3, <1>4, <1>5, StepOf DEF LaneInv

LEMMA PromptKeeps ==
  ASSUME TraceInv, NEW s \in Logs, Prompt(s)
  PROVE  TraceInv'
<1>1. TraceTypes /\ UNCHANGED events
  BY DEF TraceInv, Prompt
<1>2. /\ lane' \in [Logs -> LaneRec] /\ \A t \in Logs \ {s} : lane'[t] = lane[t]
      /\ lane'[s].at = "prompt" /\ lane'[s].by = lane[s].by /\ lane'[s].calls = lane[s].calls
      /\ lane'[s].open = lane[s].open /\ lane'[s].turn = lane[s].turn
  BY <1>1 DEF TraceTypes, LaneRec, Prompt
<1>3. Called(s)' /\ Returned(s)' /\ Turned(s)' /\ Born(s)'
  BY <1>1, <1>2, SameCalls, SameTurns, SameBirth DEF Prompt
<1> QED
  BY <1>1, <1>2, <1>3, StepOf DEF LaneInv

LEMMA KillLaneKeeps ==
  ASSUME TraceInv, NEW s \in Logs, KillLane(s)
  PROVE  TraceInv'
<1>1. TraceTypes /\ UNCHANGED events
  BY DEF TraceInv, KillLane
<1>2. /\ lane' \in [Logs -> LaneRec] /\ \A t \in Logs \ {s} : lane'[t] = lane[t]
      /\ lane'[s].at = "over" /\ lane'[s].by = lane[s].by /\ lane'[s].calls = lane[s].calls
      /\ lane'[s].open = {} /\ lane'[s].turn = -1
  BY <1>1 DEF TraceTypes, LaneRec, KillLane
<1>3. Called(s)' /\ Returned(s)' /\ Turned(s)' /\ Born(s)'
  BY <1>1, <1>2, SameCalls, SameTurns, SameBirth DEF KillLane
<1> QED
  BY <1>1, <1>2, <1>3, StepOf DEF LaneInv

LEMMA SessionEndKeeps ==
  ASSUME TraceInv, NEW s \in Logs, SessionEnd(s)
  PROVE  TraceInv'
<1>1. TraceTypes
  BY DEF TraceInv
<1>2. /\ lane' \in [Logs -> LaneRec] /\ \A t \in Logs \ {s} : lane'[t] = lane[t]
      /\ lane'[s].at = "over" /\ lane'[s].by = lane[s].by /\ lane'[s].calls = lane[s].calls
      /\ lane'[s].open = lane[s].open /\ lane'[s].turn = lane[s].turn
  BY <1>1 DEF TraceTypes, LaneRec, SessionEnd
<1> DEFINE e == [s |-> s, type |-> SessionEnded, key |-> 0, nested |-> 0, wrapper |-> FALSE, parent |-> lane'[s].by]
<1>3. SaidOne(e) /\ e.s = s /\ e.type = SessionEnded
  <2>1. Said(s, SessionEnded, 0, 0, FALSE) /\ SessionEnded \in TraceKinds
    BY DEF SessionEnd, SessionEnded, TraceKinds
  <2> QED
    BY <1>1, <1>2, <2>1, SaidIs
<1> HIDE DEF e
<1>4. Called(s)' /\ Returned(s)' /\ Turned(s)' /\ Born(s)'
  BY <1>2, <1>3, KindsDiffer, SameCalls, SameTurns, SameBirth DEF SessionEnd
<1> QED
  BY <1>2, <1>3, <1>4, StepOf DEF LaneInv

LEMMA TurnStartKeeps ==
  ASSUME TraceInv, NEW s \in Logs, TurnStart(s)
  PROVE  TraceInv'
<1>1. TraceTypes
  BY DEF TraceInv
<1> DEFINE k == lane[s].next
<1>2. /\ lane' \in [Logs -> LaneRec] /\ \A t \in Logs \ {s} : lane'[t] = lane[t]
      /\ lane'[s].at = "prompt" /\ lane'[s].by = lane[s].by /\ lane'[s].calls = lane[s].calls
      /\ lane'[s].open = lane[s].open /\ lane'[s].turn = k /\ k \in Nat
  BY <1>1 DEF TraceTypes, LaneRec, TurnStart
<1> DEFINE e == [s |-> s, type |-> TurnBegan, key |-> k, nested |-> 0, wrapper |-> FALSE, parent |-> lane'[s].by]
<1>3. SaidOne(e) /\ e.s = s /\ e.type = TurnBegan /\ e.key = k
  <2>1. Said(s, TurnBegan, k, 0, FALSE) /\ TurnBegan \in TraceKinds
    BY DEF TurnStart, TurnBegan, TraceKinds
  <2> QED
    BY <1>1, <1>2, <2>1, SaidIs
<1> HIDE DEF e, k
<1>4. Called(s)' /\ Returned(s)' /\ Born(s)'
  BY <1>2, <1>3, KindsDiffer, SameCalls, SameBirth DEF TurnStart
<1>5. PICK N \in Nat : /\ Seen' = Seen \cup {N} /\ N \notin Seen /\ \A n \in Seen : n < N /\ n \in Nat
                      /\ events'[N] = e /\ \A n \in Seen : events'[n] = events[n]
  BY <1>1, <1>3, OneMore
<1>6. Turned(s)'
  <2>1. Turned(s)
    BY DEF TraceInv
  <2>2. events'[N].type = TurnBegan /\ events'[N].s = s /\ events'[N].key = k
    BY <1>3, <1>5
  <2>3. \A n \in Seen' : Seen' = Seen \cup {N} /\ ~(N < n)
    BY <1>5
  <2> QED
    BY <1>2, <1>5, <2>1, <2>2, <2>3, KindsDiffer DEF Turned, Says, OfTurn, BeginsCall
<1> QED
  BY <1>2, <1>3, <1>4, <1>6, StepOf DEF LaneInv

LEMMA TurnEndKeeps ==
  ASSUME TraceInv, NEW s \in Logs, TurnEnd(s)
  PROVE  TraceInv'
<1>1. TraceTypes
  BY DEF TraceInv
<1> DEFINE k == lane[s].turn
<1>2. /\ lane' \in [Logs -> LaneRec] /\ \A t \in Logs \ {s} : lane'[t] = lane[t]
      /\ lane'[s].at # "new" /\ lane'[s].by = lane[s].by /\ lane'[s].calls = lane[s].calls
      /\ lane'[s].open = lane[s].open /\ lane[s].open = {} /\ lane'[s].turn = -1 /\ k \in Nat /\ k >= 0
  <2>1. PICK at \in {"prompt", "idle"} : lane' = [lane EXCEPT ![s].turn = -1, ![s].at = at]
    BY DEF TurnEnd
  <2>2. lane[s].open = {} /\ k >= 0
    BY DEF TurnEnd
  <2>3. k \in Nat
    BY <1>1, <2>2 DEF TraceTypes, LaneRec
  <2> QED
    BY <1>1, <2>1, <2>2, <2>3 DEF TraceTypes, LaneRec
<1> DEFINE e == [s |-> s, type |-> TurnEnded, key |-> k, nested |-> 0, wrapper |-> FALSE, parent |-> lane'[s].by]
<1>3. SaidOne(e) /\ e.s = s /\ e.type = TurnEnded /\ e.key = k
  <2>1. Said(s, TurnEnded, k, 0, FALSE) /\ TurnEnded \in TraceKinds
    BY DEF TurnEnd, TurnEnded, TraceKinds
  <2> QED
    BY <1>1, <1>2, <2>1, SaidIs
<1>7. lane[s].at # "new"
  BY <1>2 DEF TraceInv, Born, NewLane
<1> HIDE DEF e
<1>4. Called(s)' /\ Returned(s)' /\ Born(s)'
  BY <1>2, <1>3, <1>7, KindsDiffer, SameCalls, SameBirth
<1>5. PICK N \in Nat : /\ Seen' = Seen \cup {N} /\ N \notin Seen /\ \A n \in Seen : n < N /\ n \in Nat
                      /\ events'[N] = e /\ \A n \in Seen : events'[n] = events[n]
  BY <1>1, <1>3, OneMore
<1>6. Turned(s)'
  <2>1. Turned(s)
    BY DEF TraceInv
  <2>2. events'[N].type = TurnEnded /\ events'[N].s = s /\ events'[N].key = k
    BY <1>3, <1>5
  <2>3. \A n \in Seen' : ~(N < n)
    BY <1>5
  <2>4. PICK m \in Seen : Says(m, s, TurnBegan) /\ events[m].key = k /\ \A j \in Seen : m < j => ~OfTurn(j, s)
    BY <1>2, <2>1 DEF Turned
  <2> HIDE DEF k
  <2>5. \A n \in Seen' : Says(n, s, TurnEnded)' =>
          \E j \in Seen' : /\ j < n /\ Says(j, s, TurnBegan)' /\ events'[j].key = events'[n].key
                          /\ \A i \in Seen' : j < i /\ i < n => ~OfTurn(i, s)'
    <3>1. CASE TRUE
      <4>1. ASSUME NEW n \in Seen, Says(n, s, TurnEnded)'
            PROVE  \E j \in Seen' : /\ j < n /\ Says(j, s, TurnBegan)' /\ events'[j].key = events'[n].key
                          /\ \A i \in Seen' : j < i /\ i < n => ~OfTurn(i, s)'
        BY <1>5, <2>1, <4>1 DEF Turned, Says, OfTurn
      <4>2. /\ m < N /\ Says(m, s, TurnBegan)' /\ events'[m].key = events'[N].key
            /\ \A i \in Seen' : m < i /\ i < N => ~OfTurn(i, s)'
        BY <1>5, <2>2, <2>4 DEF Says, OfTurn
      <4> QED
        BY <1>5, <4>1, <4>2
    <3> QED
      BY <3>1
  <2>6. \A i, j, n \in Seen' : Says(n, s, TurnEnded)' /\ Says(i, s, CallEnded)' /\ n < i /\ BeginsCall(j, s, events[i].key)' => n < j
    <3> SUFFICES ASSUME NEW i \in Seen', NEW j \in Seen', NEW n \in Seen', Says(n, s, TurnEnded)', Says(i, s, CallEnded)', n < i,
                        BeginsCall(j, s, events[i].key)'
                 PROVE  n < j
      OBVIOUS
    <3>1. i # N /\ j # N /\ n # N
      BY <1>5, <2>2, <2>3, KindsDiffer DEF Says, BeginsCall
    <3>2. i \in Seen /\ j \in Seen /\ n \in Seen
      BY <1>5, <3>1
    <3>3. Says(n, s, TurnEnded) /\ Says(i, s, CallEnded) /\ BeginsCall(j, s, events[i].key)
      BY <1>5, <3>2 DEF Says, BeginsCall
    <3> QED
      BY <2>1, <3>2, <3>3 DEF Turned
  <2>7. ~(lane'[s].turn >= 0) /\ lane'[s].open = {}
    BY <1>2
  <2> QED
    BY <2>5, <2>6, <2>7 DEF Turned
<1> QED
  BY <1>2, <1>3, <1>4, <1>6, StepOf DEF LaneInv

LEMMA ToolStartKeeps ==
  ASSUME TraceInv, NEW s \in Logs, ToolStart(s)
  PROVE  TraceInv'
<1> DEFINE L == Len(lane[s].calls)
           c == L + 1
<1>1. TraceTypes /\ Called(s) /\ Returned(s) /\ Turned(s)
  BY DEF TraceInv
<1>8. lane[s] \in LaneRec /\ lane[s].calls \in Seq(CallRec) /\ L \in Nat /\ c \in Nat
  BY <1>1 DEF TraceTypes, LaneRec
<1>9. PICK nested \in {0} \cup lane[s].open, wrapper \in BOOLEAN :
         /\ lane' = [lane EXCEPT ![s].calls = Append(@, [nested |-> nested, wrapper |-> wrapper]),
                                ![s].open = @ \cup {c}]
         /\ Said(s, <<"tool", "start">>, c, nested, wrapper)
  BY DEF ToolStart
<1>10. nested \in Nat /\ nested < c
  BY <1>1, <1>8 DEF Called
<1> DEFINE r == [nested |-> nested, wrapper |-> wrapper]
<1>2. /\ lane' \in [Logs -> LaneRec] /\ \A t \in Logs \ {s} : lane'[t] = lane[t]
      /\ lane'[s].at = lane[s].at /\ lane'[s].by = lane[s].by /\ lane'[s].calls = Append(lane[s].calls, r)
      /\ lane'[s].open = lane[s].open \cup {c} /\ lane'[s].turn = lane[s].turn
  <2>1. r \in CallRec
    BY <1>10 DEF CallRec
  <2>2. Append(lane[s].calls, r) \in Seq(CallRec)
    BY <1>8, <2>1
  <2>3. lane' = [lane EXCEPT ![s].calls = Append(@, r), ![s].open = @ \cup {c}]
    BY <1>9
  <2> HIDE DEF r, c, L
  <2> QED
    BY <1>1, <1>8, <2>2, <2>3 DEF TraceTypes, LaneRec
<1> DEFINE e == [s |-> s, type |-> CallBegan, key |-> c, nested |-> nested, wrapper |-> wrapper, parent |-> lane'[s].by]
<1>3. SaidOne(e) /\ e.s = s /\ e.type = CallBegan /\ e.key = c /\ e.nested = nested
  <2>1. Said(s, CallBegan, c, nested, wrapper) /\ CallBegan \in TraceKinds
    BY <1>9 DEF CallBegan, TraceKinds
  <2> HIDE DEF c
  <2> QED
    BY <1>1, <1>2, <1>8, <1>10, <2>1, SaidIs
<1>7. lane[s].at # "new"
  BY DEF TraceInv, Born, NewLane, ToolStart
<1> HIDE DEF e
<1>4. Born(s)'
  BY <1>2, <1>3, <1>7, SameBirth
<1>5. PICK N \in Nat : /\ Seen' = Seen \cup {N} /\ N \notin Seen /\ \A n \in Seen : n < N /\ n \in Nat
                      /\ events'[N] = e /\ \A n \in Seen : events'[n] = events[n]
  BY <1>1, <1>3, OneMore
<1>11. /\ Len(lane'[s].calls) = c /\ lane'[s].calls[c].nested = nested
       /\ \A d \in 1..L : lane'[s].calls[d] = lane[s].calls[d]
       /\ 1..c = 1..L \cup {c} /\ c \notin 1..L /\ \A d \in 1..L : d < c
  BY <1>2, <1>8
<1>12. events'[N].type = CallBegan /\ events'[N].s = s /\ events'[N].key = c /\ events'[N].nested = nested
  BY <1>3, <1>5
<1> HIDE DEF c, L, r
<1>13. /\ \A n \in Seen : \A k \in TraceKinds : Says(n, s, k)' <=> Says(n, s, k)
       /\ \A n \in Seen : OfTurn(n, s)' <=> OfTurn(n, s)
       /\ \A n \in Seen : \A d : BeginsCall(n, s, d)' <=> BeginsCall(n, s, d)
  BY <1>5 DEF Says, BeginsCall, OfTurn
<1>14. TurnBegan \in TraceKinds /\ TurnEnded \in TraceKinds /\ CallEnded \in TraceKinds /\ CallBegan \in TraceKinds
  BY DEF TraceKinds
<1>15. /\ \A n \in Seen' : Says(n, s, TurnEnded)' => n \in Seen
       /\ \A n \in Seen' : Says(n, s, CallEnded)' => n \in Seen
       /\ \A n \in Seen' : OfTurn(n, s)' => n \in Seen
  BY <1>5, <1>12, KindsDiffer DEF Says, OfTurn
<1>16. \A n \in Seen' : n # N => n \in Seen
  BY <1>5
<1>6. Called(s)'
  <2>1. ASSUME NEW d \in 1..c PROVE lane'[s].calls[d].nested < d /\ \E n \in Seen' : BeginsCall(n, s, d)'
    <3>1. CASE d = c
      <4>1. events'[N].s = s /\ events'[N].type = CallBegan /\ events'[N].key = d
        BY <1>12, <3>1
      <4>2. \E n \in Seen' : events'[n].s = s /\ events'[n].type = CallBegan /\ events'[n].key = d
        BY <1>5, <4>1
      <4> QED
        BY <1>10, <1>11, <3>1, <4>2 DEF BeginsCall, Says
    <3>2. CASE d # c
      <4>1. d \in 1..L /\ lane'[s].calls[d].nested = lane[s].calls[d].nested
        BY <1>11, <3>2
      <4> QED
        BY <1>1, <1>5, <1>13, <4>1 DEF Called, L
    <3> QED
      BY <3>1, <3>2
  <2>2. ASSUME NEW n \in Seen', Says(n, s, CallBegan)'
        PROVE  events'[n].key \in 1..c /\ events'[n].nested = lane'[s].calls[events'[n].key].nested
    <3>1. CASE n = N
      BY <1>8, <1>11, <1>12, <3>1
    <3>2. CASE n # N
      <4>1. n \in Seen /\ Says(n, s, CallBegan) /\ events'[n] = events[n]
        BY <1>5, <1>13, <1>14, <1>16, <2>2, <3>2
      <4> QED
        BY <1>1, <1>11, <4>1 DEF Called, L
    <3> QED
      BY <3>1, <3>2
  <2>3. ASSUME NEW m \in Seen', NEW n \in Seen', Says(m, s, CallBegan)', Says(n, s, CallBegan)', m < n
        PROVE  events'[m].key < events'[n].key
    <3>1. m \in Seen /\ Says(m, s, CallBegan) /\ events'[m] = events[m]
      BY <1>5, <1>13, <1>14, <1>16, <2>3
    <3>2. CASE n = N
      <4>1. events[m].key \in 1..L
        BY <1>1, <3>1 DEF Called, L
      <4> QED
        BY <1>11, <1>12, <3>1, <3>2, <4>1
    <3>3. CASE n # N
      <4>1. n \in Seen /\ Says(n, s, CallBegan) /\ events'[n] = events[n]
        BY <1>5, <1>13, <1>14, <1>16, <2>3, <3>3
      <4> QED
        BY <1>1, <2>3, <3>1, <4>1 DEF Called
    <3> QED
      BY <3>2, <3>3
  <2>4. lane'[s].open \subseteq 1..c
    BY <1>1, <1>2, <1>11 DEF Called, L
  <2> QED
    BY <1>11, <2>1, <2>2, <2>3, <2>4 DEF Called
<1>17. Returned(s)'
  <2>1. ASSUME NEW n \in Seen, Says(n, s, CallEnded)
        PROVE  events'[n].key \notin lane'[s].open /\ \E m \in Seen' : m < n /\ BeginsCall(m, s, events[n].key)'
    <3>1. PICK m \in Seen : m < n /\ BeginsCall(m, s, events[n].key)
      BY <1>1, <2>1 DEF Returned
    <3>2. events'[n] = events[n] /\ events[n].key \in 1..L
      BY <1>1, <1>5, <3>1 DEF Called, BeginsCall, L
    <3>3. events[n].key \notin lane'[s].open
      BY <1>1, <1>2, <1>11, <2>1, <3>2 DEF Returned
    <3>4. m \in Seen' /\ events'[m].s = s /\ events'[m].type = CallBegan /\ events'[m].key = events[n].key
      BY <1>5, <3>1 DEF BeginsCall, Says
    <3> QED
      BY <3>1, <3>2, <3>3, <3>4 DEF BeginsCall, Says
  <2>2. ASSUME NEW n \in Seen, NEW m \in Seen, Says(n, s, CallEnded), Says(m, s, CallEnded), m # n
        PROVE  events'[m].key # events'[n].key
    BY <1>1, <1>5, <2>2 DEF Returned
  <2> QED
    BY <1>13, <1>14, <1>15, <2>1, <2>2 DEF Returned
<1>18. Turned(s)'
  <2>1. ASSUME NEW n \in Seen, Says(n, s, TurnEnded)
        PROVE  \E m \in Seen' : /\ m < n /\ Says(m, s, TurnBegan)' /\ events'[m].key = events'[n].key
                               /\ \A k \in Seen' : m < k /\ k < n => ~OfTurn(k, s)'
    <3>1. PICK m \in Seen : /\ m < n /\ Says(m, s, TurnBegan) /\ events[m].key = events[n].key
                            /\ \A k \in Seen : m < k /\ k < n => ~OfTurn(k, s)
      BY <1>1, <2>1 DEF Turned
    <3> QED
      BY <1>5, <1>13, <1>14, <1>15, <3>1
  <2>2. ASSUME lane'[s].turn >= 0
        PROVE  \E m \in Seen' : Says(m, s, TurnBegan)' /\ events'[m].key = lane'[s].turn /\ \A k \in Seen' : m < k => ~OfTurn(k, s)'
    <3>1. PICK m \in Seen : Says(m, s, TurnBegan) /\ events[m].key = lane[s].turn /\ \A k \in Seen : m < k => ~OfTurn(k, s)
      BY <1>1, <1>2, <2>2 DEF Turned
    <3> QED
      BY <1>2, <1>5, <1>13, <1>14, <1>15, <3>1
  <2>3. ASSUME NEW d \in lane'[s].open, NEW m \in Seen', NEW n \in Seen', BeginsCall(m, s, d)', Says(n, s, TurnEnded)'
        PROVE  n < m
    <3>1. n \in Seen /\ Says(n, s, TurnEnded) /\ n < N
      BY <1>5, <1>13, <1>14, <1>15, <2>3
    <3>2. CASE m = N
      BY <3>1, <3>2
    <3>3. CASE m # N
      <4>1. m \in Seen /\ BeginsCall(m, s, d)
        BY <1>13, <1>16, <2>3, <3>3
      <4>2. d \in 1..L
        BY <1>1, <4>1 DEF Called, BeginsCall, L
      <4>3. d \in lane[s].open
        BY <1>2, <1>11, <4>2
      <4> QED
        BY <1>1, <3>1, <4>1, <4>3 DEF Turned
    <3> QED
      BY <3>2, <3>3
  <2>4. ASSUME NEW k \in Seen', NEW m \in Seen', NEW n \in Seen', Says(n, s, TurnEnded)', Says(k, s, CallEnded)', n < k,
               BeginsCall(m, s, events[k].key)'
        PROVE  n < m
    <3>1. n \in Seen /\ Says(n, s, TurnEnded) /\ n < N /\ k \in Seen /\ Says(k, s, CallEnded) /\ events'[k] = events[k]
      BY <1>5, <1>13, <1>14, <1>15, <2>4
    <3>2. CASE m = N
      BY <3>1, <3>2
    <3>3. CASE m # N
      <4>1. m \in Seen /\ BeginsCall(m, s, events[k].key)
        BY <1>5, <1>16, <2>4, <3>1, <3>3 DEF BeginsCall, Says
      <4> QED
        BY <1>1, <2>4, <3>1, <4>1 DEF Turned
    <3> QED
      BY <3>2, <3>3
  <2>5. \A n \in Seen' : Says(n, s, TurnEnded)' => n \in Seen /\ Says(n, s, TurnEnded)
    BY <1>13, <1>14, <1>15
  <2> QED
    BY <2>1, <2>2, <2>3, <2>4, <2>5 DEF Turned
<1> QED
  BY <1>2, <1>3, <1>4, <1>6, <1>17, <1>18, StepOf DEF LaneInv

LEMMA ToolEndKeeps ==
  ASSUME TraceInv, NEW s \in Logs, NEW c \in 1..MaxCallIds, ToolEnd(s, c)
  PROVE  TraceInv'
<1>1. TraceTypes /\ Called(s) /\ Returned(s) /\ Turned(s)
  BY DEF TraceInv
<1>2. /\ lane' \in [Logs -> LaneRec] /\ \A t \in Logs \ {s} : lane'[t] = lane[t]
      /\ lane'[s].at = lane[s].at /\ lane'[s].by = lane[s].by /\ lane'[s].calls = lane[s].calls
      /\ lane'[s].open = lane[s].open \ {c} /\ lane'[s].turn = lane[s].turn
  BY <1>1 DEF TraceTypes, LaneRec, ToolEnd
<1>8. c \in lane[s].open /\ c \in Nat /\ c \in 1..Len(lane[s].calls)
  BY <1>1, RunTraceAssumption DEF ToolEnd, Called
<1>9. lane[s].calls[c].nested \in Nat /\ lane[s].calls[c].wrapper \in BOOLEAN
  <2>1. lane[s] \in LaneRec /\ lane[s].calls \in Seq(CallRec)
    BY <1>1 DEF TraceTypes, LaneRec
  <2>2. lane[s].calls[c] \in CallRec
    BY <1>8, <2>1
  <2> QED
    BY <2>2 DEF CallRec
<1> DEFINE nested == lane[s].calls[c].nested
           wrapper == lane[s].calls[c].wrapper
           e == [s |-> s, type |-> CallEnded, key |-> c, nested |-> nested, wrapper |-> wrapper, parent |-> lane'[s].by]
<1>3. SaidOne(e) /\ e.s = s /\ e.type = CallEnded /\ e.key = c
  <2>1. Said(s, CallEnded, c, nested, wrapper) /\ CallEnded \in TraceKinds
    BY DEF ToolEnd, CallEnded, TraceKinds
  <2> HIDE DEF nested, wrapper
  <2> QED
    BY <1>1, <1>2, <1>8, <1>9, <2>1, SaidIs DEF nested, wrapper
<1>7. lane[s].at # "new"
  BY <1>8 DEF TraceInv, Born, NewLane
<1> HIDE DEF e, nested, wrapper
<1>4. Born(s)'
  BY <1>2, <1>3, <1>7, SameBirth
<1>5. PICK N \in Nat : /\ Seen' = Seen \cup {N} /\ N \notin Seen /\ \A n \in Seen : n < N /\ n \in Nat
                      /\ events'[N] = e /\ \A n \in Seen : events'[n] = events[n]
  BY <1>1, <1>3, OneMore
<1>12. events'[N].type = CallEnded /\ events'[N].s = s /\ events'[N].key = c
  BY <1>3, <1>5
<1>13. /\ \A n \in Seen : \A k \in TraceKinds : Says(n, s, k)' <=> Says(n, s, k)
       /\ \A n \in Seen : OfTurn(n, s)' <=> OfTurn(n, s)
       /\ \A n \in Seen : \A d : BeginsCall(n, s, d)' <=> BeginsCall(n, s, d)
  BY <1>5 DEF Says, BeginsCall, OfTurn
<1>14. TurnBegan \in TraceKinds /\ TurnEnded \in TraceKinds /\ CallEnded \in TraceKinds /\ CallBegan \in TraceKinds
  BY DEF TraceKinds
<1>15. /\ \A n \in Seen' : Says(n, s, TurnEnded)' => n \in Seen
       /\ \A n \in Seen' : Says(n, s, CallBegan)' => n \in Seen
       /\ \A n \in Seen' : OfTurn(n, s)' => n \in Seen
       /\ \A n \in Seen', d \in Nat : BeginsCall(n, s, d)' => n \in Seen
  BY <1>5, <1>12, KindsDiffer DEF Says, OfTurn, BeginsCall
<1>16. \A n \in Seen' : n # N => n \in Seen
  BY <1>5
<1>6. Called(s)'
  <2>1. ASSUME NEW d \in 1..Len(lane[s].calls) PROVE \E n \in Seen' : BeginsCall(n, s, d)'
    BY <1>1, <1>5, <1>13 DEF Called
  <2>2. ASSUME NEW n \in Seen, Says(n, s, CallBegan)
        PROVE  /\ events'[n].key \in 1..Len(lane[s].calls)
               /\ events'[n].nested = lane[s].calls[events'[n].key].nested
    BY <1>1, <1>5, <2>2 DEF Called
  <2>3. ASSUME NEW m \in Seen, NEW n \in Seen, Says(m, s, CallBegan), Says(n, s, CallBegan), m < n
        PROVE  events'[m].key < events'[n].key
    BY <1>1, <1>5, <2>3 DEF Called
  <2>4. lane'[s].open \subseteq 1..Len(lane[s].calls)
    BY <1>1, <1>2 DEF Called
  <2>5. \A n \in Seen' : Says(n, s, CallBegan)' => n \in Seen /\ Says(n, s, CallBegan)
    BY <1>13, <1>14, <1>15
  <2>6. \A d \in 1..Len(lane[s].calls) : lane[s].calls[d].nested < d
    BY <1>1 DEF Called
  <2> QED
    BY <1>2, <2>1, <2>2, <2>3, <2>4, <2>5, <2>6 DEF Called
<1>17. Returned(s)'
  <2>1. ASSUME NEW n \in Seen', Says(n, s, CallEnded)'
        PROVE  events'[n].key \notin lane'[s].open /\ \E m \in Seen' : m < n /\ BeginsCall(m, s, events[n].key)'
    <3>1. CASE n = N
      <4>1. PICK m \in Seen : BeginsCall(m, s, c)
        BY <1>1, <1>8 DEF Called
      <4>2. m < N /\ m \in Seen' /\ events'[m].s = s /\ events'[m].type = CallBegan /\ events'[m].key = c
        BY <1>5, <4>1 DEF BeginsCall, Says
      <4>3. c \notin lane'[s].open
        BY <1>2
      <4> QED
        BY <1>12, <3>1, <4>2, <4>3 DEF BeginsCall, Says
    <3>2. CASE n # N
      <4>1. n \in Seen /\ Says(n, s, CallEnded) /\ events'[n] = events[n]
        BY <1>5, <1>13, <1>14, <1>16, <2>1, <3>2
      <4>2. PICK m \in Seen : m < n /\ BeginsCall(m, s, events[n].key)
        BY <1>1, <4>1 DEF Returned
      <4>3. m \in Seen' /\ events'[m].s = s /\ events'[m].type = CallBegan /\ events'[m].key = events[n].key
        BY <1>5, <4>2 DEF BeginsCall, Says
      <4>4. events[n].key \notin lane'[s].open
        BY <1>1, <1>2, <4>1 DEF Returned
      <4> QED
        BY <4>1, <4>2, <4>3, <4>4 DEF BeginsCall, Says
    <3> QED
      BY <3>1, <3>2
  <2>2. ASSUME NEW n \in Seen', NEW m \in Seen', Says(n, s, CallEnded)', Says(m, s, CallEnded)', m # n
        PROVE  events'[m].key # events'[n].key
    <3>1. ASSUME NEW k \in Seen', Says(k, s, CallEnded)', k # N
          PROVE  k \in Seen /\ Says(k, s, CallEnded) /\ events'[k] = events[k] /\ events[k].key # c
      <4>1. k \in Seen /\ Says(k, s, CallEnded) /\ events'[k] = events[k]
        BY <1>5, <1>13, <1>14, <1>16, <3>1
      <4> QED
        BY <1>1, <1>8, <4>1 DEF Returned
    <3>2. CASE m = N \/ n = N
      BY <1>12, <2>2, <3>1, <3>2
    <3>3. CASE m # N /\ n # N
      BY <1>1, <2>2, <3>1, <3>3 DEF Returned
    <3> QED
      BY <3>2, <3>3
  <2> QED
    BY <2>1, <2>2 DEF Returned
<1>18. Turned(s)'
  <2>1. ASSUME NEW n \in Seen, Says(n, s, TurnEnded)
        PROVE  \E m \in Seen' : /\ m < n /\ Says(m, s, TurnBegan)' /\ events'[m].key = events'[n].key
                               /\ \A k \in Seen' : m < k /\ k < n => ~OfTurn(k, s)'
    <3>1. PICK m \in Seen : /\ m < n /\ Says(m, s, TurnBegan) /\ events[m].key = events[n].key
                            /\ \A k \in Seen : m < k /\ k < n => ~OfTurn(k, s)
      BY <1>1, <2>1 DEF Turned
    <3> QED
      BY <1>5, <1>13, <1>14, <1>15, <3>1
  <2>2. ASSUME lane'[s].turn >= 0
        PROVE  \E m \in Seen' : Says(m, s, TurnBegan)' /\ events'[m].key = lane'[s].turn /\ \A k \in Seen' : m < k => ~OfTurn(k, s)'
    <3>1. PICK m \in Seen : Says(m, s, TurnBegan) /\ events[m].key = lane[s].turn /\ \A k \in Seen : m < k => ~OfTurn(k, s)
      BY <1>1, <1>2, <2>2 DEF Turned
    <3> QED
      BY <1>2, <1>5, <1>13, <1>14, <1>15, <3>1
  <2>5. \A n \in Seen' : Says(n, s, TurnEnded)' => n \in Seen /\ Says(n, s, TurnEnded) /\ n < N
    BY <1>5, <1>13, <1>14, <1>15
  <2>6. \A n \in Seen', d \in Nat : BeginsCall(n, s, d)' => n \in Seen /\ BeginsCall(n, s, d)
    BY <1>13, <1>15
  <2>3. ASSUME NEW d \in lane'[s].open, NEW m \in Seen', NEW n \in Seen', BeginsCall(m, s, d)', Says(n, s, TurnEnded)'
        PROVE  n < m
    <3>1. d \in lane[s].open /\ d \in Nat
      BY <1>1, <1>2 DEF Called
    <3> QED
      BY <1>1, <2>3, <2>5, <2>6, <3>1 DEF Turned
  <2>4. ASSUME NEW k \in Seen', NEW m \in Seen', NEW n \in Seen', Says(n, s, TurnEnded)', Says(k, s, CallEnded)', n < k,
               BeginsCall(m, s, events[k].key)'
        PROVE  n < m
    <3>1. n \in Seen /\ Says(n, s, TurnEnded) /\ n < N
      BY <2>4, <2>5
    <3>2. m \in Seen /\ BeginsCall(m, s, events'[k].key)
      <4>1. Says(m, s, CallBegan)'
        BY <2>4 DEF BeginsCall
      <4>2. m \in Seen /\ events'[m] = events[m] /\ events'[m].s = s /\ events'[m].type = CallBegan
        BY <1>5, <1>15, <4>1 DEF Says
      <4>3. events'[m].key = events'[k].key
        BY <2>4 DEF BeginsCall
      <4> QED
        BY <4>2, <4>3 DEF BeginsCall, Says
    <3>3. CASE k = N
      <4>1. BeginsCall(m, s, c)
        BY <1>12, <3>2, <3>3
      <4> QED
        BY <1>1, <1>8, <3>1, <3>2, <4>1 DEF Turned
    <3>4. CASE k # N
      <4>1. k \in Seen /\ Says(k, s, CallEnded) /\ events'[k] = events[k]
        BY <1>5, <1>13, <1>14, <1>16, <2>4, <3>4
      <4> QED
        BY <1>1, <2>4, <3>1, <3>2, <4>1 DEF Turned
    <3> QED
      BY <3>3, <3>4
  <2>7. lane'[s].open \subseteq Nat
    BY <1>1, <1>2 DEF Called
  <2> QED
    BY <2>1, <2>2, <2>3, <2>4, <2>5 DEF Turned
<1> QED
  BY <1>2, <1>3, <1>4, <1>6, <1>17, <1>18, StepOf DEF LaneInv

LEMMA TraceStepInv == TraceInv /\ [TraceNext]_traceVars => TraceInv'
<1> SUFFICES ASSUME TraceInv, [TraceNext]_traceVars PROVE TraceInv'
  OBVIOUS
<1>1. CASE UNCHANGED traceVars
  BY <1>1 DEF traceVars, TraceInv, TraceTypes, Born, Called, Returned, Turned, Seen, Says, BeginsCall, OfTurn
<1>2. ASSUME NEW s \in Logs,
             \/ SessionStart(s) \/ Prompt(s) \/ TurnStart(s) \/ TurnEnd(s) \/ SessionEnd(s) \/ KillLane(s)
             \/ ToolStart(s) \/ \E c \in 1..MaxCallIds : ToolEnd(s, c)
      PROVE  TraceInv'
  BY <1>2, SessionStartKeeps, PromptKeeps, TurnStartKeeps, TurnEndKeeps, SessionEndKeeps, KillLaneKeeps, ToolStartKeeps,
     ToolEndKeeps
<1> QED
  BY <1>1, <1>2 DEF TraceNext

-----------------------------------------------------------------------------
\* What an end ends.

LEMMA KindNames ==
  /\ TurnBegan[1] = "turn" /\ TurnEnded[1] = "turn" /\ CallBegan[1] = "tool" /\ CallEnded[1] = "tool"
  /\ SessionBegan[1] = "session" /\ SessionEnded[1] = "session"
BY DEF TurnBegan, TurnEnded, CallBegan, CallEnded, SessionBegan, SessionEnded

LEMMA SeenIs ==
  ASSUME TraceInv
  PROVE  /\ Len(events) \in Nat /\ Seen = 1..Len(events)
         /\ \A n \in Seen : n \in Nat /\ events[n] \in TraceEvent /\ events[n].s \in Logs /\ events[n].type \in TraceKinds
                            /\ events[n].key \in Nat /\ events[n].nested \in Nat
<1>1. events \in Seq(TraceEvent)
  BY DEF TraceInv, TraceTypes
<1>2. Len(events) \in Nat /\ Seen = 1..Len(events) /\ \A n \in Seen : n \in Nat /\ events[n] \in TraceEvent
  BY <1>1 DEF Seen
<1> QED
  BY <1>2 DEF TraceEvent

\* The starts that an end could be of.
Starts(n) ==
  {m \in 1..n - 1 : KeyOf(m) = KeyOf(n) /\ events[m].type \in {<<"turn", "start">>, <<"tool", "start">>}}

LEMMA LastStart ==
  ASSUME TraceInv, NEW n \in Seen, Starts(n) # {}
  PROVE  Started(n) \in Starts(n) /\ \A m \in Starts(n) : m <= Started(n)
<1>1. n - 1 \in Nat /\ Starts(n) \in SUBSET (0..n - 1)
  BY SeenIs DEF Starts
<1>2. Max(Starts(n)) \in Starts(n) /\ \A m \in Starts(n) : Max(Starts(n)) >= m
  BY <1>1, SomeGreatest
<1>3. Started(n) = Max(Starts(n))
  BY DEF Started, Starts
<1>4. \A m \in Starts(n) : m \in Int
  BY <1>1
<1> QED
  BY <1>2, <1>3, <1>4

LEMMA StartsOf ==
  ASSUME TraceInv, NEW n \in Seen, NEW s, NEW m
  PROVE  /\ Says(n, s, TurnEnded) =>
              (m \in Starts(n) <=> m \in Seen /\ m < n /\ Says(m, s, TurnBegan) /\ events[m].key = events[n].key)
         /\ Says(n, s, CallEnded) =>
              (m \in Starts(n) <=> m \in Seen /\ m < n /\ BeginsCall(m, s, events[n].key))
<1>1. m \in 1..n - 1 <=> m \in Seen /\ m < n
  BY SeenIs
<1>2. ASSUME m \in Seen
      PROVE  events[m].type \in {TurnBegan, CallBegan} =>
               (KeyOf(m) = KeyOf(n) <=>
                  events[m].s = events[n].s /\ events[m].type[1] = events[n].type[1] /\ events[m].key = events[n].key)
  BY DEF KeyOf
<1>3. CASE Says(n, s, TurnEnded)
  <2>1. events[n].type[1] = "turn" /\ events[n].s = s /\ ~Says(n, s, CallEnded)
    BY <1>3, KindNames, KindsDiffer DEF Says
  <2>2. ASSUME m \in Seen, m < n
        PROVE  m \in Starts(n) <=> Says(m, s, TurnBegan) /\ events[m].key = events[n].key
    <3>1. m \in Starts(n) <=> KeyOf(m) = KeyOf(n) /\ events[m].type \in {TurnBegan, CallBegan}
      BY <1>1, <2>2 DEF Starts, TurnBegan, CallBegan
    <3>2. events[m].type = CallBegan => events[m].type[1] # events[n].type[1]
      BY <2>1, KindNames
    <3>3. events[m].type = TurnBegan => events[m].type[1] = events[n].type[1]
      BY <2>1, KindNames
    <3> QED
      BY <1>2, <2>1, <2>2, <3>1, <3>2, <3>3 DEF Says
  <2>3. m \in Starts(n) => m \in 1..n - 1
    BY DEF Starts
  <2> QED
    BY <1>1, <2>1, <2>2, <2>3
<1>4. CASE Says(n, s, CallEnded)
  <2>1. events[n].type[1] = "tool" /\ events[n].s = s /\ ~Says(n, s, TurnEnded)
    BY <1>4, KindNames, KindsDiffer DEF Says
  <2>2. ASSUME m \in Seen, m < n
        PROVE  m \in Starts(n) <=> Says(m, s, CallBegan) /\ events[m].key = events[n].key
    <3>1. m \in Starts(n) <=> KeyOf(m) = KeyOf(n) /\ events[m].type \in {TurnBegan, CallBegan}
      BY <1>1, <2>2 DEF Starts, TurnBegan, CallBegan
    <3>2. events[m].type = TurnBegan => events[m].type[1] # events[n].type[1]
      BY <2>1, KindNames
    <3>3. events[m].type = CallBegan => events[m].type[1] = events[n].type[1]
      BY <2>1, KindNames
    <3> QED
      BY <1>2, <2>1, <2>2, <3>1, <3>2, <3>3 DEF Says
  <2>3. m \in Starts(n) => m \in 1..n - 1
    BY DEF Starts
  <2> QED
    BY <1>1, <2>1, <2>2, <2>3 DEF BeginsCall
<1> QED
  BY <1>3, <1>4

\* A call has one beginning.
LEMMA BeginsOnce ==
  ASSUME TraceInv, NEW s \in Logs, NEW m \in Seen, NEW n \in Seen, NEW c, BeginsCall(m, s, c), BeginsCall(n, s, c)
  PROVE  m = n
<1>1. Called(s) /\ m \in Nat /\ n \in Nat /\ events[m].key \in Nat /\ events[n].key \in Nat
  BY SeenIs DEF TraceInv
<1>2. events[m].key = c /\ events[n].key = c /\ Says(m, s, CallBegan) /\ Says(n, s, CallBegan)
  BY DEF BeginsCall
<1>3. ~(m < n) /\ ~(n < m)
  BY <1>1, <1>2 DEF Called
<1> QED
  BY <1>1, <1>3

\* An end of a turn is of the last turn its session began.
LEMMA StartedTurn ==
  ASSUME TraceInv, NEW s \in Logs, NEW n \in Seen, Says(n, s, TurnEnded)
  PROVE  /\ Started(n) \in Seen /\ Started(n) < n /\ Says(Started(n), s, TurnBegan)
         /\ events[Started(n)].key = events[n].key
         /\ \A k \in Seen : Started(n) < k /\ k < n => ~OfTurn(k, s)
<1>1. PICK m \in Seen : /\ m < n /\ Says(m, s, TurnBegan) /\ events[m].key = events[n].key
                        /\ \A k \in Seen : m < k /\ k < n => ~OfTurn(k, s)
  BY DEF TraceInv, Turned
<1>2. m \in Starts(n)
  BY <1>1, StartsOf
<1>3. Started(n) \in Starts(n) /\ m <= Started(n)
  BY <1>2, LastStart
<1>4. Started(n) \in Seen /\ Started(n) < n /\ Says(Started(n), s, TurnBegan)
  BY <1>3, StartsOf
<1>5. ~(m < Started(n))
  BY <1>1, <1>4 DEF OfTurn
<1>6. m = Started(n)
  BY <1>3, <1>4, <1>5, SeenIs
<1> QED
  BY <1>1, <1>4, <1>6

\* An end of a call is of the call.
LEMMA StartedCall ==
  ASSUME TraceInv, NEW s \in Logs, NEW n \in Seen, Says(n, s, CallEnded)
  PROVE  /\ Started(n) \in Seen /\ Started(n) < n /\ BeginsCall(Started(n), s, events[n].key)
         /\ \A m \in Seen : BeginsCall(m, s, events[n].key) => m = Started(n)
<1>1. PICK m \in Seen : m < n /\ BeginsCall(m, s, events[n].key)
  BY DEF TraceInv, Returned
<1>2. m \in Starts(n)
  BY <1>1, StartsOf
<1>3. Started(n) \in Starts(n)
  BY <1>2, LastStart
<1>4. Started(n) \in Seen /\ Started(n) < n /\ BeginsCall(Started(n), s, events[n].key)
  BY <1>3, StartsOf
<1> QED
  BY <1>4, BeginsOnce

-----------------------------------------------------------------------------
\* Active time: the moments so far, those of the last stretch among them, are counted once.

Stretches == [total : Nat, start : Nat, end : Nat]
Counts(a, covered) ==
  /\ a \in Stretches /\ a.start <= a.end
  /\ covered \subseteq 0..a.end - 1 /\ a.start..a.end - 1 \subseteq covered
  /\ IsFiniteSet(covered) /\ Cardinality(covered) = a.total + a.end - a.start

\* A set and an interval that it does not meet.
LEMMA BesideIt ==
  ASSUME NEW C, IsFiniteSet(C), NEW from \in Nat, NEW to \in Nat, from <= to, C \cap (from..to - 1) = {}
  PROVE  IsFiniteSet(C \cup (from..to - 1)) /\ Cardinality(C \cup (from..to - 1)) = Cardinality(C) + to - from
<1>1. IsFiniteSet(from..to - 1) /\ Cardinality(from..to - 1) = to - from
  <2>1. to - 1 \in Int /\ from \in Int
    OBVIOUS
  <2>2. IsFiniteSet(from..to - 1) /\ Cardinality(from..to - 1) = IF from > to - 1 THEN 0 ELSE (to - 1) - from + 1
    BY <2>1, FS_Interval
  <2> QED
    BY <2>2
<1>2. IsFiniteSet(C \cup (from..to - 1))
      /\ Cardinality(C \cup (from..to - 1)) = Cardinality(C) + Cardinality(from..to - 1) - Cardinality(C \cap (from..to - 1))
  BY <1>1, FS_Union
<1>3. Cardinality(C \cap (from..to - 1)) = 0 /\ Cardinality(C) \in Nat
  BY FS_EmptySet, FS_CardinalityType
<1> QED
  BY <1>1, <1>2, <1>3

LEMMA JoinCounts ==
  ASSUME NEW a, NEW C, Counts(a, C), NEW from \in Nat, NEW to \in Nat, from < to, a.start <= from
  PROVE  Counts(JoinSpan(a, from, to), C \cup (from..to - 1)) /\ JoinSpan(a, from, to).start <= from
<1> DEFINE D == C \cup (from..to - 1)
<1>1. /\ a \in Stretches /\ a.total \in Nat /\ a.start \in Nat /\ a.end \in Nat /\ a.start <= a.end
      /\ C \subseteq 0..a.end - 1 /\ a.start..a.end - 1 \subseteq C
      /\ IsFiniteSet(C) /\ Cardinality(C) = a.total + a.end - a.start
  BY DEF Counts, Stretches
<1>2. CASE from > a.end
  <2> DEFINE b == [total |-> a.total + a.end - a.start, start |-> from, end |-> to]
  <2>1. JoinSpan(a, from, to) = b
    BY <1>2 DEF JoinSpan
  <2>2. C \cap (from..to - 1) = {}
    BY <1>1, <1>2
  <2>3. IsFiniteSet(D) /\ Cardinality(D) = Cardinality(C) + to - from
    BY <1>1, <2>2, BesideIt
  <2>4. b \in Stretches /\ b.start <= b.end /\ b.start = from /\ b.end = to /\ b.total = a.total + a.end - a.start
    BY <1>1 DEF Stretches
  <2>5. D \subseteq 0..to - 1 /\ from..to - 1 \subseteq D
    BY <1>1, <1>2
  <2>6. Cardinality(D) = b.total + b.end - b.start
    BY <1>1, <2>3, <2>4
  <2> HIDE DEF b, D
  <2>7. Counts(b, D)
    BY <2>3, <2>4, <2>5, <2>6 DEF Counts
  <2> QED
    BY <2>1, <2>4, <2>7 DEF D
<1>3. CASE from <= a.end /\ to > a.end
  <2> DEFINE b == [a EXCEPT !.end = to]
  <2>1. JoinSpan(a, from, to) = b
    BY <1>1, <1>3 DEF JoinSpan
  <2>2. D = C \cup (a.end..to - 1) /\ C \cap (a.end..to - 1) = {}
    BY <1>1, <1>3
  <2>3. IsFiniteSet(D) /\ Cardinality(D) = Cardinality(C) + to - a.end
    <3>1. a.end <= to
      BY <1>1, <1>3
    <3> HIDE DEF D
    <3> QED
      BY <1>1, <2>2, <3>1, BesideIt
  <2>4. b \in Stretches /\ b.start <= b.end /\ b.start = a.start /\ b.end = to /\ b.total = a.total
    BY <1>1, <1>3 DEF Stretches
  <2>5. D \subseteq 0..to - 1 /\ a.start..to - 1 \subseteq D
    BY <1>1, <1>3, <2>2
  <2>6. Cardinality(D) = b.total + b.end - b.start
    BY <1>1, <2>3, <2>4
  <2> HIDE DEF b, D
  <2>7. Counts(b, D)
    BY <2>3, <2>4, <2>5, <2>6 DEF Counts
  <2> QED
    BY <2>1, <2>4, <2>7 DEF D
<1>4. CASE from <= a.end /\ to <= a.end
  <2>1. JoinSpan(a, from, to) = a
    BY <1>1, <1>4 DEF JoinSpan
  <2>2. D = C
    BY <1>1, <1>4
  <2> QED
    BY <2>1, <2>2
<1> QED
  BY <1>1, <1>2, <1>3, <1>4

-----------------------------------------------------------------------------
StartsBefore(leaves) == leaves \subseteq Seen /\ \A n \in leaves : Started(n) \in Nat /\ 1 <= Started(n) /\ Started(n) < n
Covered(leaves, m) == UNION {Moments(n) : n \in {k \in leaves : Started(k) <= m}}

\* The work that began with event m, and what is made of it.
Ending(leaves, m) == {n \in leaves : Started(n) = m}
JoinEnding(leaves, a, m) == IF Ending(leaves, m) = {} THEN a ELSE JoinSpan(a, m, Max(Ending(leaves, m)))

LEMMA EndingIs ==
  ASSUME TraceInv, NEW leaves, StartsBefore(leaves), NEW m \in 1..Len(events), Ending(leaves, m) # {}
  PROVE  /\ Max(Ending(leaves, m)) \in Nat /\ m < Max(Ending(leaves, m))
         /\ Covered(leaves, m) = Covered(leaves, m - 1) \cup (m..Max(Ending(leaves, m)) - 1)
<1> DEFINE E == Ending(leaves, m)
<1>1. Len(events) \in Nat /\ E \in SUBSET (0..Len(events)) /\ E # {} /\ \A n \in E : n \in leaves /\ Started(n) = m /\ m < n /\ n \in Nat
  BY SeenIs DEF StartsBefore, Ending
<1>2. Max(E) \in E /\ \A n \in E : Max(E) >= n
  <2> HIDE DEF E
  <2> QED
    BY <1>1, SomeGreatest
<1> DEFINE to == Max(E)
<1>3. to \in Nat /\ m < to /\ to \in E
  BY <1>1, <1>2
<1> HIDE DEF to
<1>4. \A n \in leaves : Started(n) <= m <=> Started(n) <= m - 1 \/ n \in E
  BY DEF StartsBefore, Ending
<1>5. \A n \in E : Moments(n) = m..n - 1
  BY <1>1 DEF Moments
<1> HIDE DEF E
<1>6. Covered(leaves, m) = Covered(leaves, m - 1) \cup UNION {Moments(n) : n \in E}
  <2>1. E \subseteq leaves
    BY <1>1
  <2> QED
    BY <1>4, <2>1 DEF Covered
<1>7. UNION {Moments(n) : n \in E} = m..to - 1
  <2>1. ASSUME NEW n \in E PROVE Moments(n) \subseteq m..to - 1
    <3>1. n <= to /\ n \in Nat
      BY <1>1, <1>2, <1>3 DEF to
    <3> QED
      BY <1>3, <1>5, <3>1
  <2>2. Moments(to) = m..to - 1
    BY <1>3, <1>5
  <2> QED
    BY <1>3, <2>1, <2>2
<1> QED
  BY <1>3, <1>6, <1>7 DEF to, E

LEMMA CountsNext ==
  ASSUME TraceInv, NEW leaves, StartsBefore(leaves), NEW m \in 1..Len(events), NEW a, Counts(a, Covered(leaves, m - 1)), a.start <= m - 1
  PROVE  Counts(JoinEnding(leaves, a, m), Covered(leaves, m)) /\ JoinEnding(leaves, a, m).start <= m
<1>1. a.start \in Nat /\ a.start <= m /\ m \in Nat
  BY DEF Counts, Stretches
<1>2. CASE Ending(leaves, m) = {}
  <2>1. \A n \in leaves : Started(n) <= m <=> Started(n) <= m - 1
    BY <1>2 DEF StartsBefore, Ending
  <2>2. Covered(leaves, m) = Covered(leaves, m - 1)
    BY <2>1 DEF Covered
  <2> QED
    BY <1>1, <1>2, <2>2 DEF JoinEnding
<1>3. CASE Ending(leaves, m) # {}
  BY <1>1, <1>3, EndingIs, JoinCounts DEF JoinEnding
<1> QED
  BY <1>2, <1>3

NoStretch == [total |-> 0, start |-> 0, end |-> 0]

LEMMA NoneCovered ==
  ASSUME NEW leaves, StartsBefore(leaves)
  PROVE  Counts(NoStretch, Covered(leaves, 0)) /\ NoStretch.start <= 0
<1>1. Covered(leaves, 0) = {}
  BY DEF StartsBefore, Covered
<1>2. IsFiniteSet({}) /\ Cardinality({}) = 0
  BY FS_EmptySet
<1>3. NoStretch \in Stretches /\ NoStretch.start = 0 /\ NoStretch.end = 0 /\ NoStretch.total = 0
  BY DEF NoStretch, Stretches
<1>4. 0..0 - 1 = {}
  OBVIOUS
<1> QED
  BY <1>1, <1>2, <1>3, <1>4 DEF Counts

\* What is joined is a stretch whatever was joined before.
LEMMA JoinEndingIs ==
  ASSUME TraceInv, NEW leaves, StartsBefore(leaves), NEW m \in 1..Len(events), NEW a \in {b \in Stretches : b.start <= b.end}
  PROVE  JoinEnding(leaves, a, m) \in {b \in Stretches : b.start <= b.end}
<1>1. a \in Stretches /\ a.total \in Nat /\ a.start \in Nat /\ a.end \in Nat /\ a.start <= a.end /\ m \in Nat
  BY DEF Stretches
<1>2. CASE Ending(leaves, m) = {}
  BY <1>2 DEF JoinEnding
<1>3. CASE Ending(leaves, m) # {}
  <2> DEFINE to == Max(Ending(leaves, m))
  <2>1. to \in Nat /\ m < to /\ JoinEnding(leaves, a, m) = JoinSpan(a, m, to)
    BY <1>3, EndingIs DEF JoinEnding
  <2> HIDE DEF to
  <2>2. CASE m > a.end
    BY <1>1, <2>1, <2>2 DEF JoinSpan, Stretches
  <2>3. CASE ~(m > a.end) /\ to > a.end
    <3>1. JoinSpan(a, m, to) = [a EXCEPT !.end = to]
      BY <2>3 DEF JoinSpan
    <3>2. [a EXCEPT !.end = to] \in Stretches /\ [a EXCEPT !.end = to].start = a.start /\ [a EXCEPT !.end = to].end = to
      BY <1>1, <2>1 DEF Stretches
    <3>3. a.start <= to
      BY <1>1, <2>1, <2>3
    <3> QED
      BY <2>1, <3>1, <3>2, <3>3
  <2>4. CASE ~(m > a.end) /\ ~(to > a.end)
    BY <1>1, <2>1, <2>4 DEF JoinSpan
  <2> QED
    BY <2>2, <2>3, <2>4
<1> QED
  BY <1>2, <1>3

LEMMA JoinedCounts ==
  ASSUME TraceInv, NEW leaves, StartsBefore(leaves)
  PROVE  \E a : Counts(a, Covered(leaves, Len(events))) /\ IntervalUnion(leaves) = a.total + a.end - a.start
<1> DEFINE N == Len(events)
           A == {b \in Stretches : b.start <= b.end}
           F == [m \in (1..N) \X A |-> JoinEnding(leaves, m[2], m[1])]
           v == CHOOSE joined : joined =
                  [m \in 0..Len(events) |->
                     IF m = 0 THEN [total |-> 0, start |-> 0, end |-> 0]
                     ELSE IF {n \in leaves : Started(n) = m} = {} THEN joined[m - 1]
                          ELSE JoinSpan(joined[m - 1], m, Max({n \in leaves : Started(n) = m}))]
<1>1. N \in Nat /\ NoStretch \in A
  <2>1. NoStretch \in A
    BY NoneCovered DEF Counts
  <2> QED
    BY <2>1, SeenIs
<1>2. F \in [(1..N) \X A -> A]
  <2> SUFFICES ASSUME NEW m \in (1..N) \X A PROVE JoinEnding(leaves, m[2], m[1]) \in A
    OBVIOUS
  <2>1. m[1] \in 1..N /\ m[2] \in A
    OBVIOUS
  <2> QED
    BY <2>1, JoinEndingIs
<1>3. \A n \in 1..N, x \in A : F[<<n, x>>] = JoinEnding(leaves, x, n)
  OBVIOUS
<1> HIDE DEF F
<1>4. PICK u \in [0..N -> A] : Iterated(u, NoStretch, N, F)
  <2> HIDE DEF N, A
  <2> QED
    BY <1>1, <1>2, Iterates
<1>5. u = [m \in 0..N |-> IF m = 0 THEN NoStretch ELSE JoinEnding(leaves, u[m - 1], m)]
  <2>1. ASSUME NEW m \in 0..N PROVE u[m] = IF m = 0 THEN NoStretch ELSE JoinEnding(leaves, u[m - 1], m)
    <3>1. CASE m = 0
      BY <1>4, <3>1 DEF Iterated
    <3>2. CASE m # 0
      <4>1. m \in 1..N /\ m - 1 \in 0..N
        BY <1>1, <3>2
      <4> QED
        BY <1>3, <1>4, <3>2, <4>1 DEF Iterated
    <3> QED
      BY <3>1, <3>2
  <2> QED
    BY <1>4, <2>1
<1>6. v = [m \in 0..N |-> IF m = 0 THEN NoStretch ELSE JoinEnding(leaves, v[m - 1], m)]
  BY <1>5 DEF JoinEnding, Ending, NoStretch
<1>7. IntervalUnion(leaves) = v[N].total + v[N].end - v[N].start
  BY DEF IntervalUnion
<1> HIDE DEF v
<1>8. v[0] = NoStretch /\ \A m \in 1..N : v[m] = JoinEnding(leaves, v[m - 1], m)
  <2>1. \A m \in 1..N : m \in 0..N /\ m # 0
    OBVIOUS
  <2>2. 0 \in 0..N
    BY <1>1
  <2> QED
    BY <1>6, <2>1, <2>2
<1> DEFINE Good == {m \in 0..N : Counts(v[m], Covered(leaves, m)) /\ v[m].start <= m}
<1>9. 0..N \subseteq Good
  <2>1. 0 \in Good
    BY <1>1, <1>8, NoneCovered
  <2>2. ASSUME NEW m \in 1..N, m - 1 \in Good PROVE m \in Good
    BY <1>8, <2>2, CountsNext
  <2> HIDE DEF Good
  <2> QED
    BY <1>1, <2>1, <2>2, UpTo
<1>10. Counts(v[N], Covered(leaves, N))
  BY <1>1, <1>9
<1> QED
  BY <1>7, <1>10

\* The union of the spans of the work is counted.
LEMMA IntervalUnionIs ==
  ASSUME TraceInv, NEW leaves, StartsBefore(leaves)
  PROVE  IntervalUnion(leaves) = Cardinality(UNION {Moments(n) : n \in leaves})
<1>1. PICK a : Counts(a, Covered(leaves, Len(events))) /\ IntervalUnion(leaves) = a.total + a.end - a.start
  BY JoinedCounts
<1>2. \A n \in leaves : Started(n) <= Len(events)
  BY SeenIs DEF StartsBefore
<1>3. {k \in leaves : Started(k) <= Len(events)} = leaves
  BY <1>2
<1> QED
  BY <1>1, <1>3 DEF Counts, Covered

-----------------------------------------------------------------------------
LEMMA EndsStartBefore ==
  ASSUME TraceInv, NEW leaves \in SUBSET {n \in Seen : events[n].type \in {TurnEnded, CallEnded}}
  PROVE  StartsBefore(leaves)
<1> SUFFICES ASSUME NEW n \in leaves PROVE Started(n) \in Nat /\ 1 <= Started(n) /\ Started(n) < n
  BY DEF StartsBefore
<1>1. n \in Seen /\ events[n].s \in Logs /\ Len(events) \in Nat /\ Seen = 1..Len(events)
  BY SeenIs
<1>2. Says(n, events[n].s, TurnEnded) \/ Says(n, events[n].s, CallEnded)
  BY DEF Says
<1>3. Started(n) \in Seen /\ Started(n) < n
  BY <1>1, <1>2, StartedTurn, StartedCall
<1> QED
  BY <1>1, <1>3

\* An agent that has not dispatched by the end of its turn did not wait in it.
LEMMA NoWaiting ==
  ASSUME TraceInv, NEW n \in Seen, events[n].type = TurnEnded,
         NEW known, RoleOf[events[n].s] \notin known, Orchestrators(n) \subseteq known
  PROVE  Moments(n) \cap Waits(n) = {}
<1> DEFINE s == events[n].s
<1>1. s \in Logs /\ Says(n, s, TurnEnded) /\ n \in Nat
  BY SeenIs DEF Says
<1>2. ASSUME NEW k \in Seen, events[k].type = CallEnded, events[k].wrapper, events[k].s = s
      PROVE  Moments(n) \cap Moments(k) = {}
  <2>1. Says(k, s, CallEnded) /\ k \in Nat /\ k >= 1
    BY <1>2, SeenIs DEF Says
  <2>2. ~(k <= n)
    <3>1. SUFFICES ASSUME k <= n PROVE FALSE
      OBVIOUS
    <3>2. k \in {j \in 1..n : events[j].type = <<"tool", "end">> /\ events[j].wrapper}
      BY <1>1, <1>2, <2>1, <3>1 DEF CallEnded
    <3>3. RoleOf[events[k].s] \in Orchestrators(n)
      BY <3>2 DEF Orchestrators
    <3> QED
      BY <1>2, <3>3
  <2>3. Started(k) \in Seen /\ BeginsCall(Started(k), s, events[k].key)
    BY <1>1, <2>1, StartedCall
  <2>4. n < k
    BY <1>1, <2>1, <2>2
  <2>5. Turned(s)
    BY <1>1 DEF TraceInv
  <2>6. n < Started(k)
    BY <1>1, <2>1, <2>3, <2>4, <2>5 DEF Turned
  <2>7. Started(n) \in Nat /\ Started(k) \in Nat
    BY <1>1, <2>3, StartedTurn, SeenIs
  <2> QED
    BY <1>1, <2>1, <2>6, <2>7 DEF Moments
<1> QED
  BY <1>2 DEF Waits, CallEnded

THEOREM WorkIsTrue == TraceInv => WorkTrue
<1> SUFFICES ASSUME TraceInv PROVE WorkTrue
  OBVIOUS
<1>1. ASSUME NEW n \in Seen PROVE Orchestrators(n) \subseteq Orchestrators(Len(events)) /\ Orchestrators(n) \subseteq Orchestrators(n)
  <2>1. \A k \in 1..n : k \in 1..Len(events)
    BY SeenIs
  <2> QED
    BY <2>1 DEF Orchestrators
<1>2. ASSUME NEW leaves \in {IndexedWork, DigestedWork}
      PROVE  leaves \subseteq {n \in Seen : events[n].type \in {TurnEnded, CallEnded}}
  BY DEF IndexedWork, DigestedWork, ToolSpans, Leaf, TurnEnded, CallEnded
<1>3. ASSUME NEW leaves \in {IndexedWork, DigestedWork}, NEW n \in leaves, events[n].type = TurnEnded
      PROVE  Moments(n) \cap Waits(n) = {}
  <2>1. n \in Seen
    BY <1>2
  <2>2. n \notin ToolSpans
    BY <1>3, KindsDiffer DEF ToolSpans, CallEnded
  <2>3. CASE Leaf(n, Orchestrators(n))
    BY <1>1, <1>3, <2>1, <2>3, NoWaiting DEF Leaf
  <2>4. CASE Leaf(n, Orchestrators(Len(events)))
    BY <1>1, <1>3, <2>1, <2>4, NoWaiting DEF Leaf
  <2> QED
    BY <2>2, <2>3, <2>4 DEF IndexedWork, DigestedWork
<1>4. ASSUME NEW leaves \in {IndexedWork, DigestedWork}
      PROVE  IntervalUnion(leaves) = Cardinality(UNION {Moments(n) : n \in leaves})
  BY <1>2, EndsStartBefore, IntervalUnionIs
<1> QED
  BY <1>3, <1>4 DEF WorkTrue, TurnEnded

-----------------------------------------------------------------------------
\* The sessions of the tree.

LEMMA FirstIs ==
  ASSUME TraceInv, NEW seen \in SUBSET Seen, NEW s \in Shown(seen)
  PROVE  /\ FirstOf(seen, s) \in seen /\ events[FirstOf(seen, s)].s = s /\ FirstOf(seen, s) \in Nat /\ s \in Logs
         /\ \A n \in seen : events[n].s = s => FirstOf(seen, s) <= n
<1> DEFINE own == {n \in seen : events[n].s = s}
<1>1. own \in SUBSET Nat /\ own # {} /\ s \in Logs
  BY SeenIs DEF Shown
<1>2. PICK n \in own : \A m \in own : n <= m
  <2> HIDE DEF own
  <2> QED
    BY <1>1, SomeLeast
<1>3. FirstOf(seen, s) \in own /\ \A m \in own : FirstOf(seen, s) <= m
  BY <1>2 DEF FirstOf, Min
<1> QED
  BY <1>1, <1>3

LEMMA ParentIs ==
  ASSUME TraceInv, NEW seen \in SUBSET Seen, NEW s, Named(seen, s) # {}
  PROVE  \E p \in Named(seen, s) : ParentLane(seen, s) = {p} /\ \A t \in Named(seen, s) : FirstOf(seen, p) <= FirstOf(seen, t)
<1> DEFINE firsts == {FirstOf(seen, t) : t \in Named(seen, s)}
<1>1. \A t \in Named(seen, s) : t \in Shown(seen)
  BY DEF Named
<1>2. firsts \in SUBSET Nat /\ firsts # {}
  BY <1>1, FirstIs
<1>3. PICK n \in firsts : \A m \in firsts : n <= m
  <2> HIDE DEF firsts
  <2> QED
    BY <1>2, SomeLeast
<1>4. \E t \in Named(seen, s) : \A u \in Named(seen, s) : FirstOf(seen, t) <= FirstOf(seen, u)
  BY <1>3
<1> DEFINE p == CHOOSE t \in Named(seen, s) : \A u \in Named(seen, s) : FirstOf(seen, t) <= FirstOf(seen, u)
<1>5. p \in Named(seen, s) /\ \A t \in Named(seen, s) : FirstOf(seen, p) <= FirstOf(seen, t)
  BY <1>4
<1>6. ParentLane(seen, s) = {p}
  BY DEF ParentLane
<1> HIDE DEF p
<1> QED
  BY <1>5, <1>6

\* With the whole run, a session's parent began before it.
LEMMA ParentBefore ==
  ASSUME TraceInv, NEW s \in Shown(Seen)
  PROVE  \/ ParentLane(Seen, s) = {}
         \/ \E p \in Shown(Seen) : ParentLane(Seen, s) = {p} /\ FirstOf(Seen, p) < FirstOf(Seen, s)
<1>1. CASE Named(Seen, s) = {}
  BY <1>1 DEF ParentLane
<1>2. CASE Named(Seen, s) # {}
  <2>1. PICK p \in Named(Seen, s) : ParentLane(Seen, s) = {p} /\ \A t \in Named(Seen, s) : FirstOf(Seen, p) <= FirstOf(Seen, t)
    BY <1>2, ParentIs
  <2>2. s \in Logs /\ FirstOf(Seen, s) \in Seen /\ events[FirstOf(Seen, s)].s = s /\ FirstOf(Seen, s) \in Nat
    BY FirstIs
  <2>3. Born(s) /\ lane[s].by # <<>> /\ p \in Shown(Seen)
    BY <1>2, <2>2 DEF TraceInv, Named
  <2>4. PICK m \in Seen : events[m].s = lane[s].by[1] /\ \A n \in Seen : events[n].s = s => m < n
    BY <2>3 DEF Born
  <2> DEFINE d == lane[s].by[1]
  <2>5. d \in Shown(Seen) /\ d \in Named(Seen, s)
    BY <2>3, <2>4 DEF Shown, Named
  <2>6. FirstOf(Seen, p) <= FirstOf(Seen, d) /\ FirstOf(Seen, d) <= m /\ m < FirstOf(Seen, s)
    BY <2>1, <2>2, <2>4, <2>5, FirstIs
  <2>7. FirstOf(Seen, p) \in Nat /\ FirstOf(Seen, d) \in Nat /\ m \in Nat
    BY <2>3, <2>5, FirstIs, SeenIs
  <2> QED
    BY <2>1, <2>2, <2>3, <2>6, <2>7
<1> QED
  BY <1>1, <1>2

-----------------------------------------------------------------------------
\* A step down.
Lower(seen, B) == B \cup UNION {Kids(seen, s) : s \in B}

LEMMA DownIs ==
  ASSUME NEW seen, NEW N \in Nat, N = Cardinality(Logs)
  PROVE  \E below : /\ Down(seen) = below[N] /\ below[0] = TreeRoots(seen)
                    /\ \A k \in 1..N : below[k] = Lower(seen, below[k - 1])
                    /\ \A k \in 0..N : below[k] \subseteq Shown(seen)
<1> DEFINE A == SUBSET Shown(seen)
           F == [m \in (1..N) \X A |-> Lower(seen, m[2])]
           v == CHOOSE below : below =
                  [k \in 0..Cardinality(Logs) |->
                     IF k = 0 THEN TreeRoots(seen) ELSE below[k - 1] \cup UNION {Kids(seen, s) : s \in below[k - 1]}]
<1>1. TreeRoots(seen) \in A /\ \A B \in A : Lower(seen, B) \in A
  BY DEF TreeRoots, Lower, Kids
<1>2. F \in [(1..N) \X A -> A]
  <2> SUFFICES ASSUME NEW m \in (1..N) \X A PROVE Lower(seen, m[2]) \in A
    OBVIOUS
  <2>1. m[2] \in A
    OBVIOUS
  <2> QED
    BY <1>1, <2>1
<1>3. \A n \in 1..N, x \in A : F[<<n, x>>] = Lower(seen, x)
  OBVIOUS
<1> HIDE DEF F
<1>4. PICK u \in [0..N -> A] : Iterated(u, TreeRoots(seen), N, F)
  <2> HIDE DEF A
  <2> QED
    BY <1>1, <1>2, Iterates
<1>5. u = [k \in 0..N |-> IF k = 0 THEN TreeRoots(seen) ELSE Lower(seen, u[k - 1])]
  <2>1. ASSUME NEW k \in 0..N PROVE u[k] = IF k = 0 THEN TreeRoots(seen) ELSE Lower(seen, u[k - 1])
    <3>1. CASE k = 0
      BY <1>4, <3>1 DEF Iterated
    <3>2. CASE k # 0
      <4>1. k \in 1..N /\ k - 1 \in 0..N
        BY <3>2
      <4> QED
        BY <1>3, <1>4, <3>2, <4>1 DEF Iterated
    <3> QED
      BY <3>1, <3>2
  <2> QED
    BY <1>4, <2>1
<1>6. v = [k \in 0..N |-> IF k = 0 THEN TreeRoots(seen) ELSE Lower(seen, v[k - 1])]
  BY <1>5 DEF Lower
<1>7. Down(seen) = v[N]
  BY DEF Down
<1> HIDE DEF v
<1>8. v[0] = TreeRoots(seen) /\ \A k \in 1..N : v[k] = Lower(seen, v[k - 1])
  <2>1. \A k \in 1..N : k \in 0..N /\ k # 0
    OBVIOUS
  <2> QED
    BY <1>6, <2>1
<1> DEFINE Good == {k \in 0..N : v[k] \in A}
<1>9. 0..N \subseteq Good
  <2>1. 0 \in Good
    BY <1>1, <1>8
  <2>2. ASSUME NEW k \in 1..N, k - 1 \in Good PROVE k \in Good
    BY <1>1, <1>8, <2>2
  <2> HIDE DEF Good
  <2> QED
    BY <2>1, <2>2, UpTo
<1>10. \A k \in 0..N : v[k] \subseteq Shown(seen)
  BY <1>9
<1> QED
  BY <1>7, <1>8, <1>10

\* Where every session's parent comes before it, in any order there is, all are found.
LEMMA DownAll ==
  ASSUME NEW seen, NEW N \in Nat, N = Cardinality(Logs), NEW g \in [Shown(seen) -> 0..N],
         \A t \in Shown(seen) : \/ ParentLane(seen, t) = {}
                                \/ \E p \in Shown(seen) : ParentLane(seen, t) = {p} /\ g[p] < g[t]
  PROVE  Down(seen) = Shown(seen)
<1>1. PICK below : /\ Down(seen) = below[N] /\ below[0] = TreeRoots(seen)
                   /\ \A k \in 1..N : below[k] = Lower(seen, below[k - 1])
                   /\ \A k \in 0..N : below[k] \subseteq Shown(seen)
  BY DownIs
<1> DEFINE Good == {k \in 0..N : \A t \in Shown(seen) : g[t] <= k => t \in below[k]}
<1>2. \A t \in Shown(seen) : ParentLane(seen, t) = {} => t \in TreeRoots(seen)
  BY DEF TreeRoots
<1>3. 0 \in Good
  <2>1. ASSUME NEW t \in Shown(seen), g[t] <= 0 PROVE t \in below[0]
    <3>1. ASSUME NEW p \in Shown(seen) PROVE ~(g[p] < g[t])
      <4>1. g[p] \in Nat /\ g[t] \in Nat
        OBVIOUS
      <4> QED
        BY <2>1, <4>1
    <3> QED
      BY <1>1, <1>2, <3>1
  <2> QED
    BY <2>1
<1>4. ASSUME NEW k \in 1..N, k - 1 \in Good PROVE k \in Good
  <2>1. ASSUME NEW t \in Shown(seen), g[t] <= k PROVE t \in below[k]
    <3>1. below[k] = below[k - 1] \cup UNION {Kids(seen, s) : s \in below[k - 1]}
      BY <1>1 DEF Lower
    <3>2. CASE ParentLane(seen, t) = {}
      <4>1. \A j \in 0..N : t \in below[j]
        <5> DEFINE Reached == {j \in 0..N : t \in below[j]}
        <5>1. 0 \in Reached
          BY <1>1, <1>2, <3>2
        <5>2. ASSUME NEW j \in 1..N, j - 1 \in Reached PROVE j \in Reached
          <6>1. below[j] = Lower(seen, below[j - 1])
            BY <1>1
          <6> QED
            BY <5>2, <6>1 DEF Lower
        <5> HIDE DEF Reached
        <5>3. 0..N \subseteq Reached
          BY <5>1, <5>2, UpTo
        <5> QED
          BY <5>3 DEF Reached
      <4>2. k \in 0..N
        OBVIOUS
      <4> QED
        BY <4>1, <4>2
    <3>3. CASE \E p \in Shown(seen) : ParentLane(seen, t) = {p} /\ g[p] < g[t]
      <4>1. PICK p \in Shown(seen) : ParentLane(seen, t) = {p} /\ g[p] < g[t]
        BY <3>3
      <4>2. g[p] \in Nat /\ g[t] \in Nat
        OBVIOUS
      <4>3. g[p] <= k - 1 /\ p # t
        BY <2>1, <4>1, <4>2
      <4>4. p \in below[k - 1] /\ t \in Kids(seen, p)
        BY <1>4, <4>1, <4>3 DEF Kids
      <4> QED
        BY <3>1, <4>4
    <3> QED
      BY <3>2, <3>3
  <2> QED
    BY <2>1
<1>5. 0..N \subseteq Good
  <2> HIDE DEF Good
  <2> QED
    BY <1>3, <1>4, UpTo
<1>6. N \in Good
  BY <1>5
<1>7. \A t \in Shown(seen) : g[t] <= N
  OBVIOUS
<1> QED
  BY <1>1, <1>6, <1>7

LEMMA CountLogs == Cardinality(Logs) \in Nat /\ \A S \in SUBSET Logs : IsFiniteSet(S) /\ Cardinality(S) \in 0..Cardinality(Logs)
<1>1. Cardinality(Logs) \in Nat
  BY RunTraceAssumption, FS_CardinalityType
<1>2. ASSUME NEW S \in SUBSET Logs PROVE IsFiniteSet(S) /\ Cardinality(S) \in 0..Cardinality(Logs)
  <2>1. IsFiniteSet(S) /\ Cardinality(S) <= Cardinality(Logs)
    BY RunTraceAssumption, FS_Subset
  <2>2. Cardinality(S) \in Nat
    BY <2>1, FS_CardinalityType
  <2> QED
    BY <1>1, <2>1, <2>2
<1> QED
  BY <1>1, <1>2

\* Of the whole run, and of a part where the names of the agents say who dispatched whom.
LEMMA AllShown ==
  ASSUME TraceInv, NEW seen \in SUBSET Seen, seen = Seen \/ Ordered(seen)
  PROVE  Down(seen) = Shown(seen)
<1>1. CASE Ordered(seen)
  <2>1. PICK rank \in [Shown(seen) -> 1..Cardinality(Logs)] :
          \A s \in Shown(seen) : \A t \in Named(seen, s) : rank[t] < rank[s]
    BY <1>1 DEF Ordered
  <2>2. rank \in [Shown(seen) -> 0..Cardinality(Logs)]
    BY CountLogs
  <2>3. ASSUME NEW t \in Shown(seen)
        PROVE  \/ ParentLane(seen, t) = {}
               \/ \E p \in Shown(seen) : ParentLane(seen, t) = {p} /\ rank[p] < rank[t]
    <3>1. CASE Named(seen, t) = {}
      BY <3>1 DEF ParentLane
    <3>2. CASE Named(seen, t) # {}
      <4>1. PICK p \in Named(seen, t) : ParentLane(seen, t) = {p}
        BY <3>2, ParentIs
      <4>2. p \in Shown(seen)
        BY DEF Named
      <4> QED
        BY <2>1, <4>1, <4>2
    <3> QED
      BY <3>1, <3>2
  <2> QED
    BY <2>2, <2>3, CountLogs, DownAll
<1>2. CASE seen = Seen
  <2> DEFINE Earlier(t) == {u \in Shown(Seen) : FirstOf(Seen, u) < FirstOf(Seen, t)}
             g == [t \in Shown(Seen) |-> Cardinality(Earlier(t))]
  <2>1. \A t \in Shown(Seen) : FirstOf(Seen, t) \in Nat /\ t \in Logs
    BY FirstIs
  <2>2. ASSUME NEW t \in Shown(Seen)
        PROVE  IsFiniteSet(Earlier(t)) /\ Cardinality(Earlier(t)) \in 0..Cardinality(Logs)
    <3>1. Earlier(t) \in SUBSET Logs
      BY <2>1
    <3> HIDE DEF Earlier
    <3> QED
      BY <3>1, CountLogs
  <2>3. ASSUME NEW p \in Shown(Seen), NEW t \in Shown(Seen), FirstOf(Seen, p) < FirstOf(Seen, t)
        PROVE  Cardinality(Earlier(p)) < Cardinality(Earlier(t))
    <3>1. p \in Earlier(t) /\ p \notin Earlier(p)
      BY <2>1, <2>3
    <3>2. Earlier(p) \in SUBSET Earlier(t)
      BY <2>1, <2>3
    <3>3. IsFiniteSet(Earlier(t)) /\ Cardinality(Earlier(t)) \in Nat /\ Cardinality(Earlier(p)) \in Nat
      BY <2>2
    <3> HIDE DEF Earlier
    <3>4. Cardinality(Earlier(p)) <= Cardinality(Earlier(t)) /\ Cardinality(Earlier(t)) # Cardinality(Earlier(p))
      BY <3>1, <3>2, <3>3, FS_Subset
    <3> QED
      BY <3>3, <3>4
  <2> HIDE DEF Earlier
  <2>4. g \in [Shown(Seen) -> 0..Cardinality(Logs)]
    BY <2>2
  <2>5. ASSUME NEW t \in Shown(Seen)
        PROVE  \/ ParentLane(Seen, t) = {}
               \/ \E p \in Shown(Seen) : ParentLane(Seen, t) = {p} /\ g[p] < g[t]
    BY <2>3, ParentBefore
  <2> HIDE DEF g
  <2> QED
    BY <1>2, <2>4, <2>5, CountLogs, DownAll
<1> QED
  BY <1>1, <1>2

-----------------------------------------------------------------------------
\* The spans of the tree.

Opens(n) == events[n].type \in {TurnBegan, CallBegan}
Closes(n) == events[n].type \in {TurnEnded, CallEnded}

\* Where an end's span begins, with the events from first on.
BeginsAt(first, n) == IF Started(n) >= first THEN Started(n) ELSE 0

\* A turn is open until its session's next, a call of the whole run until its end.
OpenIs(first, n, open) ==
  /\ open \subseteq {m \in first..n : Opens(m)}
  /\ \A m \in first..n : events[m].type = TurnBegan /\ (\A k \in m + 1..n : ~OfTurn(k, events[m].s)) => m \in open
  /\ first = 1 => \A m \in 1..n :
       /\ events[m].type = CallBegan
       /\ \A k \in m + 1..n : ~ (Says(k, events[m].s, CallEnded) /\ events[k].key = events[m].key)
       => m \in open

SpansAre(first, n, spans) ==
  /\ spans \subseteq Nat \X {k \in first..n : Closes(k)}
  /\ \A k \in first..n : Closes(k) => \E sp \in spans : sp[2] = k
  /\ \A sp, sq \in spans : sp[2] = sq[2] => sp = sq
  /\ \A sp \in spans : /\ sp[1] # 0 => events[sp[1]].s = events[sp[2]].s
                       /\ first = 1 \/ events[sp[2]].type = TurnEnded => sp[1] = BeginsAt(first, sp[2])

LEMMA KindOf ==
  ASSUME TraceInv, NEW n \in Seen
  PROVE  /\ n \in Nat /\ n <= Len(events) /\ 1 <= n /\ events[n].s \in Logs
         /\ KeyOf(n)[1] = events[n].s /\ KeyOf(n)[3] = events[n].key
         /\ events[n].type \in {TurnBegan, TurnEnded} <=> KeyOf(n)[2] = "turn"
         /\ events[n].type \in {CallBegan, CallEnded} <=> KeyOf(n)[2] = "tool"
         /\ (Opens(n) => ~Closes(n))
<1>1. n \in Nat /\ n <= Len(events) /\ 1 <= n /\ events[n].s \in Logs /\ events[n].type \in TraceKinds
  BY SeenIs
<1>2. KeyOf(n)[1] = events[n].s /\ KeyOf(n)[2] = events[n].type[1] /\ KeyOf(n)[3] = events[n].key
  BY DEF KeyOf
<1>3. events[n].type \in {TurnBegan, TurnEnded} <=> events[n].type[1] = "turn"
  BY <1>1, KindNames DEF TraceKinds
<1>4. events[n].type \in {CallBegan, CallEnded} <=> events[n].type[1] = "tool"
  BY <1>1, KindNames DEF TraceKinds
<1>5. Opens(n) => ~Closes(n)
  BY KindsDiffer DEF Opens, Closes
<1> QED
  BY <1>1, <1>2, <1>3, <1>4, <1>5

\* Same keys are of one session, kind and number.
LEMMA SameKey ==
  ASSUME NEW m, NEW n
  PROVE  KeyOf(m) = KeyOf(n) <=> KeyOf(m)[1] = KeyOf(n)[1] /\ KeyOf(m)[2] = KeyOf(n)[2] /\ KeyOf(m)[3] = KeyOf(n)[3]
BY DEF KeyOf

\* What an end takes is its session's, and where nothing is missing it is its own.
LEMMA OpeningIs ==
  ASSUME TraceInv, NEW first \in Nat, 1 <= first, NEW n \in Seen, first <= n, Closes(n),
         NEW open, OpenIs(first, n - 1, open)
  PROVE  /\ Opening(open, n) \subseteq OpenHere(open, n)
         /\ Max(Opening(open, n) \cup {0}) \in Opening(open, n) \cup {0}
         /\ first = 1 \/ events[n].type = TurnEnded => Max(Opening(open, n) \cup {0}) = BeginsAt(first, n)
         /\ first = 1 /\ events[n].type = CallEnded => Opening(open, n) = {Started(n)}
<1> DEFINE s == events[n].s
           own == {m \in open : KeyOf(m) = KeyOf(n)}
           from == Opening(open, n)
<1>1. n \in Nat /\ 1 <= n /\ s \in Logs /\ n <= Len(events) /\ Len(events) \in Nat
  BY KindOf, SeenIs
<1>2. ASSUME NEW m \in open PROVE m \in Seen /\ m \in Nat /\ first <= m /\ m < n /\ Opens(m) /\ m \in 1..n - 1
  <2>1. m \in first..n - 1 /\ Opens(m)
    BY DEF OpenIs
  <2> QED
    BY <1>1, <2>1, SeenIs
<1>3. own \subseteq OpenHere(open, n)
  BY DEF OpenHere
<1>4. OpenHere(open, n) # {} => Max(OpenHere(open, n)) \in OpenHere(open, n)
  <2>1. OpenHere(open, n) \in SUBSET (0..n)
    BY <1>1, <1>2 DEF OpenHere
  <2> QED
    BY <1>1, <2>1, SomeGreatest
<1>5. from \subseteq OpenHere(open, n)
  BY <1>3, <1>4 DEF Opening
<1>6. Max(from \cup {0}) \in from \cup {0} /\ \A m \in from \cup {0} : Max(from \cup {0}) >= m
  <2>1. from \cup {0} \in SUBSET (0..n)
    BY <1>1, <1>2, <1>5 DEF OpenHere
  <2> HIDE DEF from
  <2> QED
    BY <1>1, <2>1, SomeGreatest
<1>7. own \subseteq Starts(n)
  BY <1>2 DEF Starts, Opens, TurnBegan, CallBegan
<1>8. ASSUME Started(n) \in own, Started(n) >= first PROVE Max(from \cup {0}) = BeginsAt(first, n)
  <2>1. from = own
    BY <1>8 DEF Opening
  <2>2. \A m \in from \cup {0} : m <= Started(n)
    <3>1. Starts(n) # {}
      BY <1>7, <1>8
    <3>2. Started(n) \in Nat
      BY <1>2, <1>8
    <3> QED
      BY <1>7, <2>1, <3>1, <3>2, LastStart
  <2>3. \A m \in from \cup {0} : m \in Nat
    BY <1>2, <1>5 DEF OpenHere
  <2>4. Started(n) \in from \cup {0}
    BY <1>8, <2>1
  <2> DEFINE x == Max(from \cup {0})
  <2>5. x \in Nat /\ x <= Started(n) /\ x >= Started(n) /\ Started(n) \in Nat
    BY <1>6, <2>2, <2>3, <2>4
  <2> HIDE DEF x
  <2>6. x = Started(n)
    BY <2>5
  <2> QED
    BY <1>8, <2>6 DEF BeginsAt, x
<1>9. CASE events[n].type = TurnEnded
  <2>1. Says(n, s, TurnEnded) /\ KeyOf(n)[2] = "turn" /\ KeyOf(n)[1] = s
    BY <1>9, KindOf DEF Says
  <2>2. /\ Started(n) \in Seen /\ Started(n) < n /\ Says(Started(n), s, TurnBegan) /\ events[Started(n)].key = events[n].key
        /\ \A k \in Seen : Started(n) < k /\ k < n => ~OfTurn(k, s)
    BY <1>1, <2>1, StartedTurn
  <2>3. Started(n) \in Nat
    BY <2>2, SeenIs
  <2>4. CASE Started(n) >= first
    <3>1. Started(n) \in first..n - 1
      BY <1>1, <2>2, <2>3, <2>4
    <3>2. \A k \in Started(n) + 1..n - 1 : ~OfTurn(k, s)
      BY <1>1, <2>2, <2>3, SeenIs
    <3>3. Started(n) \in open
      BY <2>2, <3>1, <3>2 DEF OpenIs, Says
    <3>4. KeyOf(Started(n)) = KeyOf(n)
      BY <2>1, <2>2, KindOf, SameKey DEF Says
    <3> QED
      BY <1>5, <1>6, <1>8, <1>9, <2>4, <3>3, <3>4, KindsDiffer
  <2>5. CASE ~(Started(n) >= first)
    <3>1. ASSUME NEW m \in OpenHere(open, n) PROVE FALSE
      <4>1. m \in open /\ KeyOf(m)[1] = s /\ KeyOf(m)[2] = "turn"
        BY <2>1 DEF OpenHere
      <4>2. m \in Seen /\ m \in Nat /\ first <= m /\ m < n
        BY <1>2, <4>1
      <4>3. OfTurn(m, s)
        BY <4>1, <4>2, KindOf DEF OfTurn, Says
      <4>4. Started(n) < m
        BY <2>3, <2>5, <4>2
      <4> QED
        BY <2>2, <4>2, <4>3, <4>4
    <3>2. from = {}
      BY <1>5, <3>1
    <3>3. Max(from \cup {0}) = 0
      BY <1>6, <3>2
    <3> QED
      BY <1>5, <1>6, <1>9, <2>5, <3>3, KindsDiffer DEF BeginsAt
  <2> QED
    BY <2>4, <2>5
<1>10. CASE events[n].type = CallEnded /\ first = 1
  <2>1. Says(n, s, CallEnded) /\ KeyOf(n)[2] = "tool" /\ KeyOf(n)[1] = s /\ KeyOf(n)[3] = events[n].key
    BY <1>10, KindOf DEF Says
  <2>2. /\ Started(n) \in Seen /\ Started(n) < n /\ BeginsCall(Started(n), s, events[n].key)
        /\ \A m \in Seen : BeginsCall(m, s, events[n].key) => m = Started(n)
    BY <1>1, <2>1, StartedCall
  <2>3. Started(n) \in Nat /\ Started(n) >= 1 /\ Started(n) \in 1..n - 1
    BY <1>1, <2>2, SeenIs
  <2>4. events[Started(n)].type = CallBegan /\ events[Started(n)].s = s /\ events[Started(n)].key = events[n].key
    BY <2>2 DEF BeginsCall, Says
  <2>5. ASSUME NEW k \in Started(n) + 1..n - 1 PROVE ~ (Says(k, s, CallEnded) /\ events[k].key = events[n].key)
    <3>1. k \in Seen /\ k # n
      BY <1>1, <2>3, SeenIs
    <3>2. Returned(s)
      BY <1>1 DEF TraceInv
    <3> QED
      BY <2>1, <3>1, <3>2 DEF Returned
  <2>6. Started(n) \in open
    BY <1>10, <2>3, <2>4, <2>5 DEF OpenIs
  <2>7. KeyOf(Started(n)) = KeyOf(n)
    BY <2>1, <2>2, <2>4, KindOf, SameKey
  <2>8. own = {Started(n)}
    <3>1. ASSUME NEW m \in own PROVE m = Started(n)
      <4>1. m \in Starts(n) /\ m \in Seen
        BY <1>2, <1>7
      <4> QED
        BY <2>1, <2>2, <4>1, StartsOf
    <3> QED
      BY <2>6, <2>7, <3>1
  <2>9. from = own
    BY <2>8 DEF Opening
  <2> HIDE DEF own
  <2>10. Max(from \cup {0}) = BeginsAt(first, n)
    BY <1>8, <1>10, <2>3, <2>8
  <2> QED
    BY <1>5, <1>6, <2>8, <2>9, <2>10
<1>11. CASE events[n].type = CallEnded /\ first # 1
  BY <1>5, <1>6, <1>11, KindsDiffer
<1> QED
  BY <1>9, <1>10, <1>11 DEF Closes

-----------------------------------------------------------------------------
\* What is open after an event.

LEMMA OpenAfterStart ==
  ASSUME TraceInv, NEW first \in Nat, 1 <= first, NEW n \in Seen, first <= n, Opens(n), NEW open, OpenIs(first, n - 1, open)
  PROVE  OpenIs(first, n, {m \in open : KeyOf(m) # KeyOf(n)} \cup {n})
<1> DEFINE now == {m \in open : KeyOf(m) # KeyOf(n)} \cup {n}
<1>1. n \in Nat /\ 1 <= n /\ n <= Len(events) /\ Len(events) \in Nat /\ Seen = 1..Len(events) /\ n \in first..n
  BY KindOf, SeenIs
<1>2. \A m \in first..n : m # n => m \in first..n - 1 /\ m \in Seen /\ m < n /\ n \in m + 1..n
  BY <1>1
<1>3. now \subseteq {m \in first..n : Opens(m)}
  <2>1. open \subseteq {m \in first..n : Opens(m)}
    BY <1>1 DEF OpenIs
  <2> QED
    BY <1>1, <2>1
<1>4. ASSUME NEW m \in first..n, events[m].type = TurnBegan, \A k \in m + 1..n : ~OfTurn(k, events[m].s)
      PROVE  m \in now
  <2>1. CASE m = n
    BY <2>1
  <2>2. CASE m # n
    <3>1. m \in Seen /\ m \in first..n - 1 /\ n \in m + 1..n /\ \A k \in m + 1..n - 1 : k \in m + 1..n
      BY <1>1, <1>2, <2>2
    <3>2. m \in open
      BY <1>4, <3>1 DEF OpenIs
    <3>3. KeyOf(m) # KeyOf(n)
      <4>1. ~OfTurn(n, events[m].s)
        BY <1>4, <3>1
      <4>2. KeyOf(m)[2] = "turn" /\ KeyOf(m)[1] = events[m].s
        BY <1>4, <3>1, KindOf
      <4>3. KeyOf(n)[2] = "turn" /\ KeyOf(n)[1] = events[m].s => OfTurn(n, events[m].s)
        BY KindOf DEF OfTurn, Says
      <4> QED
        BY <4>1, <4>2, <4>3
    <3> QED
      BY <3>2, <3>3
  <2> QED
    BY <2>1, <2>2
<1>5. ASSUME first = 1, NEW m \in 1..n, events[m].type = CallBegan,
             \A k \in m + 1..n : ~ (Says(k, events[m].s, CallEnded) /\ events[k].key = events[m].key)
      PROVE  m \in now
  <2>1. CASE m = n
    BY <2>1
  <2>2. CASE m # n
    <3>1. m \in Seen /\ m \in 1..n - 1 /\ \A k \in m + 1..n - 1 : k \in m + 1..n
      BY <1>1, <1>2, <1>5, <2>2
    <3>2. m \in open
      BY <1>5, <3>1 DEF OpenIs
    <3>3. KeyOf(m) # KeyOf(n)
      <4> SUFFICES ASSUME KeyOf(m) = KeyOf(n) PROVE FALSE
        OBVIOUS
      <4>1. KeyOf(m)[1] = events[m].s /\ KeyOf(m)[2] = "tool" /\ KeyOf(m)[3] = events[m].key /\ events[m].s \in Logs
        BY <1>5, <3>1, KindOf
      <4>2. KeyOf(n)[1] = events[n].s /\ KeyOf(n)[3] = events[n].key /\ events[n].type \in {CallBegan, CallEnded}
        BY <4>1, KindOf
      <4>3. events[n].type = CallBegan
        BY <4>2, KindsDiffer DEF Opens
      <4>4. BeginsCall(m, events[m].s, events[m].key) /\ BeginsCall(n, events[m].s, events[m].key)
        BY <1>5, <4>1, <4>2, <4>3 DEF BeginsCall, Says
      <4> QED
        BY <2>2, <3>1, <4>1, <4>4, BeginsOnce
    <3> QED
      BY <3>2, <3>3
  <2> QED
    BY <2>1, <2>2
<1> HIDE DEF now
<1>6. OpenIs(first, n, now)
  BY <1>3, <1>4, <1>5 DEF OpenIs
<1> QED
  BY <1>6 DEF now

LEMMA OpenAfterEnd ==
  ASSUME TraceInv, NEW first \in Nat, 1 <= first, NEW n \in Seen, first <= n, Closes(n), NEW open, OpenIs(first, n - 1, open)
  PROVE  OpenIs(first, n, open \ Opening(open, n))
<1> DEFINE now == open \ Opening(open, n)
<1>1. n \in Nat /\ 1 <= n /\ n <= Len(events) /\ Len(events) \in Nat /\ Seen = 1..Len(events) /\ events[n].type # TurnBegan
      /\ events[n].type # CallBegan
  BY KindOf, SeenIs, KindsDiffer DEF Closes
<1>2. \A m \in first..n : m # n => m \in first..n - 1 /\ m \in Seen /\ m < n /\ n \in m + 1..n
  BY <1>1
<1>3. now \subseteq {m \in first..n : Opens(m)}
  <2>1. open \subseteq {m \in first..n : Opens(m)}
    BY <1>1 DEF OpenIs
  <2> QED
    BY <2>1
<1>4. ASSUME NEW m \in first..n, events[m].type = TurnBegan, \A k \in m + 1..n : ~OfTurn(k, events[m].s)
      PROVE  m \in now
  <2>1. m # n
    BY <1>1, <1>4
  <2>2. m \in Seen /\ m \in first..n - 1 /\ n \in m + 1..n /\ \A k \in m + 1..n - 1 : k \in m + 1..n
    BY <1>1, <1>2, <2>1
  <2>3. m \in open
    BY <1>4, <2>2 DEF OpenIs
  <2>4. m \notin OpenHere(open, n)
    <3>1. ~OfTurn(n, events[m].s)
      BY <1>4, <2>2
    <3>2. KeyOf(m)[2] = "turn" /\ KeyOf(m)[1] = events[m].s
      BY <1>4, <2>2, KindOf
    <3>3. KeyOf(n)[2] = "turn" /\ KeyOf(n)[1] = events[m].s => OfTurn(n, events[m].s)
      BY KindOf DEF OfTurn, Says
    <3> QED
      BY <3>1, <3>2, <3>3 DEF OpenHere
  <2> QED
    BY <2>3, <2>4, OpeningIs
<1>5. ASSUME first = 1, NEW m \in 1..n, events[m].type = CallBegan,
             \A k \in m + 1..n : ~ (Says(k, events[m].s, CallEnded) /\ events[k].key = events[m].key)
      PROVE  m \in now
  <2>1. m # n
    BY <1>1, <1>5
  <2>2. m \in Seen /\ m \in 1..n - 1 /\ n \in m + 1..n /\ \A k \in m + 1..n - 1 : k \in m + 1..n
    BY <1>1, <1>2, <1>5, <2>1
  <2>3. m \in open
    BY <1>5, <2>2 DEF OpenIs
  <2>4. CASE events[n].type = TurnEnded
    <3>1. KeyOf(m)[2] = "tool" /\ KeyOf(n)[2] = "turn"
      BY <1>5, <2>2, <2>4, KindOf
    <3>2. m \notin OpenHere(open, n)
      BY <3>1 DEF OpenHere
    <3> QED
      BY <2>3, <3>2, OpeningIs
  <2>5. CASE events[n].type = CallEnded
    <3>1. Opening(open, n) = {Started(n)} /\ events[n].s \in Logs /\ Says(n, events[n].s, CallEnded)
      BY <1>5, <2>5, OpeningIs, SeenIs DEF Says
    <3>2. BeginsCall(Started(n), events[n].s, events[n].key)
      BY <3>1, StartedCall
    <3>3. m # Started(n)
      BY <1>5, <2>2, <3>1, <3>2 DEF BeginsCall, Says
    <3> QED
      BY <2>3, <3>1, <3>3
  <2> QED
    BY <2>4, <2>5 DEF Closes
<1> HIDE DEF now
<1>6. OpenIs(first, n, now)
  BY <1>3, <1>4, <1>5 DEF OpenIs
<1> QED
  BY <1>6 DEF now

LEMMA OpenAfterOther ==
  ASSUME TraceInv, NEW first \in Nat, 1 <= first, NEW n \in Seen, first <= n, ~Opens(n), NEW open, OpenIs(first, n - 1, open)
  PROVE  OpenIs(first, n, open)
<1>1. n \in Nat /\ 1 <= n /\ events[n].type # TurnBegan /\ events[n].type # CallBegan
  BY KindOf DEF Opens
<1>2. \A m \in first..n : m # n => m \in first..n - 1 /\ m < n /\ \A k \in m + 1..n - 1 : k \in m + 1..n
  BY <1>1
<1>3. open \subseteq {m \in first..n : Opens(m)}
  BY <1>1 DEF OpenIs
<1>4. ASSUME NEW m \in first..n, events[m].type = TurnBegan, \A k \in m + 1..n : ~OfTurn(k, events[m].s)
      PROVE  m \in open
  <2>1. m \in first..n - 1 /\ \A k \in m + 1..n - 1 : k \in m + 1..n
    BY <1>1, <1>2, <1>4
  <2> QED
    BY <1>4, <2>1 DEF OpenIs
<1>5. ASSUME first = 1, NEW m \in 1..n, events[m].type = CallBegan,
             \A k \in m + 1..n : ~ (Says(k, events[m].s, CallEnded) /\ events[k].key = events[m].key)
      PROVE  m \in open
  <2>1. m \in 1..n - 1 /\ \A k \in m + 1..n - 1 : k \in m + 1..n
    BY <1>1, <1>2, <1>5
  <2> QED
    BY <1>5, <2>1 DEF OpenIs
<1> QED
  BY <1>3, <1>4, <1>5 DEF OpenIs

-----------------------------------------------------------------------------
\* What is a span after it.

LEMMA SpansAfterEnd ==
  ASSUME TraceInv, NEW first \in Nat, 1 <= first, NEW n \in Seen, first <= n, Closes(n),
         NEW open, OpenIs(first, n - 1, open), NEW spans, SpansAre(first, n - 1, spans)
  PROVE  SpansAre(first, n, spans \cup {<<Max(Opening(open, n) \cup {0}), n>>})
<1>1. n \in Nat /\ n \in first..n /\ (\A k \in first..n : k # n => k \in first..n - 1) /\ \A k \in first..n - 1 : k \in first..n /\ k # n
  BY KindOf
<1> DEFINE x == Max(Opening(open, n) \cup {0})
           one == <<x, n>>
<1>2. x \in Nat /\ (x # 0 => x \in OpenHere(open, n))
  <2>1. x \in OpenHere(open, n) \cup {0}
    BY OpeningIs
  <2>2. \A m \in open : m \in Nat
    BY <1>1 DEF OpenIs
  <2> HIDE DEF x
  <2> QED
    BY <2>1, <2>2 DEF OpenHere
<1>3. first = 1 \/ events[n].type = TurnEnded => x = BeginsAt(first, n)
  BY OpeningIs
<1>4. x # 0 => events[x].s = events[n].s
  BY <1>2 DEF OpenHere, KeyOf
<1> HIDE DEF x
<1>5. one[1] = x /\ one[2] = n /\ one \in Nat \X {k \in first..n : Closes(k)}
  BY <1>1, <1>2
<1> HIDE DEF one
<1>6. spans \subseteq Nat \X {k \in first..n - 1 : Closes(k)}
  BY DEF SpansAre
<1>7. \A sp \in spans : sp[2] \in first..n - 1 /\ sp[2] # n /\ sp \in Nat \X {k \in first..n : Closes(k)}
  BY <1>1, <1>6
<1> DEFINE now == spans \cup {one}
<1>8. now \subseteq Nat \X {k \in first..n : Closes(k)}
  BY <1>5, <1>7
<1>9. \A k \in first..n : Closes(k) => \E sp \in now : sp[2] = k
  <2>1. \A k \in first..n - 1 : Closes(k) => \E sp \in spans : sp[2] = k
    BY DEF SpansAre
  <2> QED
    BY <1>1, <1>5, <2>1
<1>10. \A sp, sq \in now : sp[2] = sq[2] => sp = sq
  <2>1. \A sp, sq \in spans : sp[2] = sq[2] => sp = sq
    BY DEF SpansAre
  <2> QED
    BY <1>5, <1>7, <2>1
<1>11. \A sp \in now : sp[1] # 0 => events[sp[1]].s = events[sp[2]].s
  <2>1. \A sp \in spans : sp[1] # 0 => events[sp[1]].s = events[sp[2]].s
    BY DEF SpansAre
  <2> QED
    BY <1>4, <1>5, <2>1
<1>12. \A sp \in now : first = 1 \/ events[sp[2]].type = TurnEnded => sp[1] = BeginsAt(first, sp[2])
  <2>1. \A sp \in spans : first = 1 \/ events[sp[2]].type = TurnEnded => sp[1] = BeginsAt(first, sp[2])
    BY DEF SpansAre
  <2> QED
    BY <1>3, <1>5, <2>1
<1> HIDE DEF now
<1>13. SpansAre(first, n, now)
  BY <1>8, <1>9, <1>10, <1>11, <1>12 DEF SpansAre
<1> QED
  BY <1>13 DEF now, one, x

LEMMA SpansAfterOther ==
  ASSUME TraceInv, NEW first \in Nat, 1 <= first, NEW n \in Seen, first <= n, ~Closes(n), NEW spans, SpansAre(first, n - 1, spans)
  PROVE  SpansAre(first, n, spans)
<1>1. n \in Nat /\ (\A k \in first..n : k # n => k \in first..n - 1) /\ \A k \in first..n - 1 : k \in first..n /\ k # n
  BY KindOf
<1>2. {k \in first..n : Closes(k)} = {k \in first..n - 1 : Closes(k)}
  BY <1>1
<1>3. \A k \in first..n : Closes(k) => k \in first..n - 1
  BY <1>1
<1> QED
  BY <1>2, <1>3 DEF SpansAre

-----------------------------------------------------------------------------
\* One event after the other.

Accounts == [open : SUBSET Seen, spans : SUBSET (Nat \X Nat)]
NoAccount == [open |-> {}, spans |-> {}]
BuiltNext(first, acc, n) == IF n < first THEN NoAccount ELSE Built(acc, n)
ToldBy(first, n, acc) == OpenIs(first, n, acc.open) /\ SpansAre(first, n, acc.spans)

LEMMA BuiltCases ==
  ASSUME TraceInv, NEW n \in Seen, NEW acc
  PROVE  /\ Opens(n) => Built(acc, n) = [acc EXCEPT !.open = {m \in @ : KeyOf(m) # KeyOf(n)} \cup {n}]
         /\ Closes(n) => Built(acc, n) = [open |-> acc.open \ Opening(acc.open, n),
                                         spans |-> acc.spans \cup {<<Max(Opening(acc.open, n) \cup {0}), n>>}]
         /\ ~Opens(n) /\ ~Closes(n) => Built(acc, n) = acc
<1>1. Opens(n) <=> events[n].type \in {<<"turn", "start">>, <<"tool", "start">>}
  BY DEF Opens, TurnBegan, CallBegan
<1>2. Closes(n) <=> events[n].type \in {<<"turn", "end">>, <<"tool", "end">>}
  BY DEF Closes, TurnEnded, CallEnded
<1>3. Opens(n) => ~Closes(n)
  BY KindOf
<1>4. CASE Opens(n)
  BY <1>1, <1>2, <1>3, <1>4 DEF Built
<1>5. CASE Closes(n)
  BY <1>1, <1>2, <1>3, <1>5 DEF Built
<1>6. CASE ~Opens(n) /\ ~Closes(n)
  BY <1>1, <1>2, <1>3, <1>6 DEF Built
<1> QED
  BY <1>3, <1>4, <1>5, <1>6

LEMMA BuiltIs ==
  ASSUME TraceInv, NEW first \in Nat, NEW n \in Seen, NEW acc \in Accounts
  PROVE  BuiltNext(first, acc, n) \in Accounts
<1>1. acc.open \in SUBSET Seen /\ acc.spans \in SUBSET (Nat \X Nat)
  BY DEF Accounts
<1>2. CASE n < first
  BY <1>2 DEF BuiltNext, Accounts, NoAccount
<1>3. CASE ~(n < first)
  <2>1. BuiltNext(first, acc, n) = Built(acc, n)
    BY <1>3 DEF BuiltNext
  <2>2. CASE Opens(n)
    <3>1. Built(acc, n) = [acc EXCEPT !.open = {m \in @ : KeyOf(m) # KeyOf(n)} \cup {n}]
      BY <2>2, BuiltCases
    <3>2. {m \in acc.open : KeyOf(m) # KeyOf(n)} \cup {n} \in SUBSET Seen
      BY <1>1
    <3> QED
      BY <1>1, <2>1, <3>1, <3>2 DEF Accounts
  <2>3. CASE Closes(n)
    <3> DEFINE from == Opening(acc.open, n)
    <3>1. Built(acc, n) = [open |-> acc.open \ from, spans |-> acc.spans \cup {<<Max(from \cup {0}), n>>}]
      BY <2>3, BuiltCases
    <3>2. Len(events) \in Nat /\ Seen = 1..Len(events) /\ n \in Nat
      BY SeenIs
    <3>3. from \subseteq Seen
      <4>1. OpenHere(acc.open, n) # {} => Max(OpenHere(acc.open, n)) \in OpenHere(acc.open, n)
        <5>1. OpenHere(acc.open, n) \in SUBSET (0..Len(events))
          BY <1>1, <3>2 DEF OpenHere
        <5> QED
          BY <3>2, <5>1, SomeGreatest
      <4> QED
        BY <1>1, <4>1 DEF Opening, OpenHere
    <3>4. Max(from \cup {0}) \in Nat
      <4>1. from \cup {0} \in SUBSET (0..Len(events)) /\ from \cup {0} # {}
        BY <3>2, <3>3
      <4> HIDE DEF from
      <4>2. Max(from \cup {0}) \in from \cup {0}
        BY <3>2, <4>1, SomeGreatest
      <4> QED
        BY <4>1, <4>2
    <3> DEFINE x == Max(from \cup {0})
    <3> HIDE DEF from, x
    <3>5. acc.spans \cup {<<x, n>>} \in SUBSET (Nat \X Nat)
      BY <1>1, <3>2, <3>4 DEF x
    <3>6. acc.open \ from \in SUBSET Seen
      BY <1>1
    <3>7. [open |-> acc.open \ from, spans |-> acc.spans \cup {<<x, n>>}] \in Accounts
      BY <3>5, <3>6 DEF Accounts
    <3> QED
      BY <2>1, <3>1, <3>7 DEF x
  <2>4. CASE ~Opens(n) /\ ~Closes(n)
    BY <2>1, <2>4, BuiltCases
  <2> QED
    BY <2>2, <2>3, <2>4
<1> QED
  BY <1>2, <1>3

LEMMA ToldNext ==
  ASSUME TraceInv, NEW first \in Nat, 1 <= first, NEW n \in Seen, NEW acc \in Accounts, first <= n, ToldBy(first, n - 1, acc)
  PROVE  ToldBy(first, n, BuiltNext(first, acc, n))
<1>1. BuiltNext(first, acc, n) = Built(acc, n)
  <2>1. ~(n < first)
    BY KindOf
  <2> QED
    BY <2>1 DEF BuiltNext
<1>2. OpenIs(first, n - 1, acc.open) /\ SpansAre(first, n - 1, acc.spans)
  BY DEF ToldBy
<1>3. CASE Opens(n)
  <2> DEFINE now == {m \in acc.open : KeyOf(m) # KeyOf(n)} \cup {n}
  <2>1. Built(acc, n) = [acc EXCEPT !.open = now]
    BY <1>3, BuiltCases
  <2>2. ~Closes(n)
    BY <1>3, KindOf
  <2>3. OpenIs(first, n, now)
    BY <1>2, <1>3, OpenAfterStart
  <2>4. SpansAre(first, n, acc.spans)
    BY <1>2, <2>2, SpansAfterOther
  <2> HIDE DEF now
  <2>5. Built(acc, n).open = now /\ Built(acc, n).spans = acc.spans
    BY <2>1 DEF Accounts
  <2> QED
    BY <1>1, <2>3, <2>4, <2>5 DEF ToldBy
<1>4. CASE Closes(n)
  <2> DEFINE now == acc.open \ Opening(acc.open, n)
             spans == acc.spans \cup {<<Max(Opening(acc.open, n) \cup {0}), n>>}
  <2>1. Built(acc, n) = [open |-> now, spans |-> spans]
    BY <1>4, BuiltCases
  <2>2. OpenIs(first, n, now)
    BY <1>2, <1>4, OpenAfterEnd
  <2>3. SpansAre(first, n, spans)
    BY <1>2, <1>4, SpansAfterEnd
  <2> HIDE DEF now, spans
  <2>4. Built(acc, n).open = now /\ Built(acc, n).spans = spans
    BY <2>1
  <2> QED
    BY <1>1, <2>2, <2>3, <2>4 DEF ToldBy
<1>5. CASE ~Opens(n) /\ ~Closes(n)
  BY <1>1, <1>2, <1>5, BuiltCases, OpenAfterOther, SpansAfterOther DEF ToldBy
<1> QED
  BY <1>3, <1>4, <1>5

LEMMA NothingTold ==
  ASSUME NEW first \in Nat, NEW n \in Int, n < first, NEW acc, acc = NoAccount, 1 <= first, n >= 0
  PROVE  ToldBy(first, n, acc)
<1>1. first..n = {} /\ (first = 1 => 1..n = {}) /\ acc.open = {} /\ acc.spans = {}
  BY DEF NoAccount
<1> QED
  BY <1>1 DEF ToldBy, OpenIs, SpansAre

LEMMA SpansTold ==
  ASSUME TraceInv, NEW first \in 1..Len(events) + 1
  PROVE  SpansAre(first, Len(events), BuildTrace(first))
<1> DEFINE N == Len(events)
           F == [m \in (1..N) \X Accounts |-> BuiltNext(first, m[2], m[1])]
           v == CHOOSE built : built =
                  [n \in 0..Len(events) |->
                     IF n < first THEN [open |-> {}, spans |-> {}] ELSE Built(built[n - 1], n)]
<1>1. N \in Nat /\ NoAccount \in Accounts /\ first \in Nat /\ 1 <= first /\ Seen = 1..N
  BY SeenIs DEF NoAccount, Accounts
<1>2. F \in [(1..N) \X Accounts -> Accounts]
  <2> SUFFICES ASSUME NEW m \in (1..N) \X Accounts PROVE BuiltNext(first, m[2], m[1]) \in Accounts
    OBVIOUS
  <2>1. m[1] \in Seen /\ m[2] \in Accounts
    BY <1>1
  <2> QED
    BY <1>1, <2>1, BuiltIs
<1>3. \A n \in 1..N, x \in Accounts : F[<<n, x>>] = BuiltNext(first, x, n)
  OBVIOUS
<1> HIDE DEF F
<1>4. PICK u \in [0..N -> Accounts] : Iterated(u, NoAccount, N, F)
  <2> HIDE DEF N
  <2> QED
    BY <1>1, <1>2, Iterates
<1>5. u = [n \in 0..N |-> BuiltNext(first, u[n - 1], n)]
  <2>1. ASSUME NEW n \in 0..N PROVE u[n] = BuiltNext(first, u[n - 1], n)
    <3>1. u[n] = IF n = 0 THEN NoAccount ELSE F[<<n, u[n - 1]>>]
      BY <1>4 DEF Iterated
    <3>2. CASE n = 0
      <4>1. n < first
        BY <1>1, <3>2
      <4>2. BuiltNext(first, u[n - 1], n) = NoAccount
        BY <4>1 DEF BuiltNext
      <4> QED
        BY <3>1, <3>2, <4>2
    <3>3. CASE n # 0
      <4>1. n \in 1..N /\ n - 1 \in 0..N
        BY <1>1, <3>3
      <4>2. u[n - 1] \in Accounts
        BY <1>4, <4>1
      <4> HIDE DEF N
      <4> QED
        BY <1>3, <3>1, <3>3, <4>1, <4>2
    <3> QED
      BY <3>2, <3>3
  <2> QED
    BY <1>4, <2>1
<1>6. v = [n \in 0..N |-> BuiltNext(first, v[n - 1], n)]
  BY <1>5 DEF BuiltNext, NoAccount
<1>7. BuildTrace(first) = v[N].spans
  BY DEF BuildTrace
<1> HIDE DEF v
<1>8. v[0] = NoAccount /\ \A n \in 1..N : v[n] = BuiltNext(first, v[n - 1], n)
  <2>1. \A n \in 1..N : n \in 0..N
    OBVIOUS
  <2>2. 0 \in 0..N /\ 0 < first
    BY <1>1
  <2> QED
    BY <1>6, <2>1, <2>2 DEF BuiltNext
<1> DEFINE Good == {n \in 0..N : v[n] \in Accounts /\ ToldBy(first, n, v[n])}
<1>9. 0..N \subseteq Good
  <2>1. 0 \in Good
    <3>1. 0 \in 0..N /\ 0 \in Int /\ 0 < first
      BY <1>1
    <3>2. ToldBy(first, 0, v[0])
      BY <1>1, <1>8, <3>1, NothingTold
    <3> QED
      BY <1>1, <1>8, <3>1, <3>2
  <2>2. ASSUME NEW n \in 1..N, n - 1 \in Good PROVE n \in Good
    <3>1. v[n] = BuiltNext(first, v[n - 1], n) /\ n \in Seen /\ n \in 0..N /\ v[n - 1] \in Accounts /\ ToldBy(first, n - 1, v[n - 1])
      BY <1>1, <1>8, <2>2
    <3>2. v[n] \in Accounts
      BY <1>1, <3>1, BuiltIs
    <3>3. CASE n < first
      <4>1. v[n] = NoAccount /\ n \in Int /\ n >= 0
        BY <1>1, <3>1, <3>3 DEF BuiltNext
      <4> QED
        BY <1>1, <3>1, <3>2, <3>3, <4>1, NothingTold
    <3>4. CASE ~(n < first)
      <4>1. first <= n
        BY <1>1, <3>4
      <4> QED
        BY <1>1, <3>1, <3>2, <4>1, ToldNext
    <3> QED
      BY <3>3, <3>4
  <2> HIDE DEF Good
  <2> QED
    BY <1>1, <2>1, <2>2, UpTo
<1>10. ToldBy(first, N, v[N])
  BY <1>1, <1>9
<1> QED
  BY <1>7, <1>10 DEF ToldBy

-----------------------------------------------------------------------------
\* One for each of a finite set, and all of them.
LEMMA SameCount ==
  ASSUME NEW S, IsFiniteSet(S), NEW T, NEW f \in [S -> T], \A x, y \in S : f[x] = f[y] => x = y, \A z \in T : \E x \in S : f[x] = z
  PROVE  IsFiniteSet(T) /\ Cardinality(T) = Cardinality(S)
<1>1. f \in Bijection(S, T)
  BY DEF Bijection, Injection, Surjection, IsInjective
<1> QED
  BY <1>1, FS_Bijection DEF ExistsBijection

LEMMA EventsFinite == ASSUME TraceInv PROVE IsFiniteSet(Seen) /\ \A S \in SUBSET Seen : IsFiniteSet(S)
<1>1. Seen = 1..Len(events) /\ Len(events) \in Int /\ 1 \in Int
  BY SeenIs
<1>2. IsFiniteSet(Seen)
  BY <1>1, FS_Interval
<1> QED
  BY <1>2, FS_Subset

THEOREM TreeIsTrue == TraceInv => TreeTrue
<1> SUFFICES ASSUME TraceInv PROVE TreeTrue
  OBVIOUS
<1> SUFFICES ASSUME NEW first \in 1..Len(events) + 1
             PROVE  LET seen == From(first)
                        spans == BuildTrace(first)
                        ends == {n \in seen : events[n].type \in {<<"turn", "end">>, <<"tool", "end">>}}
                    IN /\ first = 1 \/ Ordered(seen) => Down(seen) = Shown(seen)
                       /\ {sp[2] : sp \in spans} = ends /\ Cardinality(spans) = Cardinality(ends)
                       /\ \A sp \in spans :
                            /\ sp[1] # 0 => events[sp[1]].s = events[sp[2]].s
                            /\ first = 1 \/ events[sp[2]].type = <<"turn", "end">> =>
                                 sp[1] = IF Started(sp[2]) >= first THEN Started(sp[2]) ELSE 0
  BY DEF TreeTrue
<1> DEFINE seen == From(first)
           spans == BuildTrace(first)
           ends == {n \in seen : events[n].type \in {<<"turn", "end">>, <<"tool", "end">>}}
<1>1. Len(events) \in Nat /\ Seen = 1..Len(events) /\ seen = {n \in Seen : n >= first}
  BY SeenIs DEF From, Seen
<1>2. first = 1 \/ Ordered(seen) => Down(seen) = Shown(seen)
  <2>1. seen \in SUBSET Seen /\ (first = 1 => seen = Seen)
    BY <1>1
  <2> HIDE DEF seen
  <2> QED
    BY <2>1, AllShown
<1>3. SpansAre(first, Len(events), spans)
  BY SpansTold
<1>4. ends = {k \in first..Len(events) : Closes(k)}
  BY <1>1 DEF Closes, TurnEnded, CallEnded
<1> HIDE DEF spans, ends, seen
<1>5. spans \subseteq Nat \X ends /\ (\A k \in ends : \E sp \in spans : sp[2] = k) /\ \A sp, sq \in spans : sp[2] = sq[2] => sp = sq
  BY <1>3, <1>4 DEF SpansAre
<1>6. {sp[2] : sp \in spans} = ends
  BY <1>5
<1>7. Cardinality(spans) = Cardinality(ends)
  <2> DEFINE f == [k \in ends |-> CHOOSE sp \in spans : sp[2] = k]
  <2>1. \A k \in ends : f[k] \in spans /\ f[k][2] = k
    BY <1>5
  <2>2. f \in [ends -> spans]
    BY <2>1
  <2>3. IsFiniteSet(ends)
    <3>1. ends \in SUBSET Seen
      BY <1>1, <1>4
    <3> QED
      BY <3>1, EventsFinite
  <2> HIDE DEF f
  <2>4. \A k, j \in ends : f[k] = f[j] => k = j
    BY <2>1
  <2>5. \A sp \in spans : \E k \in ends : f[k] = sp
    <3> SUFFICES ASSUME NEW sp \in spans PROVE f[sp[2]] = sp /\ sp[2] \in ends
      OBVIOUS
    <3>1. sp[2] \in ends
      BY <1>5
    <3> QED
      BY <1>5, <2>1, <3>1
  <2> QED
    BY <2>2, <2>3, <2>4, <2>5, SameCount
<1>8. ASSUME NEW sp \in spans
      PROVE  /\ sp[1] # 0 => events[sp[1]].s = events[sp[2]].s
             /\ first = 1 \/ events[sp[2]].type = <<"turn", "end">> =>
                  sp[1] = IF Started(sp[2]) >= first THEN Started(sp[2]) ELSE 0
  BY <1>3 DEF SpansAre, BeginsAt, TurnEnded
<1> QED
  BY <1>2, <1>6, <1>7, <1>8 DEF seen, spans, ends

-----------------------------------------------------------------------------
\* The spans that are sent, by what they are of.

KeyEvents(s, type, k) == {n \in OfType(Seen, s, type) : events[n].key = k}
LatestOf(s, type, k) == Latest(KeyEvents(s, type, k))
Keys(s, type) == {events[n].key : n \in OfType(Seen, s, type)}

AgentSpanOf(s) ==
  Span(<<"agent", s>>, {<<"agent", p>> : p \in ParentLane(Seen, s)}, FirstOf(Seen, s), Max({n \in Seen : events[n].s = s}))
ChatSpanOf(s, k) ==
  Span(<<"chat", s, k>>, {<<"agent", s>>},
       IF LatestOf(s, TurnBegan, k) # 0 THEN LatestOf(s, TurnBegan, k) ELSE LatestOf(s, TurnEnded, k),
       IF LatestOf(s, TurnEnded, k) # 0 THEN LatestOf(s, TurnEnded, k) ELSE LatestOf(s, TurnBegan, k))
CallSpanOf(s, k) ==
  Span(CallSpanId(s, k), {IF Nesting(s, k) = 0 THEN <<"agent", s>> ELSE CallSpanId(s, Nesting(s, k))},
       LatestOf(s, CallBegan, k),
       IF LatestOf(s, CallEnded, k) # 0 THEN LatestOf(s, CallEnded, k) ELSE LatestOf(s, CallBegan, k))

LEMMA OfTypeIs ==
  ASSUME NEW s, NEW type, NEW n
  PROVE  n \in OfType(Seen, s, type) <=> n \in Seen /\ Says(n, s, type)
BY DEF OfType, Says

LEMMA LatestIs ==
  ASSUME TraceInv, NEW s, NEW type, NEW k
  PROVE  /\ KeyEvents(s, type, k) = {} => LatestOf(s, type, k) = 0
         /\ KeyEvents(s, type, k) # {} => LatestOf(s, type, k) \in KeyEvents(s, type, k)
         /\ LatestOf(s, type, k) # 0 => LatestOf(s, type, k) \in KeyEvents(s, type, k)
<1>1. Len(events) \in Nat /\ KeyEvents(s, type, k) \in SUBSET (0..Len(events))
  BY SeenIs DEF KeyEvents, OfType
<1>2. KeyEvents(s, type, k) # {} => Max(KeyEvents(s, type, k)) \in KeyEvents(s, type, k)
  BY <1>1, SomeGreatest
<1> QED
  BY <1>2 DEF LatestOf, Latest

LEMMA EndKeys ==
  ASSUME TraceInv, NEW s \in Logs
  PROVE  Keys(s, TurnEnded) \subseteq Keys(s, TurnBegan) /\ Keys(s, CallEnded) \subseteq Keys(s, CallBegan)
<1>1. ASSUME NEW n \in Seen, Says(n, s, TurnEnded) PROVE events[n].key \in Keys(s, TurnBegan)
  BY <1>1, StartedTurn, OfTypeIs DEF Keys
<1>2. ASSUME NEW n \in Seen, Says(n, s, CallEnded) PROVE events[n].key \in Keys(s, CallBegan)
  BY <1>2, StartedCall, OfTypeIs DEF Keys, BeginsCall
<1> QED
  BY <1>1, <1>2, OfTypeIs DEF Keys

LEMMA PairsAre ==
  ASSUME NEW s, NEW start, NEW end, Keys(s, end) \subseteq Keys(s, start)
  PROVE  PairsBy(s, start, end) = {<<k, LatestOf(s, start, k), LatestOf(s, end, k)>> : k \in Keys(s, start)}
<1>1. {events[n].key : n \in OfType(Seen, s, start) \cup OfType(Seen, s, end)} = Keys(s, start)
  BY DEF Keys
<1> QED
  BY <1>1 DEF PairsBy, LatestOf, KeyEvents

LEMMA ChatSpansAre ==
  ASSUME TraceInv, NEW s \in Logs
  PROVE  ChatSpans(s) = {ChatSpanOf(s, k) : k \in Keys(s, TurnBegan)}
<1> DEFINE of(t) == Span(<<"chat", s, t[1]>>, {<<"agent", s>>},
                         IF t[2] # 0 THEN t[2] ELSE t[3], IF t[3] # 0 THEN t[3] ELSE t[2])
           pair(k) == <<k, LatestOf(s, TurnBegan, k), LatestOf(s, TurnEnded, k)>>
<1>1. ChatSpans(s) = {of(t) : t \in PairsBy(s, TurnBegan, TurnEnded)}
  BY DEF ChatSpans, TurnBegan, TurnEnded
<1>2. PairsBy(s, TurnBegan, TurnEnded) = {pair(k) : k \in Keys(s, TurnBegan)}
  BY EndKeys, PairsAre
<1>3. ASSUME NEW k PROVE of(pair(k)) = ChatSpanOf(s, k)
  BY DEF ChatSpanOf
<1> HIDE DEF of, pair
<1> QED
  BY <1>1, <1>2, <1>3

LEMMA CallSpansAre ==
  ASSUME TraceInv, NEW s \in Logs
  PROVE  CallSpans(s) = {CallSpanOf(s, k) : k \in Keys(s, CallBegan)}
<1> DEFINE of(t) == Span(CallSpanId(s, t[1]), {IF Nesting(s, t[1]) = 0 THEN <<"agent", s>> ELSE CallSpanId(s, Nesting(s, t[1]))},
                         t[2], IF t[3] # 0 THEN t[3] ELSE t[2])
           pair(k) == <<k, LatestOf(s, CallBegan, k), LatestOf(s, CallEnded, k)>>
<1>1. CallSpans(s) = {of(t) : t \in PairsBy(s, CallBegan, CallEnded)}
  BY DEF CallSpans, CallBegan, CallEnded
<1>2. PairsBy(s, CallBegan, CallEnded) = {pair(k) : k \in Keys(s, CallBegan)}
  BY EndKeys, PairsAre
<1>3. ASSUME NEW k PROVE of(pair(k)) = CallSpanOf(s, k)
  BY DEF CallSpanOf
<1> HIDE DEF of, pair
<1> QED
  BY <1>1, <1>2, <1>3

\* A call's span begins with the call and ends after it.
LEMMA CallSpanIs ==
  ASSUME TraceInv, NEW s \in Logs, NEW n \in Seen, Says(n, s, CallBegan)
  PROVE  LET k == events[n].key IN
         /\ LatestOf(s, CallBegan, k) = n
         /\ LatestOf(s, CallEnded, k) # 0 => n < LatestOf(s, CallEnded, k)
         /\ Nesting(s, k) = events[n].nested /\ events[n].nested \in Nat /\ events[n].nested < k
         /\ events[n].nested # 0 => \E m \in Seen : m < n /\ BeginsCall(m, s, events[n].nested)
<1> DEFINE k == events[n].key
           c == lane[s].calls
<1>1. n \in Nat /\ k \in Nat /\ events[n].nested \in Nat /\ BeginsCall(n, s, k) /\ n \in KeyEvents(s, CallBegan, k)
  BY SeenIs, OfTypeIs DEF BeginsCall, KeyEvents
<1>2. LatestOf(s, CallBegan, k) = n
  <2>1. LatestOf(s, CallBegan, k) \in KeyEvents(s, CallBegan, k)
    BY <1>1, LatestIs
  <2>2. LatestOf(s, CallBegan, k) \in Seen /\ BeginsCall(LatestOf(s, CallBegan, k), s, k)
    BY <2>1, OfTypeIs DEF KeyEvents, BeginsCall
  <2> QED
    BY <1>1, <2>2, BeginsOnce
<1>3. ASSUME LatestOf(s, CallEnded, k) # 0 PROVE n < LatestOf(s, CallEnded, k)
  <2> DEFINE e == LatestOf(s, CallEnded, k)
  <2>1. e \in KeyEvents(s, CallEnded, k)
    BY <1>3, LatestIs
  <2> HIDE DEF e
  <2>2. e \in Seen /\ Says(e, s, CallEnded) /\ events[e].key = k
    BY <2>1, OfTypeIs DEF KeyEvents
  <2>3. Started(e) < e /\ n = Started(e)
    BY <1>1, <2>2, StartedCall
  <2> QED
    BY <2>3 DEF e
<1>4. Called(s)
  BY DEF TraceInv
<1>5. k \in 1..Len(c) /\ events[n].nested = c[k].nested /\ c[k].nested < k /\ Len(c) \in Nat
  <2>1. Len(c) \in Nat
    BY DEF TraceInv, TraceTypes, LaneRec
  <2> QED
    BY <1>4, <2>1 DEF Called
<1>6. Nesting(s, k) = events[n].nested
  <2>1. ToSet(events) = {events[m] : m \in Seen}
    BY DEF ToSet, Seen
  <2> DEFINE is(e) == e.s = s /\ e.key = k /\ e.type = <<"tool", "start">>
  <2>2. is(events[n])
    BY DEF Says, CallBegan
  <2>3. ASSUME NEW e \in ToSet(events), is(e) PROVE e = events[n]
    <3>1. PICK m \in Seen : e = events[m]
      BY <2>1
    <3>2. BeginsCall(m, s, k)
      BY <2>3, <3>1 DEF BeginsCall, Says, CallBegan
    <3> QED
      BY <1>1, <3>1, <3>2, BeginsOnce
  <2>4. (CHOOSE e \in ToSet(events) : is(e)) = events[n]
    <3> HIDE DEF is
    <3> QED
      BY <2>1, <2>2, <2>3
  <2> QED
    BY <2>4 DEF Nesting
<1>7. ASSUME events[n].nested # 0 PROVE \E m \in Seen : m < n /\ BeginsCall(m, s, events[n].nested)
  <2>1. c[k].nested \in 1..Len(c)
    BY <1>1, <1>5, <1>7
  <2>2. PICK m \in Seen : BeginsCall(m, s, c[k].nested)
    BY <1>4, <2>1 DEF Called
  <2>3. m \in Nat /\ Says(m, s, CallBegan) /\ events[m].key = c[k].nested /\ events[m].key \in Nat
    BY <2>2, SeenIs DEF BeginsCall
  <2>4. ~(n < m)
    BY <1>1, <1>4, <1>5, <2>3 DEF Called
  <2>5. m # n
    BY <1>1, <1>5, <2>3
  <2> QED
    BY <1>1, <1>5, <2>2, <2>3, <2>4, <2>5
<1> QED
  BY <1>1, <1>2, <1>3, <1>5, <1>6, <1>7

\* A turn's span ends after it began, where its number is not given again.
LEMMA ChatSpanIs ==
  ASSUME TraceInv, NEW s \in Logs, ~CountedAgain(s), NEW n \in Seen, Says(n, s, TurnBegan)
  PROVE  LET k == events[n].key IN
         /\ LatestOf(s, TurnBegan, k) = n
         /\ LatestOf(s, TurnEnded, k) # 0 => n < LatestOf(s, TurnEnded, k)
<1> DEFINE k == events[n].key
<1>1. n \in Nat /\ n \in KeyEvents(s, TurnBegan, k)
  BY SeenIs, OfTypeIs DEF KeyEvents
<1>2. ASSUME NEW m \in Seen, Says(m, s, TurnBegan), events[m].key = k PROVE m = n
  <2>1. m \in OfType(Seen, s, <<"turn", "start">>) /\ n \in OfType(Seen, s, <<"turn", "start">>)
    BY <1>2, OfTypeIs DEF TurnBegan
  <2> QED
    BY <1>2, <2>1 DEF CountedAgain
<1>3. LatestOf(s, TurnBegan, k) = n
  <2>1. LatestOf(s, TurnBegan, k) \in KeyEvents(s, TurnBegan, k)
    BY <1>1, LatestIs
  <2> QED
    BY <1>2, <2>1, OfTypeIs DEF KeyEvents
<1>4. ASSUME LatestOf(s, TurnEnded, k) # 0 PROVE n < LatestOf(s, TurnEnded, k)
  <2> DEFINE e == LatestOf(s, TurnEnded, k)
  <2>1. e \in KeyEvents(s, TurnEnded, k)
    BY <1>4, LatestIs
  <2> HIDE DEF e
  <2>2. e \in Seen /\ Says(e, s, TurnEnded) /\ events[e].key = k
    BY <2>1, OfTypeIs DEF KeyEvents
  <2>3. Started(e) \in Seen /\ Started(e) < e /\ Says(Started(e), s, TurnBegan) /\ events[Started(e)].key = k
    BY <2>2, StartedTurn
  <2>4. Started(e) = n
    BY <1>2, <2>3
  <2> QED
    BY <2>3, <2>4 DEF e
<1> QED
  BY <1>3, <1>4

-----------------------------------------------------------------------------
\* A span's id says of what it is.

LEMMA IdsDiffer ==
  ASSUME NEW s, NEW t, NEW j, NEW k
  PROVE  /\ AgentSpanOf(s).id = AgentSpanOf(t).id <=> s = t
         /\ ChatSpanOf(s, j).id = ChatSpanOf(t, k).id <=> s = t /\ j = k
         /\ CallSpanOf(s, j).id = CallSpanOf(t, k).id <=> s = t /\ j = k
         /\ AgentSpanOf(s).id # ChatSpanOf(t, k).id
         /\ AgentSpanOf(s).id # CallSpanOf(t, k).id
         /\ ChatSpanOf(s, j).id # CallSpanOf(t, k).id
<1>1. /\ AgentSpanOf(s).id = <<"agent", s>> /\ AgentSpanOf(t).id = <<"agent", t>>
      /\ ChatSpanOf(s, j).id = <<"chat", s, j>> /\ ChatSpanOf(t, k).id = <<"chat", t, k>>
      /\ CallSpanOf(s, j).id = <<"tool", s, j>> /\ CallSpanOf(t, k).id = <<"tool", t, k>>
  BY DEF AgentSpanOf, ChatSpanOf, CallSpanOf, Span, CallSpanId
<1>2. <<"agent", s>> = <<"agent", t>> <=> s = t
  <2>1. <<"agent", s>>[2] = s /\ <<"agent", t>>[2] = t
    OBVIOUS
  <2> QED
    BY <2>1
<1>3. <<"chat", s, j>> = <<"chat", t, k>> <=> s = t /\ j = k
  <2>1. <<"chat", s, j>>[2] = s /\ <<"chat", t, k>>[2] = t /\ <<"chat", s, j>>[3] = j /\ <<"chat", t, k>>[3] = k
    OBVIOUS
  <2> QED
    BY <2>1
<1>4. <<"tool", s, j>> = <<"tool", t, k>> <=> s = t /\ j = k
  <2>1. <<"tool", s, j>>[2] = s /\ <<"tool", t, k>>[2] = t /\ <<"tool", s, j>>[3] = j /\ <<"tool", t, k>>[3] = k
    OBVIOUS
  <2> QED
    BY <2>1
<1>5. <<"agent", s>> # <<"chat", t, k>> /\ <<"agent", s>> # <<"tool", t, k>> /\ <<"chat", s, j>> # <<"tool", t, k>>
  <2>1. <<"agent", s>>[1] = "agent" /\ <<"chat", t, k>>[1] = "chat" /\ <<"tool", t, k>>[1] = "tool" /\ <<"chat", s, j>>[1] = "chat"
    OBVIOUS
  <2> QED
    BY <2>1
<1> QED
  BY <1>1, <1>2, <1>3, <1>4, <1>5

\* A span is an agent's, a turn's or a call's.
LEMMA SpanKinds ==
  ASSUME TraceInv, NEW sp
  PROVE  sp \in SpansForRun <=>
           \/ \E s \in Shown(Seen) : sp = AgentSpanOf(s)
           \/ \E s \in Shown(Seen) : \E k \in Keys(s, TurnBegan) : sp = ChatSpanOf(s, k)
           \/ \E s \in Shown(Seen) : \E k \in Keys(s, CallBegan) : sp = CallSpanOf(s, k)
<1>1. \A s \in Shown(Seen) : s \in Logs
  BY SeenIs DEF Shown
<1>2. sp \in AgentSpans <=> \E s \in Shown(Seen) : sp = AgentSpanOf(s)
  BY DEF AgentSpans, AgentSpanOf
<1>3. ASSUME NEW s \in Shown(Seen)
      PROVE  /\ sp \in ChatSpans(s) <=> \E k \in Keys(s, TurnBegan) : sp = ChatSpanOf(s, k)
             /\ sp \in CallSpans(s) <=> \E k \in Keys(s, CallBegan) : sp = CallSpanOf(s, k)
  BY <1>1, ChatSpansAre, CallSpansAre
<1>4. sp \in SpansForRun <=> sp \in AgentSpans \/ \E s \in Shown(Seen) : sp \in ChatSpans(s) \/ sp \in CallSpans(s)
  BY DEF SpansForRun
<1> QED
  BY <1>2, <1>3, <1>4

LEMMA IdsApart ==
  ASSUME TraceInv, NEW sp \in SpansForRun, NEW out \in SpansForRun, sp.id = out.id
  PROVE  sp = out
<1>1. \/ \E t \in Shown(Seen) : out = AgentSpanOf(t)
      \/ \E t \in Shown(Seen) : \E j \in Keys(t, TurnBegan) : out = ChatSpanOf(t, j)
      \/ \E t \in Shown(Seen) : \E j \in Keys(t, CallBegan) : out = CallSpanOf(t, j)
  BY SpanKinds
<1>2. \/ \E s \in Shown(Seen) : sp = AgentSpanOf(s)
      \/ \E s \in Shown(Seen) : \E k \in Keys(s, TurnBegan) : sp = ChatSpanOf(s, k)
      \/ \E s \in Shown(Seen) : \E k \in Keys(s, CallBegan) : sp = CallSpanOf(s, k)
  BY SpanKinds
<1>3. ASSUME NEW s, NEW t, NEW j, NEW k
      PROVE  /\ sp = AgentSpanOf(s) /\ out = AgentSpanOf(t) => sp = out
             /\ sp = ChatSpanOf(s, k) /\ out = ChatSpanOf(t, j) => sp = out
             /\ sp = CallSpanOf(s, k) /\ out = CallSpanOf(t, j) => sp = out
             /\ sp = AgentSpanOf(s) => out # ChatSpanOf(t, j) /\ out # CallSpanOf(t, j)
             /\ sp = ChatSpanOf(s, k) => out # AgentSpanOf(t) /\ out # CallSpanOf(t, j)
             /\ sp = CallSpanOf(s, k) => out # AgentSpanOf(t) /\ out # ChatSpanOf(t, j)
  BY IdsDiffer
<1> QED
  BY <1>1, <1>2, <1>3

LEMMA ImageFinite ==
  ASSUME NEW S, IsFiniteSet(S), NEW T, NEW f \in [S -> T], \A y \in T : \E x \in S : f[x] = y
  PROVE  IsFiniteSet(T)
<1>1. f \in Surjection(S, T)
  BY DEF Surjection
<1> QED
  BY <1>1, FS_Surjection

LEMMA SpansFinite == ASSUME TraceInv PROVE IsFiniteSet(SpansForRun)
<1> DEFINE ofAgents == [n \in Seen |-> AgentSpanOf(events[n].s)]
           ofTurns == [n \in Seen |-> ChatSpanOf(events[n].s, events[n].key)]
           ofCalls == [n \in Seen |-> CallSpanOf(events[n].s, events[n].key)]
           all == {ofAgents[n] : n \in Seen} \cup {ofTurns[n] : n \in Seen} \cup {ofCalls[n] : n \in Seen}
<1>1. IsFiniteSet({ofAgents[n] : n \in Seen})
  <2> DEFINE I == {ofAgents[n] : n \in Seen}
  <2>1. ofAgents \in [Seen -> I] /\ \A y \in I : \E n \in Seen : ofAgents[n] = y
    OBVIOUS
  <2> HIDE DEF ofAgents, I
  <2>2. IsFiniteSet(I)
    BY <2>1, EventsFinite, ImageFinite
  <2> QED
    BY <2>2 DEF I
<1>2. IsFiniteSet({ofTurns[n] : n \in Seen})
  <2> DEFINE I == {ofTurns[n] : n \in Seen}
  <2>1. ofTurns \in [Seen -> I] /\ \A y \in I : \E n \in Seen : ofTurns[n] = y
    OBVIOUS
  <2> HIDE DEF ofTurns, I
  <2>2. IsFiniteSet(I)
    BY <2>1, EventsFinite, ImageFinite
  <2> QED
    BY <2>2 DEF I
<1>3. IsFiniteSet({ofCalls[n] : n \in Seen})
  <2> DEFINE I == {ofCalls[n] : n \in Seen}
  <2>1. ofCalls \in [Seen -> I] /\ \A y \in I : \E n \in Seen : ofCalls[n] = y
    OBVIOUS
  <2> HIDE DEF ofCalls, I
  <2>2. IsFiniteSet(I)
    BY <2>1, EventsFinite, ImageFinite
  <2> QED
    BY <2>2 DEF I
<1>4. IsFiniteSet(all)
  <2> HIDE DEF ofAgents, ofTurns, ofCalls
  <2> QED
    BY <1>1, <1>2, <1>3, FS_Union
<1>5. ASSUME NEW sp \in SpansForRun PROVE sp \in all
  <2>1. CASE \E s \in Shown(Seen) : sp = AgentSpanOf(s)
    <3>1. \E n \in Seen : sp = ofAgents[n]
      BY <2>1 DEF Shown
    <3> QED
      BY <3>1
  <2>2. CASE \E s \in Shown(Seen) : \E k \in Keys(s, TurnBegan) : sp = ChatSpanOf(s, k)
    <3>1. PICK s \in Shown(Seen) : \E k \in Keys(s, TurnBegan) : sp = ChatSpanOf(s, k)
      BY <2>2
    <3>2. PICK n \in OfType(Seen, s, TurnBegan) : sp = ChatSpanOf(s, events[n].key)
      BY <3>1 DEF Keys
    <3>3. n \in Seen /\ sp = ofTurns[n]
      BY <3>2 DEF OfType
    <3> QED
      BY <3>3
  <2>3. CASE \E s \in Shown(Seen) : \E k \in Keys(s, CallBegan) : sp = CallSpanOf(s, k)
    <3>1. PICK s \in Shown(Seen) : \E k \in Keys(s, CallBegan) : sp = CallSpanOf(s, k)
      BY <2>3
    <3>2. PICK n \in OfType(Seen, s, CallBegan) : sp = CallSpanOf(s, events[n].key)
      BY <3>1 DEF Keys
    <3>3. n \in Seen /\ sp = ofCalls[n]
      BY <3>2 DEF OfType
    <3> QED
      BY <3>3
  <2> QED
    BY <2>1, <2>2, <2>3, SpanKinds
<1> HIDE DEF all
<1>6. SpansForRun \in SUBSET all
  BY <1>5
<1> QED
  BY <1>4, <1>6, FS_Subset

-----------------------------------------------------------------------------
LEMMA SpanFields ==
  ASSUME NEW s, NEW k
  PROVE  /\ AgentSpanOf(s).id = <<"agent", s>> /\ AgentSpanOf(s).parent = {<<"agent", p>> : p \in ParentLane(Seen, s)}
         /\ ChatSpanOf(s, k).id = <<"chat", s, k>> /\ ChatSpanOf(s, k).parent = {<<"agent", s>>}
         /\ CallSpanOf(s, k).id = <<"tool", s, k>>
         /\ CallSpanOf(s, k).parent = {IF Nesting(s, k) = 0 THEN <<"agent", s>> ELSE <<"tool", s, Nesting(s, k)>>}
         /\ CallSpanOf(s, k).from = LatestOf(s, CallBegan, k)
         /\ CallSpanOf(s, k).to = IF LatestOf(s, CallEnded, k) # 0 THEN LatestOf(s, CallEnded, k) ELSE LatestOf(s, CallBegan, k)
         /\ LatestOf(s, TurnBegan, k) # 0 => ChatSpanOf(s, k).from = LatestOf(s, TurnBegan, k)
         /\ ChatSpanOf(s, k).to = IF LatestOf(s, TurnEnded, k) # 0 THEN LatestOf(s, TurnEnded, k) ELSE LatestOf(s, TurnBegan, k)
BY DEF AgentSpanOf, ChatSpanOf, CallSpanOf, Span, CallSpanId

\* A call's span names the agent's, or an earlier call's.
LEMMA CallParent ==
  ASSUME TraceInv, NEW s \in Logs, NEW k \in Keys(s, CallBegan)
  PROVE  \/ Nesting(s, k) = 0
         \/ /\ Nesting(s, k) \in Keys(s, CallBegan) /\ Nesting(s, k) # k
            /\ LatestOf(s, CallBegan, Nesting(s, k)) < LatestOf(s, CallBegan, k)
<1>1. PICK n \in OfType(Seen, s, CallBegan) : k = events[n].key
  BY DEF Keys
<1>2. n \in Seen /\ Says(n, s, CallBegan) /\ k \in Nat
  BY <1>1, OfTypeIs, SeenIs
<1>3. /\ LatestOf(s, CallBegan, k) = n /\ Nesting(s, k) = events[n].nested /\ events[n].nested \in Nat /\ events[n].nested < k
      /\ events[n].nested # 0 => \E m \in Seen : m < n /\ BeginsCall(m, s, events[n].nested)
  BY <1>1, <1>2, CallSpanIs
<1>4. CASE events[n].nested # 0
  <2>1. PICK m \in Seen : m < n /\ BeginsCall(m, s, events[n].nested)
    BY <1>3, <1>4
  <2>2. Says(m, s, CallBegan) /\ events[m].key = events[n].nested
    BY <2>1 DEF BeginsCall
  <2>3. LatestOf(s, CallBegan, events[n].nested) = m
    BY <2>2, CallSpanIs
  <2>4. events[n].nested \in Keys(s, CallBegan)
    BY <2>2, OfTypeIs DEF Keys
  <2> QED
    BY <1>2, <1>3, <2>1, <2>3, <2>4
<1> QED
  BY <1>3, <1>4

LEMMA ParentsTrue ==
  ASSUME TraceInv, NEW sp \in SpansForRun
  PROVE  sp.id \notin sp.parent /\ \A id \in sp.parent : \E out \in SpansForRun : out.id = id
<1>1. \A s \in Shown(Seen) : s \in Logs
  BY SeenIs DEF Shown
<1>2. \A s \in Shown(Seen) : AgentSpanOf(s) \in SpansForRun
  BY SpanKinds
<1>3. ASSUME NEW s \in Shown(Seen), sp = AgentSpanOf(s)
      PROVE  sp.id \notin sp.parent /\ \A id \in sp.parent : \E out \in SpansForRun : out.id = id
  <2>1. CASE ParentLane(Seen, s) = {}
    <3>1. AgentSpanOf(s).parent = {<<"agent", p>> : p \in ParentLane(Seen, s)}
      BY SpanFields
    <3>2. sp.parent = {}
      BY <1>3, <2>1, <3>1
    <3> QED
      BY <3>2
  <2>2. CASE \E p \in Shown(Seen) : ParentLane(Seen, s) = {p} /\ FirstOf(Seen, p) < FirstOf(Seen, s)
    <3>1. PICK p \in Shown(Seen) : ParentLane(Seen, s) = {p} /\ FirstOf(Seen, p) < FirstOf(Seen, s)
      BY <2>2
    <3>2. p # s
      <4>1. FirstOf(Seen, s) \in Nat
        BY FirstIs
      <4> QED
        BY <3>1, <4>1
    <3>3. sp.id = AgentSpanOf(s).id /\ sp.parent = {AgentSpanOf(p).id}
      <4>1. AgentSpanOf(s).parent = {<<"agent", q>> : q \in ParentLane(Seen, s)}
        BY SpanFields
      <4>2. AgentSpanOf(p).id = <<"agent", p>>
        BY SpanFields
      <4>3. AgentSpanOf(s).parent = {<<"agent", p>>}
        BY <3>1, <4>1
      <4> QED
        BY <1>3, <4>2, <4>3
    <3>4. AgentSpanOf(s).id # AgentSpanOf(p).id
      BY <3>2, IdsDiffer
    <3> QED
      BY <1>2, <3>3, <3>4
  <2> QED
    BY <2>1, <2>2, ParentBefore
<1>4. ASSUME NEW s \in Shown(Seen), NEW k \in Keys(s, TurnBegan), sp = ChatSpanOf(s, k)
      PROVE  sp.id \notin sp.parent /\ \A id \in sp.parent : \E out \in SpansForRun : out.id = id
  <2>1. sp.parent = {AgentSpanOf(s).id}
    BY <1>4, SpanFields
  <2>2. sp.id # AgentSpanOf(s).id
    BY <1>4, IdsDiffer
  <2> QED
    BY <1>2, <2>1, <2>2
<1>5. ASSUME NEW s \in Shown(Seen), NEW k \in Keys(s, CallBegan), sp = CallSpanOf(s, k)
      PROVE  sp.id \notin sp.parent /\ \A id \in sp.parent : \E out \in SpansForRun : out.id = id
  <2>1. CASE Nesting(s, k) = 0
    <3>1. sp.parent = {AgentSpanOf(s).id}
      BY <1>5, <2>1, SpanFields
    <3>2. sp.id # AgentSpanOf(s).id
      BY <1>5, IdsDiffer
    <3> QED
      BY <1>2, <3>1, <3>2
  <2>2. CASE Nesting(s, k) # 0
    <3>1. Nesting(s, k) \in Keys(s, CallBegan) /\ Nesting(s, k) # k
      BY <1>1, <2>2, CallParent
    <3>2. sp.parent = {CallSpanOf(s, Nesting(s, k)).id}
      <4>1. CallSpanOf(s, Nesting(s, k)).id = <<"tool", s, Nesting(s, k)>>
        BY SpanFields
      <4>2. CallSpanOf(s, k).parent = {<<"tool", s, Nesting(s, k)>>}
        <5>1. CallSpanOf(s, k).parent = {IF Nesting(s, k) = 0 THEN <<"agent", s>> ELSE <<"tool", s, Nesting(s, k)>>}
          BY SpanFields
        <5> QED
          BY <2>2, <5>1
      <4> QED
        BY <1>5, <4>1, <4>2
    <3>3. sp.id # CallSpanOf(s, Nesting(s, k)).id
      BY <1>5, <3>1, IdsDiffer
    <3>4. CallSpanOf(s, Nesting(s, k)) \in SpansForRun
      BY <3>1, SpanKinds
    <3> QED
      BY <3>2, <3>3, <3>4
  <2> QED
    BY <2>1, <2>2
<1> QED
  BY <1>3, <1>4, <1>5, SpanKinds

LEMMA CallsTrue ==
  ASSUME TraceInv, NEW s \in Logs
  PROVE  /\ Cardinality(CallSpans(s)) = Cardinality(OfType(Seen, s, CallBegan))
         /\ \A sp \in CallSpans(s) : sp.from <= sp.to
         /\ \A sp, out \in CallSpans(s) : sp.parent = {out.id} => out.from < sp.from
<1> DEFINE B == OfType(Seen, s, CallBegan)
           f == [n \in B |-> CallSpanOf(s, events[n].key)]
<1>1. \A n \in B : n \in Seen /\ Says(n, s, CallBegan) /\ BeginsCall(n, s, events[n].key)
  BY OfTypeIs DEF BeginsCall
<1>2. \A n \in B : f[n] = CallSpanOf(s, events[n].key)
  OBVIOUS
<1>3. f \in [B -> CallSpans(s)] /\ \A sp \in CallSpans(s) : \E n \in B : f[n] = sp
  <2>1. \A n \in B : events[n].key \in Keys(s, CallBegan)
    BY DEF Keys
  <2>2. CallSpans(s) = {CallSpanOf(s, k) : k \in Keys(s, CallBegan)}
    BY CallSpansAre
  <2>3. \A sp \in CallSpans(s) : \E n \in B : CallSpanOf(s, events[n].key) = sp
    BY <2>2 DEF Keys
  <2> QED
    BY <2>1, <2>2, <2>3
<1>4. \A m, n \in B : f[m] = f[n] => m = n
  <2> SUFFICES ASSUME NEW m \in B, NEW n \in B, f[m] = f[n] PROVE m = n
    OBVIOUS
  <2>1. CallSpanOf(s, events[m].key).id = CallSpanOf(s, events[n].key).id
    BY <1>2
  <2>2. events[m].key = events[n].key
    BY <2>1, IdsDiffer
  <2> QED
    BY <1>1, <2>2, BeginsOnce
<1>5. IsFiniteSet(B)
  <2>1. B \in SUBSET Seen
    BY <1>1
  <2> QED
    BY <2>1, EventsFinite
<1> HIDE DEF f
<1>6. Cardinality(CallSpans(s)) = Cardinality(B)
  <2> HIDE DEF B
  <2> QED
    BY <1>3, <1>4, <1>5, SameCount
<1>7. ASSUME NEW sp \in CallSpans(s) PROVE sp.from <= sp.to
  <2>1. PICK n \in B : sp = CallSpanOf(s, events[n].key)
    BY <1>2, <1>3
  <2> DEFINE k == events[n].key
  <2>2. LatestOf(s, CallBegan, k) = n /\ (LatestOf(s, CallEnded, k) # 0 => n < LatestOf(s, CallEnded, k)) /\ n \in Nat
    BY <1>1, CallSpanIs, SeenIs
  <2>3. LatestOf(s, CallEnded, k) # 0 => LatestOf(s, CallEnded, k) \in Nat
    BY LatestIs, SeenIs DEF KeyEvents, OfType
  <2>4. sp.from = n /\ sp.to = IF LatestOf(s, CallEnded, k) # 0 THEN LatestOf(s, CallEnded, k) ELSE n
    BY <2>1, <2>2, SpanFields
  <2> HIDE DEF k
  <2> QED
    BY <2>2, <2>3, <2>4
<1>8. ASSUME NEW sp \in CallSpans(s), NEW out \in CallSpans(s), sp.parent = {out.id} PROVE out.from < sp.from
  <2>1. PICK k \in Keys(s, CallBegan) : sp = CallSpanOf(s, k)
    BY CallSpansAre
  <2>2. PICK j \in Keys(s, CallBegan) : out = CallSpanOf(s, j)
    BY CallSpansAre
  <2>3. CASE Nesting(s, k) = 0
    <3>1. sp.parent = {AgentSpanOf(s).id}
      BY <2>1, <2>3, SpanFields
    <3>2. AgentSpanOf(s).id = CallSpanOf(s, j).id
      BY <1>8, <2>2, <3>1
    <3> QED
      BY <3>2, IdsDiffer
  <2>4. CASE Nesting(s, k) # 0
    <3>1. sp.parent = {CallSpanOf(s, Nesting(s, k)).id}
      <4>1. CallSpanOf(s, Nesting(s, k)).id = <<"tool", s, Nesting(s, k)>>
        BY SpanFields
      <4>2. CallSpanOf(s, k).parent = {<<"tool", s, Nesting(s, k)>>}
        <5>1. CallSpanOf(s, k).parent = {IF Nesting(s, k) = 0 THEN <<"agent", s>> ELSE <<"tool", s, Nesting(s, k)>>}
          BY SpanFields
        <5> QED
          BY <2>4, <5>1
      <4> QED
        BY <2>1, <4>1, <4>2
    <3>2. CallSpanOf(s, Nesting(s, k)).id = CallSpanOf(s, j).id
      BY <1>8, <2>2, <3>1
    <3>3. Nesting(s, k) = j
      BY <3>2, IdsDiffer
    <3>4. LatestOf(s, CallBegan, j) < LatestOf(s, CallBegan, k)
      BY <2>4, <3>3, CallParent
    <3> QED
      BY <2>1, <2>2, <3>4, SpanFields
  <2> QED
    BY <2>3, <2>4
<1> QED
  BY <1>6, <1>7, <1>8

LEMMA TurnsTrue ==
  ASSUME TraceInv, NEW s \in Logs, ~CountedAgain(s)
  PROVE  /\ Cardinality(ChatSpans(s)) = Cardinality(OfType(Seen, s, TurnBegan))
         /\ \A sp \in ChatSpans(s) : sp.from <= sp.to
<1> DEFINE B == OfType(Seen, s, TurnBegan)
           f == [n \in B |-> ChatSpanOf(s, events[n].key)]
<1>1. \A n \in B : n \in Seen /\ Says(n, s, TurnBegan)
  BY OfTypeIs
<1>2. \A n \in B : f[n] = ChatSpanOf(s, events[n].key)
  OBVIOUS
<1>3. f \in [B -> ChatSpans(s)] /\ \A sp \in ChatSpans(s) : \E n \in B : f[n] = sp
  <2>1. \A n \in B : events[n].key \in Keys(s, TurnBegan)
    BY DEF Keys
  <2>2. ChatSpans(s) = {ChatSpanOf(s, k) : k \in Keys(s, TurnBegan)}
    BY ChatSpansAre
  <2>3. \A sp \in ChatSpans(s) : \E n \in B : ChatSpanOf(s, events[n].key) = sp
    BY <2>2 DEF Keys
  <2> QED
    BY <2>1, <2>2, <2>3
<1>4. \A m, n \in B : f[m] = f[n] => m = n
  <2> SUFFICES ASSUME NEW m \in B, NEW n \in B, f[m] = f[n] PROVE m = n
    OBVIOUS
  <2>1. ChatSpanOf(s, events[m].key).id = ChatSpanOf(s, events[n].key).id
    BY <1>2
  <2>2. events[m].key = events[n].key
    BY <2>1, IdsDiffer
  <2> QED
    BY <2>2 DEF CountedAgain, TurnBegan
<1>5. IsFiniteSet(B)
  <2>1. B \in SUBSET Seen
    BY <1>1
  <2> QED
    BY <2>1, EventsFinite
<1> HIDE DEF f
<1>6. Cardinality(ChatSpans(s)) = Cardinality(B)
  <2> HIDE DEF B
  <2> QED
    BY <1>3, <1>4, <1>5, SameCount
<1>7. ASSUME NEW sp \in ChatSpans(s) PROVE sp.from <= sp.to
  <2>1. PICK n \in B : sp = ChatSpanOf(s, events[n].key)
    BY <1>2, <1>3
  <2> DEFINE k == events[n].key
  <2>2. /\ LatestOf(s, TurnBegan, k) = n /\ (LatestOf(s, TurnEnded, k) # 0 => n < LatestOf(s, TurnEnded, k))
        /\ n \in Nat /\ n # 0
    BY <1>1, ChatSpanIs, SeenIs
  <2>3. LatestOf(s, TurnEnded, k) # 0 => LatestOf(s, TurnEnded, k) \in Nat
    BY LatestIs, SeenIs DEF KeyEvents, OfType
  <2>4. sp.from = n /\ sp.to = IF LatestOf(s, TurnEnded, k) # 0 THEN LatestOf(s, TurnEnded, k) ELSE n
    BY <2>1, <2>2, SpanFields
  <2> HIDE DEF k
  <2> QED
    BY <2>2, <2>3, <2>4
<1> QED
  BY <1>6, <1>7

THEOREM SpansAreTrue == TraceInv => SpansTrue
<1> SUFFICES ASSUME TraceInv PROVE SpansTrue
  OBVIOUS
<1> DEFINE ids == {sp.id : sp \in SpansForRun}
<1>1. Cardinality(ids) = Cardinality(SpansForRun)
  <2> DEFINE f == [sp \in SpansForRun |-> sp.id]
  <2>1. f \in [SpansForRun -> ids] /\ (\A id \in ids : \E sp \in SpansForRun : f[sp] = id)
    OBVIOUS
  <2>2. \A sp, out \in SpansForRun : f[sp] = f[out] => sp = out
    BY IdsApart
  <2> HIDE DEF f, ids
  <2> QED
    BY <2>1, <2>2, SpansFinite, SameCount
<1>2. \A sp \in SpansForRun : sp.parent \subseteq ids /\ sp.id \notin sp.parent
  BY ParentsTrue
<1>3. \A s \in Shown(Seen) : s \in Logs
  BY SeenIs DEF Shown
<1> QED
  BY <1>1, <1>2, <1>3, CallsTrue, TurnsTrue DEF SpansTrue, CallBegan, TurnBegan

THEOREM TraceIsInv == TraceSpec => []TraceInv
<1>1. TraceInit => TraceInv
  BY TraceInitInv
<1>2. TraceInv /\ [TraceNext]_traceVars => TraceInv'
  BY TraceStepInv
<1> QED
  BY <1>1, <1>2, PTL DEF TraceSpec

(***************************************************************************)
(* What is made of a run's events, a trace, a tree and a time of work, is  *)
(* what happened (spansForRun, buildTrace, intervalUnionMs).               *)
(***************************************************************************)
THEOREM RunIsTold == TraceSpec => []RunTold
<1>1. TraceInv => RunTold
  BY SpansAreTrue, TreeIsTrue, WorkIsTrue DEF RunTold
<1> QED
  BY <1>1, TraceIsInv, PTL

-----------------------------------------------------------------------------
(***************************************************************************)
(* What is read of the sinks is what is in them, by the page, the index    *)
(* and all that is made of a run's events.                                 *)
(***************************************************************************)
THEOREM SinksAreRead ==
  ASSUME Steerable = Lanes
  PROVE  SinksSpec => []SinksReadRight
<1>1. FeedSpec => []FeedHolds
  BY FeedIsRead
<1>2. IndexSpec => []IndexTrue
  BY IndexIsTrue
<1>3. TraceSpec => []RunTold
  BY RunIsTold
<1> QED
  BY <1>1, <1>2, <1>3, PTL DEF SinksSpec, SinksReadRight

-----------------------------------------------------------------------------
\* The status panel.

RowKinds == {"head", "agent", "more", "todo", "check", "trail"}
RowType == [k : RowKinds, n : Nat]

JoinsUp(s, t) ==
  /\ s \o t \in Seq(RowType)
  /\ Len(s \o t) = Len(s) + Len(t)
  /\ \A i \in 1 .. Len(s) : (s \o t)[i] = s[i]
  /\ \A i \in Len(s) + 1 .. Len(s) + Len(t) : (s \o t)[i] = t[i - Len(s)]

\* n rows of one kind.
LEMMA RowsShape ==
  ASSUME NEW k \in RowKinds, NEW n \in Nat
  PROVE  /\ Rows(k, n) \in Seq(RowType)
         /\ Len(Rows(k, n)) = n
         /\ \A i \in 1 .. n : Rows(k, n)[i].k = k
<1> DEFINE N == Most(0, n)
<1>1. N = n
  BY DEF Most
<1>2. Rows(k, n) = [i \in 1 .. n |-> Row(k, i)]
  BY <1>1 DEF Rows
<1>3. \A i \in 1 .. n : Row(k, i) \in RowType /\ Row(k, i).k = k
  BY DEF Row, RowType
<1> HIDE DEF N
<1>4. Rows(k, n) \in [1 .. n -> RowType] /\ DOMAIN Rows(k, n) = 1 .. n
  BY <1>2, <1>3
<1> QED
  BY <1>2, <1>3, <1>4

\* The rows of two lists, one after the other.
LEMMA Joins ==
  ASSUME NEW s \in Seq(RowType), NEW t \in Seq(RowType)
  PROVE  JoinsUp(s, t)
  BY DEF JoinsUp

\* A checklist is nothing, its heading, or all of its items where there is room.
LEMMA ChecklistShape ==
  ASSUME NEW k \in RowKinds, NEW d \in Nat, NEW n \in Nat, NEW room \in Int
  PROVE  LET s == Checklist(k, [done |-> d, total |-> n], room)
         IN /\ s \in Seq(RowType)
            /\ Len(s) \in {0, 1} \/ (Len(s) = n + 1 /\ n + 1 <= room)
            /\ \A i \in 1 .. Len(s) : s[i].k = k
<1> DEFINE s == Checklist(k, [done |-> d, total |-> n], room)
           one == <<Row(k, 0)>>
<1>1. one \in Seq(RowType) /\ Len(one) = 1 /\ one[1].k = k
  BY DEF Row, RowType
<1>2. CASE n = 0
  <2>1. s = <<>>
    BY <1>2 DEF Checklist
  <2> QED
    BY <2>1
<1>3. CASE n # 0 /\ (d >= n \/ room < n + 1)
  <2>1. s = one \o <<>>
    BY <1>3 DEF Checklist
  <2>2. s = one
    BY <2>1, <1>1
  <2> HIDE DEF one, s
  <2>3. s \in Seq(RowType) /\ Len(s) = 1
    BY <2>2, <1>1
  <2>4. \A i \in 1 .. Len(s) : s[i].k = k
    BY <2>2, <2>3, <1>1
  <2> QED
    BY <2>3, <2>4 DEF s
<1>4. CASE n # 0 /\ ~(d >= n \/ room < n + 1)
  <2>1. s = one \o Rows(k, n)
    BY <1>4 DEF Checklist
  <2>2. Rows(k, n) \in Seq(RowType) /\ Len(Rows(k, n)) = n /\ \A i \in 1 .. n : Rows(k, n)[i].k = k
    BY RowsShape
  <2> HIDE DEF one
  <2>3. /\ s \in Seq(RowType) /\ Len(s) = n + 1
        /\ s[1] = one[1] /\ \A i \in 2 .. n + 1 : s[i] = Rows(k, n)[i - 1]
    <3> DEFINE more == Rows(k, n)
    <3> HIDE DEF more, s
    <3>1. more \in Seq(RowType) /\ Len(more) = n
      BY <2>2 DEF more
    <3>2. JoinsUp(one, more)
      BY <3>1, <1>1, Joins
    <3>3. s = one \o more
      BY <2>1 DEF more
    <3>4. \A i \in 2 .. n + 1 : i \in 1 + 1 .. 1 + n
      OBVIOUS
    <3>5. s \in Seq(RowType) /\ Len(s) = n + 1 /\ s[1] = one[1]
      BY <3>1, <3>2, <3>3, <1>1 DEF JoinsUp
    <3>6. \A i \in 2 .. n + 1 : s[i] = more[i - 1]
      BY <3>1, <3>2, <3>3, <3>4, <1>1 DEF JoinsUp
    <3> QED
      BY <3>5, <3>6 DEF more
  <2>4. \A i \in 1 .. n + 1 : i = 1 \/ (i \in 2 .. n + 1 /\ i - 1 \in 1 .. n)
    OBVIOUS
  <2>5. \A i \in 1 .. n + 1 : s[i].k = k
    BY <2>2, <2>3, <2>4, <1>1
  <2> QED
    BY <2>3, <2>5, <1>4
<1> QED
  BY <1>2, <1>3, <1>4

HeadIs(s, h, f, n, m) ==
  /\ s \in Seq(RowType) /\ Len(s) = h + f + m
  /\ \A i \in 1 .. h : s[i].k = "head"
  /\ \A i \in h + 1 .. h + f : s[i].k = "agent"
  /\ \A i \in h + f + 1 .. h + f + m : s[i].k = "more" /\ s[i].n = n - f

\* The head of the widget: the agents that fit, and a row that counts the others.
LEMMA HeadShape ==
  ASSUME NEW h \in Nat, NEW n \in Nat, NEW f \in 0 .. n
  PROVE  HeadIs(Rows("head", h) \o Rows("agent", f) \o More(n, f), h, f, n, IF n > f THEN 1 ELSE 0)
<1> DEFINE a == Rows("head", h)
           b == Rows("agent", f)
           c == More(n, f)
           m == IF n > f THEN 1 ELSE 0
<1>1. a \in Seq(RowType) /\ Len(a) = h /\ \A i \in 1 .. h : a[i].k = "head"
  <2>1. "head" \in RowKinds
    BY DEF RowKinds
  <2> QED
    BY <2>1, RowsShape
<1>2. f \in Nat /\ b \in Seq(RowType) /\ Len(b) = f /\ \A i \in 1 .. f : b[i].k = "agent"
  <2>1. "agent" \in RowKinds /\ f \in Nat
    BY DEF RowKinds
  <2> QED
    BY <2>1, RowsShape
<1>3. c \in Seq(RowType) /\ Len(c) = m /\ (\A i \in 1 .. m : c[i].k = "more" /\ c[i].n = n - f) /\ m \in Nat
  <2>1. CASE n > f
    <3>1. n - f \in Nat
      BY <2>1
    <3>4. "more" \in RowKinds
      BY DEF RowKinds
    <3>2. Row("more", n - f) \in RowType /\ Row("more", n - f).k = "more" /\ Row("more", n - f).n = n - f
      BY <3>1, <3>4 DEF Row, RowType
    <3>3. c = <<Row("more", n - f)>> /\ m = 1
      BY <2>1 DEF More
    <3> QED
      BY <3>2, <3>3
  <2>2. CASE ~(n > f)
    <3>1. c = <<>> /\ m = 0
      BY <2>2 DEF More
    <3> QED
      BY <3>1
  <2> QED
    BY <2>1, <2>2
<1> HIDE DEF a, b, c, m
<1>a. JoinsUp(a, b)
  BY <1>1, <1>2, Joins
<1>4. /\ a \o b \in Seq(RowType) /\ Len(a \o b) = h + f
      /\ \A i \in 1 .. h : (a \o b)[i] = a[i]
      /\ \A i \in h + 1 .. h + f : (a \o b)[i] = b[i - h]
  BY <1>1, <1>2, <1>a DEF JoinsUp
<1>b. JoinsUp(a \o b, c)
  BY <1>3, <1>4, Joins
<1> DEFINE ab == a \o b
<1>c. ab \in Seq(RowType) /\ Len(ab) = h + f /\ JoinsUp(ab, c)
  BY <1>4, <1>b
<1> HIDE DEF ab
<1>d. /\ ab \o c \in Seq(RowType) /\ Len(ab \o c) = h + f + m
      /\ \A i \in 1 .. h + f : (ab \o c)[i] = ab[i]
      /\ \A i \in h + f + 1 .. h + f + m : (ab \o c)[i] = c[i - (h + f)]
  BY <1>3, <1>c DEF JoinsUp
<1>5. /\ a \o b \o c \in Seq(RowType) /\ Len(a \o b \o c) = h + f + m
      /\ \A i \in 1 .. h + f : (a \o b \o c)[i] = (a \o b)[i]
      /\ \A i \in h + f + 1 .. h + f + m : (a \o b \o c)[i] = c[i - (h + f)]
  BY <1>d DEF ab
<1>6. \A i \in 1 .. h : (a \o b \o c)[i].k = "head"
  BY <1>1, <1>4, <1>5
<1>7. \A i \in h + 1 .. h + f : (a \o b \o c)[i].k = "agent"
  <2>1. \A i \in h + 1 .. h + f : i \in 1 .. h + f /\ i - h \in 1 .. f
    BY <1>2
  <2> QED
    BY <1>2, <1>4, <1>5, <2>1
<1>8. \A i \in h + f + 1 .. h + f + m : (a \o b \o c)[i].k = "more" /\ (a \o b \o c)[i].n = n - f
  <2>1. \A i \in h + f + 1 .. h + f + m : i - (h + f) \in 1 .. m
    BY <1>2, <1>3
  <2> QED
    BY <1>3, <1>5, <2>1
<1> QED
  BY <1>5, <1>6, <1>7, <1>8 DEF a, b, c, m, HeadIs

Painted ==
  /\ marks \in Nat /\ screen \in BOOLEAN /\ fresh \in BOOLEAN /\ timer \in BOOLEAN /\ gap \in BOOLEAN
  /\ cleared => ~screen /\ ~timer
  /\ ~fresh => timer \/ cleared

Worked ==
  /\ full \in BOOLEAN /\ rows \in Nat
  /\ flow \in {"run", "dispatch", "no"}
  /\ phases \in Seq({"pending", "running", "done", "error"})
  /\ todos \in [done : Nat, total : Nat]
  /\ ticked \in Nat /\ log \in Nat /\ cleared \in BOOLEAN

PanelInv == Worked /\ Painted

\* The sizes the renderer works with: where more than one row is left for the roster, the
\* heading and all of that room are within the budget.
LEMMA Sizes ==
  ASSUME PanelInv
  PROVE  /\ Budget \in Nat /\ Budget >= 10
         /\ Trail \in Nat /\ Floor \in 0 .. 3
         /\ Review \in [done : Nat, total : {0, Checks}]
         /\ Available \in Nat /\ Available >= 1
         /\ Available = 1 \/ 1 + Available <= Budget - Floor
<1>1. Budget \in Nat /\ Budget >= 10
  BY DEF PanelInv, Worked, Painted, Budget, PiBudget, Most
<1>2. Trail \in Nat
  BY <1>1 DEF PanelInv, Worked, Painted, Trail, Least, Most
<1>3. Floor \in 0 .. 3
  BY <1>2 DEF Floor, Least
<1>4. Review \in [done : Nat, total : {0, Checks}]
  BY PanelAssumption DEF PanelInv, Worked, Painted, Review
<1>5. Wants(todos) \in Nat /\ Wants(Review) \in Nat
  <2>1. todos.done \in Nat /\ todos.total \in Nat
    BY DEF PanelInv, Worked, Painted
  <2>2. Review.done \in Nat /\ Review.total \in Nat
    BY <1>4, PanelAssumption
  <2> QED
    BY <2>1, <2>2 DEF Wants
<1>6. /\ Available \in Nat /\ Available >= 1
      /\ Available = 1 \/ 1 + Available <= Budget - Floor
  <2>1. PICK b \in Nat : b = Budget
    BY <1>1
  <2>2. PICK w \in Nat : w = Wants(todos)
    BY <1>5
  <2>3. PICK v \in Nat : v = Wants(Review)
    BY <1>5
  <2>4. PICK g \in Nat : g = Floor /\ g <= 3
    BY <1>3
  <2>5. Available = Most(1, b - 1 - w - v - g)
    BY <2>1, <2>2, <2>3, <2>4 DEF Available
  <2> QED
    BY <2>1, <2>4, <2>5 DEF Most
<1> QED
  BY <1>1, <1>2, <1>3, <1>4, <1>6

\* The roster is cut to leave a row for the count, where there is room for two.
LEMMA RosterFits ==
  ASSUME NEW n \in Nat, NEW room \in Nat, room >= 1
  PROVE  /\ Roster(n, room) \in 0 .. n
         /\ Roster(n, room) = n => n <= room
         /\ Roster(n, room) # n => /\ Roster(n, room) + 1 <= room \/ (room = 1 /\ Roster(n, room) = 1)
                                   /\ n > Roster(n, room)
  BY DEF Roster, Most

StatusIs(x, h, t, c, f, n) ==
  /\ x \in Seq(RowType) /\ Len(x) = h + t + c + Trail
  /\ f \in 0 .. n /\ h = 1 + f + (IF n > f THEN 1 ELSE 0) /\ h <= Budget - Floor
  /\ \A i \in 1 .. 1 : x[i].k = "head"
  /\ \A i \in 1 + 1 .. 1 + f : x[i].k = "agent"
  /\ \A i \in 1 + f + 1 .. h : x[i].k = "more" /\ x[i].n = n - f
  /\ \A i \in h + 1 .. h + t : x[i].k = "todo"
  /\ \A i \in h + t + 1 .. h + t + c : x[i].k = "check"
  /\ \A i \in h + t + c + 1 .. h + t + c + Trail : x[i].k = "trail"
  /\ t \in {0, 1} \/ (t = todos.total + 1 /\ t <= Budget - h - Floor)
  /\ c \in {0, 1} \/ (c = Checks + 1 /\ c <= Budget - h - Floor - t)

\* The rows of a run, from the first to the last.
LEMMA StatusShape ==
  ASSUME PanelInv
  PROVE  \E h \in Nat, t \in Nat, c \in Nat, f \in Nat : StatusIs(Status, h, t, c, f, Len(phases))
<1> DEFINE n == Len(phases)
           fit == Roster(n, Available)
           head == Rows("head", 1) \o Rows("agent", fit) \o More(n, fit)
           room == Budget - Len(head) - Floor
           first == Checklist("todo", todos, room)
           second == Checklist("check", Review, room - Len(first))
           last == Rows("trail", Trail)
           m == IF n > fit THEN 1 ELSE 0
<1>1. n \in Nat
  BY DEF PanelInv, Worked, Painted
<1>2. /\ Budget \in Nat /\ Budget >= 10
      /\ Trail \in Nat /\ Floor \in 0 .. 3
      /\ Review \in [done : Nat, total : {0, Checks}]
      /\ Available \in Nat /\ Available >= 1
      /\ Available = 1 \/ 1 + Available <= Budget - Floor
  BY Sizes
<1>3. /\ fit \in 0 .. n
      /\ fit = n => n <= Available
      /\ fit # n => (fit + 1 <= Available \/ (Available = 1 /\ fit = 1)) /\ n > fit
  <2> HIDE DEF n
  <2> QED
    BY <1>1, <1>2, RosterFits
<1>4. m \in {0, 1}
  OBVIOUS
<1>5. HeadIs(head, 1, fit, n, m)
  <2>1. \A k \in Nat : \A f \in 0 .. k :
          HeadIs(Rows("head", 1) \o Rows("agent", f) \o More(k, f), 1, f, k, IF k > f THEN 1 ELSE 0)
    BY HeadShape
  <2> HIDE DEF n, fit
  <2> QED
    BY <1>1, <1>3, <2>1
<1>6. 1 + fit + m <= Budget - Floor /\ room \in Nat
  <2>1. 1 + fit + m <= Budget - Floor
    <3> HIDE DEF n, fit
    <3>1. PICK a \in Nat : a = Available /\ a >= 1 /\ (a = 1 \/ 1 + a <= Budget - Floor)
      BY <1>2
    <3> QED
      BY <1>1, <1>2, <1>3, <3>1
  <2> HIDE DEF n, fit, head, m
  <2> QED
    BY <1>1, <1>2, <1>3, <1>4, <1>5, <2>1 DEF HeadIs
<1>7. /\ first \in Seq(RowType)
      /\ Len(first) \in {0, 1} \/ (Len(first) = todos.total + 1 /\ todos.total + 1 <= room)
      /\ \A i \in 1 .. Len(first) : first[i].k = "todo"
  <2>1. PICK d \in Nat, k \in Nat : todos = [done |-> d, total |-> k]
    BY DEF PanelInv, Worked, Painted
  <2>2. todos.total = k
    BY <2>1
  <2>3. "todo" \in RowKinds
    BY DEF RowKinds
  <2> HIDE DEF room
  <2>4. room \in Int
    BY <1>6
  <2> QED
    BY <2>1, <2>2, <2>3, <2>4, ChecklistShape
<1>8. /\ second \in Seq(RowType)
      /\ Len(second) \in {0, 1} \/ (Len(second) = Checks + 1 /\ Checks + 1 <= room - Len(first))
      /\ \A i \in 1 .. Len(second) : second[i].k = "check"
  <2>1. PICK d \in Nat, k \in {0, Checks} : Review = [done |-> d, total |-> k]
    BY <1>2
  <2>3. "check" \in RowKinds /\ k \in Nat
    BY PanelAssumption DEF RowKinds
  <2> HIDE DEF room, first
  <2>4. room - Len(first) \in Int
    BY <1>6, <1>7
  <2>5. /\ second \in Seq(RowType)
        /\ Len(second) \in {0, 1} \/ (Len(second) = k + 1 /\ k + 1 <= room - Len(first))
        /\ \A i \in 1 .. Len(second) : second[i].k = "check"
    BY <2>1, <2>3, <2>4, ChecklistShape
  <2> HIDE DEF second
  <2>6. Len(second) \in {0, 1} \/ (Len(second) = Checks + 1 /\ Checks + 1 <= room - Len(first))
    <3>1. CASE k = 0
      BY <2>5, <3>1
    <3>2. CASE k = Checks
      BY <2>5, <3>2
    <3> QED
      BY <3>1, <3>2
  <2> QED
    BY <2>5, <2>6
<1>9. last \in Seq(RowType) /\ Len(last) = Trail /\ \A i \in 1 .. Trail : last[i].k = "trail"
  <2>1. "trail" \in RowKinds
    BY DEF RowKinds
  <2> QED
    BY <1>2, <2>1, RowsShape
<1>10. Status = head \o first \o second \o last
  BY DEF Status
<1> HIDE DEF n, fit, head, room, first, second, last, m
<1> DEFINE x == head \o first \o second \o last
<1>11. StatusIs(x, Len(head), Len(first), Len(second), fit, n)
  <2>1. PICK h \in Nat : h = Len(head)
    BY <1>5 DEF HeadIs
  <2>2. PICK t \in Nat : t = Len(first)
    BY <1>7
  <2>3. PICK c \in Nat : c = Len(second)
    BY <1>8
  <2>4. PICK r \in Nat : r = Trail
    BY <1>2
  <2> DEFINE y == head \o first
             z == y \o second
  <2>5. /\ y \in Seq(RowType) /\ Len(y) = h + t
        /\ \A i \in 1 .. h : y[i] = head[i]
        /\ \A i \in h + 1 .. h + t : y[i] = first[i - h]
    <3>1. JoinsUp(head, first)
      BY <1>5, <1>7, Joins DEF HeadIs
    <3> QED
      BY <3>1, <2>1, <2>2 DEF JoinsUp
  <2> HIDE DEF y
  <2>6. /\ z \in Seq(RowType) /\ Len(z) = h + t + c
        /\ \A i \in 1 .. h + t : z[i] = y[i]
        /\ \A i \in h + t + 1 .. h + t + c : z[i] = second[i - (h + t)]
    <3>1. JoinsUp(y, second)
      BY <1>8, <2>5, Joins
    <3> QED
      BY <3>1, <2>3, <2>5 DEF JoinsUp
  <2> HIDE DEF z
  <2>7. x = z \o last
    BY DEF y, z
  <2>8. /\ x \in Seq(RowType) /\ Len(x) = h + t + c + r
        /\ \A i \in 1 .. h + t + c : x[i] = z[i]
        /\ \A i \in h + t + c + 1 .. h + t + c + r : x[i] = last[i - (h + t + c)]
    <3>1. JoinsUp(z, last)
      BY <1>9, <2>6, Joins
    <3> HIDE DEF x
    <3> QED
      BY <3>1, <1>9, <2>4, <2>6, <2>7 DEF JoinsUp
  <2> HIDE DEF x
  <2>9. h = 1 + fit + m /\ m = (IF n > fit THEN 1 ELSE 0) /\ fit \in Nat
    BY <1>1, <1>3, <1>4, <1>5, <2>1 DEF HeadIs, m
  <2>10. \A i \in 1 .. h : x[i] = head[i]
    BY <2>5, <2>6, <2>8
  <2>11. \A i \in h + 1 .. h + t : i - h \in 1 .. t /\ x[i] = first[i - h]
    BY <2>5, <2>6, <2>8
  <2>12. \A i \in h + t + 1 .. h + t + c : i - (h + t) \in 1 .. c /\ x[i] = second[i - (h + t)]
    <3>1. \A i \in h + t + 1 .. h + t + c : i - (h + t) \in 1 .. c /\ i \in 1 .. h + t + c
      OBVIOUS
    <3>2. \A i \in h + t + 1 .. h + t + c : z[i] = second[i - (h + t)]
      BY <2>6
    <3>3. \A i \in 1 .. h + t + c : x[i] = z[i]
      BY <2>8
    <3> HIDE DEF second
    <3> QED
      BY <3>1, <3>2, <3>3, Zenon
  <2>13. \A i \in h + t + c + 1 .. h + t + c + r : i - (h + t + c) \in 1 .. r /\ x[i] = last[i - (h + t + c)]
    BY <2>8
  <2>14. /\ \A i \in 1 .. 1 : x[i].k = "head"
         /\ \A i \in 1 + 1 .. 1 + fit : x[i].k = "agent"
         /\ \A i \in 1 + fit + 1 .. h : x[i].k = "more" /\ x[i].n = n - fit
    <3>1. 1 .. 1 \subseteq 1 .. h /\ 1 + 1 .. 1 + fit \subseteq 1 .. h /\ 1 + fit + 1 .. h \subseteq 1 .. h
      BY <1>4, <2>9
    <3> QED
      BY <1>5, <2>9, <2>10, <3>1 DEF HeadIs
  <2>15. \A i \in h + 1 .. h + t : x[i].k = "todo"
    BY <1>7, <2>2, <2>11
  <2>16. \A i \in h + t + 1 .. h + t + c : x[i].k = "check"
    BY <1>8, <2>3, <2>12
  <2>17. \A i \in h + t + c + 1 .. h + t + c + r : x[i].k = "trail"
    BY <1>9, <2>4, <2>13
  <2>18. room = Budget - h - Floor
    BY <2>1 DEF room
  <2>19. t \in {0, 1} \/ (t = todos.total + 1 /\ t <= Budget - h - Floor)
    BY <1>7, <2>2, <2>18
  <2>20. c \in {0, 1} \/ (c = Checks + 1 /\ c <= Budget - h - Floor - t)
    BY <1>8, <2>2, <2>3, <2>18
  <2>21. h <= Budget - Floor /\ h = 1 + fit + (IF n > fit THEN 1 ELSE 0)
    BY <1>6, <2>9
  <2>22. StatusIs(x, h, t, c, fit, n)
    BY <1>3, <2>4, <2>8, <2>14, <2>15, <2>16, <2>17, <2>19, <2>20, <2>21 DEF StatusIs
  <2> QED
    BY <2>1, <2>2, <2>3, <2>22
<1>12. Len(head) \in Nat /\ Len(first) \in Nat /\ Len(second) \in Nat /\ fit \in Nat
  BY <1>1, <1>3, <1>5, <1>7, <1>8 DEF HeadIs
<1>13. StatusIs(Status, Len(head), Len(first), Len(second), fit, Len(phases))
  BY <1>10, <1>11 DEF n
<1> HIDE DEF x
<1> QED
  BY <1>12, <1>13

\* What is cut off is at the end.
LEMMA Cut ==
  ASSUME NEW s \in Seq(RowType), NEW b \in Nat
  PROVE  /\ Least(Len(s), b) \in Nat
         /\ DOMAIN SubSeq(s, 1, Least(Len(s), b)) = 1 .. Least(Len(s), b)
         /\ \A i \in 1 .. Least(Len(s), b) : SubSeq(s, 1, Least(Len(s), b))[i] = s[i]
<1>1. PICK l \in Nat : l = Least(Len(s), b) /\ l <= Len(s)
  BY DEF Least
<1>2. Len(SubSeq(s, 1, l)) = l /\ SubSeq(s, 1, l) \in Seq(RowType)
  BY <1>1
<1>3. \A i \in 1 .. l : SubSeq(s, 1, l)[i] = s[i]
  BY <1>1
<1> QED
  BY <1>1, <1>2, <1>3

\* The agents shown and the count of the others are all agents.
LEMMA AllAccounted ==
  ASSUME NEW h \in Nat, NEW f \in Nat, NEW n \in Nat, NEW m, m = (IF n > f THEN 1 ELSE 0), f <= n,
         Of("agent") = h + 1 .. h + f, Of("more") = h + f + 1 .. h + f + m,
         \A i \in Of("more") : Frame[i].n = n - f
  PROVE  Cardinality(Of("agent"))
           + (IF Of("more") = {} THEN 0 ELSE Frame[CHOOSE i \in Of("more") : TRUE].n) = n
<1>1. Cardinality(Of("agent")) = f
  <2>1. Cardinality(h + 1 .. h + f) = IF h + 1 > h + f THEN 0 ELSE (h + f) - (h + 1) + 1
    BY FS_Interval
  <2> QED
    BY <2>1
<1>2. CASE n > f
  <2>1. h + f + 1 \in Of("more")
    BY <1>2
  <2>2. (CHOOSE i \in Of("more") : TRUE) \in Of("more")
    BY <2>1
  <2>3. Frame[CHOOSE i \in Of("more") : TRUE].n = n - f
    BY <2>2
  <2> QED
    BY <1>1, <2>1, <2>3
<1>3. CASE ~(n > f)
  <2>1. Of("more") = {}
    BY <1>3
  <2> QED
    BY <1>1, <1>3, <2>1
<1> QED
  BY <1>2, <1>3

\* The length of an interval.
LEMMA Counted ==
  ASSUME NEW a \in Nat, NEW b \in Nat
  PROVE  Cardinality(a + 1 .. b) = IF b > a THEN b - a ELSE 0
<1>1. Cardinality(a + 1 .. b) = IF a + 1 > b THEN 0 ELSE b - (a + 1) + 1
  BY FS_Interval
<1> QED
  BY <1>1

\* Before a run no agent is left out.
LEMMA IdleAccounted ==
  ASSUME PanelInv, ~full, phases = <<>>
  PROVE  NothingHidden
<1> DEFINE n == Len(Agents)
           fit == Roster(n, Budget - 3)
           m == IF n > fit THEN 1 ELSE 0
<1>1. n \in Nat /\ Budget \in Nat /\ Budget >= 10
  BY Sizes, PanelAssumption
<1>2. /\ fit \in 0 .. n
      /\ fit = n => n <= Budget - 3
      /\ fit # n => (fit + 1 <= Budget - 3 \/ (Budget - 3 = 1 /\ fit = 1)) /\ n > fit
  <2> HIDE DEF n
  <2>1. Budget - 3 \in Nat /\ Budget - 3 >= 1
    BY <1>1
  <2> QED
    BY <1>1, <2>1, RosterFits
<1>3. HeadIs(Idle, 3, fit, n, m)
  <2>1. \A k \in Nat : \A f \in 0 .. k :
          HeadIs(Rows("head", 3) \o Rows("agent", f) \o More(k, f), 3, f, k, IF k > f THEN 1 ELSE 0)
    BY HeadShape
  <2>2. Idle = Rows("head", 3) \o Rows("agent", fit) \o More(n, fit)
    BY DEF Idle
  <2> HIDE DEF n, fit
  <2> QED
    BY <1>1, <1>2, <2>1, <2>2
<1> HIDE DEF n, fit
<1>4. PICK b \in Nat, f \in Nat : b = Budget /\ f = fit
  BY <1>1, <1>2
<1>5. Len(Idle) = 3 + f + m /\ 3 + f + m <= b /\ m \in {0, 1} /\ Idle \in Seq(RowType)
  BY <1>1, <1>2, <1>3, <1>4 DEF HeadIs
<1>6. DOMAIN Frame = 1 .. 3 + f + m /\ \A i \in 1 .. 3 + f + m : Frame[i] = Idle[i]
  <2>1. Frame = SubSeq(Idle, 1, Least(Len(Idle), b))
    BY <1>4 DEF Frame, Compact
  <2>2. Least(Len(Idle), b) = 3 + f + m
    BY <1>4, <1>5 DEF Least
  <2> QED
    BY <1>5, <2>1, <2>2, Cut
<1> HIDE DEF m
<1>7. \A i \in 1 .. 3 + f + m : \/ i \in 1 .. 3 /\ Frame[i].k = "head"
                                \/ i \in 3 + 1 .. 3 + f /\ Frame[i].k = "agent"
                                \/ i \in 3 + f + 1 .. 3 + f + m /\ Frame[i].k = "more" /\ Frame[i].n = n - f
  BY <1>3, <1>4, <1>5, <1>6 DEF HeadIs
<1>8. Of("agent") = 3 + 1 .. 3 + f /\ Of("more") = 3 + f + 1 .. 3 + f + m
  <2>1. 3 + 1 .. 3 + f \subseteq 1 .. 3 + f + m /\ 3 + f + 1 .. 3 + f + m \subseteq 1 .. 3 + f + m
    BY <1>5
  <2>2. /\ \A i \in 3 + 1 .. 3 + f : i \notin 1 .. 3 /\ i \notin 3 + f + 1 .. 3 + f + m
        /\ \A i \in 3 + f + 1 .. 3 + f + m : i \notin 1 .. 3 /\ i \notin 3 + 1 .. 3 + f
    OBVIOUS
  <2> QED
    BY <1>6, <1>7, <2>1, <2>2 DEF Of
<1>9. \A i \in Of("more") : Frame[i].n = n - f
  BY <1>6, <1>7 DEF Of
<1>10. Of("todo") = {} /\ Of("check") = {}
  BY <1>6, <1>7 DEF Of
<1>11. m = (IF n > f THEN 1 ELSE 0) /\ f <= n
  BY <1>1, <1>2, <1>4 DEF m
<1>12. Cardinality(Of("agent"))
         + (IF Of("more") = {} THEN 0 ELSE Frame[CHOOSE i \in Of("more") : TRUE].n) = n
  BY <1>1, <1>8, <1>9, <1>11, AllAccounted
<1>13. Cardinality(Of("todo")) = 0 /\ Cardinality(Of("check")) = 0
  BY <1>10, FS_EmptySet
<1> QED
  BY <1>12, <1>13 DEF NothingHidden, n

\* During a run no agent and no item is left out silently.
LEMMA StatusAccounted ==
  ASSUME PanelInv, ~full, phases # <<>>
  PROVE  NothingHidden
<1>1. PICK h \in Nat, t \in Nat, c \in Nat, f \in Nat : StatusIs(Status, h, t, c, f, Len(phases))
  BY StatusShape
<1>2. PICK n \in Nat : n = Len(phases)
  BY DEF PanelInv, Worked, Painted
<1>3. PICK b \in Nat, g \in Nat, r \in Nat : b = Budget /\ g = Floor /\ r = Trail /\ g <= b
  BY Sizes
<1>4. PICK m \in {0, 1} : m = (IF n > f THEN 1 ELSE 0)
  OBVIOUS
<1>5. StatusIs(Status, h, t, c, f, n)
  BY <1>1, <1>2
<1>6. /\ Status \in Seq(RowType) /\ Len(Status) = h + t + c + r
      /\ f <= n /\ h = 1 + f + m /\ h <= b - g
  BY <1>3, <1>4, <1>5 DEF StatusIs
<1>7. PICK l \in Nat : l = Least(Len(Status), b)
  BY <1>6 DEF Least
<1>8. h <= l /\ l <= h + t + c + r
  BY <1>3, <1>6, <1>7 DEF Least
<1>9. DOMAIN Frame = 1 .. l /\ \A i \in 1 .. l : Frame[i] = Status[i]
  <2>1. Frame = SubSeq(Status, 1, Least(Len(Status), b))
    BY <1>3 DEF Frame, Compact
  <2> QED
    BY <1>6, <1>7, <2>1, Cut
<1>10. \A i \in 1 .. l : \/ i \in 1 .. 1 /\ Frame[i].k = "head"
                         \/ i \in 1 + 1 .. 1 + f /\ Frame[i].k = "agent"
                         \/ i \in 1 + f + 1 .. 1 + f + m /\ Frame[i].k = "more" /\ Frame[i].n = n - f
                         \/ i \in h + 1 .. h + t /\ Frame[i].k = "todo"
                         \/ i \in h + t + 1 .. h + t + c /\ Frame[i].k = "check"
                         \/ i \in h + t + c + 1 .. h + t + c + r /\ Frame[i].k = "trail"
  <2>1. \A i \in 1 .. l : \/ i \in 1 .. 1
                          \/ i \in 1 + 1 .. 1 + f
                          \/ i \in 1 + f + 1 .. h
                          \/ i \in h + 1 .. h + t
                          \/ i \in h + t + 1 .. h + t + c
                          \/ i \in h + t + c + 1 .. h + t + c + r
    BY <1>6, <1>8
  <2> QED
    BY <1>3, <1>5, <1>6, <1>9, <2>1 DEF StatusIs
<1>11. PICK p \in Nat : p = Least(h + t, l)
  BY DEF Least
<1>12. PICK q \in Nat : q = Least(h + t + c, l)
  BY DEF Least
<1>13. /\ Of("agent") = 1 + 1 .. 1 + f /\ Of("more") = 1 + f + 1 .. 1 + f + m
       /\ Of("todo") = h + 1 .. p /\ Of("check") = h + t + 1 .. q
  <2>1. ASSUME NEW i \in 1 .. l
        PROVE  /\ i \in Of("agent") <=> i \in 1 + 1 .. 1 + f
               /\ i \in Of("more") <=> i \in 1 + f + 1 .. 1 + f + m
               /\ i \in Of("todo") <=> i \in h + 1 .. p
               /\ i \in Of("check") <=> i \in h + t + 1 .. q
    <3> DEFINE Sorted == /\ i \in Of("agent") <=> i \in 1 + 1 .. 1 + f
                         /\ i \in Of("more") <=> i \in 1 + f + 1 .. 1 + f + m
                         /\ i \in Of("todo") <=> i \in h + 1 .. p
                         /\ i \in Of("check") <=> i \in h + t + 1 .. q
    <3> SUFFICES Sorted
      OBVIOUS
    <3>1. \A k : i \in Of(k) <=> Frame[i].k = k
      BY <1>9 DEF Of
    <3>2. CASE i \in 1 .. 1 /\ Frame[i].k = "head"
      BY <1>6, <3>1, <3>2
    <3>3. CASE i \in 1 + 1 .. 1 + f /\ Frame[i].k = "agent"
      BY <1>6, <3>1, <3>3
    <3>4. CASE i \in 1 + f + 1 .. 1 + f + m /\ Frame[i].k = "more"
      BY <1>6, <3>1, <3>4
    <3>5. CASE i \in h + 1 .. h + t /\ Frame[i].k = "todo"
      BY <1>6, <1>11, <3>1, <3>5 DEF Least
    <3>6. CASE i \in h + t + 1 .. h + t + c /\ Frame[i].k = "check"
      BY <1>6, <1>11, <1>12, <3>1, <3>6 DEF Least
    <3>7. CASE i \in h + t + c + 1 .. h + t + c + r /\ Frame[i].k = "trail"
      BY <1>6, <1>11, <1>12, <3>1, <3>7 DEF Least
    <3> HIDE DEF Sorted
    <3> QED
      BY <1>10, <3>2, <3>3, <3>4, <3>5, <3>6, <3>7
  <2>2. /\ 1 + 1 .. 1 + f \subseteq 1 .. l /\ 1 + f + 1 .. 1 + f + m \subseteq 1 .. l
        /\ h + 1 .. p \subseteq 1 .. l /\ h + t + 1 .. q \subseteq 1 .. l
    BY <1>6, <1>8, <1>11, <1>12 DEF Least
  <2>3. \A k : Of(k) \subseteq 1 .. l
    BY <1>9 DEF Of
  <2> HIDE DEF Of
  <2> QED
    BY <2>1, <2>2, <2>3
<1>14. \A i \in Of("more") : Frame[i].n = n - f
  BY <1>9, <1>10 DEF Of
<1>15. Cardinality(Of("agent"))
         + (IF Of("more") = {} THEN 0 ELSE Frame[CHOOSE i \in Of("more") : TRUE].n) = n
  <2>1. 1 \in Nat
    OBVIOUS
  <2> QED
    BY <1>4, <1>6, <1>13, <1>14, <2>1, AllAccounted
<1>16. Cardinality(Of("todo")) \in {0, 1, 1 + todos.total}
  <2>1. Cardinality(Of("todo")) = IF p > h THEN p - h ELSE 0
    BY <1>13, Counted
  <2>2. t \in {0, 1} \/ (t = todos.total + 1 /\ t <= b - h - g)
    BY <1>3, <1>5 DEF StatusIs
  <2>3. CASE t \in {0, 1}
    BY <1>8, <1>11, <2>1, <2>3 DEF Least
  <2>4. CASE t = todos.total + 1 /\ t <= b - h - g
    <3>1. todos.total \in Nat
      BY DEF PanelInv, Worked, Painted
    <3>2. p = h + t
      BY <1>3, <1>6, <1>7, <1>11, <2>4 DEF Least
    <3> QED
      BY <2>1, <2>4, <3>1, <3>2
  <2> QED
    BY <2>2, <2>3, <2>4
<1>17. Cardinality(Of("check")) \in {0, 1, 1 + Checks}
  <2>1. Cardinality(Of("check")) = IF q > h + t THEN q - (h + t) ELSE 0
    <3>1. h + t \in Nat
      OBVIOUS
    <3>2. Cardinality(h + t + 1 .. q) = IF q > h + t THEN q - (h + t) ELSE 0
      BY <3>1, Counted
    <3> QED
      BY <1>13, <3>2
  <2>2. c \in {0, 1} \/ (c = Checks + 1 /\ c <= b - h - g - t)
    BY <1>3, <1>5 DEF StatusIs
  <2>3. CASE c \in {0, 1}
    BY <1>8, <1>12, <2>1, <2>3 DEF Least
  <2>4. CASE c = Checks + 1 /\ c <= b - h - g - t
    <3>1. Checks \in Nat
      BY PanelAssumption
    <3>2. q = h + t + c
      BY <1>3, <1>6, <1>7, <1>12, <2>4 DEF Least
    <3> QED
      BY <2>1, <2>4, <3>1, <3>2
  <2> QED
    BY <2>2, <2>3, <2>4
<1> QED
  BY <1>2, <1>15, <1>16, <1>17 DEF NothingHidden

\* An update that does not cover the widget paints it, or has a paint due.
LEMMA TouchPaints ==
  ASSUME PanelInv, Touch, Worked', cleared' => cleared
  PROVE  Painted'
<1>1. CASE cleared'
  BY <1>1 DEF Touch, PanelInv, Painted, Worked
<1>2. CASE ~cleared' /\ gap
  <2>1. Scan /\ screen' = TRUE /\ fresh' = TRUE /\ gap' = FALSE /\ timer' = FALSE
    BY <1>2 DEF Touch
  <2>2. marks' \in Nat
    BY <2>1 DEF Scan, Most, PanelInv, Worked, Painted
  <2> QED
    BY <1>2, <2>1, <2>2 DEF Painted
<1>3. CASE ~cleared' /\ ~gap
  BY <1>3 DEF Touch, PanelInv, Painted, Worked
<1> QED
  BY <1>1, <1>2, <1>3 DEF Worked

\* One step of any kind keeps the invariant.
LEMMA PanelStep ==
  ASSUME PanelInv, [PanelNext]_panelVars
  PROVE  PanelInv'
<1> USE PanelAssumption
<1>1. CASE Due
  <2>1. Worked'
    BY <1>1 DEF Due, PanelInv, Worked, shown, work
  <2>2. marks' \in Nat
    BY <1>1 DEF Due, Scan, Most, PanelInv, Worked, Painted
  <2>3. ~cleared
    BY <1>1 DEF Due, PanelInv, Painted
  <2> QED
    BY <1>1, <2>1, <2>2, <2>3 DEF Due, PanelInv, Painted
<1>2. CASE Passes
  BY <1>2 DEF Passes, PanelInv, Worked, Painted, shown, work
<1>3. CASE ClearPanel
  BY <1>3 DEF ClearPanel, PanelInv, Worked, Painted, shown, work
<1>4. CASE StartRun
  <2>1. phases' \in Seq({"pending", "running", "done", "error"})
    BY <1>4 DEF StartRun
  <2>2. Worked'
    BY <1>4, <2>1 DEF StartRun, PanelInv, Worked, shown
  <2> QED
    BY <1>4, <2>2, TouchPaints DEF StartRun, PanelInv
<1>5. CASE EndRun
  <2>1. Worked'
    BY <1>5 DEF EndRun, PanelInv, Worked, shown
  <2> QED
    BY <1>5, <2>1, TouchPaints DEF EndRun, PanelInv
<1>6. ASSUME NEW n \in DOMAIN Agents, NEW ofReviewer \in BOOLEAN, Dispatch(n, ofReviewer)
      PROVE  PanelInv'
  <2>1. phases' \in Seq({"pending", "running", "done", "error"})
    <3>1. n \in Nat
      OBVIOUS
    <3> QED
      BY <1>6, <3>1 DEF Dispatch
  <2>2. Worked'
    BY <1>6, <2>1 DEF Dispatch, PanelInv, Worked, shown
  <2> QED
    BY <1>6, <2>2, TouchPaints DEF Dispatch, PanelInv
<1>7. ASSUME NEW i \in DOMAIN Agents, NEW how \in {"running", "done", "error"}, Phase(i, how)
      PROVE  PanelInv'
  <2>1. phases' \in Seq({"pending", "running", "done", "error"})
    BY <1>7 DEF Phase, PanelInv, Worked
  <2>2. Worked'
    BY <1>7, <2>1 DEF Phase, PanelInv, Worked, shown
  <2> QED
    BY <1>7, <2>2, TouchPaints DEF Phase, PanelInv
<1>8. ASSUME NEW n \in {1, MaxLog}, NEW marked \in BOOLEAN, Streams(n, marked)
      PROVE  PanelInv'
  <2>1. ticked' \in Nat /\ log' \in Nat
    BY <1>8 DEF Streams, Least, PanelInv, Worked
  <2>2. Worked'
    BY <1>8, <2>1 DEF Streams, PanelInv, Worked, shown
  <2> QED
    BY <1>8, <2>2, TouchPaints DEF Streams, PanelInv
<1>9. ASSUME NEW d \in 0 .. MaxTodos, Ledger([done |-> d, total |-> MaxTodos])
      PROVE  PanelInv'
  BY <1>9 DEF Ledger, PanelInv, Worked, Painted, shown, paint
<1>10. ASSUME NEW r \in Heights, Resize(r)
       PROVE  PanelInv'
  BY <1>10 DEF Resize, PanelInv, Worked, Painted, work, paint
<1>11. CASE UNCHANGED panelVars
  BY <1>11 DEF panelVars, shown, work, paint, PanelInv, Worked, Painted
<1> QED
  BY <1>1, <1>2, <1>3, <1>4, <1>5, <1>6, <1>7, <1>8, <1>9, <1>10, <1>11 DEF PanelNext

(***************************************************************************)
(* For any team, plan, review, log and terminal, however dense the events: *)
(* the status lines account for every agent and cut no checklist short, a  *)
(* cleared widget stays away, and the last state is painted or due to be.  *)
(***************************************************************************)
THEOREM PanelTellsAll == PanelSpec => []PanelHolds
<1>1. PanelInit => PanelInv
  <2> SUFFICES ASSUME PanelInit PROVE PanelInv
    OBVIOUS
  <2>1. phases \in Seq({"pending", "running", "done", "error"})
    BY DEF PanelInit
  <2>2. todos \in [done : Nat, total : Nat]
    BY PanelAssumption DEF PanelInit
  <2>3. rows \in Nat
    BY PanelAssumption DEF PanelInit
  <2> QED
    BY <2>1, <2>2, <2>3 DEF PanelInit, PanelInv, Worked, Painted
<1>2. PanelInv /\ [PanelNext]_panelVars => PanelInv'
  BY PanelStep
<1>3. PanelInv => PanelHolds
  <2> SUFFICES ASSUME PanelInv PROVE PanelHolds
    OBVIOUS
  <2>2. NothingHidden
    <3>1. CASE full
      BY <3>1 DEF NothingHidden
    <3> QED
      BY <3>1, IdleAccounted, StatusAccounted
  <2>3. ClearedStaysGone /\ LastStatePaints
    BY DEF PanelInv, Painted, ClearedStaysGone, LastStatePaints
  <2> QED
    BY <2>2, <2>3 DEF PanelHolds
<1> QED
  BY <1>1, <1>2, <1>3, PTL DEF PanelSpec
=============================================================================
