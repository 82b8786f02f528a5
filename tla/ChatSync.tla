------------------------------ MODULE ChatSync ------------------------------
(***************************************************************************)
(* Conversations of the dashboard (obs/ui/src/chat/ChatView.tsx) and the   *)
(* copies of them: each browser's (store.ts: memory and localStorage,      *)
(* written together) and the server's one file (obs-server.ts), which a    *)
(* debounced PUT overwrites and a page that opens merges into its own.     *)
(* A message is the time it was written with the turn it answers, 0 for a  *)
(* user's.                                                                 *)
(***************************************************************************)
EXTENDS Integers, FiniteSetsExt, SequencesExt

CONSTANTS Browsers, Chats, \* browsers; identifiers of chats
          MaxTime,         \* bound: messages and turns
          MaxLoads,        \* bound: times pages are opened
          MaxPuts          \* bound: PUTs of one browser on their way

ASSUME ChatAssumption == MaxTime \in Nat /\ MaxLoads \in Nat /\ MaxPuts \in Nat

VARIABLES
  clock,    \* the last time stamp given
  loads,    \* pages opened
  page,     \* a browser's page: "closed"; "loading", its GET not answered; "open"
  local,    \* a browser's chats: a set of messages each; NoChat
  pending,  \* the batch awaiting the debounced PUT, or <<>>
  puts,     \* a browser's PUTs on their way
  answer,   \* the server's answer to the GET, or <<>>
  streams,  \* a browser's turns under way [chat, turn]
  stored,   \* chats.json
  authors,  \* who wrote to a chat
  wrote,    \* what a browser wrote to a chat and did not drop itself
  clean     \* of a page: its GET was answered with no write of its own on its way, and no PUT
            \* failed or was overtaken since

chatVars == <<clock, loads, page, local, pending, puts, answer, streams, stored,
              authors, wrote, clean>>

NoChat == {[ts |-> 0, turn |-> -1]}
NoChats == [c \in Chats |-> NoChat]
Held(copy) == {c \in Chats : copy[c] # NoChat}

\* newestTs; a chat is as old as its first message.
Newest(msgs) == Max({0} \cup {m.ts : m \in msgs})

-----------------------------------------------------------------------------
ChatInit ==
  /\ clock = 0 /\ loads = 0 /\ stored = NoChats
  /\ page = [b \in Browsers |-> "closed"] /\ local = [b \in Browsers |-> NoChats]
  /\ pending = [b \in Browsers |-> <<>>] /\ puts = [b \in Browsers |-> <<>>]
  /\ answer = [b \in Browsers |-> <<>>] /\ streams = [b \in Browsers |-> {}]
  /\ authors = [c \in Chats |-> {}] /\ wrote = [b \in Browsers |-> [c \in Chats |-> {}]]
  /\ clean = [b \in Browsers |-> FALSE]

Tick == clock < MaxTime /\ clock' = clock + 1

\* saveChats: localStorage, and the timer of the PUT set again.
Save(b, chats) ==
  /\ local' = [local EXCEPT ![b] = chats] /\ pending' = [pending EXCEPT ![b] = <<chats>>]

\* One chat of a page is written: its messages, and what of its own the browser keeps.
Write(b, c, msgs, own) ==
  /\ Save(b, [local[b] EXCEPT ![c] = msgs])
  /\ authors' = [authors EXCEPT ![c] = @ \cup {b}] /\ wrote' = [wrote EXCEPT ![b][c] = own]
  /\ UNCHANGED <<loads, page, puts, answer, stored, clean>>

Up(b) == page[b] # "closed"
Answering(b, c) == \E s \in streams[b] : s.chat = c

Begin(b, c, n) == streams' = [streams EXCEPT ![b] = @ \cup {[chat |-> c, turn |-> n]}]

\* send, in a chat or in a new one: the user's message, and a turn.
Send(b, c) ==
  LET msgs == IF local[b][c] = NoChat THEN {} ELSE local[b][c]
      m == [ts |-> clock + 1, turn |-> 0]
  IN /\ Up(b) /\ ~Answering(b, c) /\ Tick
     /\ local[b][c] = NoChat => authors[c] = {}
     /\ Write(b, c, msgs \cup {m}, wrote[b][c] \cup {m}) /\ Begin(b, c, clock + 1)

\* regenerate: what follows the last of the user's messages is dropped, and a turn.
Regenerate(b, c) ==
  LET asked == {m \in local[b][c] : m.turn = 0}
      kept == {m \in local[b][c] : m.ts <= Newest(asked)}
  IN /\ Up(b) /\ ~Answering(b, c) /\ asked # {} /\ Tick
     /\ Write(b, c, kept, wrote[b][c] \cap kept) /\ Begin(b, c, clock + 1)

\* Mutant: a stream that breaks is committed as an error and once more as stopped.
ReplyTwice(b, s, how) ==
  LET m == {[ts |-> clock + i, turn |-> s.turn] : i \in IF how = "dropped" THEN {0, 1} ELSE {1}}
  IN /\ Up(b) /\ s \in streams[b] /\ Tick
     /\ streams' = [streams EXCEPT ![b] = @ \ {s}]
     /\ IF local[b][s.chat] = NoChat
        THEN UNCHANGED <<local, pending, authors, wrote, loads, page, puts, answer, stored, clean>>
        ELSE Write(b, s.chat, local[b][s.chat] \cup m, wrote[b][s.chat] \cup m)

\* The terminal frame, an error, a stop: the turn is committed; to a chat deleted meanwhile,
\* nothing is.
Reply(b, s, how) ==
  LET m == [ts |-> clock + 1, turn |-> s.turn]
  IN /\ Up(b) /\ s \in streams[b] /\ Tick
     /\ streams' = [streams EXCEPT ![b] = @ \ {s}]
     /\ IF local[b][s.chat] = NoChat
        THEN UNCHANGED <<local, pending, authors, wrote, loads, page, puts, answer, stored, clean>>
        ELSE Write(b, s.chat, local[b][s.chat] \cup {m}, wrote[b][s.chat] \cup {m})

\* /clear, unless the chat streams; deleteChat, at any time.
ClearChat(b, c) ==
  /\ Up(b) /\ ~Answering(b, c) /\ local[b][c] \notin {NoChat, {}}
  /\ Write(b, c, {}, {}) /\ UNCHANGED <<clock, streams>>

Delete(b, c) ==
  /\ Up(b) /\ local[b][c] # NoChat
  /\ Write(b, c, NoChat, {}) /\ UNCHANGED <<clock, streams>>

-----------------------------------------------------------------------------
NothingWritten == UNCHANGED <<clock, authors, wrote>>

\* The page opens with localStorage, and asks for the server's chats.
Open(b) ==
  /\ page[b] = "closed" /\ loads < MaxLoads /\ loads' = loads + 1
  /\ page' = [page EXCEPT ![b] = "loading"] /\ clean' = [clean EXCEPT ![b] = FALSE]
  /\ NothingWritten /\ UNCHANGED <<local, pending, puts, answer, streams, stored>>

\* GET /api/chats.  Without a server the page goes on with its own.
Answered(b) ==
  /\ page[b] = "loading" /\ answer[b] = <<>> /\ answer' = [answer EXCEPT ![b] = <<stored>>]
  /\ clean' = [clean EXCEPT ![b] = TRUE]
  /\ NothingWritten /\ UNCHANGED <<loads, page, local, pending, puts, streams, stored>>

NotAnswered(b) ==
  /\ page[b] = "loading" /\ page' = [page EXCEPT ![b] = "open"]
  /\ answer' = [answer EXCEPT ![b] = <<>>] /\ clean' = [clean EXCEPT ![b] = FALSE]
  /\ NothingWritten /\ UNCHANGED <<loads, local, pending, puts, streams, stored>>

\* hydrateChats: of two copies the one with the later message; a tie is the server's.
Fresher(mine, theirs) == theirs = NoChat \/ Newest(mine) > Newest(theirs)

Adopted(b, got) ==
  LET keep == {c \in Held(local[b]) : Fresher(local[b][c], got[c])}
  IN [chats |-> [c \in Chats |-> IF c \in keep THEN local[b][c] ELSE got[c]],
      differs |-> keep # {}]

\* Mutants of Hydrate: the server's copies win; what differs is not pushed.
HydrateServers(b) ==
  /\ page[b] = "loading" /\ answer[b] # <<>>
  /\ page' = [page EXCEPT ![b] = "open"] /\ answer' = [answer EXCEPT ![b] = <<>>]
  /\ clean' = [clean EXCEPT ![b] = @ /\ puts[b] = <<>> /\ pending[b] = <<>>]
  /\ Save(b, [c \in Chats |-> IF Head(answer[b])[c] = NoChat THEN local[b][c] ELSE Head(answer[b])[c]])
  /\ UNCHANGED puts /\ NothingWritten /\ UNCHANGED <<loads, streams, stored>>

HydrateSilently(b) ==
  /\ page[b] = "loading" /\ answer[b] # <<>>
  /\ page' = [page EXCEPT ![b] = "open"] /\ answer' = [answer EXCEPT ![b] = <<>>]
  /\ clean' = [clean EXCEPT ![b] = @ /\ puts[b] = <<>> /\ pending[b] = <<>>]
  /\ local' = [local EXCEPT ![b] = Adopted(b, Head(answer[b])).chats]
  /\ UNCHANGED <<puts, pending>> /\ NothingWritten /\ UNCHANGED <<loads, streams, stored>>

\* The answer arrives.  An empty server is sent what there is, at once.
Hydrate(b) ==
  LET got == Head(answer[b])
      new == Adopted(b, got)
  IN /\ page[b] = "loading" /\ answer[b] # <<>>
     /\ page' = [page EXCEPT ![b] = "open"] /\ answer' = [answer EXCEPT ![b] = <<>>]
     /\ clean' = [clean EXCEPT ![b] = @ /\ puts[b] = <<>> /\ pending[b] = <<>>]
     /\ IF Held(got) # {}
        THEN /\ UNCHANGED puts
             /\ IF new.differs THEN Save(b, new.chats)
                ELSE local' = [local EXCEPT ![b] = new.chats] /\ UNCHANGED pending
        ELSE /\ puts' = [puts EXCEPT ![b] = IF Held(local[b]) = {} THEN @ ELSE Append(@, local[b])]
             /\ UNCHANGED <<local, pending>>
     /\ NothingWritten /\ UNCHANGED <<loads, streams, stored>>

\* The 800 ms have passed; or the page is hidden or closes, and with it its streams end.
Flushed(b) ==
  /\ pending[b] # <<>> => Len(puts[b]) < MaxPuts
  /\ puts' = [puts EXCEPT ![b] = @ \o pending[b]] /\ pending' = [pending EXCEPT ![b] = <<>>]

Flush(b) ==
  /\ Up(b) /\ pending[b] # <<>> /\ Flushed(b)
  /\ NothingWritten /\ UNCHANGED <<loads, page, local, answer, streams, stored, clean>>

ClosePage(b) ==
  /\ Up(b) /\ page' = [page EXCEPT ![b] = "closed"] /\ Flushed(b)
  /\ answer' = [answer EXCEPT ![b] = <<>>] /\ streams' = [streams EXCEPT ![b] = {}]
  /\ NothingWritten /\ UNCHANGED <<loads, local, stored, clean>>

\* The browser is killed: no pagehide.
KillPage(b) ==
  /\ Up(b) /\ page' = [page EXCEPT ![b] = "closed"] /\ pending' = [pending EXCEPT ![b] = <<>>]
  /\ answer' = [answer EXCEPT ![b] = <<>>] /\ streams' = [streams EXCEPT ![b] = {}]
  /\ NothingWritten /\ UNCHANGED <<loads, puts, local, stored, clean>>

\* PUT /api/chats overwrites the file; one may overtake another, or fail.
Put(b, i, arrives) ==
  /\ i \in DOMAIN puts[b] /\ puts' = [puts EXCEPT ![b] = RemoveAt(@, i)]
  /\ stored' = IF arrives THEN puts[b][i] ELSE stored
  /\ clean' = IF arrives
              THEN [d \in Browsers |-> clean[d] /\ d = b /\ i = 1 /\ page[d] = "open"]
              ELSE [clean EXCEPT ![b] = FALSE]
  /\ NothingWritten /\ UNCHANGED <<loads, page, local, pending, answer, streams>>

ChatNext ==
  \E b \in Browsers :
    \/ \E c \in Chats : Send(b, c) \/ Regenerate(b, c) \/ ClearChat(b, c) \/ Delete(b, c)
    \/ \E s \in streams[b], how \in {"ended", "dropped"} : Reply(b, s, how)
    \/ Open(b) \/ Answered(b) \/ NotAnswered(b) \/ Hydrate(b)
    \/ Flush(b) \/ ClosePage(b) \/ KillPage(b)
    \/ \E i \in DOMAIN puts[b], arrives \in BOOLEAN : Put(b, i, arrives)

ChatSpec == ChatInit /\ [][ChatNext]_chatVars

-----------------------------------------------------------------------------
(***************************************************************************)
(* What a browser alone wrote to a chat it still has, whatever the server  *)
(* was sent by others, late or out of order, and however pages ended       *)
(* (hydrateChats: a stale copy "must not wipe messages written locally").  *)
(***************************************************************************)
WordsKept ==
  \A b \in Browsers, c \in Chats :
    authors[c] = {b} => wrote[b][c] \subseteq local[b][c]

(***************************************************************************)
(* A turn, however its stream ended, is answered in its chat once.         *)
(***************************************************************************)
AnsweredOnce ==
  \A b \in Browsers, c \in Chats : \A m, n \in local[b][c] :
    m.turn = n.turn /\ m.turn > 0 => m = n

(***************************************************************************)
(* A page at rest, its chats merged with the server's before it wrote any, *)
(* and since then no PUT failed, overtaken or another browser's, shows no  *)
(* message that the server lacks.                                          *)
(***************************************************************************)
RestingInStep ==
  \A b \in Browsers :
    page[b] = "open" /\ clean[b] /\ pending[b] = <<>> /\ puts[b] = <<>>
      => \A c \in Chats : local[b][c] = NoChat \/ local[b][c] \subseteq stored[c]

(***************************************************************************)
(* No message is lost, doubled or kept from the server.                    *)
(***************************************************************************)
ChatsKept == WordsKept /\ AnsweredOnce /\ RestingInStep
=============================================================================
