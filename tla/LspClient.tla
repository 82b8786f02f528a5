----------------------------- MODULE LspClient -----------------------------
(***************************************************************************)
(* The lsp skill (skills/lsp/lsp.py).  A command starts a language server, *)
(* for each group of files that share one or for one file; it asks over    *)
(* pipes, a reader thread queues what the server writes, each wait has a   *)
(* deadline, and the server is shut down.  The server may answer late, in  *)
(* error or never, ask back, die at any point, or ignore SIGTERM.          *)
(***************************************************************************)
EXTENDS Integers, Sequences, SequencesExt

CONSTANTS Sources, Servers,   \* the files asked about; the installed servers
          Asks                \* bound: what a server asks of the client

ASSUME LspAssumption == Asks \in Nat /\ Servers \cap {"missing", "unserved"} = {}

VARIABLES
  job,       \* the command: its kind, each file's server or what stands against it, the
             \* servers to start yet, what was reported of each file, did it crash
  client,    \* in the talk with a server: the step, the last request id, the files opened,
             \* those diagnosed, and, counted here only, whose answer each step made use of
  server,    \* the process, the requests it has not answered, is it deaf to SIGTERM
  inbox      \* what it wrote, not dispatched yet

lspVars == <<job, client, server, inbox>>

Commands == {"diagnostics", "position", "action"}
LspRequests == {"initialize", "query", "codeAction", "resolve", "execute", "shutdown"}
Waits == LspRequests \cup {"collect"}

Off == [at |-> "off", of |-> "none", id |-> 0, opened |-> {}, known |-> {}, used |-> {}]
Down == [up |-> FALSE, deaf |-> FALSE, asked |-> <<>>, asks |-> 0]

FilesOf(s) == {f \in Sources : job.of[f] = s}

\* The step after an answer, and after an error: resolve and executeCommand may fail.
StepAfter(at) ==
  CASE at = "initialize" -> IF job.kind = "diagnostics" THEN "collect"
                            ELSE IF job.kind = "position" THEN "query" ELSE "codeAction"
    [] at = "codeAction" -> "resolve"
    [] at = "resolve" -> "execute"
    [] at = "shutdown" -> "kill"
    [] OTHER -> "shutdown"

StepAfterError(at) == IF at \in {"initialize", "codeAction"} THEN "shutdown" ELSE StepAfter(at)

\* cmd_diagnostics: what a group's files are reported as when a step comes to its end.
Said(at, failed) ==
  [f \in Sources |->
     IF f \notin FilesOf(client.of) \/ job.kind # "diagnostics" THEN job.said[f]
     ELSE IF at = "initialize" /\ failed THEN Append(job.said[f], "error")
     ELSE IF at = "collect"
          THEN Append(job.said[f], IF f \in client.known THEN "published" ELSE "nothing")
     ELSE job.said[f]]

-----------------------------------------------------------------------------
\* cmd_diagnostics groups its files by server; the other commands take one file.
LspInit ==
  /\ \E kind \in Commands, of \in [Sources -> Servers \cup {"missing", "unserved"}] :
       /\ kind # "diagnostics" =>
            \E f \in Sources : of[f] \in Servers /\ \A g \in Sources \ {f} : of[g] = "missing"
       /\ job = [kind |-> kind, of |-> of, todo |-> {s \in Servers : \E f \in Sources : of[f] = s},
                 said |-> [f \in Sources |-> IF of[f] \in Servers THEN <<>> ELSE <<"error">>],
                 crashed |-> FALSE]
  /\ client = Off /\ server = Down /\ inbox = <<>>

\* _send: to a server that is gone, a broken pipe; it ends the command, except in shutdown.
Enter(at, said, used) ==
  LET sent == at # "kill" /\ server.up
      breaks == at \notin {"shutdown", "kill"} /\ ~server.up
      id == client.id + 1 IN
  /\ client' = [client EXCEPT !.at = IF sent THEN at ELSE "kill", !.id = id, !.used = used,
                              !.opened = IF at \in {"collect", "query", "codeAction"}
                                         THEN FilesOf(client.of) ELSE @]
  /\ server' = IF sent /\ at \in LspRequests
               THEN [server EXCEPT !.asked = Append(@, [id |-> id, of |-> at])] ELSE server
  /\ job' = [job EXCEPT !.said = said, !.crashed = @ \/ breaks, !.todo = IF breaks THEN {} ELSE @]

\* LSP, initialize.
Start(s) ==
  /\ client.at = "off" /\ s \in job.todo
  /\ job' = [job EXCEPT !.todo = @ \ {s}]
  /\ client' = [Off EXCEPT !.at = "initialize", !.of = s, !.id = 1]
  /\ \E deaf \in BOOLEAN :
       server' = [Down EXCEPT !.up = TRUE, !.deaf = deaf, !.asked = <<[id |-> 1, of |-> "initialize"]>>]
  /\ inbox' = <<>>

\* What the server does (external): it answers, in any order, publishes, asks, dies.
Answer(n, ok) ==
  /\ server.up /\ n \in DOMAIN server.asked
  /\ inbox' = Append(inbox, [type |-> "answer", id |-> server.asked[n].id, of |-> server.asked[n].of, ok |-> ok])
  /\ server' = [server EXCEPT !.asked = RemoveAt(@, n)] /\ UNCHANGED <<job, client>>

Publish(f) ==
  /\ server.up /\ f \in client.opened \ client.known
  /\ \A n \in DOMAIN inbox : inbox[n] # [type |-> "publish", file |-> f]
  /\ inbox' = Append(inbox, [type |-> "publish", file |-> f]) /\ UNCHANGED <<job, client, server>>

AskBack ==
  /\ server.up /\ server.asks < Asks
  /\ inbox' = Append(inbox, [type |-> "ask"])
  /\ server' = [server EXCEPT !.asks = @ + 1] /\ UNCHANGED <<job, client>>

Dies ==
  /\ server.up /\ server' = [server EXCEPT !.up = FALSE, !.asked = <<>>]
  /\ inbox' = Append(inbox, [type |-> "closed"]) /\ UNCHANGED <<job, client>>

-----------------------------------------------------------------------------
\* Mutant: any answer will do.
AnyMine(m) == m.type = "answer"

\* request: the answer to it; _responses keeps the others, and nobody asks for them.
Mine(m) == m.type = "answer" /\ m.id = client.id

\* A step ends without an answer.  Mutant: then diagnostics are collected nevertheless.
EndStepAndGoOn ==
  Enter(StepAfter(client.at), Said(client.at, TRUE), client.used)

EndStep ==
  Enter(StepAfterError(client.at), Said(client.at, TRUE), client.used)

\* _dispatch, in request and in collect_diagnostics.
Dispatch ==
  /\ client.at \in Waits /\ inbox # <<>> /\ inbox' = Tail(inbox)
  /\ LET m == Head(inbox) IN
     CASE m.type = "closed" -> EndStep
       [] m.type = "publish" ->
            client' = [client EXCEPT !.known = @ \cup {m.file}] /\ UNCHANGED <<job, server>>
       [] m.type = "ask" ->
            IF server.up THEN UNCHANGED <<job, client, server>>
            ELSE Enter(client.at, job.said, client.used)
       [] m.type = "answer" /\ (client.at = "collect" \/ ~Mine(m)) -> UNCHANGED <<job, client, server>>
       [] OTHER ->
            Enter(IF m.ok THEN StepAfter(client.at) ELSE StepAfterError(client.at),
                  Said(client.at, ~m.ok), client.used \cup {<<client.at, m.of>>})

\* The deadline of the step; diagnostics that are all in end it sooner.
TimeOut == client.at \in Waits /\ EndStep /\ UNCHANGED inbox

\* Mutant: a server that ignores SIGTERM stays.
StopPolitely ==
  /\ client.at = "kill" /\ client' = Off /\ inbox' = <<>>
  /\ server' = [server EXCEPT !.up = @ /\ server.deaf] /\ UNCHANGED job

\* shutdown: terminate, wait, kill.
Stop ==
  /\ client.at = "kill" /\ client' = Off /\ inbox' = <<>> /\ server' = Down /\ UNCHANGED job

LspNext ==
  \/ \E s \in Servers : Start(s)
  \/ \E n \in 1..2, ok \in BOOLEAN : Answer(n, ok)
  \/ \E f \in Sources : Publish(f)
  \/ AskBack \/ Dies \/ Dispatch \/ TimeOut \/ Stop

LspSpec == LspInit /\ [][LspNext]_lspVars

-----------------------------------------------------------------------------
Over == client.at = "off" /\ job.todo = {}

(***************************************************************************)
(* A diagnostics command that comes to its end reports each file it was    *)
(* given once, whatever became of the file's server or of another's.       *)
(***************************************************************************)
ReportedOnce ==
  job.kind = "diagnostics" /\ Over /\ ~job.crashed => \A f \in Sources : Len(job.said[f]) = 1

(***************************************************************************)
(* What a step makes use of is the answer to its own request, also when an *)
(* earlier request's comes late.                                           *)
(***************************************************************************)
OwnAnswer == \A u \in client.used : u[1] = u[2]

(***************************************************************************)
(* No server outlives the talk with it.                                    *)
(***************************************************************************)
ServerGone == client.at = "off" => ~server.up

(***************************************************************************)
(* Whatever servers say, say late or do not say.                           *)
(***************************************************************************)
LspHonest == ReportedOnce /\ OwnAnswer /\ ServerGone
=============================================================================
