------------------------------ MODULE Launcher ------------------------------
(***************************************************************************)
(* run.sh and install.sh: what several terminals start and stop on one     *)
(* machine.  Dashboard servers share a port, one that cannot bind it ends; *)
(* Telegram bridges share a pid file, taken by an exclusive create and     *)
(* reclaimed when its holder is gone (obs/obs-bridge.ts,                   *)
(* obs/obs-bridge-core.ts).  Pids are not used twice.                      *)
(***************************************************************************)
EXTENDS Integers, FiniteSets

CONSTANTS Terminals, Bridges,   \* terminals; the bridges that may be started
          MaxServers            \* bound: servers started

ASSUME LauncherAssumption ==
  MaxServers \in Nat /\ "detached" \notin Terminals /\ "nobody" \notin Bridges

VARIABLES
  installed,  \* which of pi, the dependencies and .env are there, and has install.sh completed
  term,       \* a terminal: "idle"; "pi" with the pid of its server, 0 for none; "free" between
              \* a restart's stop and its start
  servers,    \* server processes [pid, owner, bound]
  started,    \* servers started, the pids in use
  bridge,     \* a bridge: what it is about, what it read of the pid file, its attempts
  pidfile,    \* .obs-bridge.pid: a bridge, or "nobody"
  disturbed   \* was a bridge killed or stopped from outside

launchVars == <<installed, term, servers, started, bridge, pidfile, disturbed>>

Detached == "detached"
AtPrompt == [at |-> "idle", pid |-> 0]
Unborn == [at |-> "unborn", read |-> "nobody", tries |-> 0]

Listening == \E s \in servers : s.bound

-----------------------------------------------------------------------------
LaunchInit ==
  /\ installed \in [pi : BOOLEAN, deps : {FALSE}, env : BOOLEAN, done : {FALSE}]
  /\ term = [t \in Terminals |-> AtPrompt] /\ servers = {} /\ started = 0
  /\ bridge = [b \in Bridges |-> Unborn] /\ pidfile = "nobody" /\ disturbed = FALSE

\* Mutant: a failed npm install is warned about.
InstallAnyway(ok) ==
  /\ installed' = [pi |-> installed.pi \/ ok.pi, deps |-> installed.deps \/ (ok.pi /\ ok.deps),
                   env |-> installed.env \/ ok.pi, done |-> installed.done \/ ok.pi]
  /\ UNCHANGED <<term, servers, started, bridge, pidfile, disturbed>>

\* install.sh, where set -e and die end it: pi, then npm install, then what is best-effort, .env
\* and the last message.
Install(ok) ==
  /\ installed' = [pi |-> installed.pi \/ ok.pi,
                   deps |-> installed.deps \/ (ok.pi /\ ok.deps),
                   env |-> installed.env \/ (ok.pi /\ ok.deps),
                   done |-> installed.done \/ (ok.pi /\ ok.deps)]
  /\ UNCHANGED <<term, servers, started, bridge, pidfile, disturbed>>

\* nohup ... &, or ... &: a process that has not bound the port yet.
StartServer(owner) ==
  /\ started < MaxServers /\ started' = started + 1
  /\ servers' = servers \cup {[pid |-> started + 1, owner |-> owner, bound |-> FALSE]}

NoServer == UNCHANGED <<servers, started>>

\* server.listen; without the port the process has nothing to live for.
Bind(s) ==
  /\ s \in servers /\ ~s.bound
  /\ servers' = (servers \ {s}) \cup IF Listening THEN {} ELSE {[s EXCEPT !.bound = TRUE]}
  /\ UNCHANGED <<installed, term, started, bridge, pidfile, disturbed>>

\* pi, --emit: exec pi.  --obs: a server of its own, if there are the dependencies.
RunPi(t, obs) ==
  /\ term[t].at = "idle" /\ installed.pi
  /\ IF obs /\ installed.deps
     THEN StartServer(t) /\ term' = [term EXCEPT ![t] = [at |-> "pi", pid |-> started + 1]]
     ELSE NoServer /\ term' = [term EXCEPT ![t] = [at |-> "pi", pid |-> 0]]
  /\ UNCHANGED <<installed, bridge, pidfile, disturbed>>

\* Mutant: exec pi in any case, and no trap runs.
PiEndsUntrapped(t) ==
  /\ term[t].at = "pi" /\ term' = [term EXCEPT ![t] = AtPrompt]
  /\ UNCHANGED <<installed, servers, started, bridge, pidfile, disturbed>>

\* Mutant: the trap stops what is on the port.
PiEndsStops(t) ==
  /\ term[t].at = "pi" /\ term' = [term EXCEPT ![t] = AtPrompt]
  /\ servers' = IF term[t].pid = 0 THEN servers ELSE {}
  /\ UNCHANGED <<installed, started, bridge, pidfile, disturbed>>

\* The trap.
PiEnds(t) ==
  /\ term[t].at = "pi" /\ term' = [term EXCEPT ![t] = AtPrompt]
  /\ servers' = {s \in servers : s.pid # term[t].pid}
  /\ UNCHANGED <<installed, started, bridge, pidfile, disturbed>>

\* --server; --bg, which first looks whether one listens, and goes on in tmux.
ServerOnly(t) ==
  /\ term[t].at = "idle" /\ installed.deps /\ StartServer(Detached)
  /\ UNCHANGED <<installed, term, bridge, pidfile, disturbed>>

Background(t) ==
  /\ term[t].at = "idle" /\ installed.deps /\ ~Listening /\ StartServer(Detached)
  /\ UNCHANGED <<installed, term, bridge, pidfile, disturbed>>

\* stop_server: the listener, and every obs-server.ts of this port.
StopServer(t, again) ==
  /\ term[t].at = "idle" /\ servers' = {}
  /\ term' = [term EXCEPT ![t].at = IF again THEN "free" ELSE "idle"]
  /\ UNCHANGED <<installed, started, bridge, pidfile, disturbed>>

RestartServer(t) ==
  /\ term[t].at = "free" /\ term' = [term EXCEPT ![t] = AtPrompt]
  /\ IF installed.deps THEN StartServer(Detached) ELSE NoServer
  /\ UNCHANGED <<installed, bridge, pidfile, disturbed>>

-----------------------------------------------------------------------------
OthersStay == UNCHANGED <<installed, term>>

\* --bridge: a server first, unless one listens.
StartBridge(b) ==
  /\ bridge[b].at = "unborn" /\ installed.deps
  /\ IF Listening THEN NoServer ELSE StartServer(Detached)
  /\ bridge' = [bridge EXCEPT ![b].at = "create"]
  /\ OthersStay /\ UNCHANGED <<pidfile, disturbed>>

\* Mutant: writeNew overwrites.
CreateOver(b) ==
  /\ bridge[b].at = "create"
  /\ pidfile' = b /\ bridge' = [bridge EXCEPT ![b].at = "runs"]
  /\ OthersStay /\ NoServer /\ UNCHANGED disturbed

\* acquireBridgeLock: the exclusive create.  The last attempt starts in any case.
Create(b) ==
  /\ bridge[b].at = "create"
  /\ pidfile' = IF pidfile = "nobody" THEN b ELSE pidfile
  /\ bridge' = [bridge EXCEPT ![b].at = IF pidfile = "nobody" THEN "runs" ELSE "read"]
  /\ OthersStay /\ NoServer /\ UNCHANGED disturbed

\* An attempt has failed: the next, or a start without the lock.
Again(b) ==
  [bridge[b] EXCEPT !.at = IF bridge[b].tries = 2 THEN "runs" ELSE "create", !.tries = @ + 1]

Alive(b) == bridge[b].at \notin {"unborn", "gone"}

\* read; evalBridgeLock.
ReadHolder(b) ==
  /\ bridge[b].at = "read"
  /\ bridge' = [bridge EXCEPT ![b] =
       CASE pidfile = "nobody" -> Again(b)
         [] pidfile \notin {"nobody", b} /\ Alive(pidfile) -> [@ EXCEPT !.at = "gone"]
         [] OTHER -> [@ EXCEPT !.at = "match", !.read = pidfile]]
  /\ OthersStay /\ NoServer /\ UNCHANGED <<pidfile, disturbed>>

\* removeIfMatches: read again, then unlink.
Match(b) ==
  /\ bridge[b].at = "match"
  /\ bridge' = [bridge EXCEPT ![b] = IF pidfile = @.read THEN [@ EXCEPT !.at = "unlink"]
                                     ELSE Again(b)]
  /\ OthersStay /\ NoServer /\ UNCHANGED <<pidfile, disturbed>>

Unlink(b) ==
  /\ bridge[b].at = "unlink" /\ pidfile' = "nobody"
  /\ bridge' = [bridge EXCEPT ![b] = Again(b)]
  /\ OthersStay /\ NoServer /\ UNCHANGED disturbed

\* The bridge ends by itself, or at last on a signal: its exit handler unlinks.
BridgeExits(b) ==
  /\ bridge[b].at \in {"runs", "signalled"} /\ pidfile' = "nobody"
  /\ bridge' = [bridge EXCEPT ![b].at = "gone"]
  /\ OthersStay /\ NoServer /\ UNCHANGED disturbed

BridgeKilled(b) ==
  /\ Alive(b) /\ bridge' = [bridge EXCEPT ![b].at = "gone"] /\ disturbed' = TRUE
  /\ OthersStay /\ NoServer /\ UNCHANGED pidfile

\* stop_bridge: SIGTERM to all, and rm.
StopBridge ==
  /\ \E b \in Bridges : Alive(b)
  /\ bridge' = [b \in Bridges |->
       CASE bridge[b].at = "runs" -> [bridge[b] EXCEPT !.at = "signalled"]
         [] Alive(b) /\ bridge[b].at # "signalled" -> [bridge[b] EXCEPT !.at = "gone"]
         [] OTHER -> bridge[b]]
  /\ pidfile' = "nobody" /\ disturbed' = TRUE /\ OthersStay /\ NoServer

LaunchNext ==
  \/ \E ok \in [pi : BOOLEAN, deps : BOOLEAN] : Install(ok)
  \/ \E s \in servers : Bind(s)
  \/ \E t \in Terminals :
       \/ \E obs \in BOOLEAN : RunPi(t, obs)
       \/ PiEnds(t) \/ ServerOnly(t) \/ Background(t)
       \/ \E again \in BOOLEAN : StopServer(t, again)
       \/ RestartServer(t)
  \/ \E b \in Bridges :
       \/ StartBridge(b) \/ Create(b) \/ ReadHolder(b) \/ Match(b) \/ Unlink(b)
       \/ BridgeExits(b) \/ BridgeKilled(b)
  \/ StopBridge

LaunchSpec == LaunchInit /\ [][LaunchNext]_launchVars

-----------------------------------------------------------------------------
(***************************************************************************)
(* When install.sh has completed, whatever failed on the way, run.sh finds *)
(* what it needs for pi and for the dashboard.                             *)
(***************************************************************************)
ReadyToLaunch == installed.done => installed.pi /\ installed.deps /\ installed.env

(***************************************************************************)
(* The server of a --obs session ends with the session (README: it "stops  *)
(* it when pi exits").                                                     *)
(***************************************************************************)
OwnServerEnds == \A s \in servers : s.owner \in Terminals => term[s.owner].pid = s.pid

(***************************************************************************)
(* No session's end takes a server with it that another one, or nobody,    *)
(* owns (README: a shared server "outlives the session").                  *)
(***************************************************************************)
OthersServersStay ==
  [][\A s \in servers, t \in Terminals :
       s.bound /\ s.owner # t /\ term[t].at = "pi" /\ term'[t].at = "idle" => s \in servers']_launchVars

RunningBridges == {b \in Bridges : bridge[b].at = "runs"}

\* A bridge that has lost the create three times starts without the lock, and its exit
\* handler removes another's.  That takes three bridges that came and went meanwhile.
GaveUpOnLock == \E b \in Bridges : bridge[b].tries > 2

(***************************************************************************)
(* Of bridges started at once one runs, unless one was killed or stopped,  *)
(* or gave up on the lock.                                                 *)
(***************************************************************************)
OneBridge == ~disturbed /\ ~GaveUpOnLock => Cardinality(RunningBridges) <= 1

(***************************************************************************)
(* One of each: what a launch needs, its server with it, one bridge; and   *)
(* no other's server is touched.                                           *)
(***************************************************************************)
LaunchHolds == [](ReadyToLaunch /\ OwnServerEnds /\ OneBridge) /\ OthersServersStay
=============================================================================
