----------------------------- MODULE NodeLifecycle -----------------------------
(***************************************************************************)
(* The life of the artifact daemon (node.rs `run`), the command that starts *)
(* it (node start, lifecycle.rs) and the clients that call it over its     *)
(* control socket.  There is no PID file: the socket is the only mark of a *)
(* node that runs, the store's single-writer lock the only thing that keeps *)
(* a second one out.                                                       *)
(*                                                                         *)
(* A process id stands for one process at a time and is used again when it *)
(* is off.  Time is left out: every timeout may fire at any moment.  What  *)
(* a second opener of a locked store gets is the store's choice: it may    *)
(* wait or fail.                                                           *)
(***************************************************************************)
EXTENDS FiniteSets, Integers

CONSTANTS
  Daemon,   \* processes that run rad-artifact-node
  Starter,  \* users at `rad-artifact node start`
  Client,   \* users of every other command
  NoDaemon  \* no process: no socket file, no lock, no child

ASSUME NodeLifecycleAssumption ==
  /\ NoDaemon \notin Daemon
  /\ Daemon \cap Starter = {} /\ (Daemon \cup Starter) \cap Client = {}
  /\ IsFiniteSet(Daemon) /\ IsFiniteSet(Starter) /\ IsFiniteSet(Client)

VARIABLES
  pc,        \* pc[d]: where a daemon is in `run`
  file,      \* whose socket control.sock is, if it exists
  lock,      \* who has the store open
  stopping,  \* stopping[d]: a shutdown was broadcast
  inFlight,  \* inFlight[d]: the counter of handlers
  conn,      \* conn[p]: the connection of a caller
  starter,   \* starter[s]: where a start is, and its child
  robbed     \* history: the daemons whose socket file a start took away

vars == <<pc, file, lock, stopping, inFlight, conn, starter, robbed>>

Caller == Daemon \cup Starter \cup Client

\* A probe, any command that works, and the one that stops the node.
Command == {"alive", "work", "shutdown"}

\* left: the client is gone and nobody reads the answer.
NoConn == [st |-> "none"]
Conn ==
  [st : {"queued", "running", "answered", "closed"}, to : Daemon, cmd : Command,
   left : BOOLEAN]

Listening(d) == pc[d] = "serve"

To(d, st) == {p \in Caller : conn[p] # NoConn /\ conn[p].to = d /\ conn[p].st \in st}

Free == {d \in Daemon : pc[d] = "off" /\ \A s \in Starter : starter[s].child # d}

NotStarting == [pc |-> "idle", child |-> NoDaemon, force |-> FALSE]

Init ==
  /\ pc = [d \in Daemon |-> "off"]
  /\ file = NoDaemon /\ lock = NoDaemon /\ robbed = {}
  /\ stopping = [d \in Daemon |-> FALSE]
  /\ inFlight = [d \in Daemon |-> 0]
  /\ conn = [p \in Caller |-> NoConn]
  /\ starter = [s \in Starter |-> NotStarting]

-----------------------------------------------------------------------------
\* Client::connect and the write of one line.  Without a listener behind the
\* file it is refused, and there is nothing to wait for.
Reachable == file # NoDaemon /\ Listening(file)

Call(p, cmd) ==
  [conn EXCEPT ![p] = [st |-> "queued", to |-> file, cmd |-> cmd, left |-> FALSE]]

\* What becomes of connections that the server or the caller gives up.
Closed(set) ==
  [p \in Caller |->
     IF p \notin set THEN conn[p]
     ELSE IF conn[p].left THEN NoConn ELSE [conn[p] EXCEPT !.st = "closed"]]

Left(p) ==
  [conn EXCEPT ![p] = IF @.st \in {"queued", "running"} THEN [@ EXCEPT !.left = TRUE]
                      ELSE NoConn]

\* A call that is over for its caller: it heard nothing in time, or the end of
\* the stream.
Unanswered(p) ==
  /\ conn[p].st \in {"queued", "running", "closed"} /\ ~conn[p].left
  /\ conn' = Left(p)

Answered(p) ==
  /\ conn[p].st = "answered"
  /\ conn' = [conn EXCEPT ![p] = NoConn]

-----------------------------------------------------------------------------
\* The daemon.
At(d, at) == pc[d] = at

Goto(d, at) == pc' = [pc EXCEPT ![d] = at]

\* The end of a process, wherever it stands: its lock and its connections go,
\* its socket file stays.
Exit(d) ==
  /\ Goto(d, "off")
  /\ lock' = IF lock = d THEN NoDaemon ELSE lock
  /\ stopping' = [stopping EXCEPT ![d] = FALSE]
  /\ inFlight' = [inFlight EXCEPT ![d] = 0]
  /\ robbed' = robbed \ {d}

\* Probe before the store is opened: no file, no probe.
Look(d) ==
  /\ At(d, "look")
  /\ IF Reachable
     THEN conn[d] = NoConn /\ conn' = Call(d, "alive") /\ Goto(d, "probe")
     ELSE Goto(d, IF file = NoDaemon THEN "load" ELSE "unlink") /\ UNCHANGED conn
  /\ UNCHANGED <<file, lock, stopping, inFlight, starter, robbed>>

\* Mutant: the socket is cleaned up on every way out.
AlreadyRunningUnlinks(d) ==
  /\ At(d, "probe") /\ Answered(d)
  /\ Exit(d)
  /\ file' = NoDaemon
  /\ UNCHANGED starter

AlreadyRunning(d) ==
  /\ At(d, "probe") /\ Answered(d)
  /\ Exit(d)
  /\ UNCHANGED <<file, starter>>

NoAnswer(d) ==
  /\ At(d, "probe") /\ Unanswered(d)
  /\ Goto(d, "unlink")
  /\ UNCHANGED <<file, lock, stopping, inFlight, starter, robbed>>

\* Removing the path takes whatever file is there now.
Rob == robbed' = robbed \cup ({file} \cap {d \in Daemon : Listening(d)})

Unlink(d) ==
  /\ At(d, "unlink") /\ file # NoDaemon
  /\ file' = NoDaemon /\ Rob
  /\ Goto(d, "load")
  /\ UNCHANGED <<lock, stopping, inFlight, conn, starter>>

UnlinkFails(d) ==
  /\ At(d, "unlink") /\ file = NoDaemon
  /\ Exit(d)
  /\ UNCHANGED <<file, conn, starter>>

\* Mutant: the daemon does not need the store to serve.
LoadUnlocked(d) ==
  /\ At(d, "load")
  /\ lock' = d
  /\ Goto(d, "online")
  /\ UNCHANGED <<file, stopping, inFlight, conn, starter, robbed>>

\* bootstrap: the store's lock first, then the endpoint, then a relay or the
\* wait for one.
Load(d) ==
  /\ At(d, "load") /\ lock = NoDaemon
  /\ lock' = d
  /\ Goto(d, "online")
  /\ UNCHANGED <<file, stopping, inFlight, conn, starter, robbed>>

BootstrapFails(d) ==
  /\ (At(d, "load") /\ lock # NoDaemon) \/ At(d, "online")
  /\ Exit(d)
  /\ UNCHANGED <<file, conn, starter>>

\* A file that came up since the probe is in the way.
Bind(d) ==
  /\ At(d, "online")
  /\ IF file = NoDaemon
     THEN file' = d /\ Goto(d, "serve") /\ UNCHANGED <<lock, stopping, inFlight, robbed>>
     ELSE Exit(d) /\ UNCHANGED file
  /\ UNCHANGED <<conn, starter>>

\* Mutant: handlers are not counted.
AcceptUncounted(d, p) ==
  /\ At(d, "serve") /\ p \in To(d, {"queued"})
  /\ conn' = [conn EXCEPT ![p].st = "running"]
  /\ UNCHANGED <<pc, file, lock, stopping, inFlight, starter, robbed>>

Accept(d, p) ==
  /\ At(d, "serve") /\ p \in To(d, {"queued"})
  /\ conn' = [conn EXCEPT ![p].st = "running"]
  /\ inFlight' = [inFlight EXCEPT ![d] = @ + 1]
  /\ UNCHANGED <<pc, file, lock, stopping, starter, robbed>>

\* Command::Shutdown broadcasts before its answer is written.
Broadcast(d, p) ==
  /\ p \in To(d, {"running"}) /\ conn[p].cmd = "shutdown" /\ ~stopping[d]
  /\ stopping' = [stopping EXCEPT ![d] = TRUE]
  /\ UNCHANGED <<pc, file, lock, inFlight, conn, starter, robbed>>

\* A handler answers and is done.  One that works may never come to it.
Answer(d, p) ==
  /\ p \in To(d, {"running"}) /\ (conn[p].cmd = "shutdown" => stopping[d])
  /\ conn' = IF conn[p].left THEN [conn EXCEPT ![p] = NoConn]
             ELSE [conn EXCEPT ![p].st = "answered"]
  /\ inFlight' = [inFlight EXCEPT ![d] = @ - 1]
  /\ UNCHANGED <<pc, file, lock, stopping, starter, robbed>>

\* SIGTERM and SIGINT.
Signal(d) ==
  /\ At(d, "serve") /\ ~stopping[d]
  /\ stopping' = [stopping EXCEPT ![d] = TRUE]
  /\ UNCHANGED <<pc, file, lock, inFlight, conn, starter, robbed>>

\* The accept loop ends and the listener goes, with what nobody accepted.
StopAccepting(d) ==
  /\ At(d, "serve") /\ stopping[d]
  /\ conn' = Closed(To(d, {"queued"}))
  /\ Goto(d, "close")
  /\ UNCHANGED <<file, lock, stopping, inFlight, starter, robbed>>

RemoveSocket(d) ==
  /\ At(d, "close")
  /\ file' = NoDaemon
  /\ Goto(d, "drain")
  /\ UNCHANGED <<lock, stopping, inFlight, conn, starter, robbed>>

\* Mutant: the handler of the shutdown itself is not waited for.
DrainedButOne(d) ==
  /\ At(d, "drain") /\ inFlight[d] <= 1
  /\ Goto(d, "exit")
  /\ UNCHANGED <<file, lock, stopping, inFlight, conn, starter, robbed>>

Drained(d) ==
  /\ At(d, "drain") /\ inFlight[d] = 0
  /\ Goto(d, "exit")
  /\ UNCHANGED <<file, lock, stopping, inFlight, conn, starter, robbed>>

\* Mutant: the drain has no deadline.
DrainForEver(d) ==
  /\ At(d, "drain") /\ inFlight[d] = 0
  /\ Goto(d, "abort")
  /\ UNCHANGED <<file, lock, stopping, inFlight, conn, starter, robbed>>

DrainTimesOut(d) ==
  /\ At(d, "drain")
  /\ Goto(d, "abort")
  /\ UNCHANGED <<file, lock, stopping, inFlight, conn, starter, robbed>>

\* The router is shut down, and the process ends.
Stopped(d) ==
  /\ pc[d] \in {"exit", "abort"}
  /\ Exit(d)
  /\ conn' = Closed(To(d, {"queued", "running"}))
  /\ UNCHANGED <<file, starter>>

\* The process is killed: by the user, or by the start that waits for it.
Killed(d) ==
  /\ Exit(d)
  /\ conn' = [Closed(To(d, {"queued", "running"})) EXCEPT ![d] = Left(d)[d]]
  /\ UNCHANGED file

Kill(d) ==
  /\ ~At(d, "off")
  /\ Killed(d)
  /\ UNCHANGED starter

-----------------------------------------------------------------------------
\* rad-artifact node start --foreground, or the binary itself.
Foreground(d) ==
  /\ d \in Free
  /\ Goto(d, "look")
  /\ UNCHANGED <<file, lock, stopping, inFlight, conn, starter, robbed>>

Starting(s, at) == starter[s].pc = at

StarterTo(s, at) == starter' = [starter EXCEPT ![s].pc = at]

\* The probe of `start`, and each poll of wait_until_running: refused, or sent.
Probe(s, from, sent, refused) ==
  /\ Starting(s, from)
  /\ IF Reachable
     THEN conn[s] = NoConn /\ conn' = Call(s, "alive") /\ StarterTo(s, sent)
     ELSE StarterTo(s, refused) /\ UNCHANGED conn
  /\ UNCHANGED <<pc, file, lock, stopping, inFlight, robbed>>

Start(s, force) ==
  /\ starter[s] = NotStarting
  /\ starter' = [starter EXCEPT ![s] = [@ EXCEPT !.pc = "probe", !.force = force]]
  /\ UNCHANGED <<pc, file, lock, stopping, inFlight, conn, robbed>>

ProbeBefore(s) == Probe(s, "probe", "probing", "check")

\* "Node is already running", or nobody there.
ProbeAnswered(s) ==
  /\ Starting(s, "probing") /\ Answered(s)
  /\ starter' = [starter EXCEPT ![s] = NotStarting]
  /\ UNCHANGED <<pc, file, lock, stopping, inFlight, robbed>>

ProbeUnanswered(s) ==
  /\ Starting(s, "probing") /\ Unanswered(s)
  /\ StarterTo(s, "check")
  /\ UNCHANGED <<pc, file, lock, stopping, inFlight, robbed>>

\* A file that nobody answers behind is stale: --force removes it, and without
\* --force the start fails.
StaleSocket(s) ==
  /\ Starting(s, "check") /\ file # NoDaemon
  /\ IF starter[s].force
     THEN file' = NoDaemon /\ Rob /\ StarterTo(s, "spawn")
     ELSE /\ starter' = [starter EXCEPT ![s] = NotStarting]
          /\ UNCHANGED <<file, robbed>>
  /\ UNCHANGED <<pc, lock, stopping, inFlight, conn>>

SpawnDetached(s, d) ==
  /\ Starting(s, "spawn") \/ (Starting(s, "check") /\ file = NoDaemon)
  /\ d \in Free
  /\ Goto(d, "look")
  /\ starter' = [starter EXCEPT ![s] = [@ EXCEPT !.pc = "poll", !.child = d]]
  /\ UNCHANGED <<file, lock, stopping, inFlight, conn, robbed>>

Poll(s) == Probe(s, "poll", "polling", "poll")

\* Whoever answers: the child is let go.
Awake(s) ==
  /\ Starting(s, "polling") /\ Answered(s)
  /\ starter' = [starter EXCEPT ![s] = NotStarting]
  /\ UNCHANGED <<pc, file, lock, stopping, inFlight, robbed>>

PollAgain(s) ==
  /\ Starting(s, "polling") /\ Unanswered(s)
  /\ StarterTo(s, "poll")
  /\ UNCHANGED <<pc, file, lock, stopping, inFlight, robbed>>

\* STARTUP_TIMEOUT: the child, which may be waiting for the lock or a relay, is
\* killed and reaped.
StartupTimeout(s) ==
  /\ Starting(s, "poll")
  /\ LET child == starter[s].child
     IN  IF At(child, "off")
         THEN UNCHANGED <<pc, file, lock, stopping, inFlight, conn, robbed>>
         ELSE Killed(child)
  /\ starter' = [starter EXCEPT ![s] = NotStarting]

\* Any other command; without a node it fails at once.  node stop says
\* "stopped" when it is answered.
Send(c, cmd) ==
  /\ conn[c] = NoConn /\ Reachable
  /\ conn' = Call(c, cmd)
  /\ UNCHANGED <<pc, file, lock, stopping, inFlight, starter, robbed>>

Hear(c) ==
  /\ Answered(c) \/ Unanswered(c)
  /\ UNCHANGED <<pc, file, lock, stopping, inFlight, starter, robbed>>

-----------------------------------------------------------------------------
Run(d) ==
  \/ Look(d) \/ AlreadyRunning(d) \/ NoAnswer(d) \/ Unlink(d) \/ UnlinkFails(d)
  \/ Load(d) \/ BootstrapFails(d) \/ Bind(d)
  \/ StopAccepting(d) \/ RemoveSocket(d) \/ Drained(d) \/ DrainTimesOut(d) \/ Stopped(d)

Handle(d, p) == Accept(d, p) \/ Broadcast(d, p) \/ Answer(d, p)

RunStart(s) ==
  \/ ProbeBefore(s) \/ ProbeAnswered(s) \/ ProbeUnanswered(s) \/ StaleSocket(s)
  \/ Poll(s) \/ Awake(s) \/ PollAgain(s) \/ StartupTimeout(s)
  \/ \E d \in Daemon : SpawnDetached(s, d)

Next ==
  \/ \E d \in Daemon : Run(d) \/ Signal(d) \/ Kill(d) \/ Foreground(d)
  \/ \E d \in Daemon, p \in Caller : Handle(d, p)
  \/ \E s \in Starter : RunStart(s) \/ \E force \in BOOLEAN : Start(s, force)
  \/ \E c \in Client : Hear(c) \/ \E cmd \in {"work", "shutdown"} : Send(c, cmd)

Spec == Init /\ [][Next]_vars

\* The steps of `run` follow each other: what waits there has a timeout.  The
\* handlers need not get anywhere.
FairSpec == Spec /\ \A d \in Daemon : WF_vars(Run(d))

-----------------------------------------------------------------------------
\* Types, and that the counter counts the handlers that run.
TypeOK ==
  /\ \A d \in Daemon : inFlight[d] = Cardinality(To(d, {"running"}))
  /\ pc \in [Daemon -> {"off", "look", "probe", "unlink", "load", "online", "serve",
                        "close", "drain", "exit", "abort"}]
  /\ file \in Daemon \cup {NoDaemon} /\ lock \in Daemon \cup {NoDaemon}
  /\ stopping \in [Daemon -> BOOLEAN] /\ inFlight \in [Daemon -> Nat]
  /\ conn \in [Caller -> Conn \cup {NoConn}]
  /\ starter \in [Starter ->
       [pc : {"idle", "probe", "probing", "check", "spawn", "poll", "polling"},
        child : Daemon \cup {NoDaemon}, force : BOOLEAN]]
  /\ robbed \subseteq Daemon

\* "Open the store once" (run, bootstrap): never do two daemons serve, in spite
\* of probes that time out, files that are unlinked under a live daemon, and
\* restarts that meet a predecessor which still drains.
OneServes == \A d, e \in Daemon : Listening(d) /\ Listening(e) => d = e

\* A daemon that serves can be reached by its socket, unless a start took the
\* file from it: because its probe was not answered in time, or was made
\* before the daemon had bound.  The shutdown of an older daemon never is the
\* one to take it.
ServingIsReachable == \A d \in Daemon : Listening(d) => file = d \/ d \in robbed

\* The drain lets in-flight handlers finish: a daemon that leaves it before the
\* deadline has answered everybody it accepted.
AcceptedIsAnswered == \A d \in Daemon : At(d, "exit") => To(d, {"running"}) = {}

\* A shutdown that was asked for happens, even if a handler is stuck for ever.
ShutdownEnds == \A d \in Daemon : stopping[d] ~> At(d, "off")
===============================================================================
