---------------------------- MODULE Processes_proofs ----------------------------
(***************************************************************************)
(* Theorems about the two processes that stay up: the daemon, for any      *)
(* number of processes that are started, called, stopped and killed at any *)
(* moment, and the watcher, for any artifacts, sizes, hints and budget.    *)
(* The two specifications share no variable; each theorem is about one.    *)
(***************************************************************************)
EXTENDS NodeLifecycle, Watch, FiniteSetTheorems, WellFoundedInduction, TLAPS

\* A start that polls has a child.
StartersTyped ==
  /\ starter \in [Starter ->
       [pc : {"idle", "probe", "probing", "check", "spawn", "poll", "polling"},
        child : Daemon \cup {NoDaemon}, force : BOOLEAN]]
  /\ \A s \in Starter : starter[s].pc \in {"poll", "polling"} => starter[s].child \in Daemon

\* TypeOK without the counter.
Types ==
  /\ pc \in [Daemon -> {"off", "look", "probe", "unlink", "load", "online", "serve",
                        "close", "drain", "exit", "abort"}]
  /\ file \in Daemon \cup {NoDaemon} /\ lock \in Daemon \cup {NoDaemon}
  /\ stopping \in [Daemon -> BOOLEAN] /\ inFlight \in [Daemon -> Nat]
  /\ conn \in [Caller -> Conn \cup {NoConn}]
  /\ StartersTyped
  /\ robbed \subseteq Daemon

Counted == \A d \in Daemon : inFlight[d] = Cardinality(To(d, {"running"}))

\* Connections are to daemons that have bound, and never from a daemon to itself.
Bound == {"serve", "close", "drain", "exit", "abort"}

Connected ==
  /\ \A d \in Daemon : pc[d] \notin Bound => To(d, {"queued", "running"}) = {}
  /\ \A d \in Daemon : d \notin To(d, {"queued", "running"})

\* From the load to the exit a daemon holds the lock of the store.
HoldsLock == \A d \in Daemon : pc[d] \in Bound \cup {"online"} => lock = d

\* The inductive invariant.  That a counter is right when a process ends needs
\* Connected, and that no shutdown takes the socket of a successor HoldsLock.
IInv ==
  /\ Types /\ Counted /\ Connected /\ HoldsLock
  /\ ServingIsReachable /\ AcceptedIsAnswered

LEMMA InitIInv == Init => IInv
<1> SUFFICES ASSUME Init PROVE IInv
  OBVIOUS
<1>1. Types
  BY NodeLifecycleAssumption DEF Init, Types, StartersTyped, NotStarting
<1>2. \A d \in Daemon : \A st : To(d, st) = {}
  BY DEF Init, To
<1>3. Counted
  BY <1>2, FS_EmptySet DEF Init, Counted
<1>4. Connected /\ HoldsLock /\ ServingIsReachable /\ AcceptedIsAnswered
  BY <1>2 DEF Init, Connected, Bound, HoldsLock, ServingIsReachable, Listening,
              AcceptedIsAnswered, At
<1>5. QED  BY <1>1, <1>3, <1>4 DEF IInv

-----------------------------------------------------------------------------
\* The connections of a state and of the next one: well formed, the same handlers
\* at work, nobody newly waiting.
ConnKept ==
  /\ conn' \in [Caller -> Conn \cup {NoConn}]
  /\ \A d \in Daemon : To(d, {"running"})' = To(d, {"running"})
  /\ \A d \in Daemon : To(d, {"queued", "running"})' \subseteq To(d, {"queued", "running"})

LEMMA SameStarters == ASSUME Types, UNCHANGED starter PROVE StartersTyped'
BY DEF Types, StartersTyped

LEMMA StarterSet ==
  ASSUME StartersTyped, NEW s \in Starter,
         NEW next \in
           [pc : {"idle", "probe", "probing", "check", "spawn", "poll", "polling"},
            child : Daemon \cup {NoDaemon}, force : BOOLEAN],
         next.pc \in {"poll", "polling"} => next.child \in Daemon,
         starter' = [starter EXCEPT ![s] = next]
  PROVE  StartersTyped'
BY DEF StartersTyped

LEMMA SameConnKept == ASSUME Types, UNCHANGED conn PROVE ConnKept
BY DEF Types, ConnKept, To

\* A caller that hangs up is still being served.
LEMMA UnansweredKeeps ==
  ASSUME Types, NEW p \in Caller, Unanswered(p) PROVE ConnKept
<1>1. conn' = [conn EXCEPT ![p] = IF conn[p].st \in {"queued", "running"}
                                  THEN [conn[p] EXCEPT !.left = TRUE] ELSE NoConn]
  BY DEF Unanswered, Left
<1>2. conn[p] \in Conn
  BY DEF Types, Unanswered, NoConn
<1>3. conn' \in [Caller -> Conn \cup {NoConn}]
  BY <1>1, <1>2 DEF Types, Conn
<1>4. ASSUME NEW d \in Daemon, NEW q \in Caller
      PROVE  /\ q \in To(d, {"running"})' <=> q \in To(d, {"running"})
             /\ q \in To(d, {"queued", "running"})' => q \in To(d, {"queued", "running"})
  <2>1. CASE q # p
    <3>1. conn'[q] = conn[q]
      BY <1>1, <2>1 DEF Types
    <3>2. QED  BY <3>1 DEF To
  <2>2. CASE q = p /\ conn[p].st \in {"queued", "running"}
    <3>1. conn'[p] # NoConn /\ conn'[p].st = conn[p].st /\ conn'[p].to = conn[p].to
          /\ conn[p] # NoConn
      BY <1>1, <1>2, <2>2 DEF Types, Conn, NoConn
    <3>2. QED  BY <2>2, <3>1 DEF To
  <2>3. CASE q = p /\ conn[p].st \notin {"queued", "running"}
    <3>1. conn'[p] = NoConn
      BY <1>1, <2>3 DEF Types
    <3>2. QED  BY <2>3, <3>1 DEF To
  <2>4. QED  BY <2>1, <2>2, <2>3
<1>5. QED
  <2>1. \A d \in Daemon : To(d, {"running"})' \subseteq Caller /\ To(d, {"running"}) \subseteq Caller
                          /\ To(d, {"queued", "running"})' \subseteq Caller
    BY DEF To
  <2>2. QED  BY <1>3, <1>4, <2>1 DEF ConnKept

LEMMA AnsweredKeeps ==
  ASSUME Types, NEW p \in Caller, Answered(p) PROVE ConnKept
<1>1. conn' = [conn EXCEPT ![p] = NoConn] /\ conn[p].st = "answered"
  BY DEF Answered
<1>2. QED  BY <1>1 DEF Types, ConnKept, To, Conn, NoConn

\* A call waits at the daemon that listens behind the file.
LEMMA CallAdds ==
  ASSUME Types, NEW p \in Caller, NEW cmd \in Command, Reachable, conn[p] = NoConn,
         conn' = Call(p, cmd)
  PROVE  /\ conn' \in [Caller -> Conn \cup {NoConn}]
         /\ file \in Daemon /\ pc[file] = "serve"
         /\ \A d \in Daemon : To(d, {"running"})' = To(d, {"running"})
         /\ \A d \in Daemon : To(d, {"queued", "running"})'
              \subseteq To(d, {"queued", "running"}) \cup (IF d = file THEN {p} ELSE {})
<1>1. file \in Daemon /\ pc[file] = "serve"
  BY DEF Types, Reachable, Listening
<1>2. conn' = [conn EXCEPT ![p] = [st |-> "queued", to |-> file, cmd |-> cmd, left |-> FALSE]]
  BY DEF Call
<1>3. QED  BY <1>1, <1>2 DEF Types, To, Conn, NoConn

\* A daemon that closes connections touches those of no other.
LEMMA ClosedTakes ==
  ASSUME Types, NEW d \in Daemon, NEW st \in SUBSET {"queued", "running"},
         conn' = Closed(To(d, st))
  PROVE  /\ conn' \in [Caller -> Conn \cup {NoConn}]
         /\ \A e \in Daemon, s \in SUBSET {"queued", "running"} :
              To(e, s)' = IF e = d THEN To(e, s \ st) ELSE To(e, s)
<1>1. \A p \in To(d, st) : conn[p] \in Conn /\ conn[p].to = d /\ conn[p].st \in st
  BY DEF Types, To
<1>2. \A p \in Caller : conn'[p] = IF p \notin To(d, st) THEN conn[p]
                          ELSE IF conn[p].left THEN NoConn ELSE [conn[p] EXCEPT !.st = "closed"]
  BY DEF Closed
<1>3. conn' \in [Caller -> Conn \cup {NoConn}]
  BY <1>1, <1>2 DEF Types, Closed, Conn
<1>4. ASSUME NEW e \in Daemon, NEW s \in SUBSET {"queued", "running"}, NEW p \in Caller
      PROVE  p \in To(e, s)' <=> p \in (IF e = d THEN To(e, s \ st) ELSE To(e, s))
  <2>1. CASE p \in To(d, st)
    <3>1. conn[p].to = d /\ conn[p].st \in st /\ conn'[p] \in {NoConn, [conn[p] EXCEPT !.st = "closed"]}
      BY <1>1, <1>2, <2>1
    <3>2. conn'[p] = NoConn \/ conn'[p].st = "closed"
      BY <1>1, <2>1, <3>1 DEF Conn
    <3>3. p \notin To(e, s)'
      BY <3>2 DEF To
    <3>4. p \notin (IF e = d THEN To(e, s \ st) ELSE To(e, s))
      BY <3>1 DEF To
    <3>5. QED  BY <3>3, <3>4
  <2>2. CASE p \notin To(d, st)
    BY <1>2, <2>2 DEF To
  <2>3. QED  BY <2>1, <2>2
<1>5. ASSUME NEW e \in Daemon, NEW s \in SUBSET {"queued", "running"}
      PROVE  To(e, s)' = IF e = d THEN To(e, s \ st) ELSE To(e, s)
  <2>1. To(e, s)' \subseteq Caller /\ To(e, s) \subseteq Caller /\ To(e, s \ st) \subseteq Caller
    BY DEF To
  <2>2. QED  BY <1>4, <2>1
<1>6. QED  BY <1>3, <1>5

-----------------------------------------------------------------------------
\* What a step does to the rest when the handlers at work stay the same, and no
\* daemon that has not bound is called: the counters still count.
LEMMA Undisturbed ==
  ASSUME IInv, ConnKept, Types', HoldsLock', ServingIsReachable',
         inFlight' = inFlight,
         \A d \in Daemon : pc[d] \in Bound => pc'[d] \in Bound,
         \A d \in Daemon : pc'[d] = "exit" => pc[d] = "exit"
  PROVE  IInv'
<1>1. Counted'
  BY DEF IInv, Counted, ConnKept
<1>2. Connected'
  BY DEF IInv, Connected, ConnKept
<1>3. AcceptedIsAnswered'
  BY DEF IInv, AcceptedIsAnswered, ConnKept, At
<1>4. QED  BY <1>1, <1>2, <1>3 DEF IInv

\* A process that ends with its connections closed, or without any.
LEMMA EndedKeeps ==
  ASSUME IInv, NEW d \in Daemon, Exit(d), UNCHANGED file, StartersTyped',
         conn' \in [Caller -> Conn \cup {NoConn}],
         To(d, {"queued", "running"})' = {},
         \A e \in Daemon \ {d} :
           /\ To(e, {"running"})' = To(e, {"running"})
           /\ To(e, {"queued", "running"})' \subseteq To(e, {"queued", "running"})
  PROVE  IInv'
<1>1. Types'
  BY DEF IInv, Types, Exit, Goto
<1>2. /\ pc' = [pc EXCEPT ![d] = "off"] /\ inFlight' = [inFlight EXCEPT ![d] = 0]
      /\ lock' = IF lock = d THEN NoDaemon ELSE lock
      /\ robbed' = robbed \ {d}
  BY DEF Exit, Goto
<1>3. To(d, {"running"})' = {}
  BY DEF To
<1>4. Counted'
  BY <1>2, <1>3, FS_EmptySet DEF IInv, Types, Counted
<1>5. Connected'
  BY <1>2 DEF IInv, Types, Connected, Bound
<1>6. HoldsLock'
  BY <1>2 DEF IInv, Types, HoldsLock, Bound
<1>7. ServingIsReachable'
  BY <1>2 DEF IInv, Types, ServingIsReachable, Listening
<1>8. AcceptedIsAnswered'
  BY <1>2 DEF IInv, Types, AcceptedIsAnswered, At
<1>9. QED  BY <1>1, <1>4, <1>5, <1>6, <1>7, <1>8 DEF IInv

\* A daemon, or a user, calls whoever listens.
LEMMA CallKeeps ==
  ASSUME IInv, NEW p \in Caller, NEW cmd \in Command, Reachable, conn[p] = NoConn,
         conn' = Call(p, cmd), p # file, Types',
         \A d \in Daemon : pc'[d] = pc[d] \/ (pc[d] = "look" /\ pc'[d] = "probe"),
         UNCHANGED <<file, lock, inFlight, robbed>>
  PROVE  IInv'
<1> USE DEF IInv
<1>1. /\ file \in Daemon /\ pc[file] = "serve"
      /\ \A d \in Daemon : To(d, {"running"})' = To(d, {"running"})
      /\ \A d \in Daemon : To(d, {"queued", "running"})'
           \subseteq To(d, {"queued", "running"}) \cup (IF d = file THEN {p} ELSE {})
  BY CallAdds
<1>2. \A d \in Daemon : pc'[d] \in Bound \cup {"online", "exit"} => pc'[d] = pc[d]
  BY DEF Types, Bound
<1>3. \A d \in Daemon : pc[d] \in Bound => pc'[d] = pc[d]
  BY DEF Types, Bound
<1>4. Counted'
  BY <1>1 DEF Counted
<1>5. Connected'
  BY <1>1, <1>2, <1>3 DEF Connected, Bound, Types
<1>6. HoldsLock'
  BY <1>2 DEF HoldsLock, Bound
<1>7. ServingIsReachable'
  BY <1>2 DEF ServingIsReachable, Listening, Bound
<1>8. AcceptedIsAnswered'
  BY <1>1, <1>2 DEF AcceptedIsAnswered, At
<1>9. QED  BY <1>4, <1>5, <1>6, <1>7, <1>8

-----------------------------------------------------------------------------
LEMMA FiniteCallers ==
  /\ IsFiniteSet(Caller)
  /\ \A d \in Daemon : IsFiniteSet(To(d, {"running"}))
<1>1. IsFiniteSet(Caller)
  BY NodeLifecycleAssumption, FS_Union DEF Caller
<1>2. \A d \in Daemon : To(d, {"running"}) \subseteq Caller
  BY DEF To
<1>3. QED  BY <1>1, <1>2, FS_Subset

\* The steps of a daemon keep the invariant.
LEMMA RunKeeps == ASSUME IInv, NEW d \in Daemon, Run(d) PROVE IInv'
<1> USE DEF IInv
<1>0. d \in Caller
  BY DEF Caller
<1>1. CASE Look(d)
  <2>1. CASE Reachable
    <3>1. /\ conn[d] = NoConn /\ conn' = Call(d, "alive") /\ pc[d] = "look"
          /\ pc' = [pc EXCEPT ![d] = "probe"]
          /\ UNCHANGED <<file, lock, stopping, inFlight, starter, robbed>>
      BY <1>1, <2>1 DEF Look, At, Goto
    <3>2. "alive" \in Command
      BY DEF Command
    <3>3. conn' \in [Caller -> Conn \cup {NoConn}]
      BY <1>0, <2>1, <3>1, <3>2, CallAdds
    <3>4. Types'
      BY <3>1, <3>3 DEF Types, StartersTyped
    <3>5. d # file /\ \A e \in Daemon : pc'[e] = pc[e] \/ (pc[e] = "look" /\ pc'[e] = "probe")
      BY <2>1, <3>1 DEF Types, Reachable, Listening
    <3>6. QED  BY <1>0, <2>1, <3>1, <3>2, <3>4, <3>5, CallKeeps
  <2>2. CASE ~Reachable
    <3>1. /\ pc[d] = "look" /\ conn' = conn
          /\ pc' = [pc EXCEPT ![d] = IF file = NoDaemon THEN "load" ELSE "unlink"]
          /\ UNCHANGED <<file, lock, stopping, inFlight, starter, robbed>>
      BY <1>1, <2>2 DEF Look, At, Goto
    <3>2. Types' /\ HoldsLock' /\ ServingIsReachable'
      BY <3>1 DEF Types, StartersTyped, HoldsLock, Bound, ServingIsReachable, Listening
    <3>3. QED  BY <3>1, <3>2, SameConnKept, Undisturbed DEF Types, Bound
  <2>3. QED  BY <2>1, <2>2
<1>2. CASE AlreadyRunning(d)
  <2>1. ConnKept /\ pc[d] = "probe" /\ Exit(d) /\ UNCHANGED <<file, starter>>
    BY <1>0, <1>2, AnsweredKeeps DEF AlreadyRunning, At
  <2>2. To(d, {"queued", "running"})' = {}
    BY <2>1 DEF ConnKept, Connected, Bound
  <2>3. QED  BY <2>1, <2>2, SameStarters, EndedKeeps DEF ConnKept
<1>3. CASE NoAnswer(d)
  <2>1. /\ ConnKept /\ pc[d] = "probe" /\ pc' = [pc EXCEPT ![d] = "unlink"]
        /\ UNCHANGED <<file, lock, stopping, inFlight, starter, robbed>>
    BY <1>0, <1>3, UnansweredKeeps DEF NoAnswer, At, Goto
  <2>2. Types' /\ HoldsLock' /\ ServingIsReachable'
    BY <2>1 DEF Types, StartersTyped, ConnKept, HoldsLock, Bound, ServingIsReachable, Listening
  <2>3. QED  BY <2>1, <2>2, Undisturbed DEF Types, Bound
<1>4. CASE Unlink(d)
  <2>1. /\ pc[d] = "unlink" /\ pc' = [pc EXCEPT ![d] = "load"] /\ file' = NoDaemon
        /\ robbed' = robbed \cup ({file} \cap {e \in Daemon : pc[e] = "serve"})
        /\ UNCHANGED <<lock, stopping, inFlight, conn, starter>>
    BY <1>4 DEF Unlink, At, Goto, Rob, Listening
  <2>2. Types' /\ HoldsLock' /\ ServingIsReachable'
    BY <2>1 DEF Types, StartersTyped, HoldsLock, Bound, ServingIsReachable, Listening
  <2>3. QED  BY <2>1, <2>2, SameConnKept, Undisturbed DEF Types, Bound
<1>5. CASE UnlinkFails(d)
  <2>1. pc[d] = "unlink" /\ Exit(d) /\ UNCHANGED <<file, conn, starter>>
    BY <1>5 DEF UnlinkFails, At
  <2>2. QED  BY <2>1, SameConnKept, SameStarters, EndedKeeps DEF ConnKept, Connected, Bound
<1>6. CASE Load(d)
  <2>1. /\ pc[d] = "load" /\ pc' = [pc EXCEPT ![d] = "online"] /\ lock = NoDaemon /\ lock' = d
        /\ UNCHANGED <<file, stopping, inFlight, conn, starter, robbed>>
    BY <1>6 DEF Load, At, Goto
  <2>2. Types' /\ HoldsLock' /\ ServingIsReachable'
    BY <2>1, NodeLifecycleAssumption
       DEF Types, StartersTyped, HoldsLock, Bound, ServingIsReachable, Listening
  <2>3. QED  BY <2>1, <2>2, SameConnKept, Undisturbed DEF Types, Bound
<1>7. CASE BootstrapFails(d)
  <2>1. pc[d] \notin Bound /\ Exit(d) /\ UNCHANGED <<file, conn, starter>>
    BY <1>7 DEF BootstrapFails, At, Bound
  <2>2. QED  BY <2>1, SameConnKept, SameStarters, EndedKeeps DEF ConnKept, Connected
<1>8. CASE Bind(d)
  <2>1. CASE file = NoDaemon
    <3>1. /\ pc[d] = "online" /\ pc' = [pc EXCEPT ![d] = "serve"] /\ file' = d
          /\ UNCHANGED <<lock, stopping, inFlight, conn, starter, robbed>>
      BY <1>8, <2>1 DEF Bind, At, Goto
    <3>2. Types' /\ HoldsLock' /\ ServingIsReachable'
      BY <2>1, <3>1, NodeLifecycleAssumption
         DEF Types, StartersTyped, HoldsLock, Bound, ServingIsReachable, Listening
    <3>3. QED  BY <3>1, <3>2, SameConnKept, Undisturbed DEF Types, Bound
  <2>2. CASE file # NoDaemon
    <3>1. pc[d] = "online" /\ Exit(d) /\ UNCHANGED <<file, conn, starter>>
      BY <1>8, <2>2 DEF Bind, At
    <3>2. QED  BY <3>1, SameConnKept, SameStarters, EndedKeeps DEF ConnKept, Connected, Bound
  <2>3. QED  BY <2>1, <2>2
<1>9. CASE StopAccepting(d)
  <2>1. /\ conn' = Closed(To(d, {"queued"})) /\ pc[d] = "serve"
        /\ pc' = [pc EXCEPT ![d] = "close"]
        /\ UNCHANGED <<file, lock, stopping, inFlight, starter, robbed>>
    BY <1>9 DEF StopAccepting, At, Goto
  <2>2. ConnKept
    <3>1. /\ conn' \in [Caller -> Conn \cup {NoConn}]
          /\ \A e \in Daemon, s \in SUBSET {"queued", "running"} :
               To(e, s)' = IF e = d THEN To(e, s \ {"queued"}) ELSE To(e, s)
      BY <2>1, ClosedTakes
    <3>2. {"running"} \ {"queued"} = {"running"}
      OBVIOUS
    <3>3. \A e \in Daemon : To(e, {"running"})' = To(e, {"running"})
      BY <3>1, <3>2
    <3>4. \A e \in Daemon :
            To(e, {"queued", "running"} \ {"queued"}) \subseteq To(e, {"queued", "running"})
      BY DEF To
    <3>5. QED  BY <3>1, <3>3, <3>4 DEF ConnKept
  <2>3. Types' /\ HoldsLock' /\ ServingIsReachable'
    BY <2>1, <2>2 DEF Types, StartersTyped, ConnKept, HoldsLock, Bound, ServingIsReachable, Listening
  <2>4. QED  BY <2>1, <2>2, <2>3, Undisturbed DEF Types, Bound
\* Whoever else has the file does not serve, for d has the lock.
<1>10. CASE RemoveSocket(d)
  <2>1. /\ pc[d] = "close" /\ pc' = [pc EXCEPT ![d] = "drain"] /\ file' = NoDaemon
        /\ UNCHANGED <<lock, stopping, inFlight, conn, starter, robbed>>
    BY <1>10 DEF RemoveSocket, At, Goto
  <2>2. \A e \in Daemon : pc[e] # "serve"
    BY <2>1 DEF HoldsLock, Bound
  <2>3. Types' /\ HoldsLock' /\ ServingIsReachable'
    BY <2>1, <2>2 DEF Types, StartersTyped, HoldsLock, Bound, ServingIsReachable, Listening
  <2>4. QED  BY <2>1, <2>3, SameConnKept, Undisturbed DEF Types, Bound
\* The counter is at zero, so that nobody is served.
<1>11. CASE Drained(d)
  <2>1. /\ pc[d] = "drain" /\ inFlight[d] = 0 /\ pc' = [pc EXCEPT ![d] = "exit"]
        /\ UNCHANGED <<file, lock, stopping, inFlight, conn, starter, robbed>>
    BY <1>11 DEF Drained, At, Goto
  <2>2. Types' /\ HoldsLock' /\ ServingIsReachable'
    BY <2>1 DEF Types, StartersTyped, HoldsLock, Bound, ServingIsReachable, Listening
  <2>3. ConnKept
    BY <2>1, SameConnKept
  <2>5. To(d, {"running"}) = {}
    BY <2>1, FiniteCallers, FS_EmptySet DEF Counted
  <2>6. AcceptedIsAnswered'
    BY <2>1, <2>3, <2>5 DEF AcceptedIsAnswered, At, ConnKept, Types
  <2>7. Counted' /\ Connected'
    BY <2>1, <2>3 DEF Counted, Connected, ConnKept, Types, Bound
  <2>8. QED  BY <2>2, <2>6, <2>7
<1>12. CASE DrainTimesOut(d)
  <2>1. /\ pc[d] = "drain" /\ pc' = [pc EXCEPT ![d] = "abort"]
        /\ UNCHANGED <<file, lock, stopping, inFlight, conn, starter, robbed>>
    BY <1>12 DEF DrainTimesOut, At, Goto
  <2>2. Types' /\ HoldsLock' /\ ServingIsReachable'
    BY <2>1 DEF Types, StartersTyped, HoldsLock, Bound, ServingIsReachable, Listening
  <2>3. QED  BY <2>1, <2>2, SameConnKept, Undisturbed DEF Types, Bound
<1>13. CASE Stopped(d)
  <2>1. /\ conn' = Closed(To(d, {"queued", "running"})) /\ Exit(d) /\ UNCHANGED <<file, starter>>
    BY <1>13 DEF Stopped
  <2>2. /\ conn' \in [Caller -> Conn \cup {NoConn}]
        /\ \A e \in Daemon, s \in SUBSET {"queued", "running"} :
             To(e, s)' = IF e = d THEN To(e, s \ {"queued", "running"}) ELSE To(e, s)
    BY <2>1, ClosedTakes
  <2>3. {"queued", "running"} \ {"queued", "running"} = {}
    OBVIOUS
  <2>4. To(d, {"queued", "running"})' = To(d, {})
    BY <2>2, <2>3
  <2>5. To(d, {}) = {}
    BY DEF To
  <2>6. QED  BY <2>1, <2>2, <2>4, <2>5, SameStarters, EndedKeeps
<1>14. QED
  BY <1>1, <1>2, <1>3, <1>4, <1>5, <1>6, <1>7, <1>8, <1>9, <1>10, <1>11, <1>12, <1>13 DEF Run

\* The steps of the handlers keep the invariant.
LEMMA HandleKeeps ==
  ASSUME IInv, NEW d \in Daemon, NEW p \in Caller, Handle(d, p) PROVE IInv'
<1> USE DEF IInv
<1>1. CASE Accept(d, p)
  <2>1. /\ pc[d] = "serve" /\ p \in To(d, {"queued"})
        /\ conn' = [conn EXCEPT ![p].st = "running"]
        /\ inFlight' = [inFlight EXCEPT ![d] = inFlight[d] + 1]
        /\ UNCHANGED <<pc, file, lock, stopping, starter, robbed>>
    BY <1>1 DEF Accept, At
  <2>2. conn[p] \in Conn /\ conn[p].to = d /\ conn[p].st = "queued"
    BY <2>1 DEF To, Types
  <2>3. conn' = [conn EXCEPT ![p] = [conn[p] EXCEPT !.st = "running"]]
    BY <2>1
  <2>4. conn' \in [Caller -> Conn \cup {NoConn}]
    BY <2>2, <2>3 DEF Types, Conn
  <2>5. /\ To(d, {"running"})' = To(d, {"running"}) \cup {p}
        /\ p \notin To(d, {"running"})
        /\ \A e \in Daemon \ {d} : To(e, {"running"})' = To(e, {"running"})
        /\ \A e \in Daemon : To(e, {"queued", "running"})' = To(e, {"queued", "running"})
    BY <2>2, <2>3 DEF Types, To, Conn, NoConn
  <2>6. Types'
    BY <2>1, <2>4 DEF Types, StartersTyped
  <2>7. Cardinality(To(d, {"running"}) \cup {p}) = Cardinality(To(d, {"running"})) + 1
    BY <2>5, FiniteCallers, FS_AddElement
  <2>8. Counted'
    BY <2>1, <2>5, <2>7 DEF Counted, Types
  <2>9. Connected' /\ HoldsLock' /\ ServingIsReachable' /\ AcceptedIsAnswered'
    BY <2>1, <2>5 DEF Connected, HoldsLock, ServingIsReachable, Listening,
                      AcceptedIsAnswered, At
  <2>10. QED  BY <2>6, <2>8, <2>9
<1>2. CASE Broadcast(d, p)
  <2>1. /\ stopping' = [stopping EXCEPT ![d] = TRUE]
        /\ UNCHANGED <<pc, file, lock, inFlight, conn, starter, robbed>>
    BY <1>2 DEF Broadcast
  <2>2. Types' /\ HoldsLock' /\ ServingIsReachable'
    BY <2>1 DEF Types, StartersTyped, HoldsLock, ServingIsReachable, Listening
  <2>3. QED  BY <2>1, <2>2, SameConnKept, Undisturbed
<1>3. CASE Answer(d, p)
  <2>1. /\ p \in To(d, {"running"})
        /\ conn' = [conn EXCEPT ![p] = IF conn[p].left THEN NoConn
                                       ELSE [conn[p] EXCEPT !.st = "answered"]]
        /\ inFlight' = [inFlight EXCEPT ![d] = inFlight[d] - 1]
        /\ UNCHANGED <<pc, file, lock, stopping, starter, robbed>>
    BY <1>3 DEF Answer
  <2>2. conn[p] \in Conn /\ conn[p].to = d /\ conn[p].st = "running"
    BY <2>1 DEF To, Types
  <2>3. conn' \in [Caller -> Conn \cup {NoConn}]
    BY <2>1, <2>2 DEF Types, Conn
  <2>4. /\ To(d, {"running"})' = To(d, {"running"}) \ {p}
        /\ \A e \in Daemon \ {d} : To(e, {"running"})' = To(e, {"running"})
        /\ \A e \in Daemon : To(e, {"queued", "running"})' \subseteq To(e, {"queued", "running"})
    BY <2>1, <2>2 DEF Types, To, Conn, NoConn
  <2>5. /\ Cardinality(To(d, {"running"}) \ {p}) = Cardinality(To(d, {"running"})) - 1
        /\ Cardinality(To(d, {"running"}) \ {p}) \in Nat
    BY <2>1, FiniteCallers, FS_RemoveElement, FS_CardinalityType
  <2>6. Types'
    BY <2>1, <2>3, <2>5 DEF Types, StartersTyped, Counted
  <2>7. Counted'
    BY <2>1, <2>4, <2>5 DEF Counted, Types
  <2>8. Connected' /\ HoldsLock' /\ ServingIsReachable' /\ AcceptedIsAnswered'
    BY <2>1, <2>4 DEF Connected, HoldsLock, ServingIsReachable, Listening,
                      AcceptedIsAnswered, At
  <2>9. QED  BY <2>6, <2>7, <2>8
<1>4. QED  BY <1>1, <1>2, <1>3 DEF Handle

\* A process that is killed, whoever it called.
LEMMA KilledKeeps ==
  ASSUME IInv, NEW d \in Daemon, Killed(d), StartersTyped' PROVE IInv'
<1> USE DEF IInv
<1> DEFINE others == Closed(To(d, {"queued", "running"}))
<1>1. /\ Exit(d) /\ UNCHANGED file
      /\ conn' = [others EXCEPT ![d] = Left(d)[d]]
  BY DEF Killed
<1>2. d \in Caller
  BY DEF Caller
<1>3. \A p \in To(d, {"queued", "running"}) :
        conn[p] \in Conn /\ conn[p].to = d /\ conn[p].st \in {"queued", "running"} /\ p # d
  BY DEF Types, To, Connected
<1>4. Left(d)[d] = IF conn[d].st \in {"queued", "running"}
                   THEN [conn[d] EXCEPT !.left = TRUE] ELSE NoConn
  BY <1>2 DEF Left, Types
<1>5. /\ Left(d)[d] \in Conn \cup {NoConn}
      /\ conn[d].st \in {"queued", "running"} =>
           /\ conn[d] \in Conn /\ conn[d].to # d /\ Left(d)[d] # NoConn
           /\ Left(d)[d].to = conn[d].to /\ Left(d)[d].st = conn[d].st
      /\ conn[d].st \notin {"queued", "running"} => Left(d)[d] = NoConn
  <2>1. conn[d] \in Conn \cup {NoConn}
    BY <1>2 DEF Types
  <2>2. CASE conn[d].st \in {"queued", "running"}
    <3>1. conn[d] # NoConn /\ conn[d] \in Conn
      BY <2>1, <2>2 DEF NoConn
    <3>2. conn[d].to # d
      BY <1>2, <2>2, <3>1 DEF Connected, To
    <3>3. Left(d)[d] = [conn[d] EXCEPT !.left = TRUE]
      BY <1>4, <2>2
    <3>4. /\ Left(d)[d] \in Conn
          /\ Left(d)[d].to = conn[d].to /\ Left(d)[d].st = conn[d].st
      BY <3>1, <3>3 DEF Conn
    <3>5. Left(d)[d] # NoConn
      BY <2>2, <3>4 DEF NoConn
    <3>6. QED  BY <2>2, <3>1, <3>2, <3>4, <3>5
  <2>3. CASE conn[d].st \notin {"queued", "running"}
    BY <1>4, <2>3
  <2>4. QED  BY <2>2, <2>3
<1>6. conn' = [p \in Caller |->
         IF p = d THEN Left(d)[d]
         ELSE IF p \notin To(d, {"queued", "running"}) THEN conn[p]
         ELSE IF conn[p].left THEN NoConn ELSE [conn[p] EXCEPT !.st = "closed"]]
  BY <1>1, <1>2 DEF Closed
<1>7. \A p \in To(d, {"queued", "running"}) :
         \/ conn'[p] = NoConn
         \/ conn'[p] \in Conn /\ conn'[p].st = "closed"
  BY <1>2, <1>3, <1>6 DEF Conn, To
<1>8. conn' \in [Caller -> Conn \cup {NoConn}]
  BY <1>3, <1>5, <1>6 DEF Types, Conn
<1>9. ASSUME NEW p \in Caller, NEW e \in Daemon, NEW st \in SUBSET {"queued", "running"}
      PROVE  p \in To(e, st)' <=> e # d /\ p \in To(e, st)
  <2>1. CASE p = d
    BY <1>2, <1>5, <1>6, <2>1 DEF To, NoConn, Conn
  <2>2. CASE p # d /\ p \in To(d, {"queued", "running"})
    BY <1>3, <1>7, <2>2 DEF To, NoConn
  <2>3. CASE p # d /\ p \notin To(d, {"queued", "running"})
    BY <1>6, <2>3 DEF To
  <2>4. QED  BY <2>1, <2>2, <2>3
<1>10. /\ To(d, {"queued", "running"})' = {}
       /\ \A e \in Daemon \ {d} :
            /\ To(e, {"running"})' = To(e, {"running"})
            /\ To(e, {"queued", "running"})' \subseteq To(e, {"queued", "running"})
  <2>1. ASSUME NEW e \in Daemon, NEW st \in SUBSET {"queued", "running"}
        PROVE  To(e, st)' = IF e = d THEN {} ELSE To(e, st)
    <3>1. To(e, st)' \subseteq Caller /\ To(e, st) \subseteq Caller
      BY DEF To
    <3>2. QED  BY <1>9, <3>1
  <2>2. QED  BY <2>1
<1>11. QED  BY <1>1, <1>8, <1>10, EndedKeeps

\* The steps of a start keep the invariant.
LEMMA RunStartKeeps == ASSUME IInv, NEW s \in Starter, RunStart(s) PROVE IInv'
<1> USE DEF IInv
<1>0. s \in Caller
  BY DEF Caller
<1>1. ASSUME NEW from, NEW sent, NEW refused, Probe(s, from, sent, refused),
             \/ sent = "probing" /\ refused = "check"
             \/ from = "poll" /\ sent = "polling" /\ refused = "poll"
      PROVE  IInv'
  <2>1. CASE Reachable
    <3>1. /\ conn[s] = NoConn /\ conn' = Call(s, "alive") /\ starter[s].pc = from
          /\ starter' = [starter EXCEPT ![s].pc = sent]
          /\ UNCHANGED <<pc, file, lock, stopping, inFlight, robbed>>
      BY <1>1, <2>1 DEF Probe, Starting, StarterTo
    <3>2. "alive" \in Command
      BY DEF Command
    <3>3. conn' \in [Caller -> Conn \cup {NoConn}]
      BY <1>0, <2>1, <3>1, <3>2, CallAdds
    <3>4. Types'
      BY <1>1, <3>1, <3>3 DEF Types, StartersTyped
    <3>5. s # file
      BY <2>1, NodeLifecycleAssumption DEF Types, Reachable
    <3>6. QED  BY <1>0, <2>1, <3>1, <3>2, <3>4, <3>5, CallKeeps
  <2>2. CASE ~Reachable
    <3>1. /\ starter' = [starter EXCEPT ![s].pc = refused] /\ starter[s].pc = from
          /\ UNCHANGED <<pc, file, lock, stopping, inFlight, robbed, conn>>
      BY <1>1, <2>2 DEF Probe, Starting, StarterTo
    <3>2. Types' /\ HoldsLock' /\ ServingIsReachable'
      BY <1>1, <3>1 DEF Types, StartersTyped, HoldsLock, ServingIsReachable, Listening
    <3>3. QED  BY <3>1, <3>2, SameConnKept, Undisturbed
  <2>3. QED  BY <2>1, <2>2

<1>2. CASE ProbeAnswered(s) \/ Awake(s)
  <2>1. /\ ConnKept /\ starter' = [starter EXCEPT ![s] = NotStarting]
        /\ UNCHANGED <<pc, file, lock, stopping, inFlight, robbed>>
    BY <1>0, <1>2, AnsweredKeeps DEF ProbeAnswered, Awake
  <2>2. Types' /\ HoldsLock' /\ ServingIsReachable'
    BY <2>1 DEF Types, StartersTyped, ConnKept, NotStarting, HoldsLock, ServingIsReachable, Listening
  <2>3. QED  BY <2>1, <2>2, Undisturbed
<1>3. CASE ProbeUnanswered(s) \/ PollAgain(s)
  <2>1. /\ ConnKept
        /\ \/ starter' = [starter EXCEPT ![s].pc = "check"]
           \/ starter' = [starter EXCEPT ![s].pc = "poll"] /\ starter[s].pc = "polling"
        /\ UNCHANGED <<pc, file, lock, stopping, inFlight, robbed>>
    BY <1>0, <1>3, UnansweredKeeps DEF ProbeUnanswered, PollAgain, Starting, StarterTo
  <2>2. Types' /\ HoldsLock' /\ ServingIsReachable'
    BY <2>1 DEF Types, StartersTyped, ConnKept, HoldsLock, ServingIsReachable, Listening
  <2>3. QED  BY <2>1, <2>2, Undisturbed
<1>4. CASE StaleSocket(s)
  <2>1. UNCHANGED <<pc, lock, stopping, inFlight, conn>>
    BY <1>4 DEF StaleSocket
  <2>2. CASE starter[s].force
    <3>1. /\ file' = NoDaemon /\ starter' = [starter EXCEPT ![s].pc = "spawn"]
          /\ robbed' = robbed \cup ({file} \cap {e \in Daemon : pc[e] = "serve"})
      BY <1>4, <2>2 DEF StaleSocket, StarterTo, Rob, Listening
    <3>2. Types' /\ HoldsLock' /\ ServingIsReachable'
      BY <2>1, <3>1 DEF Types, StartersTyped, HoldsLock, ServingIsReachable, Listening
    <3>3. QED  BY <2>1, <3>2, SameConnKept, Undisturbed
  <2>3. CASE ~starter[s].force
    <3>1. starter' = [starter EXCEPT ![s] = NotStarting] /\ UNCHANGED <<file, robbed>>
      BY <1>4, <2>3 DEF StaleSocket
    <3>2. Types' /\ HoldsLock' /\ ServingIsReachable'
      BY <2>1, <3>1 DEF Types, StartersTyped, NotStarting, HoldsLock, ServingIsReachable, Listening
    <3>3. QED  BY <2>1, <3>2, SameConnKept, Undisturbed
  <2>4. QED  BY <2>2, <2>3
<1>5. ASSUME NEW d \in Daemon, SpawnDetached(s, d) PROVE IInv'
  <2>1. /\ pc[d] = "off" /\ pc' = [pc EXCEPT ![d] = "look"]
        /\ starter' = [starter EXCEPT ![s] = [starter[s] EXCEPT !.pc = "poll", !.child = d]]
        /\ UNCHANGED <<file, lock, stopping, inFlight, conn, robbed>>
    BY <1>5 DEF SpawnDetached, Free, Goto
  <2> DEFINE next == [starter[s] EXCEPT !.pc = "poll", !.child = d]
  <2>2. StartersTyped'
    <3>1. /\ next \in [pc : {"idle", "probe", "probing", "check", "spawn", "poll", "polling"},
                       child : Daemon \cup {NoDaemon}, force : BOOLEAN]
          /\ next.child = d
      BY DEF Types, StartersTyped
    <3>2. starter' = [starter EXCEPT ![s] = next]
      BY <2>1
    <3> HIDE DEF next
    <3>3. QED  BY <3>1, <3>2, StarterSet DEF Types
  <2>3. Types' /\ HoldsLock' /\ ServingIsReachable'
    BY <2>1, <2>2 DEF Types, HoldsLock, Bound, ServingIsReachable, Listening
  <2>4. QED  BY <2>1, <2>3, SameConnKept, Undisturbed DEF Types, Bound
<1>6. CASE StartupTimeout(s)
  <2> DEFINE child == starter[s].child
  <2>1. /\ starter' = [starter EXCEPT ![s] = NotStarting] /\ child \in Daemon
        /\ \/ UNCHANGED <<pc, file, lock, stopping, inFlight, conn, robbed>>
           \/ Killed(child)
    BY <1>6 DEF StartupTimeout, Starting, Types, StartersTyped
  <2>2. StartersTyped'
    BY <2>1 DEF Types, StartersTyped, NotStarting
  <2>3. CASE UNCHANGED <<pc, file, lock, stopping, inFlight, conn, robbed>>
    <3>1. Types' /\ HoldsLock' /\ ServingIsReachable'
      BY <2>2, <2>3 DEF Types, HoldsLock, ServingIsReachable, Listening
    <3>2. QED  BY <2>3, <3>1, SameConnKept, Undisturbed
  <2>4. CASE Killed(child)
    BY <2>1, <2>2, <2>4, KilledKeeps
  <2>5. QED  BY <2>1, <2>3, <2>4
<1>7. QED
  BY <1>1, <1>2, <1>3, <1>4, <1>5, <1>6
     DEF RunStart, ProbeBefore, Poll

-----------------------------------------------------------------------------
LEMMA StepKeeps == ASSUME IInv, [Next]_vars PROVE IInv'
<1> USE DEF IInv
<1>1. CASE UNCHANGED vars
  <2>1. Types' /\ HoldsLock' /\ ServingIsReachable'
    BY <1>1 DEF vars, Types, StartersTyped, HoldsLock, ServingIsReachable, Listening
  <2>2. QED  BY <1>1, <2>1, SameConnKept, Undisturbed DEF vars
<1>2. ASSUME NEW d \in Daemon, Signal(d) PROVE IInv'
  <2>1. /\ stopping' = [stopping EXCEPT ![d] = TRUE]
        /\ UNCHANGED <<pc, file, lock, inFlight, conn, starter, robbed>>
    BY <1>2 DEF Signal
  <2>2. Types' /\ HoldsLock' /\ ServingIsReachable'
    BY <2>1 DEF Types, StartersTyped, HoldsLock, ServingIsReachable, Listening
  <2>3. QED  BY <2>1, <2>2, SameConnKept, Undisturbed
<1>3. ASSUME NEW d \in Daemon, Kill(d) PROVE IInv'
  BY <1>3, SameStarters, KilledKeeps DEF Kill
<1>4. ASSUME NEW d \in Daemon, Foreground(d) PROVE IInv'
  <2>1. /\ pc[d] = "off" /\ pc' = [pc EXCEPT ![d] = "look"]
        /\ UNCHANGED <<file, lock, stopping, inFlight, conn, starter, robbed>>
    BY <1>4 DEF Foreground, Free, Goto
  <2>2. Types' /\ HoldsLock' /\ ServingIsReachable'
    BY <2>1 DEF Types, StartersTyped, HoldsLock, Bound, ServingIsReachable, Listening
  <2>3. QED  BY <2>1, <2>2, SameConnKept, Undisturbed DEF Types, Bound
<1>5. ASSUME NEW s \in Starter, NEW force \in BOOLEAN, Start(s, force) PROVE IInv'
  <2>1. /\ starter' = [starter EXCEPT ![s] = [starter[s] EXCEPT !.pc = "probe", !.force = force]]
        /\ UNCHANGED <<pc, file, lock, stopping, inFlight, conn, robbed>>
    BY <1>5 DEF Start
  <2> DEFINE next == [starter[s] EXCEPT !.pc = "probe", !.force = force]
  <2>2. StartersTyped'
    <3>1. /\ next \in [pc : {"idle", "probe", "probing", "check", "spawn", "poll", "polling"},
                       child : Daemon \cup {NoDaemon}, force : BOOLEAN]
          /\ next.pc = "probe"
      BY DEF Types, StartersTyped
    <3>2. starter' = [starter EXCEPT ![s] = next]
      BY <2>1
    <3> HIDE DEF next
    <3>3. QED  BY <3>1, <3>2, StarterSet DEF Types
  <2>3. Types' /\ HoldsLock' /\ ServingIsReachable'
    BY <2>1, <2>2 DEF Types, HoldsLock, ServingIsReachable, Listening
  <2>4. QED  BY <2>1, <2>3, SameConnKept, Undisturbed
<1>6. ASSUME NEW c \in Client, NEW cmd \in {"work", "shutdown"}, Send(c, cmd) PROVE IInv'
  <2>1. /\ conn[c] = NoConn /\ Reachable /\ conn' = Call(c, cmd)
        /\ UNCHANGED <<pc, file, lock, stopping, inFlight, starter, robbed>>
    BY <1>6 DEF Send
  <2>2. c \in Caller /\ cmd \in Command /\ c # file
    BY <2>1, NodeLifecycleAssumption DEF Caller, Command, Reachable, Types
  <2>3. Types'
    BY <2>1, <2>2, CallAdds DEF Types, StartersTyped
  <2>4. QED  BY <2>1, <2>2, <2>3, CallKeeps
<1>7. ASSUME NEW c \in Client, Hear(c) PROVE IInv'
  <2>1. ConnKept /\ UNCHANGED <<pc, file, lock, stopping, inFlight, starter, robbed>>
    BY <1>7, AnsweredKeeps, UnansweredKeeps DEF Hear, Caller
  <2>2. Types' /\ HoldsLock' /\ ServingIsReachable'
    BY <2>1 DEF Types, StartersTyped, ConnKept, HoldsLock, ServingIsReachable, Listening
  <2>3. QED  BY <2>1, <2>2, Undisturbed
<1>8. QED
  BY <1>1, <1>2, <1>3, <1>4, <1>5, <1>6, <1>7, RunKeeps, HandleKeeps, RunStartKeeps DEF Next

\* The invariant holds throughout every life of the daemon.
THEOREM LifecycleInvariant == Spec => []IInv
<1>1. IInv /\ [Next]_vars => IInv'
  BY StepKeeps
<1>2. QED  BY InitIInv, <1>1, PTL DEF Spec

\* However processes are started, called and killed, the states are well formed and
\* the counter a drain waits on counts the handlers that run.
THEOREM LifecycleTypeCorrect == Spec => []TypeOK
<1>1. IInv => TypeOK
  BY DEF IInv, Types, StartersTyped, Counted, TypeOK
<1>2. QED  BY <1>1, LifecycleInvariant, PTL

\* Never do two daemons serve: the lock of the store keeps the second one out,
\* whatever became of the socket file.
THEOREM OneDaemonServes == Spec => []OneServes
<1>1. IInv => OneServes
  BY DEF IInv, HoldsLock, Bound, OneServes, Listening
<1>2. QED  BY <1>1, LifecycleInvariant, PTL

\* A daemon that serves can be reached, unless a start took its socket file.
THEOREM ServingStaysReachable == Spec => []ServingIsReachable
<1>1. IInv => ServingIsReachable
  BY DEF IInv
<1>2. QED  BY <1>1, LifecycleInvariant, PTL

\* A daemon that drains in time has answered everybody it accepted.
THEOREM DrainAnswersAll == Spec => []AcceptedIsAnswered
<1>1. IInv => AcceptedIsAnswered
  BY DEF IInv
<1>2. QED  BY <1>1, LifecycleInvariant, PTL
-----------------------------------------------------------------------------
\* The watcher.  First the sums it compares with the budget, which fold over a
\* finite set in an order that CHOOSE takes.

\* Among sets of parts of a finite one, there is one of which no part with one
\* element less is in it: induction over finite sets, as a fact about them.
LEMMA SmallestSet ==
  ASSUME NEW D, IsFiniteSet(D), NEW B \in SUBSET SUBSET D, B # {}
  PROVE  \E T \in B : \A x \in T : T \ {x} \notin B
<1>1. \A T \in B : /\ Cardinality(T) \in Nat
                   /\ \A x \in T : Cardinality(T \ {x}) = Cardinality(T) - 1
  <2>1. SUFFICES ASSUME NEW T \in B
                 PROVE  /\ Cardinality(T) \in Nat
                        /\ \A x \in T : Cardinality(T \ {x}) = Cardinality(T) - 1
    OBVIOUS
  <2>2. IsFiniteSet(T)
    BY FS_Subset
  <2>3. QED  BY <2>2, FS_CardinalityType, FS_RemoveElement
<1> DEFINE R == OpToRel(<, Nat)
           N == {Cardinality(T) : T \in B}
<1>2. IsWellFoundedOn(R, Nat)
  BY NatLessThanWellFounded
<1>3. \A m, n \in Nat : m < n => <<m, n>> \in R
  BY DEF OpToRel
<1>4. N \in SUBSET Nat /\ N # {}
  BY <1>1
<1> HIDE DEF R, N
<1>5. PICK n \in N : \A m \in N : ~ (<<m, n>> \in R)
  BY <1>2, <1>4, WFMin
<1>6. \A m \in N : ~ (m < n)
  BY <1>3, <1>4, <1>5
<1>7. PICK T \in B : n = Cardinality(T)
  BY <1>5 DEF N
<1>8. ASSUME NEW x \in T, T \ {x} \in B  PROVE FALSE
  <2>1. Cardinality(T \ {x}) \in N /\ Cardinality(T \ {x}) = n - 1 /\ n \in Nat
    BY <1>1, <1>7, <1>8 DEF N
  <2>2. QED  BY <1>6, <2>1
<1>9. QED  BY <1>8

First(cids) == CHOOSE cid \in cids : TRUE

SumStep(sums, cids) == IF cids = {} THEN 0 ELSE Size[First(cids)] + sums[cids \ {First(cids)}]

\* The recursive function that the fold defines exists, and its value at the
\* whole set is the fold.
LEMMA SumUnrolls ==
  ASSUME NEW D, IsFiniteSet(D)
  PROVE  \E sums : /\ SizeOf(D) = sums[D]
                   /\ \A cids \in SUBSET D : sums[cids] = SumStep(sums, cids)
<1> DEFINE Sums(g, n) == \A cids \in SUBSET D : Cardinality(cids) < n => g[cids] = SumStep(g, cids)
           Bad == {cids \in SUBSET D : ~ \E g : Sums(g, Cardinality(cids) + 1)}
<1>1. \A cids \in SUBSET D :
        /\ IsFiniteSet(cids) /\ Cardinality(cids) \in Nat
        /\ Cardinality(cids) <= Cardinality(D)
        /\ cids # {} => /\ First(cids) \in cids
                        /\ Cardinality(cids \ {First(cids)}) = Cardinality(cids) - 1
  <2>1. SUFFICES ASSUME NEW cids \in SUBSET D
                 PROVE  /\ IsFiniteSet(cids) /\ Cardinality(cids) \in Nat
                        /\ Cardinality(cids) <= Cardinality(D)
                        /\ cids # {} => /\ First(cids) \in cids
                                        /\ Cardinality(cids \ {First(cids)}) = Cardinality(cids) - 1
    OBVIOUS
  <2>2. IsFiniteSet(cids) /\ Cardinality(cids) <= Cardinality(D)
    BY FS_Subset
  <2>3. cids # {} => First(cids) \in cids
    BY DEF First
  <2>4. QED  BY <2>2, <2>3, FS_CardinalityType, FS_RemoveElement
<1>2. \E g : Sums(g, Cardinality(D) + 1)
  <2>1. SUFFICES ASSUME Bad # {}  PROVE FALSE
    OBVIOUS
  <2>2. PICK T \in Bad : \A x \in T : T \ {x} \notin Bad
    <3>1. Bad \in SUBSET SUBSET D
      OBVIOUS
    <3> HIDE DEF Bad
    <3>2. QED  BY <2>1, <3>1, SmallestSet
  <2>3. PICK n \in Nat : n = Cardinality(T)
    BY <1>1
  <2>4. \E g : Sums(g, n)
    <3>1. CASE T = {}
      <4>1. n = 0
        BY <2>3, <3>1, FS_EmptySet
      <4>2. ASSUME NEW cids \in SUBSET D  PROVE ~ (Cardinality(cids) < n)
        <5>1. Cardinality(cids) \in Nat
          BY <1>1
        <5>2. QED  BY <4>1, <5>1
      <4>3. QED  BY <4>2
    <3>2. CASE T # {}
      <4>1. Cardinality(T \ {First(T)}) + 1 = n /\ T \ {First(T)} \in SUBSET D
        BY <1>1, <2>3, <3>2
      <4>2. T \ {First(T)} \notin Bad
        BY <1>1, <2>2, <3>2
      <4> HIDE DEF Sums
      <4>3. QED  BY <4>1, <4>2
    <3>3. QED  BY <3>1, <3>2
  <2>5. PICK g : Sums(g, n)
    BY <2>4
  <2> DEFINE h == [cids \in SUBSET D |->
                     IF Cardinality(cids) < n THEN g[cids] ELSE SumStep(g, cids)]
  <2>6. ASSUME NEW cids \in SUBSET D, Cardinality(cids) < n + 1
        PROVE  h[cids] = SumStep(h, cids)
    <3>1. h[cids] = SumStep(g, cids)
      BY <2>5
    <3>2. cids # {} => h[cids \ {First(cids)}] = g[cids \ {First(cids)}]
      <4>1. SUFFICES ASSUME cids # {}  PROVE h[cids \ {First(cids)}] = g[cids \ {First(cids)}]
        OBVIOUS
      <4>2. Cardinality(cids \ {First(cids)}) < n /\ cids \ {First(cids)} \in SUBSET D
        BY <1>1, <2>6, <4>1
      <4>3. QED  BY <4>2
    <3> HIDE DEF h
    <3>3. QED  BY <3>1, <3>2 DEF SumStep
  <2>7. Sums(h, n + 1)
    <3> HIDE DEF h
    <3>1. QED  BY <2>6
  <2>8. \E k : Sums(k, Cardinality(T) + 1)
    BY <2>3, <2>7
  <2> HIDE DEF Sums
  <2>9. QED  BY <2>2, <2>8
<1>3. \E g : g = [cids \in SUBSET D |-> SumStep(g, cids)]
  <2>1. PICK g : Sums(g, Cardinality(D) + 1)
    BY <1>2
  <2> DEFINE h == [cids \in SUBSET D |-> g[cids]]
  <2>2. ASSUME NEW cids \in SUBSET D  PROVE h[cids] = SumStep(h, cids)
    <3>1. Cardinality(cids) < Cardinality(D) + 1
      <4>1. \A m, n \in Nat : m <= n => m < n + 1
        OBVIOUS
      <4>2. Cardinality(cids) \in Nat /\ Cardinality(D) \in Nat
        BY <1>1, FS_CardinalityType
      <4>3. QED  BY <1>1, <4>1, <4>2
    <3>2. g[cids] = SumStep(g, cids)
      BY <2>1, <3>1
    <3>3. h[cids] = g[cids] /\ h[cids \ {First(cids)}] = g[cids \ {First(cids)}]
      OBVIOUS
    <3> HIDE DEF h
    <3>4. QED  BY <3>2, <3>3 DEF SumStep
  <2>3. h = [cids \in SUBSET D |-> h[cids]]
    OBVIOUS
  <2> HIDE DEF h
  <2>4. QED  BY <2>2, <2>3
<1> DEFINE iter == CHOOSE g : g = [cids \in SUBSET D |-> SumStep(g, cids)]
<1>4. iter = [cids \in SUBSET D |-> SumStep(iter, cids)]
  BY <1>3
<1>5. SizeOf(D) = iter[D]
  BY DEF SizeOf, MapThenSumSet, MapThenFoldSet, SumStep, First
<1> HIDE DEF iter
<1>6. \A cids \in SUBSET D : iter[cids] = SumStep(iter, cids)
  BY <1>4
<1>7. QED  BY <1>5, <1>6

\* A sum does not depend on the set it is unrolled for.
LEMMA SumsAgree ==
  ASSUME NEW D, IsFiniteSet(D), NEW one, NEW two,
         \A cids \in SUBSET D : one[cids] = SumStep(one, cids),
         \A cids \in SUBSET D : two[cids] = SumStep(two, cids)
  PROVE  one[D] = two[D]
<1> DEFINE B == {cids \in SUBSET D : one[cids] # two[cids]}
<1>1. SUFFICES ASSUME B # {}  PROVE FALSE
  OBVIOUS
<1>2. PICK T \in B : \A x \in T : T \ {x} \notin B
  <2>1. B \in SUBSET SUBSET D
    OBVIOUS
  <2> HIDE DEF B
  <2>2. QED  BY <1>1, <2>1, SmallestSet
<1>3. one[T] = SumStep(one, T) /\ two[T] = SumStep(two, T) /\ one[T] # two[T]
  OBVIOUS
<1>4. CASE T = {}
  BY <1>3, <1>4 DEF SumStep
<1>5. CASE T # {}
  <2>1. First(T) \in T
    BY <1>5 DEF First
  <2>2. one[T \ {First(T)}] = two[T \ {First(T)}]
    BY <1>2, <2>1
  <2>3. QED  BY <1>3, <2>2 DEF SumStep
<1>6. QED  BY <1>4, <1>5

LEMMA SumsAreNumbers ==
  ASSUME WatchAssumption, NEW D \in SUBSET Cid, IsFiniteSet(D), NEW sums,
         \A cids \in SUBSET D : sums[cids] = SumStep(sums, cids)
  PROVE  \A cids \in SUBSET D : sums[cids] \in Nat
<1> DEFINE B == {cids \in SUBSET D : sums[cids] \notin Nat}
<1>1. SUFFICES ASSUME B # {}  PROVE FALSE
  OBVIOUS
<1>2. PICK T \in B : \A x \in T : T \ {x} \notin B
  <2>1. B \in SUBSET SUBSET D
    OBVIOUS
  <2> HIDE DEF B
  <2>2. QED  BY <1>1, <2>1, SmallestSet
<1>3. sums[T] = SumStep(sums, T) /\ sums[T] \notin Nat
  OBVIOUS
<1>4. CASE T = {}
  BY <1>3, <1>4 DEF SumStep
<1>5. CASE T # {}
  <2>1. First(T) \in T
    BY <1>5 DEF First
  <2>2. Size[First(T)] \in Nat /\ sums[T \ {First(T)}] \in Nat
    BY <1>2, <2>1 DEF WatchAssumption
  <2>3. QED  BY <1>3, <1>5, <2>2 DEF SumStep
<1>6. QED  BY <1>4, <1>5

\* The element that is added last may be any of the set.
LEMMA SumExchanges ==
  ASSUME WatchAssumption, NEW D \in SUBSET Cid, IsFiniteSet(D), NEW sums,
         \A cids \in SUBSET D : sums[cids] = SumStep(sums, cids)
  PROVE  \A cids \in SUBSET D : \A cid \in cids : sums[cids] = Size[cid] + sums[cids \ {cid}]
<1> DEFINE Any(cids) == \A cid \in cids : sums[cids] = Size[cid] + sums[cids \ {cid}]
           B == {cids \in SUBSET D : ~ Any(cids)}
<1>1. \A cid \in D : Size[cid] \in Nat
  BY DEF WatchAssumption
<1>2. SUFFICES ASSUME B # {}  PROVE FALSE
  OBVIOUS
<1>3. PICK T \in B : \A x \in T : T \ {x} \notin B
  <2>1. B \in SUBSET SUBSET D
    OBVIOUS
  <2> HIDE DEF B
  <2>2. QED  BY <1>2, <2>1, SmallestSet
<1>4. T \in SUBSET D /\ \A x \in T : Any(T \ {x})
  BY <1>3
<1>5. ASSUME NEW x \in T  PROVE sums[T] = Size[x] + sums[T \ {x}]
  <2>1. PICK y \in T : y = First(T)
    BY DEF First
  <2>2. sums[T] = Size[y] + sums[T \ {y}]
    BY <1>4, <2>1 DEF SumStep
  <2>3. CASE x = y
    BY <2>2, <2>3
  <2>4. CASE x # y
    <3>1. PICK rest \in SUBSET D : rest = (T \ {y}) \ {x} /\ rest = (T \ {x}) \ {y}
      BY <1>4
    <3>2. sums[T \ {y}] = Size[x] + sums[rest]
      BY <1>4, <2>4, <3>1
    <3>3. sums[T \ {x}] = Size[y] + sums[rest]
      BY <1>4, <2>4, <3>1
    <3>4. sums[rest] \in Nat
      BY SumsAreNumbers
    <3>5. Size[x] \in Nat /\ Size[y] \in Nat
      BY <1>1, <1>4
    <3>6. QED  BY <2>2, <3>2, <3>3, <3>4, <3>5
  <2>5. QED  BY <2>3, <2>4
<1>6. QED  BY <1>3, <1>5

\* What the budget needs of sums: an artifact more or less, and fewer artifacts.
LEMMA SizeOfProperties ==
  ASSUME WatchAssumption, NEW cids \in SUBSET Cid, IsFiniteSet(cids)
  PROVE  /\ SizeOf(cids) \in Nat
         /\ \A cid \in cids : SizeOf(cids) = Size[cid] + SizeOf(cids \ {cid})
         /\ \A some \in SUBSET cids : SizeOf(some) \in Nat /\ SizeOf(some) <= SizeOf(cids)
         /\ SizeOf({}) = 0
<1>1. PICK sums : /\ SizeOf(cids) = sums[cids]
                  /\ \A some \in SUBSET cids : sums[some] = SumStep(sums, some)
  BY SumUnrolls
<1>2. ASSUME NEW some \in SUBSET cids  PROVE SizeOf(some) = sums[some]
  <2>1. IsFiniteSet(some)
    BY FS_Subset
  <2>2. PICK others : /\ SizeOf(some) = others[some]
                      /\ \A less \in SUBSET some : others[less] = SumStep(others, less)
    BY <2>1, SumUnrolls
  <2>3. \A less \in SUBSET some : sums[less] = SumStep(sums, less)
    BY <1>1
  <2>4. others[some] = sums[some]
    BY <2>1, <2>2, <2>3, SumsAgree
  <2>5. QED  BY <2>2, <2>4
<1>3. \A some \in SUBSET cids :
        /\ sums[some] \in Nat
        /\ \A cid \in some : sums[some] = Size[cid] + sums[some \ {cid}]
  BY <1>1, SumsAreNumbers, SumExchanges
<1>4. \A some \in SUBSET cids : sums[some] <= sums[cids]
  <2> DEFINE B == {gone \in SUBSET cids : ~ (sums[cids \ gone] <= sums[cids])}
  <2>1. B = {}
    <3>1. SUFFICES ASSUME B # {}  PROVE FALSE
      OBVIOUS
    <3>2. PICK T \in B : \A x \in T : T \ {x} \notin B
      <4>1. B \in SUBSET SUBSET cids
        OBVIOUS
      <4> HIDE DEF B
      <4>2. QED  BY <3>1, <4>1, SmallestSet
    <3>3. T \in SUBSET cids /\ ~ (sums[cids \ T] <= sums[cids])
      OBVIOUS
    <3>4. CASE T = {}
      <4>1. cids \ T = cids /\ sums[cids] \in Nat
        BY <1>3, <3>4
      <4>2. \A n \in Nat : n <= n
        OBVIOUS
      <4>3. QED  BY <3>3, <4>1, <4>2
    <3>5. CASE T # {}
      <4>1. PICK x \in T : TRUE
        BY <3>5
      <4>2. sums[cids \ (T \ {x})] <= sums[cids]
        BY <3>2, <3>3
      <4>3. PICK some \in SUBSET cids : some = cids \ (T \ {x})
        OBVIOUS
      <4>4. x \in some /\ some \ {x} = cids \ T /\ x \in Cid
        BY <3>3, <4>1, <4>3
      <4>5. sums[some] = Size[x] + sums[cids \ T]
        BY <1>3, <4>4
      <4>6. Size[x] \in Nat
        BY <4>4 DEF WatchAssumption
      <4>7. sums[some] \in Nat /\ sums[cids \ T] \in Nat /\ sums[cids] \in Nat
        BY <1>3
      <4>8. QED  BY <3>3, <4>2, <4>3, <4>5, <4>6, <4>7
    <3>6. QED  BY <3>4, <3>5
  <2>2. SUFFICES ASSUME NEW some \in SUBSET cids  PROVE sums[some] <= sums[cids]
    OBVIOUS
  <2>3. cids \ some \in SUBSET cids /\ cids \ (cids \ some) = some
    OBVIOUS
  <2>4. QED  BY <2>1, <2>3
<1>5. SizeOf({}) = 0
  <2>1. SizeOf({}) = sums[{}]
    BY <1>2
  <2>2. QED  BY <1>1, <2>1 DEF SumStep
<1>6. QED
  BY <1>2, <1>3, <1>4, <1>5
-----------------------------------------------------------------------------
\* The budget.  A set of artifacts is within it.
Within(cids) ==
  Budget # NoBudget =>
    \/ SizeOf(cids) <= Budget
    \/ \E cid \in cids : /\ Hint[cid] # NoHint => Hint[cid] < Size[cid]
                         /\ RoomBeside(cids \ {cid}, cid)

\* What BudgetHolds needs of the rest: what the watcher fetched and still seeds
\* is in the store, and what it is fetching had room beside that, whoever took
\* artifacts out meanwhile.  Room is checked against the whole store, so it is
\* there for what the watcher put in it.
FetchHasRoom ==
  WatcherAt("fetch") =>
    /\ watcher.want \in Want
    /\ Budget # NoBudget => RoomBeside(watched, watcher.want.cid)

WatchInv ==
  /\ tags \in SUBSET Want /\ IsFiniteSet(tags)
  /\ watched \subseteq Seeded
  /\ "pc" \in DOMAIN watcher
  /\ FetchHasRoom
  /\ BudgetHolds

\* Beside fewer artifacts there is room too.
LEMMA RoomStays ==
  ASSUME WatchAssumption, Budget # NoBudget,
         NEW cids \in SUBSET Cid, IsFiniteSet(cids), NEW some \in SUBSET cids,
         NEW cid \in Cid, RoomBeside(cids, cid)
  PROVE  RoomBeside(some, cid)
<1>1. SizeOf(some) \in Nat /\ SizeOf(cids) \in Nat /\ SizeOf(some) <= SizeOf(cids)
  BY SizeOfProperties
<1>2. Budget \in Nat /\ (Hint[cid] # NoHint => Hint[cid] \in Nat)
  BY DEF WatchAssumption
<1>3. QED  BY <1>1, <1>2 DEF RoomBeside

\* Taking artifacts out keeps the rest within the budget.
LEMMA FewerWithin ==
  ASSUME WatchAssumption, NEW cids \in SUBSET Cid, IsFiniteSet(cids),
         NEW gone \in Cid, Within(cids)
  PROVE  Within(cids \ {gone})
<1>1. SUFFICES ASSUME Budget # NoBudget  PROVE Within(cids \ {gone})
  BY DEF Within
<1>2. Budget \in Nat
  BY <1>1 DEF WatchAssumption
<1>3. /\ SizeOf(cids) \in Nat
      /\ SizeOf(cids \ {gone}) \in Nat /\ SizeOf(cids \ {gone}) <= SizeOf(cids)
  <2>1. cids \ {gone} \in SUBSET cids
    OBVIOUS
  <2>2. QED  BY <2>1, SizeOfProperties
<1>4. CASE SizeOf(cids) <= Budget
  BY <1>2, <1>3, <1>4 DEF Within
<1>5. CASE ~ (SizeOf(cids) <= Budget)
  <2>1. PICK cid \in cids : /\ Hint[cid] # NoHint => Hint[cid] < Size[cid]
                            /\ RoomBeside(cids \ {cid}, cid)
    BY <1>1, <1>5 DEF Within
  <2>2. CASE cid = gone
    <3>1. SizeOf(cids \ {gone}) <= Budget
      <4>1. Hint[gone] # NoHint => Hint[gone] \in Nat
        BY DEF WatchAssumption
      <4>2. RoomBeside(cids \ {gone}, gone)
        BY <2>1, <2>2
      <4>3. QED  BY <1>2, <1>3, <4>1, <4>2 DEF RoomBeside
    <3>2. QED  BY <3>1 DEF Within
  <2>3. CASE cid # gone
    <3>1. /\ cids \ {cid} \in SUBSET Cid /\ IsFiniteSet(cids \ {cid})
          /\ (cids \ {gone}) \ {cid} \in SUBSET (cids \ {cid})
      BY FS_RemoveElement
    <3>2. RoomBeside((cids \ {gone}) \ {cid}, cid)
      BY <1>1, <2>1, <3>1, RoomStays
    <3>3. cid \in cids \ {gone}
      BY <2>3
    <3>4. QED  BY <2>1, <3>2, <3>3 DEF Within
  <2>4. QED  BY <2>2, <2>3
<1>6. QED  BY <1>4, <1>5

\* Adding one there was room for keeps the set within it, up to that one.
LEMMA OneMoreWithin ==
  ASSUME WatchAssumption, NEW cids \in SUBSET Cid, IsFiniteSet(cids), Within(cids),
         NEW cid \in Cid, Budget # NoBudget => RoomBeside(cids, cid)
  PROVE  Within(cids \cup {cid})
<1>1. CASE cid \in cids
  <2>1. cids \cup {cid} = cids
    BY <1>1
  <2>2. QED  BY <2>1
<1>2. CASE cid \notin cids
  <2>1. SUFFICES ASSUME Budget # NoBudget  PROVE Within(cids \cup {cid})
    BY DEF Within
  <2>2. (cids \cup {cid}) \ {cid} = cids
    BY <1>2
  <2>3. SizeOf(cids \cup {cid}) = Size[cid] + SizeOf(cids)
    <3>1. IsFiniteSet(cids \cup {cid}) /\ cids \cup {cid} \in SUBSET Cid
      BY FS_AddElement
    <3>2. QED  BY <2>2, <3>1, SizeOfProperties
  <2>4. RoomBeside((cids \cup {cid}) \ {cid}, cid)
    BY <2>1, <2>2
  <2>5. CASE Hint[cid] # NoHint /\ ~ (Hint[cid] < Size[cid])
    <3>1. /\ SizeOf(cids) \in Nat /\ Budget \in Nat /\ Size[cid] \in Nat
          /\ Hint[cid] \in Nat
      BY <2>1, <2>5, SizeOfProperties DEF WatchAssumption
    <3>2. SizeOf(cids) + Hint[cid] <= Budget
      BY <2>1, <2>5 DEF RoomBeside
    <3>3. SizeOf(cids \cup {cid}) <= Budget
      BY <2>3, <2>5, <3>1, <3>2
    <3>4. QED  BY <3>3 DEF Within
  <2>6. CASE ~ (Hint[cid] # NoHint /\ ~ (Hint[cid] < Size[cid]))
    BY <2>4, <2>6 DEF Within
  <2>7. QED  BY <2>5, <2>6
<1>3. QED  BY <1>1, <1>2

\* What is in the store is a finite set of artifacts.
LEMMA SeededIsFinite ==
  ASSUME WatchInv
  PROVE  /\ Seeded \in SUBSET Cid /\ IsFiniteSet(Seeded)
         /\ watched \in SUBSET Cid /\ IsFiniteSet(watched)
<1>1. Seeded \in SUBSET Cid
  BY DEF WatchInv, Seeded, Want
<1>2. IsFiniteSet(Seeded)
  <2> DEFINE T == {tag.cid : tag \in tags}
  <2>1. IsFiniteSet(tags)
    BY DEF WatchInv
  <2> DEFINE f == [tag \in tags |-> tag.cid]
  <2>2. f \in Surjection(tags, T)
    BY DEF Surjection
  <2> HIDE DEF f, T
  <2>3. IsFiniteSet(T)
    BY <2>1, <2>2, FS_Surjection
  <2>4. QED  BY <2>3 DEF Seeded, T
<1>3. watched \in SUBSET Seeded
  BY DEF WatchInv
<1>4. QED  BY <1>1, <1>2, <1>3, FS_Subset

\* A step of the watcher, after which it is fetching nothing.
LEMMA NotFetchingKeeps ==
  ASSUME WatchInv, UNCHANGED <<tags, watched>>, "pc" \in DOMAIN watcher', watcher'.pc # "fetch"
  PROVE  WatchInv'
BY DEF WatchInv, FetchHasRoom, WatcherAt, Seeded, BudgetHolds

\* A step of peers, which leaves the watcher and the store alone.
LEMMA WorldKeeps ==
  ASSUME WatchInv, UNCHANGED <<tags, watched, watcher>>
  PROVE  WatchInv'
BY DEF WatchInv, FetchHasRoom, WatcherAt, Seeded, BudgetHolds

LEMMA UserKeeps ==
  ASSUME WatchAssumption, WatchInv,
         \/ \E want \in Want : Seed(want)
         \/ \E cid \in Cid : Unseed(cid)
  PROVE  WatchInv'
<1>1. ASSUME NEW want \in Want, Seed(want)  PROVE WatchInv'
  <2>1. UNCHANGED <<watched, watcher>> /\ tags' = tags \cup {want}
    BY <1>1 DEF Seed
  <2>2. tags' \in SUBSET Want /\ IsFiniteSet(tags')
    BY <2>1, FS_AddElement DEF WatchInv
  <2>3. watched' \subseteq Seeded'
    BY <2>1 DEF WatchInv, Seeded
  <2>4. QED  BY <2>1, <2>2, <2>3 DEF WatchInv, FetchHasRoom, WatcherAt, BudgetHolds
<1>2. ASSUME NEW gone \in Cid, Unseed(gone)  PROVE WatchInv'
  <2>1. /\ watched' = watched \ {gone} /\ UNCHANGED watcher
        /\ tags' = {tag \in tags : tag.cid # gone}
    BY <1>2 DEF Unseed
  <2>2. tags' \in SUBSET Want /\ IsFiniteSet(tags')
    <3>1. tags' \in SUBSET tags
      BY <2>1
    <3>2. QED  BY <3>1, FS_Subset DEF WatchInv
  <2>3. watched' \subseteq Seeded'
    BY <2>1 DEF WatchInv, Seeded
  <2>4. watched \in SUBSET Cid /\ IsFiniteSet(watched)
    BY SeededIsFinite
  <2>5. BudgetHolds'
    <3>1. Within(watched)
      BY DEF WatchInv, BudgetHolds, Within
    <3>2. Within(watched \ {gone})
      BY <2>4, <3>1, FewerWithin
    <3>3. Within(watched')
      BY <2>1, <3>2
    <3>4. QED  BY <3>3 DEF BudgetHolds, Within
  <2>6. FetchHasRoom'
    <3>1. SUFFICES ASSUME WatcherAt("fetch")
                   PROVE  /\ watcher.want \in Want
                          /\ Budget # NoBudget => RoomBeside(watched', watcher.want.cid)
      BY <2>1 DEF FetchHasRoom, WatcherAt
    <3>2. watcher.want \in Want /\ watcher.want.cid \in Cid
      BY <3>1 DEF WatchInv, FetchHasRoom, Want
    <3>3. ASSUME Budget # NoBudget  PROVE RoomBeside(watched', watcher.want.cid)
      <4>1. RoomBeside(watched, watcher.want.cid)
        BY <3>1, <3>3 DEF WatchInv, FetchHasRoom
      <4>2. watched' \in SUBSET watched
        BY <2>1
      <4>3. QED  BY <2>4, <3>2, <3>3, <4>1, <4>2, RoomStays
    <3>4. QED  BY <3>2, <3>3
  <2>7. QED  BY <2>1, <2>2, <2>3, <2>5, <2>6 DEF WatchInv
<1>3. QED  BY <1>1, <1>2

\* The watcher begins what fits beside everything in the store.
LEMMA BeginKeeps ==
  ASSUME WatchAssumption, WatchInv, NEW want \in Want, Begin(want)
  PROVE  WatchInv'
<1>1. UNCHANGED <<tags, watched>> /\ Fits(Hint[want.cid]) /\ watcher' = Fetching(want)
  BY DEF Begin
<1>2. "pc" \in DOMAIN watcher' /\ watcher'.want = want
  BY <1>1 DEF Fetching
<1>3. ASSUME Budget # NoBudget  PROVE RoomBeside(watched, want.cid)
  <2>1. RoomBeside(Seeded, want.cid)
    BY <1>1, <1>3 DEF Fits, Bytes, RoomBeside
  <2>2. watched \in SUBSET Seeded
    BY DEF WatchInv
  <2>3. want.cid \in Cid
    BY DEF Want
  <2>4. QED  BY <1>3, <2>1, <2>2, <2>3, SeededIsFinite, RoomStays
<1>4. FetchHasRoom'
  <2>1. Budget # NoBudget => RoomBeside(watched', watcher'.want.cid)
    BY <1>1, <1>2, <1>3
  <2>2. QED  BY <1>2, <2>1 DEF FetchHasRoom
<1>5. QED  BY <1>1, <1>2, <1>4 DEF WatchInv, Seeded, BudgetHolds

\* What it fetched, there had been room for.
LEMMA FetchedKeeps ==
  ASSUME WatchAssumption, WatchInv, NEW want \in Want, NEW heard \in BOOLEAN, Fetched(want, heard)
  PROVE  WatchInv'
<1>1. /\ WatcherAt("fetch") /\ want = watcher.want
      /\ tags' = tags \cup {want} /\ watched' = watched \cup {want.cid}
      /\ watcher' = [watcher EXCEPT !.pc = IF heard THEN "locate" ELSE "pass"]
  BY DEF Fetched
<1>2. "pc" \in DOMAIN watcher' /\ watcher'.pc # "fetch"
  BY <1>1 DEF WatchInv
<1>3. tags' \in SUBSET Want /\ IsFiniteSet(tags') /\ watched' \subseteq Seeded'
  BY <1>1, FS_AddElement DEF WatchInv, Seeded
<1>4. BudgetHolds'
  <2>1. Within(watched) /\ want.cid \in Cid
    BY DEF WatchInv, BudgetHolds, Within, Want
  <2>2. Budget # NoBudget => RoomBeside(watched, want.cid)
    BY <1>1 DEF WatchInv, FetchHasRoom
  <2>3. Within(watched \cup {want.cid})
    BY <2>1, <2>2, SeededIsFinite, OneMoreWithin
  <2>4. Within(watched')
    BY <1>1, <2>3
  <2>5. QED  BY <2>4 DEF BudgetHolds, Within
<1>5. QED  BY <1>2, <1>3, <1>4 DEF WatchInv, FetchHasRoom, WatcherAt

LEMMA WatchNextKeeps ==
  ASSUME WatchAssumption, WatchInv, WatchNext
  PROVE  WatchInv'
<1> USE DEF Idle, Down, Pass, Nothing, Flushing, AfterFlush, WatcherAt
<1>1. ASSUME NEW release \in Release, NEW cid \in Cid,
             \/ \E as \in {"trusted", "stranger"} : Publish(release, cid, as)
             \/ Withdraw(release, cid)
      PROVE  WatchInv'
  BY <1>1, WorldKeeps DEF Publish, Withdraw
<1>2. ASSUME NEW release \in Release, NEW cid \in Cid,
             Seed([release |-> release, cid |-> cid])
      PROVE  WatchInv'
  BY <1>2, UserKeeps DEF Want
<1>3. ASSUME NEW cid \in Cid, Provide(cid) \/ Unseed(cid)  PROVE WatchInv'
  <2>1. CASE Provide(cid)
    BY <2>1, WorldKeeps DEF Provide
  <2>2. CASE Unseed(cid)
    BY <2>2, UserKeeps
  <2>3. QED  BY <1>3, <2>1, <2>2
<1>4. ASSUME NEW sweep \in BOOLEAN, StartPass(sweep)  PROVE WatchInv'
  BY <1>4, NotFetchingKeeps DEF StartPass
<1>5. ASSUME Work  PROVE WatchInv'
  <2>1. CASE ListSeeded
    <3>1. "pc" \in DOMAIN watcher' /\ watcher'.pc = "pass"
      BY <2>1 DEF ListSeeded
    <3>2. QED  BY <2>1, <3>1, NotFetchingKeeps DEF ListSeeded
  <2>2. CASE ListFails
    BY <2>2, NotFetchingKeeps DEF ListFails
  <2>3. ASSUME NEW want \in Want, Begin(want)  PROVE WatchInv'
    BY <2>3, BeginKeeps
  <2>4. ASSUME NEW want \in Want, Skip(want)  PROVE WatchInv'
    <3>1. "pc" \in DOMAIN watcher' /\ watcher'.pc = "pass"
      BY <2>4 DEF Skip, Foremost, WatchInv
    <3>2. QED  BY <2>4, <3>1, NotFetchingKeeps DEF Skip
  <2>5. ASSUME NEW want \in Want, NEW heard \in BOOLEAN, Fetched(want, heard)  PROVE WatchInv'
    BY <2>5, FetchedKeeps
  <2>6. CASE FetchFails \/ AddSeedLocation \/ LocationFails
    <3>1. "pc" \in DOMAIN watcher' /\ watcher'.pc = "pass"
      BY <2>6 DEF FetchFails, AddSeedLocation, LocationFails, WatchInv
    <3>2. QED  BY <2>6, <3>1, NotFetchingKeeps DEF FetchFails, AddSeedLocation, LocationFails
  <2>7. CASE EndPass
    BY <2>7, NotFetchingKeeps DEF EndPass
  <2>8. CASE Announce \/ AnnounceFails
    BY <2>8, NotFetchingKeeps DEF Announce, AnnounceFails
  <2>9. CASE Restart
    BY <2>9, NotFetchingKeeps DEF Restart
  <2>10. QED  BY <1>5, <2>1, <2>2, <2>3, <2>4, <2>5, <2>6, <2>7, <2>8, <2>9 DEF Work
<1>6. ASSUME Crash  PROVE WatchInv'
  BY <1>6, NotFetchingKeeps DEF Crash
<1>7. QED  BY <1>1, <1>2, <1>3, <1>4, <1>5, <1>6 DEF WatchNext

\* What the watcher put into the store stays within the budget, but for one
\* artifact that has no size hint or one that understates its size: whatever
\* the sizes, hints and budget, however often it is killed, and whatever the
\* user seeds and unseeds meanwhile.
THEOREM WatchKeepsBudget == WatchSpec => []BudgetHolds
<1>1. WatchInit => WatchInv
  <2>1. SUFFICES ASSUME WatchInit  PROVE WatchInv
    OBVIOUS
  <2>2. tags = {} /\ watched = {} /\ watcher = Idle
    BY <2>1 DEF WatchInit
  <2>3. BudgetHolds
    <3>1. SUFFICES ASSUME Budget # NoBudget  PROVE SizeOf({}) <= Budget
      BY <2>2 DEF BudgetHolds
    <3>2. SizeOf({}) = 0
      BY WatchAssumption, FS_EmptySet, SizeOfProperties
    <3>3. Budget \in Nat
      BY <3>1, WatchAssumption DEF WatchAssumption
    <3>4. QED  BY <3>2, <3>3
  <2>4. QED
    BY <2>2, <2>3, FS_EmptySet DEF WatchInv, Idle, FetchHasRoom, WatcherAt, Seeded
<1>2. WatchInv /\ [WatchNext]_watchVars => WatchInv'
  <2>1. SUFFICES ASSUME WatchInv, [WatchNext]_watchVars  PROVE WatchInv'
    OBVIOUS
  <2>2. CASE WatchNext
    BY <2>1, <2>2, WatchAssumption, WatchNextKeeps
  <2>3. CASE UNCHANGED watchVars
    BY <2>1, <2>3, WorldKeeps DEF watchVars
  <2>4. QED  BY <2>1, <2>2, <2>3
<1>3. WatchInv => BudgetHolds
  BY DEF WatchInv
<1>4. QED  BY <1>1, <1>2, <1>3, PTL DEF WatchSpec
===============================================================================
