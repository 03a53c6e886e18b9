----------------------------- MODULE PhoneService -----------------------------
(***************************************************************************)
(* The phone's side around the worker core: the foreground service          *)
(* (PhoneBoostService.kt), its transport with an accept thread and two      *)
(* stream threads (LocalIpTransport.kt), and the native registry of         *)
(* sessions and slot of the worker (core-jni).                              *)
(*                                                                         *)
(* A service starts at most one transport object at a time and every start  *)
(* makes a new one.  The main thread and the callback of the registration   *)
(* stop it under its monitor; everything else runs beside them.             *)
(***************************************************************************)
EXTENDS Integers, Sequences, FiniteSets, SequencesExt

CONSTANTS
  Conns,        \* connections of hosts
  Streams,      \* the stream threads of a transport
  MaxObjects,   \* bound on transport objects
  MaxServices,  \* bound on creations of the service
  MaxLate,      \* bound on joins that time out
  MaxKills,     \* bound on killed processes
  Debuggable    \* a debug build looks at the first two bytes

PhoneConstants ==
  /\ {MaxObjects, MaxServices, MaxLate, MaxKills} \subseteq Nat
  /\ Debuggable \in BOOLEAN
  /\ IsFiniteSet(Streams)

MAX_ACTIVE_STREAMS == Cardinality(Streams)   \* 2 in the code
PENDING_STREAMS == 2

Objects == 1..MaxObjects

VARIABLES
  svc,     \* [on, number, ready, transport, leaving]: the service and the main thread
  worker,  \* the slot: the service that started the worker in it, or 0
  native,  \* SecureTransportSessions: [accepting, sockets]
  tr,      \* of each transport object: [service, running, open, state, terminal, pending, active]
  acc,     \* its accept thread: [pc, conn]
  str,     \* its stream threads: [pc, conn, shown]
  stop,    \* stopInternal: [by, pc, t]
  conn,    \* of each connection: [at, of, shut, served]
  made,    \* transport objects made
  faults   \* [late, kills]: faults so far

vars == <<svc, worker, native, tr, acc, str, stop, conn, made, faults>>

NoTransport == [service |-> 0, running |-> FALSE, open |-> FALSE, state |-> "UNAVAILABLE",
                terminal |-> "UNAVAILABLE", pending |-> <<>>, active |-> {}]
NoThread == [pc |-> "none", conn |-> {}]
NoStream == [pc |-> "none", conn |-> {}, shown |-> "none"]
NotStopping == [by |-> "nobody", pc |-> "idle", t |-> 0]
Away == [at |-> "away", of |-> 0, shut |-> FALSE, served |-> {}]

Init ==
  /\ svc = [on |-> FALSE, number |-> 0, ready |-> FALSE, transport |-> 0, leaving |-> FALSE]
  /\ worker = 0
  /\ native = [accepting |-> FALSE, sockets |-> {}]
  /\ tr = [t \in Objects |-> NoTransport]
  /\ acc = [t \in Objects |-> NoThread]
  /\ str = [t \in Objects |-> [s \in Streams |-> NoStream]]
  /\ stop = NotStopping
  /\ conn = [x \in Conns |-> Away]
  /\ made = 0 /\ faults = [late |-> 0, kills |-> 0]

\* of a set of connections, what closing their sockets makes of them
Closed(X) == [x \in Conns |-> IF x \in X THEN [conn[x] EXCEPT !.at = "closed"] ELSE conn[x]]

ThreadsOver(t) ==
  acc[t].pc \in {"none", "ended"} /\ \A s \in Streams : str[t][s].pc \in {"none", "ended"}

-----------------------------------------------------------------------------
(* The main thread: the service.                                             *)

\* start_secure_transport
MayStart == native.sockets = {}

\* LocalIpTransport.start of a new object: its threads run, or it is dropped again
StartTransport(number) ==
  \/ /\ made < MaxObjects /\ MayStart
     /\ made' = made + 1
     /\ native' = [native EXCEPT !.accepting = TRUE]
     /\ tr' = [tr EXCEPT ![made + 1] = [NoTransport EXCEPT !.service = number, !.running = TRUE, !.open = TRUE,
                                                           !.state = "LISTENING"]]
     /\ acc' = [acc EXCEPT ![made + 1].pc = "accept"]
     /\ str' = [str EXCEPT ![made + 1] = [s \in Streams |-> [NoStream EXCEPT !.pc = "poll"]]]
     /\ svc' = [svc EXCEPT !.on = TRUE, !.number = number, !.ready = TRUE, !.transport = made + 1]
  \/ /\ svc' = [svc EXCEPT !.on = TRUE, !.number = number, !.ready = TRUE]   \* no LAN, no port, or refused
     /\ UNCHANGED <<native, tr, acc, str, made>>
  \/ /\ MayStart                                                             \* the registration throws
     /\ native' = [native EXCEPT !.accepting = FALSE]
     /\ svc' = [svc EXCEPT !.on = TRUE, !.number = number, !.ready = TRUE]
     /\ UNCHANGED <<tr, acc, str, made>>

\* start_worker: one that is there stays
StartWorker(number) == worker' = IF worker = 0 THEN number ELSE worker

OnCreate ==
  /\ ~svc.on /\ ~svc.leaving /\ svc.number < MaxServices
  /\ \/ StartWorker(svc.number + 1) /\ StartTransport(svc.number + 1)
     \/ /\ StartWorker(svc.number + 1) \/ UNCHANGED worker     \* no secure state, or no worker
        /\ svc' = [svc EXCEPT !.on = TRUE, !.number = @ + 1, !.ready = FALSE]
        /\ UNCHANGED <<native, tr, acc, str, made>>
  /\ UNCHANGED <<stop, conn, faults>>

\* the guard of onStartCommand
NeedsTransport == svc.ready /\ svc.transport = 0

OnStartCommand ==
  /\ svc.on /\ NeedsTransport
  /\ StartTransport(svc.number)
  /\ UNCHANGED <<worker, stop, conn, faults>>

\* onDestroy begins; with a transport it goes on once it has its monitor
OnDestroy ==
  /\ svc.on
  /\ svc' = [svc EXCEPT !.on = FALSE, !.leaving = TRUE]
  /\ UNCHANGED <<worker, native, tr, acc, str, stop, conn, made, faults>>

DestroyStops ==
  /\ svc.leaving /\ svc.transport # 0 /\ stop = NotStopping
  /\ stop' = [by |-> "main", pc |-> "flags", t |-> svc.transport]
  /\ UNCHANGED <<svc, worker, native, tr, acc, str, conn, made, faults>>

\* stop_worker, last
WorkerAfter == 0

DestroyEnds ==
  /\ svc.leaving /\ svc.transport = 0
  /\ worker' = WorkerAfter
  /\ svc' = [svc EXCEPT !.leaving = FALSE, !.ready = FALSE]
  /\ UNCHANGED <<native, tr, acc, str, stop, conn, made, faults>>

\* onRegistrationFailed, discoveryRegistrationFailed
DiscoveryFails ==
  /\ svc.transport # 0 /\ stop = NotStopping /\ tr[svc.transport].running
  /\ stop' = [by |-> "discovery", pc |-> "flags", t |-> svc.transport]
  /\ UNCHANGED <<svc, worker, native, tr, acc, str, conn, made, faults>>

\* Android reclaims the process
Killed ==
  /\ faults.kills < MaxKills /\ faults' = [faults EXCEPT !.kills = @ + 1]
  /\ svc' = [svc EXCEPT !.on = FALSE, !.ready = FALSE, !.transport = 0, !.leaving = FALSE]
  /\ worker' = 0
  /\ native' = [accepting |-> FALSE, sockets |-> {}]
  /\ tr' = [t \in Objects |-> [NoTransport EXCEPT !.service = tr[t].service]]
  /\ acc' = [t \in Objects |-> NoThread]
  /\ str' = [t \in Objects |-> [s \in Streams |-> NoStream]]
  /\ stop' = NotStopping
  /\ conn' = Closed({x \in Conns : conn[x].at # "away"})
  /\ UNCHANGED made

-----------------------------------------------------------------------------
(* stopInternal, under the monitor.                                          *)

Stops(pc, next) == stop.pc = pc /\ stop' = [stop EXCEPT !.pc = next]

Reason == IF stop.by = "main" THEN "UNAVAILABLE" ELSE "DISCOVERY_UNAVAILABLE"

StopFlags ==
  /\ Stops("flags", "native")
  /\ tr' = [tr EXCEPT ![stop.t].running = FALSE, ![stop.t].terminal = Reason]
  /\ UNCHANGED <<svc, worker, native, acc, str, conn, made, faults>>

\* the registry once it is stopped
AfterStop == [native EXCEPT !.accepting = FALSE]

\* stop_secure_transport: every registered socket is shut down
StopNative ==
  /\ Stops("native", "server")
  /\ native' = AfterStop
  /\ conn' = [x \in Conns |-> IF x \in native.sockets THEN [conn[x] EXCEPT !.shut = TRUE] ELSE conn[x]]
  /\ UNCHANGED <<svc, worker, tr, acc, str, made, faults>>

\* the listener, and what nobody has accepted from it
StopServer ==
  /\ Stops("server", "drain")
  /\ tr' = [tr EXCEPT ![stop.t].open = FALSE]
  /\ conn' = Closed({x \in Conns : conn[x].at = "backlog" /\ conn[x].of = stop.t})
  /\ UNCHANGED <<svc, worker, native, acc, str, made, faults>>

\* (mutant) the queue is left to the threads
Drained_Not(t) == {}

\* the queued sockets, which are closed
Drained(t) == ToSet(tr[t].pending)

StopDrains ==
  /\ Stops("drain", "clear")
  /\ conn' = Closed(Drained(stop.t))
  /\ tr' = [tr EXCEPT ![stop.t].pending = SelectSeq(@, LAMBDA x : x \notin Drained(stop.t))]
  /\ UNCHANGED <<svc, worker, native, acc, str, made, faults>>

\* the active sockets are closed - a session has a descriptor of its own - and the threads interrupted
StopClears ==
  /\ Stops("clear", "join")
  /\ conn' = Closed({x \in tr[stop.t].active : conn[x].at = "open"})
  /\ tr' = [tr EXCEPT ![stop.t].active = {}]
  /\ UNCHANGED <<svc, worker, native, acc, str, made, faults>>

Joined(t) == ThreadsOver(t)

\* SESSION_JOIN_TIMEOUT_MS, for all threads together, has passed
TimesOut == faults.late < MaxLate

StopJoins ==
  /\ Stops("join", "finish")
  /\ \/ Joined(stop.t) /\ UNCHANGED faults
     \/ ~Joined(stop.t) /\ TimesOut /\ faults' = [faults EXCEPT !.late = @ + 1]
  /\ UNCHANGED <<svc, worker, native, tr, acc, str, conn, made>>

StopShows(t) == IF Joined(t) THEN Reason ELSE "LOST"

\* the state that is shown; a service that is being destroyed drops the object
StopEnds ==
  /\ stop.pc = "finish" /\ stop' = NotStopping
  /\ tr' = [tr EXCEPT ![stop.t].state = StopShows(stop.t),
                      ![stop.t].terminal = IF Joined(stop.t) THEN @ ELSE "LOST"]
  /\ svc' = IF stop.by = "main" THEN [svc EXCEPT !.transport = 0] ELSE svc
  /\ UNCHANGED <<worker, native, acc, str, conn, made, faults>>

-----------------------------------------------------------------------------
(* The accept thread.                                                        *)

\* a host connects
Connect(x) ==
  /\ conn[x].at = "away"
  /\ \E t \in Objects : tr[t].open /\ conn' = [conn EXCEPT ![x].at = "backlog", ![x].of = t]
  /\ UNCHANGED <<svc, worker, native, tr, acc, str, stop, made, faults>>

Accept(t) ==
  /\ acc[t].pc = "accept"
  /\ \/ \E x \in Conns : /\ conn[x].at = "backlog" /\ conn[x].of = t
                         /\ conn' = [conn EXCEPT ![x].at = "open"]
                         /\ acc' = [acc EXCEPT ![t] = [pc |-> "offer", conn |-> {x}]]
     \/ ~tr[t].open /\ acc' = [acc EXCEPT ![t].pc = "ended"] /\ UNCHANGED conn
  /\ UNCHANGED <<svc, worker, native, tr, str, stop, made, faults>>

Room(t) == Len(tr[t].pending) < PENDING_STREAMS

\* the bounded queue, or a closed socket; then the condition of the loop
Offer(t) ==
  /\ acc[t].pc = "offer"
  /\ IF Room(t)
     THEN tr' = [tr EXCEPT ![t].pending = @ \o SetToSeq(acc[t].conn)] /\ UNCHANGED conn
     ELSE conn' = Closed(acc[t].conn) /\ UNCHANGED tr
  /\ acc' = [acc EXCEPT ![t] = [pc |-> IF tr[t].running THEN "accept" ELSE "ended", conn |-> {}]]
  /\ UNCHANGED <<svc, worker, native, str, stop, made, faults>>

-----------------------------------------------------------------------------
(* A stream thread.  Its connection is the only member of str[t][s].conn.    *)

Goes(t, s, pc) == str' = [str EXCEPT ![t][s].pc = pc]

Of(t, s, x) == str[t][s].conn = {x}

\* pending.poll: a socket, or nothing in half a second or an interrupt, and the condition of the loop
Poll(t, s) ==
  /\ str[t][s].pc = "poll"
  /\ \/ /\ tr[t].pending # <<>>
        /\ str' = [str EXCEPT ![t][s].pc = "add", ![t][s].conn = {Head(tr[t].pending)}]
        /\ tr' = [tr EXCEPT ![t].pending = Tail(@)]
     \/ ~tr[t].running /\ Goes(t, s, "ended") /\ UNCHANGED tr
  /\ UNCHANGED <<svc, worker, native, acc, stop, conn, made, faults>>

Add(t, s) ==
  /\ str[t][s].pc = "add"
  /\ tr' = [tr EXCEPT ![t].active = @ \cup str[t][s].conn, ![t].state = "CONNECTED"]
  /\ Goes(t, s, IF Debuggable THEN "probe" ELSE "detach")
  /\ UNCHANGED <<svc, worker, native, acc, stop, conn, made, faults>>

\* a debug build waits for two bytes: a probe it answers itself, or the beginning of a session
ProbeRead(t, s) ==
  /\ str[t][s].pc = "probe"
  /\ \E x \in Conns : Of(t, s, x) /\ conn[x].at = "open"
  /\ \E pc \in {"detach", "finally"} : Goes(t, s, pc)
  /\ UNCHANGED <<svc, worker, native, tr, acc, stop, conn, made, faults>>

\* ... or its own socket is closed under it
ProbeBroken(t, s) ==
  /\ str[t][s].pc = "probe"
  /\ \E x \in Conns : Of(t, s, x) /\ conn[x].at = "closed"
  /\ Goes(t, s, "finally")
  /\ UNCHANGED <<svc, worker, native, tr, acc, stop, conn, made, faults>>

\* runSecureSession: a descriptor of its own
Detach(t, s) ==
  /\ str[t][s].pc = "detach"
  /\ \E x \in Conns :
       /\ Of(t, s, x)
       /\ IF conn[x].at = "open"
          THEN conn' = [conn EXCEPT ![x].at = "native"] /\ Goes(t, s, "register")
          ELSE UNCHANGED conn /\ Goes(t, s, "finally")
  /\ UNCHANGED <<svc, worker, native, tr, acc, stop, made, faults>>

\* register_secure_transport: refused once a stop has begun, or when the socket cannot be
\* duplicated
Register(t, s) ==
  /\ str[t][s].pc = "register"
  /\ \/ /\ native.accepting
        /\ native' = [native EXCEPT !.sockets = @ \cup str[t][s].conn]
        /\ Goes(t, s, "session") /\ UNCHANGED conn
     \/ Goes(t, s, "finally") /\ conn' = Closed(str[t][s].conn) /\ UNCHANGED native
  /\ UNCHANGED <<svc, worker, tr, acc, stop, made, faults>>

\* a request is read from the session
Request(t, s) ==
  /\ str[t][s].pc = "session"
  /\ \E x \in Conns : Of(t, s, x) /\ ~conn[x].shut
  /\ Goes(t, s, "apply")
  /\ UNCHANGED <<svc, worker, native, tr, acc, stop, conn, made, faults>>

\* with_worker: the worker that is in the slot now, or the end of the session
Apply(t, s) ==
  /\ str[t][s].pc = "apply"
  /\ IF worker = 0 THEN Goes(t, s, "over") /\ UNCHANGED conn
     ELSE /\ Goes(t, s, "session")
          /\ conn' = [x \in Conns |-> IF Of(t, s, x) THEN [conn[x] EXCEPT !.served = @ \cup {worker}] ELSE conn[x]]
  /\ UNCHANGED <<svc, worker, native, tr, acc, stop, made, faults>>

\* the session breaks or ends; authenticated_session_ended tells the worker, if there is one
SessionOver(t, s) ==
  /\ str[t][s].pc = "session"
  /\ Goes(t, s, "over")
  /\ UNCHANGED <<svc, worker, native, tr, acc, stop, conn, made, faults>>

\* SecureTransportRegistration::drop
Unregister(t, s) ==
  /\ str[t][s].pc = "over"
  /\ native' = [native EXCEPT !.sockets = @ \ str[t][s].conn]
  /\ conn' = Closed(str[t][s].conn)
  /\ Goes(t, s, "finally")
  /\ UNCHANGED <<svc, worker, tr, acc, stop, made, faults>>

\* the finally block, up to the state to show
Finally(t, s) ==
  /\ str[t][s].pc = "finally"
  /\ LET left == tr[t].active \ str[t][s].conn
     IN  /\ tr' = [tr EXCEPT ![t].active = left]
         /\ str' = [str EXCEPT ![t][s].pc = "show",
                               ![t][s].shown = IF ~tr[t].running THEN tr[t].terminal
                                               ELSE IF left # {} THEN "CONNECTED" ELSE "LISTENING"]
  /\ conn' = Closed(str[t][s].conn)
  /\ UNCHANGED <<svc, worker, native, acc, stop, made, faults>>

Show(t, s) ==
  /\ str[t][s].pc = "show"
  /\ tr' = [tr EXCEPT ![t].state = str[t][s].shown]
  /\ str' = [str EXCEPT ![t][s] = [NoStream EXCEPT !.pc = IF tr[t].running THEN "poll" ELSE "ended"]]
  /\ UNCHANGED <<svc, worker, native, acc, stop, conn, made, faults>>

-----------------------------------------------------------------------------
StopSteps ==
  StopFlags \/ StopNative \/ StopServer \/ StopDrains \/ StopClears \/ StopJoins \/ StopEnds

\* what a thread does without its peer; a session that was shut down is over
Alone(t, s) ==
  \/ Poll(t, s) \/ Add(t, s) \/ ProbeBroken(t, s) \/ Detach(t, s) \/ Register(t, s)
  \/ Apply(t, s) \/ Unregister(t, s) \/ Finally(t, s) \/ Show(t, s)
  \/ SessionOver(t, s) /\ \E x \in Conns : Of(t, s, x) /\ conn[x].shut

Next ==
  \/ OnCreate \/ OnStartCommand \/ OnDestroy \/ DestroyStops \/ DestroyEnds
  \/ DiscoveryFails \/ Killed \/ StopSteps
  \/ \E x \in Conns : Connect(x)
  \/ \E t \in Objects :
       \/ Accept(t) \/ Offer(t)
       \/ \E s \in Streams : Alone(t, s) \/ ProbeRead(t, s) \/ Request(t, s) \/ SessionOver(t, s)

Spec == Init /\ [][Next]_vars

\* threads are scheduled, and what a peer may hold up is not assumed to go on
Fairness ==
  /\ WF_vars(DestroyStops) /\ WF_vars(DestroyEnds) /\ WF_vars(StopSteps)
  /\ \A t \in Objects : /\ WF_vars(Accept(t)) /\ WF_vars(Offer(t))
                         /\ \A s \in Streams : WF_vars(Alone(t, s))

-----------------------------------------------------------------------------
\* no stop ran into its deadline
Joinless == \A t \in Objects : tr[t].terminal # "LOST"

\* A transport that was stopped and is not called LOST has come to rest: no
\* thread of it runs and no session of it is registered (stopInternal, with the
\* threads still at work while it goes on).
StoppedIsQuiet ==
  \A t \in Objects :
    tr[t].service # 0 /\ ~tr[t].running /\ tr[t].terminal # "LOST" /\ stop.t # t =>
      ThreadsOver(t) /\ \A x \in native.sockets : conn[x].of # t

\* A request is only ever applied to the worker of the service its session was
\* accepted by: the worker is stopped after the transport and a new one is not
\* served by old sessions, while every stop came to its end (onDestroy).
ServedByItsOwn ==
  Joinless => \A x \in Conns : \A w \in conn[x].served : w = tr[conn[x].of].service

\* When a stop is over, at most the one connection the accept thread held
\* through it is left open (the drained queue, the closed streams).
StopLeavesAtMostOne ==
  \A t \in Objects :
    tr[t].service # 0 /\ ~tr[t].running /\ ThreadsOver(t) /\ stop.t # t =>
      Cardinality({x \in Conns : conn[x].of = t /\ conn[x].at \in {"backlog", "open", "native"}}) <= 1

\* The destruction of the service returns, whatever hosts do.
DestroyReturns == svc.leaving ~> ~svc.leaving

\* Once a stop came to its end and its threads to theirs, the state that is
\* shown is the one the stop gave, whatever a thread wrote in between.
ShownAtRest ==
  \A t \in Objects :
    tr[t].service # 0 /\ ~tr[t].running /\ tr[t].terminal # "LOST" /\ stop.t # t => tr[t].state = tr[t].terminal
=============================================================================
