--------------------------- MODULE SessionChannel ---------------------------
(***************************************************************************)
(* The request channel of the host over one authenticated session:         *)
(* InitiatorSessionClient (any number of host threads), the bounded queue,  *)
(* InitiatorSessionDriver with the initiator's half of the authenticated    *)
(* loop, two byte streams that keep order and may break, and the            *)
(* responder's half of the loop on the phone.                               *)
(*                                                                         *)
(* A channel serves one session: the driver is moved into                   *)
(* run_initiator_session_with_client and dropped when it returns.           *)
(* Payloads are left out; a request is its id and its kind.  Request ids    *)
(* are 64 random bits in the code and pairwise distinct here.  Durations    *)
(* are left out as well: a deadline may fire whenever the code would be     *)
(* looking at the clock.                                                    *)
(***************************************************************************)
EXTENDS Integers, Sequences, FiniteSets

CONSTANTS Clients,        \* host threads that share the client
          Kinds,          \* request kinds; "Malformed" is one that cannot be built
          QueueCapacity,  \* INITIATOR_QUEUE_CAPACITY
          MaxRequests,    \* bound: requests ever made
          MaxPings,       \* bound: keep-alive pings of the host
          MaxBeats,       \* bound: health heartbeats of the phone
          None

ASSUME ChannelAssumption ==
  /\ QueueCapacity \in Nat \ {0}
  /\ {MaxRequests, MaxPings, MaxBeats} \subseteq Nat
  /\ {"free", "canceller"} \cap Clients = {}

VARIABLES client,     \* Clients -> [pc, req]
          admission,  \* the admission mutex: a client, "canceller" or "free"
          shared,     \* InitiatorState and the cancel flag
          waiter,     \* what the thread in wait_authenticated has been told
          queue,      \* the sync_channel between clients and driver
          driver,     \* locals of the host's authenticated loop
          worker,     \* locals of the phone's authenticated loop
          up,         \* the TCP connection
          toWorker, toHost,
          answer,     \* what request_with_id returns, per request
          handled,    \* how often the phone's handler ran, per request
          used        \* requests made so far

vars == <<client, admission, shared, waiter, queue, driver, worker, up,
          toWorker, toHost, answer, handled, used>>

Ids == 1..MaxRequests
Requests == [id: Ids, kind: Kinds]
Idle == [pc |-> "idle", req |-> None]
NotExecuted == {"NotAuthenticated", "Busy", "SessionLost", "InvalidRequest"}
Unknown == {"UnknownAfterDisconnect", "Timeout"}

\* None is no answer, no kind, no number and no request
ASSUME NoneAssumption ==
  None \notin {"Ok", "RemoteBuffer", "Compute"} \cup NotExecuted \cup Unknown \cup Nat \cup Requests

Init ==
  /\ client = [c \in Clients |-> Idle]
  /\ admission = "free"
  /\ shared = [authenticated |-> FALSE, heartbeat |-> FALSE,
               cancel |-> FALSE, closed |-> FALSE]
  /\ waiter = "waiting"
  /\ queue = <<>>
  /\ driver = [pc |-> "handshake", ping |-> None, app |-> None, sent |-> 0,
               expected |-> 0, pings |-> 0]
  /\ worker = [pc |-> "handshake", job |-> None, sent |-> 0, expected |-> 0,
               beats |-> 0]
  /\ up = TRUE
  /\ toWorker = <<>> /\ toHost = <<>>
  /\ answer = [i \in Ids |-> None]
  /\ handled = [i \in Ids |-> 0]
  /\ used = 0

-----------------------------------------------------------------------------
(* The one-shot response channel of each request: the first answer counts,   *)
(* a later one finds the receiver gone and is dropped.                       *)

Answered(a, i, what) == [a EXCEPT ![i] = IF @ = None THEN what ELSE @]

Prefixes(s) == {SubSeq(s, 1, n) : n \in 0..Len(s)}

\* The connection breaks: what is still in flight may or may not arrive.
Break ==
  /\ up' = FALSE
  /\ toWorker' \in Prefixes(toWorker)
  /\ toHost' \in Prefixes(toHost)

(* InitiatorSessionClient::request_with_id *)

\* Under the admission lock the state is read; a session that is not
\* authenticated or is cancelled refuses without touching the queue.
Admit(c, kind) ==
  /\ client[c].pc = "idle"
  /\ used < MaxRequests
  /\ admission = "free"
  /\ used' = used + 1
  /\ IF ~shared.authenticated \/ shared.cancel
       THEN /\ answer' = Answered(answer, used + 1, "NotAuthenticated")
            /\ UNCHANGED <<client, admission>>
       ELSE /\ client' = [client EXCEPT ![c] = [pc |-> "admitted",
                                req |-> [id |-> used + 1, kind |-> kind]]]
            /\ admission' = c
            /\ UNCHANGED answer
  /\ UNCHANGED <<shared, waiter, queue, driver, worker, up, toWorker, toHost, handled>>

\* try_send: full, disconnected, or queued; the lock is released in all cases.
Enqueue(c) ==
  LET r == client[c].req IN
  /\ client[c].pc = "admitted"
  /\ admission' = "free"
  /\ IF driver.pc = "closed"
       THEN /\ answer' = Answered(answer, r.id, "SessionLost")
            /\ client' = [client EXCEPT ![c] = Idle]
            /\ UNCHANGED queue
       ELSE IF Len(queue) >= QueueCapacity
         THEN /\ answer' = Answered(answer, r.id, "Busy")
              /\ client' = [client EXCEPT ![c] = Idle]
              /\ UNCHANGED queue
         ELSE /\ queue' = Append(queue, r)
              /\ client' = [client EXCEPT ![c].pc = "waiting"]
              /\ UNCHANGED answer
  /\ UNCHANGED <<shared, waiter, driver, worker, up, toWorker, toHost, handled, used>>

\* recv_timeout returns the answer.
TakeAnswer(c) ==
  /\ client[c].pc = "waiting"
  /\ answer[client[c].req.id] # None
  /\ client' = [client EXCEPT ![c] = Idle]
  /\ UNCHANGED <<admission, shared, waiter, queue, driver, worker, up, toWorker,
                 toHost, answer, handled, used>>

\* recv_timeout gives up after INITIATOR_REQUEST_TIMEOUT.
GiveUp(c) ==
  /\ client[c].pc = "waiting"
  /\ answer[client[c].req.id] = None
  /\ answer' = Answered(answer, client[c].req.id, "Timeout")
  /\ client' = [client EXCEPT ![c] = Idle]
  /\ UNCHANGED <<admission, shared, waiter, queue, driver, worker, up, toWorker,
                 toHost, handled, used>>

(* InitiatorSessionClient::cancel_session, in the two steps another thread    *)
(* can see: the flag is stored first, then the state is cleared.              *)

CancelStore ==
  /\ admission = "free" /\ ~shared.cancel
  /\ admission' = "canceller"
  /\ shared' = [shared EXCEPT !.cancel = TRUE]
  /\ UNCHANGED <<client, waiter, queue, driver, worker, up, toWorker, toHost,
                 answer, handled, used>>

CancelClear ==
  /\ admission = "canceller"
  /\ admission' = "free"
  /\ shared' = [shared EXCEPT !.authenticated = FALSE, !.heartbeat = FALSE]
  /\ UNCHANGED <<client, waiter, queue, driver, worker, up, toWorker, toHost,
                 answer, handled, used>>

\* (mutant) driver_closed is not looked at
WaitAuthenticated_ClosedIgnored ==
  /\ waiter = "waiting"
  /\ \/ shared.authenticated /\ waiter' = "Ok"
     \/ ~shared.authenticated /\ shared.cancel /\ waiter' = "NotAuthenticated"
  /\ UNCHANGED <<client, admission, shared, queue, driver, worker, up, toWorker,
                 toHost, answer, handled, used>>

\* InitiatorSessionClient::wait_authenticated, for the manager's thread.
WaitAuthenticated ==
  /\ waiter = "waiting"
  /\ \/ shared.authenticated /\ waiter' = "Ok"
     \/ ~shared.authenticated /\ shared.closed /\ waiter' = "SessionLost"
     \/ /\ ~shared.authenticated /\ ~shared.closed /\ shared.cancel
        /\ waiter' = "NotAuthenticated"
  /\ UNCHANGED <<client, admission, shared, queue, driver, worker, up, toWorker,
                 toHost, answer, handled, used>>

-----------------------------------------------------------------------------
(* The driver: InitiatorSessionDriver and the initiator's authenticated loop  *)

\* begin_session, after the handshake and the first ping have succeeded.
BeginSession ==
  /\ driver.pc = "handshake" /\ worker.pc = "live"
  /\ driver' = [driver EXCEPT !.pc = "top"]
  /\ shared' = [shared EXCEPT !.authenticated = ~shared.cancel,
                              !.heartbeat = FALSE, !.closed = FALSE]
  /\ UNCHANGED <<client, admission, waiter, queue, worker, up, toWorker, toHost,
                 answer, handled, used>>

\* The handshake fails: the driver is dropped without a session.
HandshakeFails ==
  /\ driver.pc = "handshake"
  /\ driver' = [driver EXCEPT !.pc = "ended"]
  /\ Break
  /\ UNCHANGED <<client, admission, shared, waiter, queue, worker, answer,
                 handled, used>>

\* (mutant) InitiatorOutstanding has no Drop: the sender just disappears
EndLoop_OutstandingForgotten ==
  /\ driver' = [driver EXCEPT !.pc = "ended", !.app = None]
  /\ answer' = IF driver.app = None THEN answer
               ELSE Answered(answer, driver.app.id, "SessionLost")
  /\ Break

\* The loop returns: its locals are dropped, and dropping the outstanding
\* request answers UnknownAfterDisconnect (Drop of InitiatorOutstanding).
EndLoop ==
  /\ driver' = [driver EXCEPT !.pc = "ended", !.app = None]
  /\ answer' = IF driver.app = None THEN answer
               ELSE Answered(answer, driver.app.id, "UnknownAfterDisconnect")
  /\ Break

\* Head of an iteration: a cancelled session ends here.
LoopTop ==
  /\ driver.pc = "top"
  /\ IF shared.cancel
       THEN EndLoop
       ELSE /\ driver' = [driver EXCEPT !.pc = "send"]
            /\ UNCHANGED <<up, toWorker, toHost, answer>>
  /\ UNCHANGED <<client, admission, shared, waiter, queue, worker, handled, used>>

Quiet == driver.ping = None /\ driver.app = None

\* send_frame of one frame; on a broken connection the bytes go nowhere.
HostSends(type, id, kind) ==
  toWorker' = IF up THEN Append(toWorker, [type |-> type, id |-> id,
                                           kind |-> kind, seq |-> driver.sent])
              ELSE toWorker

SendPing ==
  /\ driver.pc = "send" /\ Quiet /\ driver.pings < MaxPings
  /\ HostSends("Ping", driver.pings + 1, None)
  /\ driver' = [driver EXCEPT !.pc = "receive", !.ping = driver.pings + 1,
                              !.pings = @ + 1, !.sent = @ + 1]
  /\ UNCHANGED <<client, admission, shared, waiter, queue, worker, up, toHost,
                 answer, handled, used>>

\* (mutant) the request is reported done as soon as it is written
StartRequest_DoneWhenSent ==
  /\ driver.pc = "send" /\ Quiet /\ queue # <<>>
  /\ Head(queue).kind # "Malformed"
  /\ HostSends("Request", Head(queue).id, Head(queue).kind)
  /\ queue' = Tail(queue)
  /\ answer' = Answered(answer, Head(queue).id, "Ok")
  /\ driver' = [driver EXCEPT !.pc = "receive", !.app = Head(queue), !.sent = @ + 1]
  /\ UNCHANGED <<client, admission, shared, waiter, worker, up, toHost, handled,
                 used>>

\* next_request and start_initiator_request: the frame is built and sent.
StartRequest ==
  /\ driver.pc = "send" /\ Quiet /\ queue # <<>>
  /\ Head(queue).kind # "Malformed"
  /\ HostSends("Request", Head(queue).id, Head(queue).kind)
  /\ queue' = Tail(queue)
  /\ driver' = [driver EXCEPT !.pc = "receive", !.app = Head(queue), !.sent = @ + 1]
  /\ UNCHANGED <<client, admission, shared, waiter, worker, up, toHost, answer,
                 handled, used>>

\* start_initiator_request refuses what it cannot build; nothing is sent.
RefuseRequest ==
  /\ driver.pc = "send" /\ Quiet /\ queue # <<>>
  /\ Head(queue).kind = "Malformed"
  /\ queue' = Tail(queue)
  /\ answer' = Answered(answer, Head(queue).id, "InvalidRequest")
  /\ driver' = [driver EXCEPT !.pc = "receive"]
  /\ UNCHANGED <<client, admission, shared, waiter, worker, up, toWorker, toHost,
                 handled, used>>

\* A write fails on the broken connection.  A request that was being sent is
\* answered as unknown, and the loop returns.
SendFails ==
  /\ driver.pc = "send" /\ Quiet /\ ~up /\ queue # <<>>
  /\ Head(queue).kind # "Malformed"
  /\ queue' = Tail(queue)
  /\ answer' = Answered(answer, Head(queue).id, "UnknownAfterDisconnect")
  /\ driver' = [driver EXCEPT !.pc = "ended"]
  /\ UNCHANGED <<client, admission, shared, waiter, worker, up, toWorker, toHost,
                 handled, used>>

NothingToSend ==
  /\ driver.pc = "send"
  /\ ~Quiet \/ queue = <<>>
  /\ driver' = [driver EXCEPT !.pc = "receive"]
  /\ UNCHANGED <<client, admission, shared, waiter, queue, worker, up, toWorker,
                 toHost, answer, handled, used>>

\* The pong settles the outstanding ping.
AfterPong == [driver EXCEPT !.pc = "top", !.expected = @ + 1, !.ping = None]

\* mark_heartbeat: only an authenticated session records one.
MarkHeartbeat == shared.heartbeat \/ shared.authenticated

\* A response is taken when it answers the outstanding request, by id and by
\* the kind its channel gives it; take_initiator_outstanding refuses the rest.
Outstanding(f, kind) ==
  f.kind = kind /\ driver.app = [id |-> f.id, kind |-> kind]

CommandAckExpected(f) == Outstanding(f, "Command")
ResourceResultExpected(f) == Outstanding(f, "Resource")
BufferResultExpected(f) == Outstanding(f, "RemoteBuffer")
ComputeResponseExpected(f) == Outstanding(f, "Compute")

\* What the host accepts; anything else ends the loop.
Expected(f) ==
  \/ f.type = "Pong" /\ driver.ping = f.id
  \/ f.type = "Response" /\ \/ CommandAckExpected(f) \/ ResourceResultExpected(f)
                            \/ BufferResultExpected(f) \/ ComputeResponseExpected(f)
  \/ f.type = "Heartbeat"

Received(f) ==
  /\ driver' = CASE f.type = "Pong" -> AfterPong
                 [] f.type = "Response" -> [driver EXCEPT !.pc = "top",
                                              !.expected = @ + 1, !.app = None]
                 [] OTHER -> [driver EXCEPT !.pc = "top", !.expected = @ + 1]
  /\ answer' = IF f.type = "Response" THEN Answered(answer, f.id, "Ok") ELSE answer
  /\ shared' = IF f.type = "Heartbeat"
                 THEN [shared EXCEPT !.heartbeat = MarkHeartbeat] ELSE shared
  /\ toHost' = Tail(toHost)
  /\ UNCHANGED <<up, toWorker>>

\* receive_frame_if_available; SequenceTracker::accept comes first.
Receive ==
  /\ driver.pc = "receive" /\ toHost # <<>>
  /\ IF Head(toHost).seq = driver.expected /\ Expected(Head(toHost))
       THEN Received(Head(toHost))
       ELSE EndLoop /\ UNCHANGED shared
  /\ UNCHANGED <<client, admission, waiter, queue, worker, handled, used>>

\* Nothing to read: the loop goes round.
NothingToRead ==
  /\ driver.pc = "receive" /\ toHost = <<>> /\ up
  /\ driver' = [driver EXCEPT !.pc = "top"]
  /\ UNCHANGED <<client, admission, shared, waiter, queue, worker, up, toWorker,
                 toHost, answer, handled, used>>

\* The peer closed the connection, or initiator_transport_expired.
SessionLost ==
  /\ driver.pc = "receive" /\ toHost = <<>>
  /\ EndLoop
  /\ UNCHANGED <<client, admission, shared, waiter, queue, worker, handled, used>>

\* end_session: the state is cleared under its lock ...
EndSession ==
  /\ driver.pc = "ended"
  /\ driver' = [driver EXCEPT !.pc = "drain"]
  /\ shared' = [shared EXCEPT !.authenticated = FALSE, !.heartbeat = FALSE,
                              !.closed = TRUE]
  /\ UNCHANGED <<client, admission, waiter, queue, worker, up, toWorker, toHost,
                 answer, handled, used>>

\* ... then the queue is drained, one request at a time ...
Drain ==
  /\ driver.pc = "drain" /\ queue # <<>>
  /\ queue' = Tail(queue)
  /\ answer' = Answered(answer, Head(queue).id, "SessionLost")
  /\ UNCHANGED <<client, admission, shared, waiter, driver, worker, up, toWorker,
                 toHost, handled, used>>

\* ... until it is seen empty.
DrainEmpty ==
  /\ driver.pc = "drain" /\ queue = <<>>
  /\ driver' = [driver EXCEPT !.pc = "drained"]
  /\ UNCHANGED <<client, admission, shared, waiter, queue, worker, up, toWorker,
                 toHost, answer, handled, used>>

\* (mutant) the receiver outlives the driver: a late request stays in the queue
LeftOver_Kept == {}

\* Requests that slipped in behind the drain (end_session does not take the
\* admission lock): their sender is dropped with the driver's receiver.
LeftOver == {queue[n].id : n \in 1..Len(queue)}

\* The driver is dropped; a dropped sender reads as SessionLost at its client.
DropDriver ==
  /\ driver.pc = "drained"
  /\ driver' = [driver EXCEPT !.pc = "closed"]
  /\ queue' = <<>>
  /\ answer' = [i \in Ids |-> IF i \in LeftOver /\ answer[i] = None
                                THEN "SessionLost" ELSE answer[i]]
  /\ UNCHANGED <<client, admission, shared, waiter, worker, up, toWorker, toHost,
                 handled, used>>

-----------------------------------------------------------------------------
(* The phone: the responder's authenticated loop                             *)

WorkerBegin ==
  /\ worker.pc = "handshake" /\ up
  /\ worker' = [worker EXCEPT !.pc = "live"]
  /\ UNCHANGED <<client, admission, shared, waiter, queue, driver, up, toWorker,
                 toHost, answer, handled, used>>

WorkerSends(type, id, kind) ==
  toHost' = IF up THEN Append(toHost, [type |-> type, id |-> id, kind |-> kind,
                                       seq |-> worker.sent])
            ELSE toHost

\* A heartbeat is due and the handler has one to send.
WorkerHeartbeat ==
  /\ worker.pc = "live" /\ worker.beats < MaxBeats /\ driver.pc # "handshake"
  /\ WorkerSends("Heartbeat", 0, None)
  /\ worker' = [worker EXCEPT !.beats = @ + 1, !.sent = @ + 1]
  /\ UNCHANGED <<client, admission, shared, waiter, queue, driver, up, toWorker,
                 answer, handled, used>>

\* (mutant) the pong is sent without counting it in send_sequence
WorkerPong_SequenceKept ==
  /\ worker.pc = "live" /\ toWorker # <<>> /\ Head(toWorker).type = "Ping"
  /\ Head(toWorker).seq = worker.expected
  /\ WorkerSends("Pong", Head(toWorker).id, None)
  /\ toWorker' = Tail(toWorker)
  /\ worker' = [worker EXCEPT !.expected = @ + 1]
  /\ UNCHANGED <<client, admission, shared, waiter, queue, driver, up, answer,
                 handled, used>>

WorkerPong ==
  /\ worker.pc = "live" /\ toWorker # <<>> /\ Head(toWorker).type = "Ping"
  /\ Head(toWorker).seq = worker.expected
  /\ WorkerSends("Pong", Head(toWorker).id, None)
  /\ toWorker' = Tail(toWorker)
  /\ worker' = [worker EXCEPT !.expected = @ + 1, !.sent = @ + 1]
  /\ UNCHANGED <<client, admission, shared, waiter, queue, driver, up, answer,
                 handled, used>>

\* The next request in sequence, on one channel.
WorkerReads(kind) ==
  /\ worker.pc = "live" /\ toWorker # <<>> /\ Head(toWorker).type = "Request"
  /\ Head(toWorker).seq = worker.expected /\ Head(toWorker).kind = kind
  /\ toWorker' = Tail(toWorker)

\* Commands and resource requests are handled by the loop itself.
HandledInline ==
  /\ handled' = [handled EXCEPT ![Head(toWorker).id] = @ + 1]
  /\ WorkerSends("Response", Head(toWorker).id, Head(toWorker).kind)
  /\ worker' = [worker EXCEPT !.expected = @ + 1, !.sent = @ + 1]
  /\ UNCHANGED <<client, admission, shared, waiter, queue, driver, up, answer, used>>

HandleCommand == WorkerReads("Command") /\ HandledInline
HandleResource == WorkerReads("Resource") /\ HandledInline

\* Remote-buffer and compute requests are handled on a thread of their own
\* while the loop watches the connection.
HandedToThread ==
  /\ worker' = [worker EXCEPT !.pc = "handling", !.expected = @ + 1,
                   !.job = [id |-> Head(toWorker).id, kind |-> Head(toWorker).kind]]
  /\ UNCHANGED <<client, admission, shared, waiter, queue, driver, up, toHost,
                 answer, handled, used>>

HandleBuffer == WorkerReads("RemoteBuffer") /\ HandedToThread
HandleCompute == WorkerReads("Compute") /\ HandedToThread

\* The handler has run.  Its thread is joined whatever happens to the
\* connection, so its effect stands even when nobody is there to be told.
HandlerReturns ==
  /\ worker.pc = "handling"
  /\ handled' = [handled EXCEPT ![worker.job.id] = @ + 1]
  /\ worker' = [worker EXCEPT !.pc = "handled"]
  /\ UNCHANGED <<client, admission, shared, waiter, queue, driver, up, toWorker,
                 toHost, answer, used>>

WorkerResponds ==
  /\ worker.pc = "handled"
  /\ WorkerSends("Response", worker.job.id, worker.job.kind)
  /\ worker' = [worker EXCEPT !.pc = "live", !.job = None, !.sent = @ + 1]
  /\ UNCHANGED <<client, admission, shared, waiter, queue, driver, up, toWorker,
                 answer, handled, used>>

\* The phone gives the session up: the peer is gone, ten seconds have passed
\* without traffic, a transport loss was seen beside a handler, or a frame is
\* out of sequence.
WorkerEnds ==
  /\ worker.pc \in {"live", "handled"}
  /\ worker' = [worker EXCEPT !.pc = "ended", !.job = None]
  /\ Break
  /\ UNCHANGED <<client, admission, shared, waiter, queue, driver, answer,
                 handled, used>>

\* The network breaks the connection.
NetworkBreaks ==
  /\ up /\ Break
  /\ UNCHANGED <<client, admission, shared, waiter, queue, driver, worker, answer,
                 handled, used>>

-----------------------------------------------------------------------------
ClientNext == \E c \in Clients : \/ \E k \in Kinds : Admit(c, k)
                                 \/ Enqueue(c) \/ TakeAnswer(c) \/ GiveUp(c)
Cancel == CancelStore \/ CancelClear
DriverNext == \/ BeginSession \/ HandshakeFails \/ LoopTop \/ SendPing
              \/ StartRequest \/ RefuseRequest \/ SendFails \/ NothingToSend
              \/ Receive \/ NothingToRead \/ SessionLost
              \/ EndSession \/ Drain \/ DrainEmpty \/ DropDriver
WorkerWork == \/ WorkerBegin \/ WorkerHeartbeat \/ WorkerPong \/ HandleCommand
              \/ HandleResource \/ HandleBuffer \/ HandleCompute
              \/ HandlerReturns \/ WorkerResponds

Next == ClientNext \/ Cancel \/ WaitAuthenticated \/ DriverNext \/ WorkerWork
        \/ WorkerEnds \/ NetworkBreaks
Spec == Init /\ [][Next]_vars

-----------------------------------------------------------------------------
\* An answer that lets the caller fall back without calling the outcome
\* ambiguous (NotAuthenticated, Busy, SessionLost, InvalidRequest: see
\* RemoteFailure::from_client) is only given for a request that the phone
\* has not run and will never run, however the answer races the session's end.
KnownMeansUnsent == \A i \in Ids : answer[i] \in NotExecuted => handled[i] = 0

\* The phone runs a request at most once, and an Ok answer was earned by
\* exactly one run.
OkMeansHandledOnce ==
  \A i \in Ids : handled[i] <= 1 /\ (answer[i] = "Ok" => handled[i] = 1)

\* Across both ends at most one exchange is open: the frames in flight that
\* ask or answer something, and the request the phone is working on, are one.
Exchange(s) == {n \in 1..Len(s) : s[n].type # "Heartbeat"}
Underway == ({"asked"} \X Exchange(toWorker)) \cup ({"answered"} \X Exchange(toHost))
              \cup (IF worker.job = None THEN {} ELSE {<<"running", 1>>})
OneExchange == up => \A x, y \in Underway : x = y

\* While the connection is up the two sides agree on the sequence numbers:
\* what a side expects next, plus what is in flight, is what the other sends.
SequencesAgree ==
  up => /\ worker.expected + Len(toWorker) = driver.sent
        /\ driver.expected + Len(toHost) = worker.sent

\* Between two live peers the host never meets a frame it must refuse, so a
\* session is never ended by a mismatch of sequence, id or kind.
NoMismatch ==
  driver.pc = "receive" /\ toHost # <<>> =>
    Head(toHost).seq = driver.expected /\ Expected(Head(toHost))

\* Once cancel_session has returned, the channel is never authenticated again
\* and never shows a heartbeat, though the driver may begin its session or
\* receive a frame afterwards.
CancelIsFinal ==
  shared.cancel /\ admission # "canceller" =>
    ~shared.authenticated /\ ~shared.heartbeat

\* When the driver is gone every thread still waiting has its answer, also the
\* one whose request entered the queue behind the drain.
NobodyStranded ==
  driver.pc = "closed" =>
    \A c \in Clients : client[c].pc = "waiting" => answer[client[c].req.id] # None

\* The two ends stay in step while they are connected: one exchange at a time, the
\* same sequence numbers, and never a frame the host has to refuse.
InStep == OneExchange /\ SequencesAgree /\ NoMismatch

\* A session that is over leaves nothing behind: no thread waits for an answer that
\* will not come, and a cancelled channel is not authenticated again (drain,
\* end_session, cancel_session).
EndsClean == NobodyStranded /\ CancelIsFinal

\* A waiting request is answered without the help of its own timeout.
EveryRequestReturns ==
  \A c \in Clients : client[c].pc = "waiting" ~> client[c].pc = "idle"

\* wait_authenticated returns: a handshake that failed, a cancelled session and
\* a session that ended before the waiter looked all wake it.
WaiterReturns == waiter = "waiting" ~> waiter # "waiting"
=============================================================================
