------------------------- MODULE SessionStepProofs -------------------------
(***************************************************************************)
(* Two more invariants of the request channel, on top of the one about      *)
(* where a request is: the ends of a session leave nothing behind, and the  *)
(* two peers stay in step while they are connected.                         *)
(***************************************************************************)
EXTENDS SessionChannelProofs

\* The solver that most steps need, with time to spare; the others name theirs.
USE SMTT(60)

\* The driver's authenticated loop, and the driver before it has ended.
Looping == driver.pc \in {"top", "send", "receive"}
Alive == driver.pc = "handshake" \/ Looping

Shown == shared \in [authenticated : BOOLEAN, heartbeat : BOOLEAN, cancel : BOOLEAN, closed : BOOLEAN]

\* A request that somebody will still answer: it is queued, or outstanding.
Pending(i) == i \in Queued(queue) \/ (driver.app # None /\ driver.app.id = i)

Tracked == \A c \in Clients :
  client[c].pc = "waiting" /\ answer[client[c].req.id] = None => Pending(client[c].req.id)
Over == /\ ~Looping => driver.app = None
        /\ driver.pc = "closed" => queue = <<>>

\* The inductive part of EndsClean: no unanswered request of a waiting thread is
\* forgotten, and a driver that is over has nothing outstanding.
EndInv == Shown /\ CancelIsFinal /\ Tracked /\ Over

-----------------------------------------------------------------------------
\* The state that cancel_session clears is not set again.
LEMMA CancelStep == IInv /\ Shown /\ CancelIsFinal /\ [Next]_vars => Shown' /\ CancelIsFinal'
<1>. SUFFICES ASSUME IInv, Shown, CancelIsFinal, [Next]_vars PROVE Shown' /\ CancelIsFinal'
  BY ZenonT(30)
<1>1. CASE UNCHANGED <<shared, admission>>
  BY ZenonT(30), <1>1 DEF Shown, CancelIsFinal
<1>2. ASSUME NEW c \in Clients, NEW k \in Kinds, Admit(c, k) PROVE Shown' /\ CancelIsFinal'
  <2>1. shared' = shared /\ admission = "free"
    BY ZenonT(30), <1>2 DEF Admit
  <2>. QED  BY ZenonT(30), <2>1 DEF Shown, CancelIsFinal
<1>3. ASSUME NEW c \in Clients, Enqueue(c) PROVE Shown' /\ CancelIsFinal'
  <2>1. shared' = shared /\ admission = c
    BY ZenonT(30), <1>3 DEF Enqueue, IInv, Held
  <2>2. c # "canceller"
    BY ZenonT(30), ChannelAssumption
  <2>. QED  BY ZenonT(30), <2>1, <2>2 DEF Shown, CancelIsFinal
<1>4. CASE CancelStore
  <2>1. admission' = "canceller" /\ shared' = [shared EXCEPT !.cancel = TRUE]
    BY ZenonT(30), <1>4 DEF CancelStore
  <2>2. Shown'
    BY <2>1, ZenonT(30) DEF Shown
  <2>. QED  BY ZenonT(30), <2>1, <2>2 DEF CancelIsFinal
<1>5. CASE CancelClear \/ EndSession
  <2>1. \/ shared' = [shared EXCEPT !.authenticated = FALSE, !.heartbeat = FALSE]
        \/ shared' = [shared EXCEPT !.authenticated = FALSE, !.heartbeat = FALSE, !.closed = TRUE]
    BY ZenonT(30), <1>5 DEF CancelClear, EndSession
  <2>2. Shown'
    BY <2>1, ZenonT(30) DEF Shown
  <2>3. shared'.authenticated = FALSE /\ shared'.heartbeat = FALSE
    BY ZenonT(30), <2>1 DEF Shown
  <2>. QED  BY ZenonT(30), <2>2, <2>3 DEF CancelIsFinal
<1>6. CASE BeginSession
  <2>1. /\ admission' = admission
        /\ shared' = [shared EXCEPT !.authenticated = ~shared.cancel, !.heartbeat = FALSE, !.closed = FALSE]
    BY ZenonT(30), <1>6 DEF BeginSession
  <2>2. (~shared.cancel) \in BOOLEAN
    BY ZenonT(30)
  <2>3. Shown'
    BY <2>1, <2>2, ZenonT(30) DEF Shown
  <2>4. /\ shared'.authenticated = ~shared.cancel /\ shared'.heartbeat = FALSE
        /\ shared'.cancel = shared.cancel
    BY <2>1, ZenonT(30) DEF Shown
  <2>. QED  BY <2>1, <2>3, <2>4, Zenon DEF CancelIsFinal
<1>7. CASE Receive
  <2>1. admission' = admission
        /\ \/ shared' = shared
           \/ shared' = [shared EXCEPT !.heartbeat = MarkHeartbeat]
    BY ZenonT(30), <1>7 DEF Receive, Received
  <2>2. CASE shared' = shared
    BY ZenonT(30), <2>1, <2>2 DEF Shown, CancelIsFinal
  <2>3. CASE shared' = [shared EXCEPT !.heartbeat = MarkHeartbeat]
    <3>1. MarkHeartbeat \in BOOLEAN
      BY ZenonT(30) DEF MarkHeartbeat
    <3>2. Shown'
      BY <2>3, <3>1, ZenonT(30) DEF Shown
    <3>3. /\ shared'.authenticated = shared.authenticated /\ shared'.cancel = shared.cancel
          /\ shared'.heartbeat = (shared.heartbeat \/ shared.authenticated)
      BY <2>3, ZenonT(30) DEF Shown, MarkHeartbeat
    <3>. QED  BY <2>1, <3>2, <3>3, Zenon DEF CancelIsFinal
  <2>. QED  BY ZenonT(30), <2>1, <2>2, <2>3
<1>8. CASE ClientNext
  <2>1. ASSUME NEW c \in Clients, TakeAnswer(c) \/ GiveUp(c) PROVE UNCHANGED <<shared, admission>>
    BY ZenonT(30), <2>1 DEF TakeAnswer, GiveUp
  <2>. QED  BY ZenonT(30), <1>1, <1>2, <1>3, <1>8, <2>1 DEF ClientNext
<1>9. CASE DriverNext
  <2>1. CASE ~(BeginSession \/ Receive \/ EndSession)
    <3>1. UNCHANGED <<shared, admission>>
      BY ZenonT(30), <1>9, <2>1 DEF DriverNext, HandshakeFails, LoopTop, SendPing, StartRequest, RefuseRequest,
         SendFails, NothingToSend, NothingToRead, SessionLost, Drain, DrainEmpty, DropDriver
    <3>. QED  BY ZenonT(30), <1>1, <3>1
  <2>. QED  BY ZenonT(30), <1>5, <1>6, <1>7, <2>1
<1>10. CASE WorkerWork \/ WorkerEnds \/ NetworkBreaks \/ WaitAuthenticated \/ UNCHANGED vars
  <2>1. UNCHANGED <<shared, admission>>
    BY ZenonT(30), <1>10 DEF WorkerWork, WorkerBegin, WorkerHeartbeat, WorkerPong, HandleCommand, HandleResource,
       HandleBuffer, HandleCompute, HandledInline, HandedToThread, HandlerReturns, WorkerResponds,
       WorkerEnds, NetworkBreaks, WaitAuthenticated, vars
  <2>. QED  BY <1>1, <2>1
<1>. QED  BY ZenonT(30), <1>4, <1>5, <1>8, <1>9, <1>10 DEF Next, Cancel

-----------------------------------------------------------------------------
\* An answer once given stays, and one that is given now is there.
LEMMA AnsweredStays ==
  ASSUME NEW a \in [Ids -> Answers], NEW i \in Ids, NEW what \in Answers \ {None}
  PROVE  /\ Answered(a, i, what) \in [Ids -> Answers] /\ Answered(a, i, what)[i] # None
         /\ \A j \in Ids : a[j] # None => Answered(a, i, what)[j] # None
BY ZenonT(30) DEF Answered

\* Every answer but none at all is a kind of failure or Ok.
LEMMA AllAnswers == NotExecuted \cup Unknown \cup {"Ok"} \subseteq Answers \ {None}
BY ZenonT(30), NoneAssumption DEF Answers

\* The queue is its oldest entry and the rest.
LEMMA QueueSplit ==
  ASSUME NEW q \in Seq(Requests), q # <<>>
  PROVE  Queued(q) \subseteq Queued(Tail(q)) \cup {Head(q).id} /\ Head(q) \in Requests
<1>1. /\ Head(q) = q[1] /\ Head(q) \in Requests
      /\ Len(q) \in Nat /\ Len(q) >= 1 /\ Len(Tail(q)) = Len(q) - 1
      /\ \A n \in 1..Len(Tail(q)) : Tail(q)[n] = q[n + 1]
  BY HeadTailProperties, EmptySeq, LenProperties
<1>2. ASSUME NEW n \in 1..Len(q) PROVE q[n].id \in Queued(Tail(q)) \cup {Head(q).id}
  <2>1. CASE n = 1
    BY ZenonT(30), <1>1, <2>1
  <2>2. CASE n # 1
    <3>1. n - 1 \in 1..Len(Tail(q)) /\ Tail(q)[n - 1] = q[n]
      BY <1>1, <2>2
    <3>. QED  BY ZenonT(30), <3>1 DEF Queued
  <2>. QED  BY ZenonT(30), <2>1, <2>2
<1>. QED  BY ZenonT(30), <1>1, <1>2 DEF Queued

\* A step answers the request or leaves it in somebody's hands.
HandedOn(i) == answer'[i] # None \/ i \in Queued(queue') \/ (driver'.app # None /\ driver'.app.id = i)

\* What keeps every unanswered request of a waiting thread in somebody's hands.
LEMMA TrackedStep ==
  ASSUME IInv, Tracked,
         \A c \in Clients : client'[c].pc = "waiting" =>
           \/ client[c].pc = "waiting" /\ client'[c].req = client[c].req
           \/ client'[c].req.id \in Queued(queue'),
         \A i \in Ids : answer[i] # None => answer'[i] # None,
         \A i \in Ids : Pending(i) => HandedOn(i)
  PROVE  Tracked'
<1>. SUFFICES ASSUME NEW c \in Clients, client'[c].pc = "waiting", answer'[client'[c].req.id] = None
              PROVE  \/ client'[c].req.id \in Queued(queue')
                     \/ driver'.app # None /\ driver'.app.id = client'[c].req.id
  BY ZenonT(30) DEF Tracked, Pending
<1>. SUFFICES ASSUME client[c].pc = "waiting", client'[c].req = client[c].req
              PROVE  \/ client'[c].req.id \in Queued(queue')
                     \/ driver'.app # None /\ driver'.app.id = client'[c].req.id
  BY ZenonT(30)
<1>1. client[c].req \in Requests
  BY ZenonT(30) DEF IInv, Held
<1> DEFINE i == client[c].req.id
<1>2. i \in Ids
  BY ZenonT(30), <1>1 DEF Requests
<1>3. answer[i] = None => Pending(i)
  BY ZenonT(30) DEF Tracked
<1>4. answer'[i] = None
  BY ZenonT(30)
<1> HIDE DEF i
<1>5. i \in Queued(queue') \/ (driver'.app # None /\ driver'.app.id = i)
  BY ZenonT(30), <1>2, <1>3, <1>4 DEF HandedOn
<1>. QED  BY ZenonT(30), <1>5 DEF i

\* The same for the steps of the driver, which leave the threads alone.
LEMMA DriverTracked ==
  ASSUME IInv, Tracked, client' = client,
         \A i \in Ids : answer[i] # None => answer'[i] # None,
         \A i \in Ids : Pending(i) => HandedOn(i)
  PROVE  Tracked'
<1>1. \A c \in Clients : client'[c].pc = "waiting" =>
        client[c].pc = "waiting" /\ client'[c].req = client[c].req
  BY ZenonT(30)
<1>. QED  BY ZenonT(30), <1>1, TrackedStep

\* The head of the queue leaves it and is answered.
LEMMA TakenAndAnswered ==
  ASSUME IInv, Tracked, client' = client, queue # <<>>, queue' = Tail(queue),
         NEW what \in Answers \ {None}, answer' = Answered(answer, Head(queue).id, what),
         driver.app = None \/ driver'.app = driver.app
  PROVE  Tracked'
<1>1. queue \in Seq(Requests) /\ answer \in [Ids -> Answers]
  BY ZenonT(30) DEF IInv, Types
<1> DEFINE k == Head(queue).id
<1>2. Queued(queue) \subseteq Queued(queue') \cup {k} /\ Head(queue) \in Requests
  BY ZenonT(30), <1>1, QueueSplit
<1>3. k \in Ids /\ answer' = Answered(answer, k, what)
  BY ZenonT(30), <1>2 DEF Requests
<1> HIDE DEF k
<1>4. answer'[k] # None /\ \A i \in Ids : answer[i] # None => answer'[i] # None
  BY ZenonT(30), <1>1, <1>3, AnsweredStays
<1>5. \A i \in Ids : Pending(i) => HandedOn(i)
  BY ZenonT(30), <1>2, <1>4 DEF Pending, HandedOn
<1>. QED  BY ZenonT(30), <1>4, <1>5, DriverTracked

\* The loop returns: the outstanding request is answered.
LEMMA EndLoopTracked ==
  ASSUME IInv, Tracked, EndLoop, client' = client, queue' = queue
  PROVE  Tracked' /\ driver'.app = None /\ driver'.pc = "ended"
<1>1. answer \in [Ids -> Answers] /\ driver.app \in Requests \cup {None} /\ driver \in Drivers
  BY ZenonT(30) DEF IInv, Types, Drivers
<1>2. driver'.app = None /\ driver'.pc = "ended"
  BY ZenonT(30), <1>1 DEF EndLoop, Drivers
<1>3. CASE driver.app = None
  <2>1. answer' = answer
    BY ZenonT(30), <1>3 DEF EndLoop
  <2>2. \A i \in Ids : Pending(i) => HandedOn(i)
    BY ZenonT(30), <1>3 DEF Pending, HandedOn
  <2>. QED  BY ZenonT(30), <1>2, <2>1, <2>2, DriverTracked
<1>4. CASE driver.app # None
  <2> DEFINE k == driver.app.id
  <2>1. answer' = Answered(answer, k, "UnknownAfterDisconnect")
    BY ZenonT(30), <1>4 DEF EndLoop
  <2>2. k \in Ids
    BY ZenonT(30), <1>1, <1>4 DEF Requests
  <2>3. "UnknownAfterDisconnect" \in Answers \ {None}
    BY ZenonT(30), AllAnswers DEF Unknown
  <2>4. \A i \in Ids : Pending(i) => i \in Queued(queue) \/ i = k
    BY ZenonT(30) DEF Pending
  <2> HIDE DEF k
  <2>5. answer'[k] # None /\ \A i \in Ids : answer[i] # None => answer'[i] # None
    BY ZenonT(30), <1>1, <2>1, <2>2, <2>3, AnsweredStays
  <2>6. \A i \in Ids : Pending(i) => HandedOn(i)
    BY ZenonT(30), <2>4, <2>5 DEF HandedOn
  <2>7. Tracked'
    BY ZenonT(30), <2>5, <2>6, DriverTracked
  <2>. QED  BY ZenonT(30), <1>2, <2>7
<1>. QED  BY ZenonT(30), <1>3, <1>4

\* The driver's steps.
LEMMA DriverEnds ==
  ASSUME IInv, Tracked, Over, DriverNext
  PROVE  Tracked' /\ Over'
<1>1. /\ driver \in Drivers /\ answer \in [Ids -> Answers] /\ queue \in Seq(Requests)
      /\ driver.app \in Requests \cup {None}
  BY ZenonT(30) DEF IInv, Types, Drivers
<1>2. client' = client
  BY ZenonT(30) DEF DriverNext, BeginSession, HandshakeFails, LoopTop, SendPing, StartRequest, RefuseRequest,
     SendFails, NothingToSend, Receive, NothingToRead, SessionLost, EndSession, Drain, DrainEmpty, DropDriver
<1>3. ASSUME queue' = queue, answer' = answer, driver'.app = driver.app,
             driver'.pc \notin {"top", "send", "receive"} => ~Looping, driver'.pc # "closed"
      PROVE  Tracked' /\ Over'
  <2>1. \A i \in Ids : Pending(i) => HandedOn(i)
    BY ZenonT(30), <1>3 DEF Pending, HandedOn
  <2>2. Tracked'
    BY ZenonT(30), <1>2, <1>3, <2>1, DriverTracked
  <2>. QED  BY ZenonT(30), <1>3, <2>2 DEF Over, Looping
<1>4. CASE \/ BeginSession \/ NothingToSend \/ NothingToRead \/ EndSession \/ DrainEmpty
           \/ HandshakeFails \/ SendPing
  <2>1. /\ queue' = queue /\ answer' = answer
        /\ \/ driver' = [driver EXCEPT !.pc = "top"] \/ driver' = [driver EXCEPT !.pc = "receive"]
           \/ driver' = [driver EXCEPT !.pc = "receive", !.ping = driver.pings + 1,
                                       !.pings = driver.pings + 1, !.sent = driver.sent + 1]
           \/ /\ driver.pc \in {"handshake", "ended", "drain"}
              /\ \/ driver' = [driver EXCEPT !.pc = "drain"] \/ driver' = [driver EXCEPT !.pc = "drained"]
                 \/ driver' = [driver EXCEPT !.pc = "ended"]
    BY ZenonT(30), <1>4 DEF BeginSession, NothingToSend, NothingToRead, EndSession, DrainEmpty, HandshakeFails, SendPing
  <2>2. /\ driver'.app = driver.app /\ driver'.pc # "closed"
        /\ driver'.pc \notin {"top", "send", "receive"} => ~Looping
    BY ZenonT(30), <1>1, <2>1 DEF Drivers, Looping
  <2>. QED  BY ZenonT(30), <1>3, <2>1, <2>2
<1>5. ASSUME EndLoop, queue' = queue PROVE Tracked' /\ Over'
  <2>1. Tracked' /\ driver'.app = None /\ driver'.pc = "ended"
    BY ZenonT(30), <1>2, <1>5, EndLoopTracked
  <2>. QED  BY ZenonT(30), <2>1 DEF Over
<1>6. CASE LoopTop
  <2>1. CASE shared.cancel
    BY ZenonT(30), <1>5, <1>6, <2>1 DEF LoopTop
  <2>2. CASE ~shared.cancel
    <3>1. /\ driver' = [driver EXCEPT !.pc = "send"] /\ queue' = queue /\ answer' = answer
      BY ZenonT(30), <1>6, <2>2 DEF LoopTop
    <3>2. driver'.app = driver.app /\ driver'.pc = "send"
      BY ZenonT(30), <1>1, <3>1 DEF Drivers
    <3>. QED  BY ZenonT(30), <1>3, <3>1, <3>2
  <2>. QED  BY ZenonT(30), <2>1, <2>2
<1>7. CASE SessionLost
  BY ZenonT(30), <1>5, <1>7 DEF SessionLost
<1>8. CASE StartRequest
  <2> DEFINE r == Head(queue)
  <2>1. /\ queue # <<>> /\ queue' = Tail(queue) /\ answer' = answer /\ driver.app = None
        /\ driver' = [driver EXCEPT !.pc = "receive", !.app = r, !.sent = driver.sent + 1]
    BY ZenonT(30), <1>8 DEF StartRequest, Quiet
  <2>2. Queued(queue) \subseteq Queued(queue') \cup {r.id} /\ r \in Requests
    BY ZenonT(30), <1>1, <2>1, QueueSplit
  <2> HIDE DEF r
  <2>3. r # None
    BY ZenonT(30), <2>2, NoneAssumption
  <2>4. driver'.app = r /\ driver'.pc = "receive"
    BY ZenonT(30), <1>1, <2>1 DEF Drivers
  <2>5. \A i \in Ids : Pending(i) => HandedOn(i)
    BY ZenonT(30), <2>1, <2>2, <2>3, <2>4 DEF Pending, HandedOn
  <2>6. Tracked'
    BY ZenonT(30), <1>2, <2>1, <2>5, DriverTracked
  <2>. QED  BY ZenonT(30), <2>4, <2>6 DEF Over, Looping
<1>9. CASE RefuseRequest \/ SendFails
  <2>1. /\ queue # <<>> /\ queue' = Tail(queue) /\ driver.app = None
        /\ \/ answer' = Answered(answer, Head(queue).id, "InvalidRequest")
           \/ answer' = Answered(answer, Head(queue).id, "UnknownAfterDisconnect")
        /\ driver' = [driver EXCEPT !.pc = "receive"] \/ driver' = [driver EXCEPT !.pc = "ended"]
    BY ZenonT(30), <1>9 DEF RefuseRequest, SendFails, Quiet
  <2>2. {"InvalidRequest", "UnknownAfterDisconnect"} \subseteq Answers \ {None}
    BY ZenonT(30), AllAnswers DEF NotExecuted, Unknown
  <2>3. driver'.app = None /\ driver'.pc \in {"receive", "ended"}
    BY ZenonT(30), <1>1, <2>1 DEF Drivers
  <2>4. Tracked'
    BY ZenonT(30), <1>2, <2>1, <2>2, TakenAndAnswered
  <2>. QED  BY ZenonT(30), <2>3, <2>4 DEF Over
<1>10. CASE Drain
  <2>1. /\ queue # <<>> /\ queue' = Tail(queue) /\ driver' = driver /\ driver.pc = "drain"
        /\ answer' = Answered(answer, Head(queue).id, "SessionLost")
    BY ZenonT(30), <1>10 DEF Drain
  <2>2. "SessionLost" \in Answers \ {None}
    BY ZenonT(30), AllAnswers DEF NotExecuted
  <2>3. Tracked'
    BY ZenonT(30), <1>2, <2>1, <2>2, TakenAndAnswered
  <2>. QED  BY ZenonT(30), <2>1, <2>3 DEF Over, Looping
<1>11. CASE DropDriver
  <2>1. /\ driver' = [driver EXCEPT !.pc = "closed"] /\ driver.pc = "drained" /\ queue' = <<>>
        /\ answer' = [i \in Ids |-> IF i \in LeftOver /\ answer[i] = None THEN "SessionLost" ELSE answer[i]]
    BY ZenonT(30), <1>11 DEF DropDriver
  <2>2. driver'.app = None /\ driver'.pc = "closed" /\ driver.app = None
    BY ZenonT(30), <1>1, <2>1 DEF Drivers, Over, Looping
  <2>3. LeftOver = Queued(queue) /\ "SessionLost" # None
    BY ZenonT(30), NoneAssumption DEF LeftOver, Queued, NotExecuted
  <2>4. \A i \in Ids : /\ answer[i] # None => answer'[i] # None
                       /\ i \in Queued(queue) => answer'[i] # None
    BY ZenonT(30), <2>1, <2>3
  <2>5. \A i \in Ids : Pending(i) => HandedOn(i)
    BY ZenonT(30), <2>2, <2>4 DEF Pending, HandedOn
  <2>6. Tracked'
    BY ZenonT(30), <1>2, <2>4, <2>5, DriverTracked
  <2>. QED  BY ZenonT(30), <2>1, <2>2, <2>6 DEF Over
<1>12. CASE Receive
  <2> DEFINE f == Head(toHost)
  <2>1. queue' = queue
    BY ZenonT(30), <1>12 DEF Receive
  <2>2. CASE Received(f) /\ Expected(f)
    <3>1. /\ answer' = IF f.type = "Response" THEN Answered(answer, f.id, "Ok") ELSE answer
          /\ f.type = "Pong" => driver' = [driver EXCEPT !.pc = "top", !.expected = driver.expected + 1, !.ping = None]
          /\ f.type = "Response" => driver' = [driver EXCEPT !.pc = "top", !.expected = driver.expected + 1, !.app = None]
          /\ f.type = "Heartbeat" => driver' = [driver EXCEPT !.pc = "top", !.expected = driver.expected + 1]
          /\ f.type \in {"Pong", "Response", "Heartbeat"}
      BY ZenonT(30), <2>2 DEF Received, AfterPong, Expected
    <3>2. driver'.pc = "top" /\ (f.type # "Response" => driver'.app = driver.app)
      BY ZenonT(30), <1>1, <3>1 DEF Drivers
    <3>3. CASE f.type # "Response"
      BY ZenonT(30), <1>3, <2>1, <3>1, <3>2, <3>3
    <3>4. CASE f.type = "Response"
      <4>1. /\ toHost # <<>> /\ toHost' = Tail(toHost) /\ handled' = handled
            /\ \E k : driver.app = [id |-> f.id, kind |-> k]
        BY ZenonT(30), <1>12, <2>2, <3>4 DEF Receive, Received, Expected, CommandAckExpected, ResourceResultExpected,
           BufferResultExpected, ComputeResponseExpected, Outstanding
      <4>2. f.id \in Ids /\ driver.app.id = f.id
        BY <3>4, <4>1, HostReads
      <4>3. "Ok" \in Answers \ {None} /\ answer' = Answered(answer, f.id, "Ok")
        BY ZenonT(30), <3>1, <3>4, AllAnswers
      <4> HIDE DEF f
      <4>4. answer'[f.id] # None /\ \A i \in Ids : answer[i] # None => answer'[i] # None
        BY ZenonT(30), <1>1, <4>2, <4>3, AnsweredStays
      <4>5. \A i \in Ids : Pending(i) => HandedOn(i)
        BY ZenonT(30), <2>1, <4>2, <4>4 DEF Pending, HandedOn
      <4>6. Tracked'
        BY ZenonT(30), <1>2, <4>4, <4>5, DriverTracked
      <4>. QED  BY ZenonT(30), <3>2, <4>6 DEF Over, Looping
    <3>. QED  BY ZenonT(30), <3>3, <3>4
  <2>3. CASE EndLoop
    BY ZenonT(30), <1>5, <2>1, <2>3
  <2>. QED  BY ZenonT(30), <1>12, <2>2, <2>3 DEF Receive
<1>. QED  BY ZenonT(30), <1>4, <1>6, <1>7, <1>8, <1>9, <1>10, <1>11, <1>12 DEF DriverNext

\* The steps of the host's threads.
LEMMA ClientsEnd ==
  ASSUME IInv, Tracked, Over, ClientNext
  PROVE  Tracked' /\ Over'
<1>1. /\ client \in [Clients -> Threads] /\ answer \in [Ids -> Answers] /\ used \in Nat
      /\ queue \in Seq(Requests) /\ MaxRequests \in Nat
  BY ZenonT(30), ChannelAssumption DEF IInv, Types
<1>2. driver' = driver
  BY ZenonT(30) DEF ClientNext, Admit, Enqueue, TakeAnswer, GiveUp
<1>3. ASSUME NEW c \in Clients, NEW t \in Threads, t.pc # "waiting",
             client' = [client EXCEPT ![c] = t] \/ client' = client, queue' = queue,
             \A i \in Ids : answer[i] # None => answer'[i] # None
      PROVE  Tracked' /\ Over'
  <2>1. \A d \in Clients : client'[d].pc = "waiting" =>
          client[d].pc = "waiting" /\ client'[d].req = client[d].req
    BY ZenonT(30), <1>1, <1>3
  <2>2. \A i \in Ids : Pending(i) => HandedOn(i)
    BY ZenonT(30), <1>2, <1>3 DEF Pending, HandedOn
  <2>3. Tracked'
    BY ZenonT(30), <1>3, <2>1, <2>2, TrackedStep
  <2>. QED  BY ZenonT(30), <1>2, <1>3, <2>3 DEF Over, Looping
<1>4. ASSUME NEW c \in Clients, client[c].pc # "idle"
      PROVE  client[c].req \in Requests /\ client[c].req.id \in Ids
  BY ZenonT(30), <1>4 DEF IInv, Held, Requests
<1>5. Idle \in Threads /\ Idle.pc = "idle"
  BY ZenonT(30) DEF Idle, Threads
<1>6. ASSUME NEW i \in Ids, NEW what \in Answers \ {None}, answer' = Answered(answer, i, what)
      PROVE  \A j \in Ids : answer[j] # None => answer'[j] # None
  BY ZenonT(30), <1>1, <1>6, AnsweredStays
<1>7. {"NotAuthenticated", "SessionLost", "Busy", "Timeout"} \subseteq Answers \ {None}
  BY ZenonT(30), AllAnswers DEF NotExecuted, Unknown
<1>8. ASSUME NEW c \in Clients, NEW k \in Kinds, Admit(c, k) PROVE Tracked' /\ Over'
  <2> DEFINE t == [pc |-> "admitted", req |-> [id |-> used + 1, kind |-> k]]
  <2>1. /\ used < MaxRequests /\ queue' = queue
        /\ \/ answer' = Answered(answer, used + 1, "NotAuthenticated") /\ client' = client
           \/ answer' = answer /\ client' = [client EXCEPT ![c] = t]
    BY ZenonT(30), <1>8 DEF Admit
  <2>2. used + 1 \in Ids
    BY <1>1, <2>1 DEF Ids
  <2>3. t \in Threads /\ t.pc # "waiting"
    BY ZenonT(30), <2>2 DEF Threads, Requests
  <2> HIDE DEF t
  <2>4. \A i \in Ids : answer[i] # None => answer'[i] # None
    BY ZenonT(30), <1>6, <1>7, <2>1, <2>2
  <2>. QED  BY ZenonT(30), <1>3, <2>1, <2>3, <2>4
<1>9. ASSUME NEW c \in Clients, TakeAnswer(c) \/ GiveUp(c) PROVE Tracked' /\ Over'
  <2>1. /\ client[c].pc = "waiting" /\ client' = [client EXCEPT ![c] = Idle] /\ queue' = queue
        /\ answer' = answer \/ answer' = Answered(answer, client[c].req.id, "Timeout")
    BY ZenonT(30), <1>9 DEF TakeAnswer, GiveUp
  <2>2. \A i \in Ids : answer[i] # None => answer'[i] # None
    BY ZenonT(30), <1>4, <1>6, <1>7, <2>1
  <2>. QED  BY ZenonT(30), <1>3, <1>5, <2>1, <2>2
<1>10. ASSUME NEW c \in Clients, Enqueue(c) PROVE Tracked' /\ Over'
  <2> DEFINE r == client[c].req
  <2>1. r \in Requests /\ r.id \in Ids
    BY ZenonT(30), <1>4, <1>10 DEF Enqueue
  <2>2. CASE queue' = queue
    <3>1. /\ client' = [client EXCEPT ![c] = Idle]
          /\ \/ answer' = Answered(answer, r.id, "SessionLost")
             \/ answer' = Answered(answer, r.id, "Busy")
      <4>1. Append(queue, r) # queue
        BY <1>1, <2>1, AppendProperties, LenProperties
      <4>. QED  BY ZenonT(30), <1>10, <2>2, <4>1 DEF Enqueue
    <3>2. \A i \in Ids : answer[i] # None => answer'[i] # None
      BY ZenonT(30), <1>6, <1>7, <2>1, <3>1
    <3>. QED  BY ZenonT(30), <1>3, <1>5, <2>2, <3>1, <3>2
  <2>3. CASE queue' # queue
    <3>1. /\ queue' = Append(queue, r) /\ answer' = answer /\ driver.pc # "closed"
          /\ client' = [client EXCEPT ![c].pc = "waiting"]
      BY ZenonT(30), <1>10, <2>3 DEF Enqueue
    <3>2. Queued(queue') = Queued(queue) \cup {r.id}
      BY ZenonT(30), <1>1, <2>1, <3>1, QueueAppend
    <3>3. client'[c].req = r
      BY ZenonT(30), <1>1, <3>1 DEF Threads
    <3>4. \A d \in Clients : client'[d].pc = "waiting" =>
            \/ client[d].pc = "waiting" /\ client'[d].req = client[d].req
            \/ client'[d].req.id \in Queued(queue')
      BY ZenonT(30), <1>1, <3>1, <3>2, <3>3
    <3>5. \A i \in Ids : Pending(i) => HandedOn(i)
      BY ZenonT(30), <1>2, <3>2 DEF Pending, HandedOn
    <3>6. Tracked'
      BY ZenonT(30), <3>1, <3>4, <3>5, TrackedStep
    <3>. QED  BY ZenonT(30), <1>2, <3>1, <3>6 DEF Over, Looping
  <2>. QED  BY ZenonT(30), <2>2, <2>3
<1>. QED  BY ZenonT(30), <1>8, <1>9, <1>10 DEF ClientNext

\* Every step keeps what an ended session is made of.
LEMMA EndNext == IInv /\ EndInv /\ [Next]_vars => EndInv'
<1>. SUFFICES ASSUME IInv, EndInv, [Next]_vars PROVE EndInv'
  BY ZenonT(30)
<1>1. Shown' /\ CancelIsFinal'
  BY ZenonT(30), CancelStep DEF EndInv
<1>2. CASE ClientNext
  BY ZenonT(30), <1>1, <1>2, ClientsEnd DEF EndInv
<1>3. CASE DriverNext
  BY <1>1, <1>3, DriverEnds DEF EndInv
<1>4. CASE Cancel \/ WaitAuthenticated \/ WorkerWork \/ WorkerEnds \/ NetworkBreaks \/ UNCHANGED vars
  <2>1. client' = client /\ answer' = answer /\ queue' = queue /\ driver' = driver
    BY ZenonT(30), <1>4 DEF Cancel, CancelStore, CancelClear, WaitAuthenticated, WorkerWork, WorkerBegin,
       WorkerHeartbeat, WorkerPong, HandleCommand, HandleResource, HandleBuffer, HandleCompute,
       HandledInline, HandedToThread, HandlerReturns, WorkerResponds, WorkerEnds, NetworkBreaks, vars
  <2>2. Tracked' /\ Over'
    BY ZenonT(30), <2>1 DEF EndInv, Tracked, Over, Pending, Looping
  <2>. QED  BY ZenonT(30), <1>1, <2>2 DEF EndInv
<1>. QED  BY ZenonT(30), <1>2, <1>3, <1>4 DEF Next

\* A session that is over leaves nothing behind, for any number of threads: when the
\* driver is gone every thread that waits has its answer, and what cancel_session has
\* cleared is not set again (end_session, Drop of the driver, cancel_session,
\* begin_session, mark_heartbeat).
THEOREM EndsAlwaysClean == Spec => []EndsClean
<1>1. Init => EndInv
  <2>. SUFFICES ASSUME Init PROVE EndInv
    BY ZenonT(30)
  <2>1. Shown /\ CancelIsFinal
    BY ZenonT(30) DEF Init, Shown, CancelIsFinal
  <2>2. Tracked /\ Over
    BY ZenonT(30) DEF Init, Idle, Tracked, Over
  <2>. QED  BY ZenonT(30), <2>1, <2>2 DEF EndInv
<1>2. IInv /\ EndInv => EndsClean
  <2>. SUFFICES ASSUME IInv, EndInv PROVE NobodyStranded
    BY ZenonT(30) DEF EndInv, EndsClean
  <2>. SUFFICES ASSUME driver.pc = "closed", NEW c \in Clients, client[c].pc = "waiting"
                PROVE  answer[client[c].req.id] # None
    BY ZenonT(30) DEF NobodyStranded
  <2>1. queue = <<>> /\ driver.app = None
    BY ZenonT(30) DEF EndInv, Over, Looping
  <2>2. Queued(queue) = {}
    BY <2>1 DEF Queued
  <2>. QED  BY ZenonT(30), <2>1, <2>2 DEF EndInv, Tracked, Pending
<1>. QED  BY <1>1, <1>2, EndNext, Invariance, PTL DEF Spec

-----------------------------------------------------------------------------
Served == {"Command", "Resource", "RemoteBuffer", "Compute"}

\* A frame that answers what is outstanding at the host, and one that asks for it.
Pinged(i) == driver.ping # None /\ driver.ping = i
Outstands(i, kind) == driver.app # None /\ driver.app = [id |-> i, kind |-> kind]
Fits(f) ==
  \/ f.type = "Heartbeat"
  \/ f.type = "Pong" /\ Pinged(f.id)
  \/ f.type = "Response" /\ Outstands(f.id, f.kind) /\ f.kind \in Served
Asking(f) ==
  \/ f.type = "Ping" /\ Pinged(f.id)
  \/ f.type = "Request" /\ Outstands(f.id, f.kind)

\* What is on its way to a driver that still reads: numbered from what it expects,
\* with at most one frame that is not a heartbeat, which fits.
Single(s) == \A m, n \in Exchange(s) : m = n
Numbered(s, e) == \A n \in 1..Len(s) : s[n].seq = e + n - 1
AllFit(s) == \A n \in 1..Len(s) : Fits(s[n])
Coming == Alive =>
  /\ driver.ping = None \/ driver.app = None
  /\ Numbered(toHost, driver.expected) /\ AllFit(toHost) /\ Single(toHost)

\* Between two connected peers an exchange is in one of three places: on the way to
\* the phone, in its handler, or on the way back.
Open == up =>
  /\ Alive
  /\ Len(toWorker) <= 1
  /\ toWorker # <<>> => Asking(toWorker[1]) /\ worker.job = None /\ Exchange(toHost) = {}
  /\ worker.job # None => /\ toWorker = <<>> /\ Exchange(toHost) = {}
                          /\ driver.app = worker.job /\ worker.job.kind \in Served

\* The inductive part of InStep.
Lockstep == up \in BOOLEAN /\ SequencesAgree /\ Coming /\ Open

-----------------------------------------------------------------------------
\* The stream to the host grows at its end, is read at its head, or loses its end.
LEMMA StreamAppend ==
  ASSUME NEW s \in Seq(Wire), NEW f \in Wire
  PROVE  /\ Len(Append(s, f)) = Len(s) + 1 /\ Len(s) \in Nat
         /\ f.type = "Heartbeat" => Exchange(Append(s, f)) = Exchange(s)
         /\ Exchange(s) = {} => Single(Append(s, f))
         /\ f.type = "Heartbeat" /\ Single(s) => Single(Append(s, f))
         /\ AllFit(s) /\ Fits(f) => AllFit(Append(s, f))
         /\ \A e \in Nat : Numbered(s, e) /\ f.seq = e + Len(s) => Numbered(Append(s, f), e)
<1> DEFINE a == Append(s, f)
<1>1. /\ a \in Seq(Wire) /\ Len(a) = Len(s) + 1 /\ Len(s) \in Nat
      /\ \A n \in 1..Len(s) : a[n] = s[n]
      /\ a[Len(s) + 1] = f
  BY AppendProperties, LenProperties
<1>2. 1..Len(a) = (1..Len(s)) \cup {Len(s) + 1} /\ Len(s) + 1 \notin 1..Len(s)
  BY <1>1
<1> HIDE DEF a
<1>3. Exchange(a) = Exchange(s) \cup (IF f.type # "Heartbeat" THEN {Len(s) + 1} ELSE {})
  BY ZenonT(30), <1>1, <1>2 DEF Exchange
<1>4. AllFit(s) /\ Fits(f) => AllFit(a)
  BY ZenonT(30), <1>1, <1>2 DEF AllFit
<1>5. ASSUME NEW e \in Nat, Numbered(s, e), f.seq = e + Len(s) PROVE Numbered(a, e)
  <2>. SUFFICES ASSUME NEW n \in 1..Len(a) PROVE a[n].seq = e + n - 1
    BY ZenonT(30) DEF Numbered
  <2>1. CASE n \in 1..Len(s)
    BY ZenonT(30), <1>1, <1>5, <2>1 DEF Numbered
  <2>2. CASE n = Len(s) + 1
    BY <1>1, <1>5, <2>2
  <2>. QED  BY ZenonT(30), <1>2, <2>1, <2>2
<1>6. /\ Exchange(s) = {} => Single(a)
      /\ f.type = "Heartbeat" /\ Single(s) => Single(a)
  BY ZenonT(30), <1>3 DEF Single
<1>. QED  BY ZenonT(30), <1>1, <1>3, <1>4, <1>5, <1>6 DEF a

\* A stream without its first frame goes on with the next number.
LEMMA StreamTail ==
  ASSUME NEW s \in Seq(Wire), s # <<>>
  PROVE  /\ Head(s) = s[1] /\ Head(s) \in Wire /\ Len(s) \in Nat /\ Len(s) >= 1
         /\ Len(Tail(s)) = Len(s) - 1
         /\ \A n \in Exchange(Tail(s)) : n + 1 \in Exchange(s) /\ n \in Nat /\ n >= 1
         /\ Single(s) => Single(Tail(s)) /\ (Head(s).type # "Heartbeat" => Exchange(Tail(s)) = {})
         /\ \A n \in 1..Len(Tail(s)) : n + 1 \in 1..Len(s) /\ Tail(s)[n] = s[n + 1]
         /\ \A e \in Nat : Numbered(s, e) => Head(s).seq = e /\ Numbered(Tail(s), e + 1)
<1>1. /\ Tail(s) \in Seq(Wire) /\ Head(s) = s[1] /\ Head(s) \in Wire
      /\ Len(s) \in Nat /\ Len(s) >= 1 /\ Len(Tail(s)) = Len(s) - 1
      /\ \A n \in 1..Len(Tail(s)) : Tail(s)[n] = s[n + 1]
  BY HeadTailProperties, EmptySeq, LenProperties
<1>2. 1 \in 1..Len(s) /\ \A n \in 1..Len(Tail(s)) : n + 1 \in 1..Len(s) /\ n \in Nat /\ n >= 1
  BY <1>1
<1>3. \A n \in Exchange(Tail(s)) : n + 1 \in Exchange(s) /\ n \in Nat /\ n >= 1
  BY ZenonT(30), <1>1, <1>2 DEF Exchange
<1>4. ASSUME Single(s) PROVE Single(Tail(s)) /\ (Head(s).type # "Heartbeat" => Exchange(Tail(s)) = {})
  <2>1. ASSUME NEW m \in Exchange(Tail(s)), NEW n \in Exchange(Tail(s)) PROVE m = n
    <3>1. m + 1 = n + 1 /\ m \in Nat /\ n \in Nat
      BY ZenonT(30), <1>3, <1>4 DEF Single
    <3>. QED  BY <3>1
  <2>2. ASSUME Head(s).type # "Heartbeat", NEW m \in Exchange(Tail(s)) PROVE FALSE
    <3>1. 1 \in Exchange(s) /\ m + 1 \in Exchange(s) /\ m \in Nat /\ m >= 1
      BY ZenonT(30), <1>1, <1>2, <1>3, <2>2 DEF Exchange
    <3>2. m + 1 = 1
      BY ZenonT(30), <1>4, <3>1 DEF Single
    <3>. QED  BY <3>1, <3>2
  <2>. QED  BY ZenonT(30), <2>1, <2>2 DEF Single
<1>5. ASSUME NEW e \in Nat, Numbered(s, e) PROVE Head(s).seq = e /\ Numbered(Tail(s), e + 1)
  <2>1. Head(s).seq = e
    BY <1>1, <1>2, <1>5 DEF Numbered
  <2>2. ASSUME NEW n \in 1..Len(Tail(s)) PROVE Tail(s)[n].seq = e + 1 + n - 1
    <3>1. Tail(s)[n].seq = e + (n + 1) - 1 /\ n \in Nat
      BY ZenonT(30), <1>1, <1>2, <1>5, <2>2 DEF Numbered
    <3>. QED  BY <3>1
  <2>. QED  BY ZenonT(30), <2>1, <2>2 DEF Numbered
<1>. QED  BY ZenonT(30), <1>1, <1>2, <1>3, <1>4, <1>5

\* A stream that was cut short has lost its last numbers only.
LEMMA StreamPrefix ==
  ASSUME NEW s \in Seq(Wire), NEW p \in Prefixes(s)
  PROVE  /\ Single(s) => Single(p)
         /\ AllFit(s) => AllFit(p)
         /\ \A e \in Nat : Numbered(s, e) => Numbered(p, e)
<1>1. /\ Len(p) <= Len(s) /\ \A n \in 1..Len(p) : p[n] = s[n]
      /\ Len(p) \in Nat /\ Len(s) \in Nat
  BY ZenonT(30), WirePrefix, LenProperties
<1>2. \A n \in 1..Len(p) : n \in 1..Len(s)
  BY <1>1
<1>3. Exchange(p) \subseteq Exchange(s)
  BY ZenonT(30), <1>1, <1>2 DEF Exchange
<1>. QED  BY ZenonT(30), <1>1, <1>2, <1>3 DEF Single, AllFit, Numbered

\* With nothing outstanding, nothing is in flight but heartbeats.
LEMMA QuietIsQuiet ==
  ASSUME Lockstep, Quiet, Alive
  PROVE  /\ Exchange(toHost) = {}
         /\ up => toWorker = <<>> /\ worker.job = None
<1>1. ASSUME NEW n \in 1..Len(toHost) PROVE toHost[n].type = "Heartbeat"
  BY ZenonT(30) DEF Lockstep, Coming, AllFit, Fits, Quiet, Pinged, Outstands
<1>2. Exchange(toHost) = {}
  BY ZenonT(30), <1>1 DEF Exchange
<1>3. ASSUME up PROVE toWorker = <<>> /\ worker.job = None
  BY ZenonT(30), <1>3 DEF Lockstep, Open, Asking, Pinged, Outstands, Quiet
<1>. QED  BY ZenonT(30), <1>2, <1>3

\* The locals of the loop that the invariant is about.
SameLocals == /\ driver'.ping = driver.ping /\ driver'.app = driver.app
              /\ driver'.sent = driver.sent /\ driver'.expected = driver.expected
SamePhone == /\ worker'.job = worker.job /\ worker'.sent = worker.sent
             /\ worker'.expected = worker.expected

\* Steps that only move the driver's or the phone's program counter.
LEMMA StillInStep ==
  ASSUME Lockstep, SameLocals, SamePhone, toWorker' = toWorker, toHost' = toHost, up' = up,
         Alive' => Alive, up => Alive'
  PROVE  Lockstep'
<1>1. SequencesAgree'
  BY ZenonT(30) DEF Lockstep, SequencesAgree, SameLocals, SamePhone
<1>2. \A f : Fits(f) = Fits(f)'
  BY ZenonT(30) DEF Fits, Pinged, Outstands, SameLocals
<1>3. Coming'
  BY ZenonT(30), <1>2 DEF Lockstep, Coming, SameLocals, AllFit
<1>4. Open'
  BY ZenonT(30) DEF Lockstep, Open, SameLocals, SamePhone, Asking, Pinged, Outstands
<1>. QED  BY ZenonT(30), <1>1, <1>3, <1>4 DEF Lockstep

\* The connection breaks: a driver that still reads, reads a prefix.
LEMMA BrokenInStep ==
  ASSUME IInv, Lockstep, Break, Alive' => Alive /\ SameLocals
  PROVE  Lockstep'
<1>1. up' = FALSE /\ toHost' \in Prefixes(toHost) /\ toHost \in Seq(Wire)
  BY ZenonT(30) DEF Break, IInv, Types
<1>2. ASSUME Alive' PROVE /\ driver'.ping = None \/ driver'.app = None
                          /\ Numbered(toHost', driver'.expected)
                          /\ AllFit(toHost)' /\ Single(toHost')
  <2>1. Alive /\ SameLocals /\ driver.expected \in Nat
    BY ZenonT(30), <1>2 DEF IInv, Types, Drivers
  <2>2. AllFit(toHost') /\ Single(toHost') /\ Numbered(toHost', driver.expected)
    BY ZenonT(30), <1>1, <2>1, StreamPrefix DEF Lockstep, Coming
  <2>3. \A f : Fits(f) = Fits(f)'
    BY ZenonT(30), <2>1 DEF Fits, Pinged, Outstands, SameLocals
  <2>. QED  BY ZenonT(30), <2>1, <2>2, <2>3 DEF Lockstep, Coming, SameLocals, AllFit
<1>. QED  BY ZenonT(30), <1>1, <1>2 DEF Lockstep, SequencesAgree, Coming, Open

-----------------------------------------------------------------------------
\* What the host sends and reads.

\* Two connected peers without an exchange: the host sends one frame.
LEMMA SendInStep ==
  ASSUME IInv, Lockstep, Quiet, Alive, Alive', NEW f \in Wire,
         toWorker' = IF up THEN Append(toWorker, f) ELSE toWorker,
         toHost' = toHost, up' = up, worker' = worker,
         driver'.sent = driver.sent + 1, driver'.expected = driver.expected,
         driver'.ping = None \/ driver'.app = None,
         \/ f.type = "Ping" /\ driver'.ping # None /\ driver'.ping = f.id
         \/ f.type = "Request" /\ driver'.app # None /\ driver'.app = [id |-> f.id, kind |-> f.kind]
  PROVE  Lockstep'
<1>1. Exchange(toHost) = {} /\ (up => toWorker = <<>> /\ worker.job = None)
  BY ZenonT(30), QuietIsQuiet
<1>2. /\ toHost \in Seq(Wire) /\ toWorker \in Seq(Wire) /\ driver.sent \in Nat /\ worker.expected \in Nat
  BY ZenonT(30) DEF IInv, Types, Drivers, Workers
<1>3. up => toWorker' # <<>> /\ Len(toWorker') = 1 /\ toWorker'[1] = f /\ Len(toWorker) = 0
  BY <1>1
<1>4. SequencesAgree'
  BY <1>2, <1>3 DEF Lockstep, SequencesAgree
<1>5. \A n \in 1..Len(toHost) : toHost[n].type = "Heartbeat"
  BY ZenonT(30), <1>1 DEF Exchange
<1>6. Coming'
  BY ZenonT(30), <1>1, <1>5 DEF Lockstep, Coming, AllFit, Fits, Single, Numbered
<1>7. Open'
  BY <1>1, <1>3 DEF Open, Asking, Pinged, Outstands
<1>. QED  BY ZenonT(30), <1>4, <1>6, <1>7 DEF Lockstep

\* A heartbeat of the host opens an exchange when none is open.
LEMMA SendPingInStep == ASSUME IInv, Lockstep, SendPing PROVE Lockstep'
<1> DEFINE f == [type |-> "Ping", id |-> driver.pings + 1, kind |-> None, seq |-> driver.sent]
<1>1. /\ driver \in Drivers /\ driver.pings + 1 \in Nat /\ driver.sent \in Nat
  BY DEF IInv, Types, Drivers
<1>2. /\ Quiet /\ driver.pc = "send" /\ toHost' = toHost /\ up' = up /\ worker' = worker
      /\ toWorker' = IF up THEN Append(toWorker, f) ELSE toWorker
      /\ driver' = [driver EXCEPT !.pc = "receive", !.ping = driver.pings + 1,
                                  !.pings = driver.pings + 1, !.sent = driver.sent + 1]
  BY ZenonT(30) DEF SendPing, HostSends
<1>3. f \in Wire /\ f.type = "Ping" /\ f.id = driver.pings + 1
  BY ZenonT(30), <1>1 DEF Wire
<1> HIDE DEF f
<1>4. /\ driver'.pc = "receive" /\ driver'.ping = driver.pings + 1 /\ driver'.app = driver.app
      /\ driver'.sent = driver.sent + 1 /\ driver'.expected = driver.expected
  BY ZenonT(30), <1>1, <1>2 DEF Drivers
<1>5. driver'.ping # None /\ driver'.app = None
  BY ZenonT(30), <1>1, <1>2, <1>4, NoneAssumption DEF Quiet
<1>6. Alive /\ Alive'
  BY ZenonT(30), <1>2, <1>4 DEF Alive, Looping
<1>. QED  BY ZenonT(30), <1>2, <1>3, <1>4, <1>5, <1>6, SendInStep

\* A request opens an exchange when none is open.
LEMMA StartRequestInStep == ASSUME IInv, Lockstep, StartRequest PROVE Lockstep'
<1> DEFINE r == Head(queue)
           f == [type |-> "Request", id |-> r.id, kind |-> r.kind, seq |-> driver.sent]
<1>1. driver \in Drivers /\ driver.sent \in Nat /\ queue \in Seq(Requests)
  BY ZenonT(30) DEF IInv, Types, Drivers
<1>2. /\ Quiet /\ driver.pc = "send" /\ toHost' = toHost /\ up' = up /\ worker' = worker /\ queue # <<>>
      /\ toWorker' = IF up THEN Append(toWorker, f) ELSE toWorker
      /\ driver' = [driver EXCEPT !.pc = "receive", !.app = r, !.sent = driver.sent + 1]
  BY ZenonT(30) DEF StartRequest, HostSends
<1>3. r \in Requests
  BY ZenonT(30), <1>1, <1>2, QueueTail
<1>4. f \in Wire /\ f.type = "Request" /\ r = [id |-> f.id, kind |-> f.kind] /\ r # None
  <2>1. r.id \in Nat /\ r.kind \in Kinds /\ r = [id |-> r.id, kind |-> r.kind]
    BY <1>3 DEF Requests, Ids
  <2>2. r # None
    BY <1>3, NoneAssumption, ZenonT(30)
  <2>. QED  BY ZenonT(30), <1>1, <2>1, <2>2 DEF Wire
<1> HIDE DEF r, f
<1>5. /\ driver'.pc = "receive" /\ driver'.ping = driver.ping /\ driver'.app = r
      /\ driver'.sent = driver.sent + 1 /\ driver'.expected = driver.expected
  BY ZenonT(30), <1>1, <1>2 DEF Drivers
<1>6. driver'.ping = None
  BY ZenonT(30), <1>2, <1>5 DEF Quiet
<1>7. Alive /\ Alive'
  BY ZenonT(30), <1>2, <1>5 DEF Alive, Looping
<1>. QED  BY ZenonT(30), <1>2, <1>4, <1>5, <1>6, <1>7, SendInStep

\* The host reads a frame that fits; what was outstanding is settled.
LEMMA ReceivedInStep ==
  ASSUME IInv, Lockstep, driver.pc = "receive", toHost # <<>>, Received(Head(toHost)),
         Expected(Head(toHost)), worker' = worker
  PROVE  Lockstep'
<1> DEFINE f == Head(toHost)
<1>1. driver \in Drivers /\ driver.expected \in Nat /\ toHost \in Seq(Wire) /\ worker.sent \in Nat
  BY ZenonT(30) DEF IInv, Types, Drivers, Workers
<1>2. /\ f = toHost[1] /\ f \in Wire /\ Len(toHost) \in Nat /\ Len(toHost) >= 1 /\ toHost' = Tail(toHost)
      /\ Len(toHost') = Len(toHost) - 1 /\ up' = up /\ toWorker' = toWorker
      /\ \A n \in Exchange(toHost') : n + 1 \in Exchange(toHost)
      /\ Single(toHost) => Single(toHost') /\ (f.type # "Heartbeat" => Exchange(toHost') = {})
      /\ \A n \in 1..Len(toHost') : n + 1 \in 1..Len(toHost) /\ toHost'[n] = toHost[n + 1]
      /\ Numbered(toHost, driver.expected) => Numbered(toHost', driver.expected + 1)
  BY <1>1, StreamTail DEF Received
<1>3. Alive /\ Single(toHost) /\ AllFit(toHost) /\ Numbered(toHost, driver.expected)
      /\ (driver.ping = None \/ driver.app = None)
  BY ZenonT(30) DEF Lockstep, Coming, Alive, Looping
<1>4. /\ f.type = "Pong" => driver' = [driver EXCEPT !.pc = "top", !.expected = driver.expected + 1, !.ping = None]
      /\ f.type = "Response" => driver' = [driver EXCEPT !.pc = "top", !.expected = driver.expected + 1, !.app = None]
      /\ f.type = "Heartbeat" => driver' = [driver EXCEPT !.pc = "top", !.expected = driver.expected + 1]
      /\ f.type \in {"Pong", "Response", "Heartbeat"}
  BY ZenonT(30) DEF Received, AfterPong, Expected
<1>5. /\ driver'.pc = "top" /\ driver'.expected = driver.expected + 1 /\ driver'.sent = driver.sent
      /\ f.type = "Pong" => driver'.ping = None /\ driver'.app = driver.app
      /\ f.type = "Response" => driver'.ping = driver.ping /\ driver'.app = None
      /\ f.type = "Heartbeat" => driver'.ping = driver.ping /\ driver'.app = driver.app
  BY ZenonT(30), <1>1, <1>4 DEF Drivers
<1> HIDE DEF f
<1>6. Alive' /\ (driver'.ping = None \/ driver'.app = None)
  BY ZenonT(30), <1>3, <1>4, <1>5 DEF Alive, Looping
<1>7. SequencesAgree'
  BY <1>1, <1>2, <1>5 DEF Lockstep, SequencesAgree
<1>8. CASE f.type = "Heartbeat"
  <2>1. \A n \in 1..Len(toHost') : Fits(toHost[n + 1])
    BY ZenonT(30), <1>2, <1>3 DEF AllFit
  <2>2. AllFit(toHost)'
    BY ZenonT(120), <1>2, <1>5, <1>8, <2>1 DEF AllFit, Fits, Pinged, Outstands
  <2>3. Coming'
    BY ZenonT(30), <1>2, <1>3, <1>5, <1>6, <2>2 DEF Coming
  <2>4. Exchange(toHost) = {} => Exchange(toHost') = {}
    BY ZenonT(30), <1>2
  <2>5. Open'
    <3>1. Open /\ up' = up /\ toWorker' = toWorker /\ worker' = worker
      BY <1>2, ZenonT(30) DEF Lockstep, Received
    <3>2. driver'.ping = driver.ping /\ driver'.app = driver.app /\ Alive'
      BY <1>5, <1>6, <1>8, ZenonT(30)
    <3>. QED  BY ZenonT(30), <3>1, <3>2, <2>4 DEF Open, Asking, Pinged, Outstands
  <2>. QED  BY ZenonT(30), <1>2, <1>7, <2>3, <2>5 DEF Lockstep
<1>9. CASE f.type # "Heartbeat"
  <2>1. Exchange(toHost') = {} /\ 1 \in Exchange(toHost)
    <3>1. f = toHost[1] /\ 1 \in 1..Len(toHost) /\ Exchange(toHost') = {}
      <4>1. Len(toHost) \in Nat /\ Len(toHost) >= 1
        BY <1>2, ZenonT(30)
      <4>2. 1 \in 1..Len(toHost)
        BY <4>1
      <4>. QED  BY <1>2, <1>3, <1>9, <4>2, ZenonT(30)
    <3>. QED  BY <3>1, <1>9, ZenonT(30) DEF Exchange
  <2>2. \A n \in 1..Len(toHost') : toHost'[n].type = "Heartbeat"
    BY ZenonT(30), <2>1 DEF Exchange
  <2>3. Coming'
    BY ZenonT(30), <1>2, <1>3, <1>5, <1>6, <2>1, <2>2 DEF Coming, AllFit, Fits, Single
  <2>4. up => toWorker = <<>> /\ worker.job = None
    BY ZenonT(30), <2>1 DEF Lockstep, Open
  <2>5. Open'
    BY <1>2, <1>6, <2>1, <2>4 DEF Open
  <2>. QED  BY <1>2, <1>7, <2>3, <2>5 DEF Lockstep
<1>. QED  BY ZenonT(30), <1>8, <1>9

-----------------------------------------------------------------------------
\* What the phone reads and sends.

\* The phone sends one frame that fits, in an exchange whose other places are empty.
LEMMA PhoneSendsInStep ==
  ASSUME IInv, Lockstep, NEW f \in Wire, f.seq = worker.sent,
         toHost' = IF up THEN Append(toHost, f) ELSE toHost,
         up' = up, driver' = driver, worker'.sent = worker.sent + 1,
         up => worker'.expected + Len(toWorker') = driver.sent,
         up => Fits(f),
         up => \/ f.type = "Heartbeat" /\ toWorker' = toWorker /\ worker'.job = worker.job
               \/ Exchange(toHost) = {} /\ toWorker' = <<>> /\ worker'.job = None
  PROVE  Lockstep'
<1>1. toHost \in Seq(Wire) /\ driver.expected \in Nat /\ worker.sent \in Nat
  BY ZenonT(30) DEF IInv, Types, Drivers, Workers
<1>2. /\ Len(Append(toHost, f)) = Len(toHost) + 1 /\ Len(toHost) \in Nat
      /\ f.type = "Heartbeat" => Exchange(Append(toHost, f)) = Exchange(toHost)
      /\ Exchange(toHost) = {} => Single(Append(toHost, f))
      /\ f.type = "Heartbeat" /\ Single(toHost) => Single(Append(toHost, f))
      /\ AllFit(toHost) /\ Fits(f) => AllFit(Append(toHost, f))
      /\ Numbered(toHost, driver.expected) /\ f.seq = driver.expected + Len(toHost)
           => Numbered(Append(toHost, f), driver.expected)
  BY ZenonT(30), <1>1, StreamAppend
<1>3. \A g : Fits(g) = Fits(g)'
  BY ZenonT(30) DEF Fits, Pinged, Outstands
<1>4. CASE ~up
  <2>1. Coming'
    BY ZenonT(30), <1>3, <1>4 DEF Lockstep, Coming, AllFit, Alive, Looping
  <2>. QED  BY ZenonT(30), <1>4, <2>1 DEF Lockstep, SequencesAgree, Open
<1>5. CASE up
  <2>1. toHost' = Append(toHost, f) /\ Alive /\ Alive'
    BY ZenonT(30), <1>5 DEF Lockstep, Open, Alive, Looping
  <2>2. /\ Numbered(toHost, driver.expected) /\ AllFit(toHost) /\ Single(toHost)
        /\ driver.ping = None \/ driver.app = None
    BY ZenonT(30), <2>1 DEF Lockstep, Coming
  <2>3. f.seq = driver.expected + Len(toHost)
    BY ZenonT(30), <1>5 DEF Lockstep, SequencesAgree
  <2>4. Numbered(toHost', driver.expected) /\ AllFit(toHost') /\ Single(toHost')
    BY ZenonT(30), <1>2, <1>5, <2>1, <2>2, <2>3
  <2>5. Coming'
    BY ZenonT(30), <1>3, <2>2, <2>4 DEF Coming, AllFit
  <2>6. SequencesAgree'
    BY <1>1, <1>2, <1>5, <2>1, <2>3 DEF SequencesAgree
  <2>7. Open'
    <3>1. CASE f.type = "Heartbeat" /\ toWorker' = toWorker /\ worker'.job = worker.job
      BY ZenonT(30), <1>2, <2>1, <3>1 DEF Lockstep, Open, Asking, Pinged, Outstands
    <3>2. CASE toWorker' = <<>> /\ worker'.job = None
      BY <2>1, <3>2 DEF Open
    <3>. QED  BY ZenonT(30), <1>5, <3>1, <3>2
  <2>. QED  BY ZenonT(30), <1>5, <2>5, <2>6, <2>7 DEF Lockstep
<1>. QED  BY ZenonT(30), <1>4, <1>5 DEF Lockstep

\* The phone sends a heartbeat of its own, which opens no exchange.
LEMMA HeartbeatInStep == ASSUME IInv, Lockstep, WorkerHeartbeat PROVE Lockstep'
<1> DEFINE f == [type |-> "Heartbeat", id |-> 0, kind |-> None, seq |-> worker.sent]
<1>1. worker \in Workers /\ worker.sent \in Nat
  BY ZenonT(30) DEF IInv, Types, Workers
<1>2. /\ toHost' = IF up THEN Append(toHost, f) ELSE toHost
      /\ worker' = [worker EXCEPT !.beats = @ + 1, !.sent = @ + 1]
      /\ up' = up /\ driver' = driver /\ toWorker' = toWorker
  BY ZenonT(30) DEF WorkerHeartbeat, WorkerSends
<1>3. f \in Wire /\ f.type = "Heartbeat" /\ f.seq = worker.sent
  BY ZenonT(30), <1>1 DEF Wire
<1> HIDE DEF f
<1>4. worker'.sent = worker.sent + 1 /\ worker'.job = worker.job /\ worker'.expected = worker.expected
  BY ZenonT(30), <1>1, <1>2 DEF Workers
<1>5. up => worker'.expected + Len(toWorker') = driver.sent
  BY ZenonT(30), <1>2, <1>4 DEF Lockstep, SequencesAgree
<1>6. Fits(f)
  BY ZenonT(30), <1>3 DEF Fits
<1>. QED  BY ZenonT(30), <1>2, <1>3, <1>4, <1>5, <1>6, PhoneSendsInStep

\* Taking the only frame off the way to the phone.
LEMMA PhoneReadsOne ==
  ASSUME IInv, Lockstep, toWorker # <<>>, toWorker' = Tail(toWorker),
         worker'.expected = worker.expected + 1
  PROVE  /\ Head(toWorker) \in Wire
         /\ up => /\ toWorker' = <<>> /\ Len(toWorker') = 0 /\ worker'.expected + 0 = driver.sent
                  /\ Asking(Head(toWorker)) /\ worker.job = None /\ Exchange(toHost) = {}
<1>1. toWorker \in Seq(Wire) /\ worker.expected \in Nat /\ driver.sent \in Nat
  BY ZenonT(30) DEF IInv, Types, Workers, Drivers
<1>2. /\ Head(toWorker) = toWorker[1] /\ Head(toWorker) \in Wire /\ Len(toWorker) \in Nat
      /\ Len(toWorker) >= 1 /\ Len(Tail(toWorker)) = Len(toWorker) - 1 /\ Tail(toWorker) \in Seq(Wire)
  BY ZenonT(30), <1>1, StreamTail, HeadTailProperties
<1>3. ASSUME up PROVE /\ toWorker' = <<>> /\ Len(toWorker') = 0 /\ worker'.expected + 0 = driver.sent
                      /\ Asking(Head(toWorker)) /\ worker.job = None /\ Exchange(toHost) = {}
  <2>1. Len(toWorker) <= 1 /\ Asking(toWorker[1]) /\ worker.job = None /\ Exchange(toHost) = {}
    BY ZenonT(30), <1>3 DEF Lockstep, Open
  <2>2. Len(toWorker') = 0 /\ Len(toWorker) = 1
    BY <1>2, <2>1
  <2>3. toWorker' = <<>>
    BY ZenonT(30), <1>2, <2>2, EmptySeq
  <2>4. worker.expected + 1 = driver.sent
    BY ZenonT(30), <1>3, <2>2 DEF Lockstep, SequencesAgree
  <2>. QED  BY <1>1, <1>2, <2>1, <2>2, <2>3, <2>4
<1>. QED  BY ZenonT(30), <1>2, <1>3

\* The phone answers a heartbeat.
LEMMA PongInStep == ASSUME IInv, Lockstep, WorkerPong PROVE Lockstep'
<1> DEFINE h == Head(toWorker)
           f == [type |-> "Pong", id |-> h.id, kind |-> None, seq |-> worker.sent]
<1>1. worker \in Workers /\ worker.sent \in Nat
  BY DEF IInv, Types, Workers
<1>2. /\ toHost' = IF up THEN Append(toHost, f) ELSE toHost
      /\ worker' = [worker EXCEPT !.expected = @ + 1, !.sent = @ + 1]
      /\ up' = up /\ driver' = driver /\ toWorker' = Tail(toWorker) /\ toWorker # <<>>
      /\ h.type = "Ping"
  BY ZenonT(30) DEF WorkerPong, WorkerSends
<1>3. worker'.sent = worker.sent + 1 /\ worker'.job = worker.job /\ worker'.expected = worker.expected + 1
  BY ZenonT(30), <1>1, <1>2 DEF Workers
<1>4. /\ h \in Wire
      /\ up => /\ toWorker' = <<>> /\ Len(toWorker') = 0 /\ worker'.expected + 0 = driver.sent
               /\ Asking(h) /\ worker.job = None /\ Exchange(toHost) = {}
  BY ZenonT(30), <1>2, <1>3, PhoneReadsOne
<1>5. f \in Wire /\ f.type = "Pong" /\ f.seq = worker.sent /\ f.id = h.id
  BY ZenonT(30), <1>1, <1>4 DEF Wire
<1> HIDE DEF f, h
<1>6. up => Fits(f)
  BY ZenonT(30), <1>2, <1>4, <1>5 DEF Fits, Asking
<1>. QED  BY ZenonT(30), <1>2, <1>3, <1>4, <1>5, <1>6, PhoneSendsInStep

\* The phone handles a request in its loop.
LEMMA InlineInStep ==
  ASSUME IInv, Lockstep, HandleCommand \/ HandleResource
  PROVE  Lockstep'
<1>0. PICK kind \in {"Command", "Resource"} : WorkerReads(kind) /\ HandledInline
  BY ZenonT(30) DEF HandleCommand, HandleResource
<1> DEFINE h == Head(toWorker)
           f == [type |-> "Response", id |-> h.id, kind |-> h.kind, seq |-> worker.sent]
<1>1. worker \in Workers /\ worker.sent \in Nat
  BY ZenonT(30) DEF IInv, Types, Workers
<1>2. /\ toHost' = IF up THEN Append(toHost, f) ELSE toHost
      /\ worker' = [worker EXCEPT !.expected = @ + 1, !.sent = @ + 1]
      /\ up' = up /\ driver' = driver /\ toWorker' = Tail(toWorker) /\ toWorker # <<>>
      /\ h.type = "Request" /\ h.kind \in Served
  BY ZenonT(30), <1>0 DEF WorkerReads, HandledInline, WorkerSends, Served
<1>3. worker'.sent = worker.sent + 1 /\ worker'.job = worker.job /\ worker'.expected = worker.expected + 1
  BY ZenonT(30), <1>1, <1>2 DEF Workers
<1>4. /\ h \in Wire
      /\ up => /\ toWorker' = <<>> /\ Len(toWorker') = 0 /\ worker'.expected + 0 = driver.sent
               /\ Asking(h) /\ worker.job = None /\ Exchange(toHost) = {}
  BY ZenonT(30), <1>2, <1>3, PhoneReadsOne
<1>5. f \in Wire /\ f.type = "Response" /\ f.seq = worker.sent /\ f.id = h.id /\ f.kind = h.kind
  BY ZenonT(30), <1>1, <1>4 DEF Wire
<1> HIDE DEF f, h
<1>6. up => Fits(f)
  BY ZenonT(30), <1>2, <1>4, <1>5 DEF Fits, Asking
<1>. QED  BY ZenonT(30), <1>2, <1>3, <1>4, <1>5, <1>6, PhoneSendsInStep

\* The phone answers a request.
LEMMA RespondsInStep == ASSUME IInv, Lockstep, WorkerResponds PROVE Lockstep'
<1> DEFINE j == worker.job
           f == [type |-> "Response", id |-> j.id, kind |-> j.kind, seq |-> worker.sent]
<1>1. worker \in Workers /\ worker.sent \in Nat
  BY DEF IInv, Types, Workers
<1>2. /\ toHost' = IF up THEN Append(toHost, f) ELSE toHost
      /\ worker' = [worker EXCEPT !.pc = "live", !.job = None, !.sent = @ + 1]
      /\ up' = up /\ driver' = driver /\ toWorker' = toWorker /\ worker.pc = "handled"
  BY ZenonT(30) DEF WorkerResponds, WorkerSends
<1>3. worker'.sent = worker.sent + 1 /\ worker'.job = None /\ worker'.expected = worker.expected
  BY ZenonT(30), <1>1, <1>2 DEF Workers
<1>4. j \in Requests /\ j # None /\ j = [id |-> j.id, kind |-> j.kind] /\ j.id \in Nat /\ j.kind \in Kinds
  BY <1>2, NoneAssumption DEF IInv, AtPhone, Requests, Ids
<1>5. f \in Wire /\ f.type = "Response" /\ f.seq = worker.sent /\ f.id = j.id /\ f.kind = j.kind
  BY ZenonT(30), <1>1, <1>4 DEF Wire
<1>6. up => toWorker = <<>> /\ Exchange(toHost) = {} /\ driver.app = j /\ j.kind \in Served
  BY ZenonT(30), <1>4 DEF Lockstep, Open
<1> HIDE DEF f, j
<1>7. up => Fits(f)
  BY ZenonT(30), <1>4, <1>5, <1>6 DEF Fits, Outstands
<1>8. up => worker'.expected + Len(toWorker') = driver.sent
  BY ZenonT(30), <1>2, <1>3 DEF Lockstep, SequencesAgree
<1>. QED  BY ZenonT(30), <1>2, <1>3, <1>5, <1>6, <1>7, <1>8, PhoneSendsInStep

\* The phone hands a request to a thread of its own.
LEMMA ThreadInStep ==
  ASSUME IInv, Lockstep, HandleBuffer \/ HandleCompute
  PROVE  Lockstep'
<1>0. PICK kind \in {"RemoteBuffer", "Compute"} : WorkerReads(kind) /\ HandedToThread
  BY ZenonT(30) DEF HandleBuffer, HandleCompute
<1> DEFINE h == Head(toWorker)
           j == [id |-> h.id, kind |-> h.kind]
<1>1. worker \in Workers /\ worker.expected \in Nat
  BY ZenonT(30) DEF IInv, Types, Workers
<1>2. /\ worker' = [worker EXCEPT !.pc = "handling", !.expected = @ + 1, !.job = j]
      /\ up' = up /\ driver' = driver /\ toWorker' = Tail(toWorker) /\ toWorker # <<>> /\ toHost' = toHost
      /\ h.type = "Request" /\ h.kind \in Served
  BY ZenonT(30), <1>0 DEF WorkerReads, HandedToThread, Served
<1>3. worker'.sent = worker.sent /\ worker'.job = j /\ worker'.expected = worker.expected + 1
  BY ZenonT(30), <1>1, <1>2 DEF Workers
<1>4. /\ h \in Wire
      /\ up => /\ toWorker' = <<>> /\ Len(toWorker') = 0 /\ worker'.expected + 0 = driver.sent
               /\ Asking(h) /\ worker.job = None /\ Exchange(toHost) = {}
  BY ZenonT(30), <1>2, <1>3, PhoneReadsOne
<1>5. j.kind = h.kind
  BY ZenonT(30)
<1>6. up => driver.app = j
  BY ZenonT(30), <1>2, <1>4 DEF Asking, Outstands
<1> HIDE DEF h, j
<1>7. \A g : Fits(g) = Fits(g)'
  BY ZenonT(30), <1>2 DEF Fits, Pinged, Outstands
<1>8. Coming'
  BY ZenonT(30), <1>2, <1>7 DEF Lockstep, Coming, AllFit, Alive, Looping
<1>9. SequencesAgree'
  BY ZenonT(30), <1>2, <1>3, <1>4 DEF Lockstep, SequencesAgree
<1>10. Open'
  BY <1>2, <1>3, <1>4, <1>5, <1>6 DEF Lockstep, Open, Alive, Looping
<1>. QED  BY ZenonT(30), <1>2, <1>8, <1>9, <1>10 DEF Lockstep

-----------------------------------------------------------------------------
\* Clients, the canceller and the waiter leave the loop and the wire alone.
Aside == UNCHANGED <<driver, worker, up, toWorker, toHost>>

\* Steps beside the streams and the two loops.
LEMMA AsideInStep == ASSUME Lockstep, Aside PROVE Lockstep'
<1>1. SameLocals /\ SamePhone /\ toWorker' = toWorker /\ toHost' = toHost /\ up' = up
  BY ZenonT(30) DEF Aside, SameLocals, SamePhone
<1>2. Alive' = Alive /\ (up => Alive)
  BY ZenonT(30) DEF Aside, Alive, Looping, Lockstep, Open
<1>. QED  BY ZenonT(30), <1>1, <1>2, StillInStep

\* Steps of the driver that send and read nothing.
LEMMA DriverMovesInStep ==
  ASSUME IInv, Lockstep,
         \/ BeginSession \/ RefuseRequest \/ SendFails \/ NothingToSend \/ NothingToRead
         \/ EndSession \/ DrainEmpty \/ DropDriver
         \/ driver.pc = "top" /\ driver' = [driver EXCEPT !.pc = "send"]
              /\ UNCHANGED <<worker, up, toWorker, toHost>>
  PROVE  Lockstep'
<1>1. PICK pc \in DriverPcs :
        /\ driver' = [driver EXCEPT !.pc = pc]
        /\ UNCHANGED <<worker, up, toWorker, toHost>>
        /\ \/ Alive /\ pc \in {"top", "send", "receive"}
           \/ ~up /\ pc \in {"ended", "drain", "drained", "closed"}
  BY ZenonT(30) DEF BeginSession, RefuseRequest, SendFails, NothingToSend, NothingToRead, EndSession, DrainEmpty,
     DropDriver, DriverPcs, Alive, Looping, Lockstep, Open
<1>2. driver \in Drivers
  BY ZenonT(30) DEF IInv, Types
<1>3. SameLocals /\ SamePhone /\ driver'.pc = pc
  BY ZenonT(30), <1>1, <1>2 DEF SameLocals, SamePhone, Drivers
<1>4. (Alive' => Alive) /\ (up => Alive')
  BY ZenonT(30), <1>1, <1>3 DEF Alive, Looping
<1>. QED  BY ZenonT(30), <1>1, <1>3, <1>4, StillInStep

\* Steps that end with a broken connection.
LEMMA BreaksInStep ==
  ASSUME IInv, Lockstep, EndLoop \/ HandshakeFails \/ WorkerEnds \/ NetworkBreaks
  PROVE  Lockstep'
<1>1. driver \in Drivers
  BY ZenonT(30) DEF IInv, Types
<1>2. CASE EndLoop \/ HandshakeFails
  <2>1. Break /\ driver'.pc = "ended"
    BY ZenonT(30), <1>1, <1>2 DEF EndLoop, HandshakeFails, Drivers
  <2>2. ~Alive'
    BY ZenonT(30), <2>1 DEF Alive, Looping
  <2>. QED  BY ZenonT(30), <2>1, <2>2, BrokenInStep
<1>3. CASE WorkerEnds \/ NetworkBreaks
  <2>1. Break /\ driver' = driver
    BY ZenonT(30), <1>3 DEF WorkerEnds, NetworkBreaks
  <2>2. Alive' = Alive /\ SameLocals
    BY ZenonT(30), <2>1 DEF Alive, Looping, SameLocals
  <2>. QED  BY ZenonT(30), <2>1, <2>2, BrokenInStep
<1>. QED  BY ZenonT(30), <1>2, <1>3

\* The phone starts, or its handler has run.
LEMMA PhoneMovesInStep ==
  ASSUME IInv, Lockstep, WorkerBegin \/ HandlerReturns
  PROVE  Lockstep'
<1>1. worker \in Workers
  BY ZenonT(30) DEF IInv, Types
<1>2. SamePhone /\ driver' = driver /\ toWorker' = toWorker /\ toHost' = toHost /\ up' = up
  BY ZenonT(30), <1>1 DEF WorkerBegin, HandlerReturns, SamePhone, Workers
<1>3. SameLocals /\ Alive' = Alive /\ (up => Alive)
  BY ZenonT(30), <1>2 DEF SameLocals, Alive, Looping, Lockstep, Open
<1>. QED  BY ZenonT(30), <1>2, <1>3, StillInStep

\* Every step keeps the two ends in step.
LEMMA LockNext == IInv /\ Lockstep /\ [Next]_vars => Lockstep'
<1>. SUFFICES ASSUME IInv, Lockstep, [Next]_vars PROVE Lockstep'
  OBVIOUS
<1>1. CASE ClientNext
  BY ZenonT(30), <1>1, AsideInStep DEF ClientNext, Admit, Enqueue, TakeAnswer, GiveUp, Aside
<1>2. CASE Cancel \/ WaitAuthenticated \/ UNCHANGED vars \/ Drain
  BY ZenonT(30), <1>2, AsideInStep DEF Cancel, CancelStore, CancelClear, WaitAuthenticated, vars, Drain, Aside
<1>3. CASE LoopTop
  BY ZenonT(30), <1>3, DriverMovesInStep, BreaksInStep DEF LoopTop
<1>4. CASE Receive
  <2>1. worker' = worker /\ driver.pc = "receive" /\ toHost # <<>>
    BY ZenonT(30), <1>4 DEF Receive
  <2>2. CASE Expected(Head(toHost)) /\ Received(Head(toHost))
    BY ZenonT(30), <2>1, <2>2, ReceivedInStep
  <2>3. CASE EndLoop
    BY ZenonT(30), <2>3, BreaksInStep
  <2>. QED  BY ZenonT(30), <1>4, <2>2, <2>3 DEF Receive
<1>5. CASE SessionLost
  BY ZenonT(30), <1>5, BreaksInStep DEF SessionLost
<1>6. CASE DriverNext
  BY ZenonT(30), <1>2, <1>3, <1>4, <1>5, <1>6, DriverMovesInStep, BreaksInStep, SendPingInStep, StartRequestInStep
     DEF DriverNext
<1>7. CASE WorkerWork
  BY ZenonT(30), <1>7, PhoneMovesInStep, HeartbeatInStep, PongInStep, InlineInStep, ThreadInStep, RespondsInStep
     DEF WorkerWork
<1>8. CASE WorkerEnds \/ NetworkBreaks
  BY ZenonT(30), <1>8, BreaksInStep
<1>. QED  BY ZenonT(30), <1>1, <1>2, <1>6, <1>7, <1>8 DEF Next

\* Two ends that never met are in step.
LEMMA InitInStep == Init => Lockstep
<1>. SUFFICES ASSUME Init PROVE Lockstep
  OBVIOUS
<1>1. /\ up = TRUE /\ toHost = <<>> /\ toWorker = <<>> /\ Len(toHost) = 0 /\ Len(toWorker) = 0
      /\ driver.ping = None /\ driver.app = None /\ driver.pc = "handshake" /\ driver.sent = 0
      /\ driver.expected = 0 /\ worker.sent = 0 /\ worker.expected = 0 /\ worker.job = None
  BY ZenonT(30) DEF Init
<1>. QED  BY <1>1 DEF Lockstep, SequencesAgree, Coming, Open, Alive, Single, Numbered, AllFit, Exchange

\* Between two connected peers at most one exchange is open.
LEMMA LockstepIsOne == ASSUME IInv, Lockstep PROVE OneExchange
<1>. SUFFICES ASSUME up, NEW x \in Underway, NEW y \in Underway PROVE x = y
  BY ZenonT(30) DEF OneExchange
<1>1. /\ Single(toHost) /\ Len(toWorker) <= 1
      /\ toWorker # <<>> => worker.job = None /\ Exchange(toHost) = {}
      /\ worker.job # None => toWorker = <<>> /\ Exchange(toHost) = {}
  BY ZenonT(30) DEF Lockstep, Open, Coming
<1>2. toWorker \in Seq(Wire) /\ Len(toWorker) \in Nat
  BY ZenonT(30), LenProperties DEF IInv, Types
<1>3. Exchange(toWorker) \subseteq {1} /\ (toWorker = <<>> => Exchange(toWorker) = {})
  BY <1>1, <1>2 DEF Exchange
<1>4. CASE toWorker # <<>>
  BY <1>1, <1>3, <1>4 DEF Underway
<1>5. CASE worker.job # None
  BY ZenonT(30), <1>1, <1>3, <1>5 DEF Underway
<1>6. CASE toWorker = <<>> /\ worker.job = None
  BY <1>1, <1>3, <1>6 DEF Underway, Single
<1>. QED  BY ZenonT(30), <1>4, <1>5, <1>6

\* A driver at its read meets the frame it waits for.
LEMMA LockstepMatches == ASSUME IInv, Lockstep PROVE NoMismatch
<1>. SUFFICES ASSUME driver.pc = "receive", toHost # <<>>
     PROVE Head(toHost).seq = driver.expected /\ Expected(Head(toHost))
  BY ZenonT(30) DEF NoMismatch
<1>1. toHost \in Seq(Wire) /\ driver.expected \in Nat /\ Alive
  BY ZenonT(30) DEF IInv, Types, Drivers, Alive, Looping
<1>2. Numbered(toHost, driver.expected) /\ AllFit(toHost)
  BY ZenonT(30), <1>1 DEF Lockstep, Coming
<1>3. Head(toHost) = toHost[1] /\ Len(toHost) \in Nat /\ Len(toHost) >= 1
      /\ Head(toHost).seq = driver.expected
  BY ZenonT(30), <1>1, <1>2, StreamTail
<1>4. Fits(Head(toHost))
  BY <1>2, <1>3 DEF AllFit
<1>5. Expected(Head(toHost))
  BY ZenonT(30), <1>4 DEF Fits, Pinged, Outstands, Served, Expected, Outstanding, CommandAckExpected,
     ResourceResultExpected, BufferResultExpected, ComputeResponseExpected
<1>. QED  BY ZenonT(30), <1>3, <1>5

\* The two ends never have more than one exchange open, agree on the sequence
\* numbers while they are connected, and the host never reads a frame that it has to
\* refuse, for any number of threads, requests, pings and heartbeats and wherever
\* the connection breaks (send_frame, SequenceTracker::accept,
\* take_initiator_outstanding).
THEOREM AlwaysInStep == Spec => []InStep
<1>1. IInv /\ Lockstep => InStep
  BY ZenonT(30), LockstepIsOne, LockstepMatches DEF InStep, Lockstep
<1>. QED  BY <1>1, InitInStep, LockNext, Invariance, PTL DEF Spec
=============================================================================
