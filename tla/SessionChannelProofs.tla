------------------------ MODULE SessionChannelProofs ------------------------
(***************************************************************************)
(* Proofs about the request channel, for any number of host threads,        *)
(* requests, kinds, pings and heartbeats and any capacity of the queue.     *)
(***************************************************************************)
EXTENDS SessionChannel, TLAPS

\* The solver that most steps need, with time to spare; the others name theirs.
USE SMTT(60)

-----------------------------------------------------------------------------
(* Sequences. *)

\* The length and the elements of a sequence.
LEMMA LenProperties ==
  ASSUME NEW S, NEW s \in Seq(S)
  PROVE  Len(s) \in Nat /\ s \in [1 .. Len(s) -> S] /\ DOMAIN s = 1 .. Len(s)
  OBVIOUS

\* What is in a sequence is of its set.
LEMMA ElementOfSeq ==
  ASSUME NEW S, NEW s \in Seq(S), NEW n \in 1 .. Len(s)
  PROVE  s[n] \in S
  OBVIOUS

\* The empty sequence, and the length of the others.
LEMMA EmptySeq ==
  ASSUME NEW S
  PROVE  /\ << >> \in Seq(S) /\ Len(<< >>) = 0
         /\ \A s \in Seq(S) : s # << >> => Len(s) \in Nat \ {0}
  OBVIOUS

\* What Append adds and keeps (a frame that is sent, an answer that is cached).
LEMMA AppendProperties ==
  ASSUME NEW S, NEW s \in Seq(S), NEW e \in S
  PROVE  /\ Append(s, e) \in Seq(S) /\ Append(s, e) # << >>
         /\ Len(Append(s, e)) = Len(s) + 1
         /\ \A i \in 1 .. Len(s) : Append(s, e)[i] = s[i]
         /\ Append(s, e)[Len(s) + 1] = e
  OBVIOUS

\* What Tail keeps (a frame that is received, an answer that is evicted).
LEMMA HeadTailProperties ==
  ASSUME NEW S, NEW s \in Seq(S), s # << >>
  PROVE  /\ Head(s) \in S /\ Tail(s) \in Seq(S) /\ Len(Tail(s)) = Len(s) - 1
         /\ \A i \in 1 .. Len(Tail(s)) : Tail(s)[i] = s[i + 1]
  OBVIOUS

\* What a slice keeps (the queue without an entry).
LEMMA SubSeqProperties ==
  ASSUME NEW S, NEW s, NEW m \in Int, NEW n \in Int, \A i \in m .. n : s[i] \in S
  PROVE  /\ SubSeq(s, m, n) \in Seq(S)
         /\ Len(SubSeq(s, m, n)) = IF m <= n THEN n - m + 1 ELSE 0
         /\ \A i \in 1 .. n - m + 1 : SubSeq(s, m, n)[i] = s[m + i - 1]
  OBVIOUS

Wire == [type : {"Ping", "Pong", "Request", "Response", "Heartbeat"}, id : Nat,
         kind : Kinds \cup {None}, seq : Nat]
Answers == {None, "Ok"} \cup NotExecuted \cup Unknown
Threads == [pc : {"idle", "admitted", "waiting"}, req : Requests \cup {None}]
DriverPcs == {"handshake", "top", "send", "receive", "ended", "drain", "drained", "closed"}
WorkerPcs == {"handshake", "live", "handling", "handled", "ended"}
Drivers == [pc : DriverPcs, ping : Nat \cup {None}, app : Requests \cup {None}, sent : Nat, expected : Nat, pings : Nat]
Workers == [pc : WorkerPcs, job : Requests \cup {None}, sent : Nat, expected : Nat, beats : Nat]

Types ==
  /\ client \in [Clients -> Threads] /\ used \in Nat
  /\ queue \in Seq(Requests) /\ toWorker \in Seq(Wire) /\ toHost \in Seq(Wire)
  /\ answer \in [Ids -> Answers] /\ handled \in [Ids -> {0, 1}]
  /\ driver \in Drivers /\ worker \in Workers

\* Where a request can be between the queue and the run of its handler.
Queued(q) == {q[n].id : n \in 1..Len(q)}
Asks(s) == {n \in 1..Len(s) : s[n].type = "Request"}
Asked(s) == {s[n].id : n \in Asks(s)}
Running == IF worker.pc = "handling" THEN {worker.job.id} ELSE {}

\* No two entries, no two requests on the wire, carry one id.
QueueDistinct(q) == \A m, n \in 1..Len(q) : q[m].id = q[n].id => m = n
WireDistinct(s) == \A m, n \in Asks(s) : s[m].id = s[n].id => m = n

\* The phone has not run i and nothing is on its way that could make it.
Fresh(i) == handled[i] = 0 /\ i \notin Asked(toWorker) /\ i \notin Running

\* A request that may still be sent: it is fresh and was not answered as never
\* executed.
Sendable(i) == Fresh(i) /\ answer[i] \notin NotExecuted

Known == \A i \in Ids : answer[i] \in NotExecuted => Fresh(i) /\ i \notin Queued(queue)
Later == \A i \in Ids : i > used => Sendable(i) /\ i \notin Queued(queue)
Held == \A c \in Clients :
  /\ client[c].pc # "idle" => client[c].req \in Requests /\ client[c].req.id <= used
  /\ client[c].pc = "admitted" => /\ admission = c
                                  /\ Sendable(client[c].req.id)
                                  /\ client[c].req.id \notin Queued(queue)
Waiting == QueueDistinct(queue) /\ \A i \in Queued(queue) : Sendable(i) /\ i <= used
OnWire == /\ WireDistinct(toWorker)
          /\ \A i \in Asked(toWorker) : i \in Ids /\ handled[i] = 0 /\ i \notin Running
AtPhone == /\ worker.pc = "handling" => worker.job \in Requests /\ handled[worker.job.id] = 0
           /\ worker.pc = "handled" => worker.job \in Requests /\ handled[worker.job.id] = 1
Responses == \A n \in 1..Len(toHost) :
  toHost[n].type = "Response" => toHost[n].id \in Ids /\ handled[toHost[n].id] = 1
Earned == \A i \in Ids : answer[i] = "Ok" => handled[i] = 1

\* The inductive invariant: a request id is in at most one of the places not
\* yet used, admitted, queued, on the wire and in a handler, and the answers
\* given so far say the truth about where it has been.
IInv == /\ Types /\ Known /\ Later /\ Held /\ Waiting /\ OnWire /\ AtPhone
        /\ Responses /\ Earned

-----------------------------------------------------------------------------
\* The queue: a request joins at the end or leaves at the head.
LEMMA QueueAppend ==
  ASSUME NEW q \in Seq(Requests), NEW r \in Requests
  PROVE  /\ Append(q, r) \in Seq(Requests) /\ Queued(Append(q, r)) = Queued(q) \cup {r.id}
         /\ QueueDistinct(q) /\ r.id \notin Queued(q) => QueueDistinct(Append(q, r))
<1>1. /\ Append(q, r) \in Seq(Requests) /\ Len(Append(q, r)) = Len(q) + 1 /\ Len(q) \in Nat
      /\ \A n \in 1..Len(q) : Append(q, r)[n] = q[n]
      /\ Append(q, r)[Len(q) + 1] = r
  BY AppendProperties, LenProperties
<1> DEFINE a == Append(q, r)
<1>2. 1..Len(a) = (1..Len(q)) \cup {Len(q) + 1}
  BY <1>1
<1> HIDE DEF a
<1>3. Queued(a) = Queued(q) \cup {r.id}
  BY ZenonT(30), <1>1, <1>2 DEF Queued, a
<1>4. ASSUME QueueDistinct(q), r.id \notin Queued(q), NEW m \in 1..Len(a), NEW n \in 1..Len(a),
             a[m].id = a[n].id
      PROVE  m = n
  <2>1. CASE m \in 1..Len(q) /\ n \in 1..Len(q)
    BY ZenonT(30), <1>1, <1>4, <2>1 DEF QueueDistinct, a
  <2>2. CASE m \in 1..Len(q) /\ n = Len(q) + 1
    BY ZenonT(30), <1>1, <1>4, <2>2 DEF Queued, a
  <2>3. CASE n \in 1..Len(q) /\ m = Len(q) + 1
    BY ZenonT(30), <1>1, <1>4, <2>3 DEF Queued, a
  <2>. QED  BY ZenonT(30), <1>2, <2>1, <2>2, <2>3
<1>. QED  BY ZenonT(30), <1>1, <1>3, <1>4 DEF QueueDistinct, a

\* Taking the oldest entry leaves the others, and no other entry has its id (recv).
LEMMA QueueTail ==
  ASSUME NEW q \in Seq(Requests), q # <<>>
  PROVE  /\ Tail(q) \in Seq(Requests) /\ Head(q) \in Requests /\ Head(q).id \in Queued(q)
         /\ Queued(Tail(q)) \subseteq Queued(q)
         /\ QueueDistinct(q) => QueueDistinct(Tail(q)) /\ Head(q).id \notin Queued(Tail(q))
<1>1. /\ Tail(q) \in Seq(Requests) /\ Head(q) = q[1] /\ Head(q) \in Requests
      /\ Len(q) \in Nat /\ Len(q) >= 1 /\ Len(Tail(q)) = Len(q) - 1
      /\ \A n \in 1..Len(Tail(q)) : Tail(q)[n] = q[n + 1]
  BY HeadTailProperties, EmptySeq, LenProperties
<1>2. 1 \in 1..Len(q) /\ \A n \in 1..Len(Tail(q)) : n + 1 \in 1..Len(q)
  BY <1>1
<1>3. Head(q).id \in Queued(q)
  BY ZenonT(30), <1>1, <1>2 DEF Queued
<1>4. Queued(Tail(q)) \subseteq Queued(q)
  BY <1>1, <1>2 DEF Queued
<1>5. ASSUME QueueDistinct(q)
      PROVE  QueueDistinct(Tail(q)) /\ Head(q).id \notin Queued(Tail(q))
  <2>1. \A m, n \in 1..Len(Tail(q)) : Tail(q)[m].id = Tail(q)[n].id => m + 1 = n + 1
    BY <1>1, <1>2, <1>5 DEF QueueDistinct
  <2>2. \A m \in 1..Len(Tail(q)) : Tail(q)[m].id # Head(q).id
    BY <1>1, <1>2, <1>5 DEF QueueDistinct
  <2>. QED  BY <2>1, <2>2 DEF QueueDistinct, Queued
<1>. QED  BY ZenonT(30), <1>1, <1>3, <1>4, <1>5

\* The wire to the phone: a frame is sent, the first one is read, or the
\* connection breaks and the end is lost.
LEMMA WireAppend ==
  ASSUME NEW s \in Seq(Wire), NEW f \in Wire
  PROVE  /\ Append(s, f) \in Seq(Wire)
         /\ f.type # "Request" => Asked(Append(s, f)) = Asked(s)
         /\ f.type = "Request" => Asked(Append(s, f)) = Asked(s) \cup {f.id}
         /\ WireDistinct(s) /\ (f.type = "Request" => f.id \notin Asked(s))
              => WireDistinct(Append(s, f))
<1>1. /\ Append(s, f) \in Seq(Wire) /\ Len(Append(s, f)) = Len(s) + 1 /\ Len(s) \in Nat
      /\ \A n \in 1..Len(s) : Append(s, f)[n] = s[n]
      /\ Append(s, f)[Len(s) + 1] = f
  BY AppendProperties, LenProperties
<1> DEFINE a == Append(s, f)
<1>2. 1..Len(a) = (1..Len(s)) \cup {Len(s) + 1}
  BY <1>1
<1> HIDE DEF a
<1>3. Asks(a) = Asks(s) \cup (IF f.type = "Request" THEN {Len(s) + 1} ELSE {})
  BY ZenonT(30), <1>1, <1>2 DEF Asks, a
<1>4. \A n \in Asks(s) : a[n] = s[n] /\ n \in 1..Len(s)
  BY ZenonT(30), <1>1 DEF Asks, a
<1>5. f.type # "Request" => Asked(a) = Asked(s)
  BY ZenonT(30), <1>3, <1>4 DEF Asked
<1>6. f.type = "Request" => Asked(a) = Asked(s) \cup {f.id}
  BY <1>1, <1>3, <1>4 DEF Asked, a
<1>7. ASSUME WireDistinct(s), f.type = "Request" => f.id \notin Asked(s),
             NEW m \in Asks(a), NEW n \in Asks(a), a[m].id = a[n].id
      PROVE  m = n
  <2>1. CASE m \in Asks(s) /\ n \in Asks(s)
    BY ZenonT(30), <1>4, <1>7, <2>1 DEF WireDistinct
  <2>2. CASE m \in Asks(s) /\ n \notin Asks(s)
    BY ZenonT(30), <1>1, <1>3, <1>4, <1>7, <2>2 DEF Asked, a
  <2>3. CASE n \in Asks(s) /\ m \notin Asks(s)
    BY ZenonT(30), <1>1, <1>3, <1>4, <1>7, <2>3 DEF Asked, a
  <2>4. CASE m \notin Asks(s) /\ n \notin Asks(s)
    BY ZenonT(30), <1>3, <2>4
  <2>. QED  BY ZenonT(30), <2>1, <2>2, <2>3, <2>4
<1>. QED  BY ZenonT(30), <1>1, <1>5, <1>6, <1>7 DEF WireDistinct, a

\* Receiving a frame leaves the others, and no other request has its id.
LEMMA WireTail ==
  ASSUME NEW s \in Seq(Wire), s # <<>>
  PROVE  /\ Tail(s) \in Seq(Wire) /\ Head(s) \in Wire
         /\ Asked(Tail(s)) \subseteq Asked(s)
         /\ Head(s).type = "Request" => Head(s).id \in Asked(s)
         /\ WireDistinct(s) => /\ WireDistinct(Tail(s))
                               /\ Head(s).type = "Request" => Head(s).id \notin Asked(Tail(s))
<1>1. /\ Tail(s) \in Seq(Wire) /\ Head(s) = s[1] /\ Head(s) \in Wire
      /\ Len(s) \in Nat /\ Len(s) >= 1 /\ Len(Tail(s)) = Len(s) - 1
      /\ \A n \in 1..Len(Tail(s)) : Tail(s)[n] = s[n + 1]
  BY HeadTailProperties, EmptySeq, LenProperties
<1>2. \A n \in Asks(Tail(s)) : n + 1 \in Asks(s) /\ Tail(s)[n] = s[n + 1] /\ n \in Nat /\ n >= 1
  BY <1>1 DEF Asks
<1>3. Head(s).type = "Request" => 1 \in Asks(s)
  BY <1>1 DEF Asks
<1>4. Asked(Tail(s)) \subseteq Asked(s)
  BY ZenonT(30), <1>2 DEF Asked
<1>5. Head(s).type = "Request" => Head(s).id \in Asked(s)
  BY ZenonT(30), <1>1, <1>3 DEF Asked
<1>6. ASSUME WireDistinct(s)
      PROVE  /\ WireDistinct(Tail(s))
             /\ Head(s).type = "Request" => Head(s).id \notin Asked(Tail(s))
  <2>1. \A m, n \in Asks(Tail(s)) : Tail(s)[m].id = Tail(s)[n].id => m + 1 = n + 1
    BY ZenonT(120), <1>2, <1>6 DEF WireDistinct
  <2>2. Head(s).type = "Request" => \A m \in Asks(Tail(s)) : Tail(s)[m].id # Head(s).id
    <3>. SUFFICES ASSUME Head(s).type = "Request", NEW m \in Asks(Tail(s)), Tail(s)[m].id = Head(s).id
                  PROVE  FALSE
      BY ZenonT(30)
    <3>1. m + 1 \in Asks(s) /\ 1 \in Asks(s) /\ s[m + 1].id = s[1].id /\ m \in Nat /\ m >= 1
      BY ZenonT(30), <1>1, <1>2, <1>3
    <3>2. m + 1 = 1
      BY ZenonT(30), <1>6, <3>1 DEF WireDistinct
    <3>. QED  BY <3>1, <3>2
  <2>3. WireDistinct(Tail(s))
    <3>. SUFFICES ASSUME NEW m \in Asks(Tail(s)), NEW n \in Asks(Tail(s)), Tail(s)[m].id = Tail(s)[n].id
                  PROVE  m = n
      BY ZenonT(30) DEF WireDistinct
    <3>1. m + 1 = n + 1 /\ m \in Nat /\ n \in Nat
      BY ZenonT(30), <1>2, <2>1
    <3>. QED  BY <3>1
  <2>4. Head(s).type = "Request" => Head(s).id \notin Asked(Tail(s))
    BY ZenonT(30), <2>2 DEF Asked
  <2>. QED  BY ZenonT(30), <2>3, <2>4
<1>. QED  BY ZenonT(30), <1>1, <1>4, <1>5, <1>6

\* What a cut leaves of a stream is a beginning of it: nothing new is on the wire.
LEMMA WirePrefix ==
  ASSUME NEW s \in Seq(Wire), NEW p \in Prefixes(s)
  PROVE  /\ p \in Seq(Wire) /\ Len(p) <= Len(s) /\ \A n \in 1..Len(p) : p[n] = s[n]
         /\ Asked(p) \subseteq Asked(s)
         /\ WireDistinct(s) => WireDistinct(p)
<1>1. PICK k \in 0..Len(s) : p = SubSeq(s, 1, k)
  BY ZenonT(30) DEF Prefixes
<1>2. /\ p \in Seq(Wire) /\ Len(p) = k /\ Len(s) \in Nat /\ k \in Nat
      /\ \A n \in 1..k : p[n] = s[n]
  <2>1. Len(s) \in Nat /\ k \in Nat
    BY LenProperties
  <2>2. \A n \in 1..k : s[n] \in Wire
    BY <2>1, ElementOfSeq
  <2>. QED  BY <1>1, <2>1, <2>2, SubSeqProperties
<1>3. \A n \in Asks(p) : n \in Asks(s) /\ p[n] = s[n]
  BY <1>2 DEF Asks
<1>4. Asked(p) \subseteq Asked(s)
  BY ZenonT(30), <1>3 DEF Asked
<1>5. WireDistinct(s) => WireDistinct(p)
  BY ZenonT(30), <1>3 DEF WireDistinct
<1>. QED  BY <1>2, <1>4, <1>5

-----------------------------------------------------------------------------
\* The first answer counts.
LEMMA AnsweredIs ==
  ASSUME NEW a \in [Ids -> Answers], NEW i \in Ids, NEW what \in Answers
  PROVE  /\ Answered(a, i, what) \in [Ids -> Answers]
         /\ Answered(a, i, what)[i] \in {a[i], what}
         /\ \A j \in Ids \ {i} : Answered(a, i, what)[j] = a[j]
BY ZenonT(30) DEF Answered

\* A step that puts no request on the wire and runs none: it may drop requests
\* from the queue and from the wire, answer what it drops from the queue as
\* never executed, anything as unknown, and what has been run as Ok.
LEMMA Quieter ==
  ASSUME IInv, Types', used' = used, handled' = handled,
         \A c \in Clients : client'[c] \in {client[c], Idle},
         \A c \in Clients : client[c].pc = "admitted" => admission' = c,
         QueueDistinct(queue'), Queued(queue') \subseteq Queued(queue),
         WireDistinct(toWorker'), Asked(toWorker') \subseteq Asked(toWorker),
         Running' \subseteq Running, AtPhone', Responses',
         \A i \in Ids : \/ answer'[i] = answer[i] \/ answer'[i] \in Unknown
                        \/ answer'[i] = "Ok" /\ handled[i] = 1
                        \/ /\ answer'[i] \in NotExecuted
                           /\ i \in Queued(queue) /\ i \notin Queued(queue')
  PROVE  IInv'
<1>1. Unknown \cap NotExecuted = {} /\ "Ok" \notin Unknown \cup NotExecuted
  BY ZenonT(30) DEF Unknown, NotExecuted
<1>2. \A i \in Ids : Fresh(i) => Fresh(i)'
  BY ZenonT(30) DEF Fresh
<1>3. \A i \in Ids : Sendable(i) /\ (i \notin Queued(queue) \/ i \in Queued(queue')) => Sendable(i)'
  <2>. SUFFICES ASSUME NEW i \in Ids, Sendable(i), i \notin Queued(queue) \/ i \in Queued(queue')
                PROVE  answer'[i] \notin NotExecuted
    BY ZenonT(30), <1>2 DEF Sendable
  <2>. QED  BY ZenonT(30), <1>1 DEF Sendable
<1>4. Known'
  <2>. SUFFICES ASSUME NEW i \in Ids, answer'[i] \in NotExecuted
                PROVE  Fresh(i)' /\ i \notin Queued(queue')
    BY ZenonT(30) DEF Known
  <2>1. CASE answer'[i] = answer[i]
    BY ZenonT(30), <1>2, <2>1 DEF IInv, Known
  <2>2. CASE i \in Queued(queue) /\ i \notin Queued(queue')
    BY ZenonT(30), <1>2, <2>2 DEF IInv, Waiting, Sendable
  <2>. QED  BY ZenonT(30), <1>1, <2>1, <2>2
<1>5. Later'
  BY ZenonT(30), <1>3 DEF IInv, Later
<1>6. Held'
  <2>. SUFFICES ASSUME NEW c \in Clients, client'[c].pc # "idle"
                PROVE  /\ client'[c].req \in Requests /\ client'[c].req.id <= used'
                       /\ client'[c].pc = "admitted" => /\ admission' = c
                                                        /\ Sendable(client[c].req.id)'
                                                        /\ client'[c].req.id \notin Queued(queue')
    BY ZenonT(30) DEF Held
  <2>1. client'[c] = client[c]
    BY DEF Idle
  <2>2. /\ client[c].req \in Requests /\ client[c].req.id <= used
        /\ client[c].pc = "admitted" => /\ Sendable(client[c].req.id)
                                        /\ client[c].req.id \notin Queued(queue)
    BY ZenonT(30), <2>1 DEF IInv, Held
  <2>3. client[c].req.id \in Ids
    BY ZenonT(30), <2>2 DEF Requests
  <2>4. client[c].pc = "admitted" => Sendable(client[c].req.id)'
    <3>. SUFFICES ASSUME client[c].pc = "admitted" PROVE Sendable(client[c].req.id)'
      BY ZenonT(30)
    <3> DEFINE i == client[c].req.id
    <3>1. i \in Ids /\ Sendable(i) /\ i \notin Queued(queue)
      BY ZenonT(30), <2>2, <2>3
    <3>2. Fresh(i) /\ answer'[i] \notin NotExecuted /\ client'[c].req.id = i
      BY ZenonT(30), <1>1, <2>1, <3>1 DEF Sendable
    <3> HIDE DEF i
    <3>. QED  BY ZenonT(30), <3>2 DEF Sendable, Fresh
  <2>. QED  BY ZenonT(30), <2>1, <2>2, <2>4
<1>7. Waiting'
  <2>1. Queued(queue) \subseteq Ids
    <3>1. \A n \in 1..Len(queue) : queue[n] \in Requests
      BY ZenonT(30), ElementOfSeq DEF IInv, Types
    <3>. QED  BY ZenonT(30), <3>1 DEF Queued, Requests
  <2>. QED  BY ZenonT(30), <1>3, <2>1 DEF IInv, Waiting
<1>8. OnWire'
  BY ZenonT(30) DEF IInv, OnWire
<1>9. Earned'
  BY ZenonT(30), <1>1 DEF IInv, Earned
<1>. QED  BY ZenonT(30), <1>4, <1>5, <1>6, <1>7, <1>8, <1>9 DEF IInv

\* At the start nothing was sent, queued or answered.
LEMMA InitInv == Init => IInv
<1>. SUFFICES ASSUME Init PROVE IInv
  BY ZenonT(30)
<1>1. Types
  <2>1. client \in [Clients -> Threads] /\ used \in Nat
    BY ZenonT(30) DEF Init, Threads, Idle
  <2>2. queue \in Seq(Requests) /\ toWorker \in Seq(Wire) /\ toHost \in Seq(Wire)
    BY ZenonT(30), EmptySeq DEF Init
  <2>3. answer \in [Ids -> Answers] /\ handled \in [Ids -> {0, 1}]
    BY ZenonT(30) DEF Init, Answers
  <2>4. driver \in Drivers
    BY ZenonT(30) DEF Init, Drivers, DriverPcs
  <2>5. worker \in Workers
    BY ZenonT(30) DEF Init, Workers, WorkerPcs
  <2>. QED  BY ZenonT(30), <2>1, <2>2, <2>3, <2>4, <2>5 DEF Types
<1>2. Queued(queue) = {} /\ Asked(toWorker) = {} /\ Asks(toWorker) = {} /\ 1..Len(queue) = {} /\ 1..Len(toHost) = {}
  BY DEF Init, Queued, Asked, Asks
<1>3. worker.pc = "handshake" /\ Running = {}
  BY ZenonT(30) DEF Init, Running
<1>4. \A i \in Ids : Sendable(i) /\ answer[i] # "Ok"
  BY ZenonT(30), <1>2, <1>3, NoneAssumption DEF Sendable, Fresh, Init
<1>5. \A c \in Clients : client[c].pc = "idle"
  BY ZenonT(30) DEF Init, Idle
<1>. QED  BY ZenonT(30), <1>1, <1>2, <1>3, <1>4, <1>5 DEF IInv, Known, Later, Held, Waiting, QueueDistinct,
            OnWire, WireDistinct, AtPhone, Responses, Earned, Sendable

-----------------------------------------------------------------------------
\* What a step may do to the two directions without asking for anything.
WireLess == /\ toWorker' \in Seq(Wire) /\ WireDistinct(toWorker')
            /\ Asked(toWorker') \subseteq Asked(toWorker)
HostLess == toHost' \in Seq(Wire) /\ Responses'

\* A step that leaves the streams and the phone alone leaves alone what was asked.
LEMMA ChannelsStay ==
  ASSUME IInv, handled' = handled
  PROVE  (toWorker' = toWorker => WireLess) /\ (toHost' = toHost => HostLess)
BY ZenonT(30) DEF IInv, Types, OnWire, Responses, WireLess, HostLess

\* A connection that breaks only loses what was under way (the end of a session).
LEMMA BreakKeeps ==
  ASSUME IInv, Break, handled' = handled
  PROVE  WireLess /\ HostLess
<1>1. toWorker' \in Prefixes(toWorker) /\ toHost' \in Prefixes(toHost)
  BY ZenonT(30) DEF Break
<1>2. toWorker \in Seq(Wire) /\ toHost \in Seq(Wire) /\ WireDistinct(toWorker)
  BY ZenonT(30) DEF IInv, Types, OnWire
<1>3. WireLess
  BY ZenonT(30), <1>1, <1>2, WirePrefix DEF WireLess
<1>4. /\ toHost' \in Seq(Wire) /\ Len(toHost') <= Len(toHost)
      /\ \A n \in 1..Len(toHost') : toHost'[n] = toHost[n]
  BY ZenonT(30), <1>1, <1>2, WirePrefix
<1>5. Len(toHost) \in Nat /\ Len(toHost') \in Nat
  BY ZenonT(30), <1>2, <1>4, LenProperties
<1>6. Responses'
  BY <1>4, <1>5 DEF IInv, Responses
<1>. QED  BY ZenonT(30), <1>3, <1>4, <1>6 DEF HostLess

\* The driver reads a frame: one fewer is on its way to it (read_frame).
LEMMA HostReads ==
  ASSUME IInv, handled' = handled, toHost # <<>>, toHost' = Tail(toHost)
  PROVE  /\ HostLess /\ Head(toHost) \in Wire
         /\ Head(toHost).type = "Response" =>
              Head(toHost).id \in Ids /\ handled[Head(toHost).id] = 1
<1>1. toHost \in Seq(Wire)
  BY ZenonT(30) DEF IInv, Types
<1>2. /\ Tail(toHost) \in Seq(Wire) /\ Head(toHost) = toHost[1] /\ Head(toHost) \in Wire
      /\ Len(toHost) \in Nat /\ Len(toHost) >= 1 /\ Len(Tail(toHost)) = Len(toHost) - 1
      /\ \A n \in 1..Len(Tail(toHost)) : Tail(toHost)[n] = toHost[n + 1]
  BY <1>1, HeadTailProperties, EmptySeq, LenProperties
<1>3. 1 \in 1..Len(toHost) /\ \A n \in 1..Len(Tail(toHost)) : n + 1 \in 1..Len(toHost)
  BY <1>2
<1>4. Responses'
  BY ZenonT(30), <1>2, <1>3 DEF IInv, Responses
<1>. QED  BY ZenonT(30), <1>2, <1>3, <1>4 DEF HostLess, IInv, Responses

\* The phone sends one frame; a response is for a request that has been run.
LEMMA PhoneSends ==
  ASSUME IInv, NEW f \in Wire, toHost' = Append(toHost, f) \/ toHost' = toHost,
         handled' \in [Ids -> {0, 1}], \A i \in Ids : handled[i] = 1 => handled'[i] = 1,
         f.type = "Response" => f.id \in Ids /\ handled'[f.id] = 1
  PROVE  HostLess
<1>1. toHost \in Seq(Wire)
  BY ZenonT(30) DEF IInv, Types
<1>2. CASE toHost' = toHost
  BY ZenonT(30), <1>1, <1>2 DEF IInv, Responses, HostLess
<1>3. CASE toHost' = Append(toHost, f)
  <2>1. /\ Append(toHost, f) \in Seq(Wire) /\ Len(Append(toHost, f)) = Len(toHost) + 1
        /\ Len(toHost) \in Nat
        /\ \A n \in 1..Len(toHost) : Append(toHost, f)[n] = toHost[n]
        /\ Append(toHost, f)[Len(toHost) + 1] = f
    BY <1>1, AppendProperties, LenProperties
  <2>2. ASSUME NEW n \in 1..Len(toHost'), toHost'[n].type = "Response"
        PROVE  toHost'[n].id \in Ids /\ handled'[toHost'[n].id] = 1
    <3>1. CASE n \in 1..Len(toHost)
      BY ZenonT(30), <1>3, <2>1, <2>2, <3>1 DEF IInv, Responses
    <3>2. CASE n = Len(toHost) + 1
      BY ZenonT(30), <1>3, <2>1, <2>2, <3>2
    <3>. QED  BY <1>3, <2>1, <3>1, <3>2
  <2>. QED  BY ZenonT(30), <1>3, <2>1, <2>2 DEF HostLess, Responses
<1>. QED  BY ZenonT(30), <1>2, <1>3

\* The host sends a ping: no request is on the wire that was not there.
LEMMA HostPings ==
  ASSUME IInv, NEW f \in Wire, f.type # "Request",
         toWorker' = Append(toWorker, f) \/ toWorker' = toWorker
  PROVE  WireLess
<1>1. toWorker \in Seq(Wire) /\ WireDistinct(toWorker)
  BY ZenonT(30) DEF IInv, Types, OnWire
<1>. QED  BY ZenonT(30), <1>1, WireAppend DEF WireLess

\* A quiet step of the driver, of the network or of the phone's loop.
LEMMA QuietStep ==
  ASSUME IInv, client' = client, admission' = admission, used' = used, handled' = handled,
         WireLess, HostLess, driver' \in Drivers, worker' \in Workers, AtPhone',
         Running' \subseteq Running,
         queue' = queue \/ (queue # <<>> /\ queue' = Tail(queue)) \/ queue' = <<>>,
         answer' \in [Ids -> Answers],
         \A i \in Ids : \/ answer'[i] = answer[i] \/ answer'[i] \in Unknown
                        \/ answer'[i] = "Ok" /\ handled[i] = 1
                        \/ /\ answer'[i] \in NotExecuted
                           /\ i \in Queued(queue) /\ i \notin Queued(queue')
  PROVE  IInv'
<1>1. queue \in Seq(Requests) /\ QueueDistinct(queue)
  BY ZenonT(30) DEF IInv, Types, Waiting
<1>2. queue' \in Seq(Requests) /\ QueueDistinct(queue') /\ Queued(queue') \subseteq Queued(queue)
  <2>1. CASE queue' = <<>>
    <3>1. <<>> \in Seq(Requests) /\ 1..Len(queue') = {}
      BY <2>1, EmptySeq
    <3>. QED  BY ZenonT(30), <2>1, <3>1 DEF QueueDistinct, Queued
  <2>. QED  BY ZenonT(120), <1>1, <2>1, QueueTail
<1>3. Types'
  BY ZenonT(30), <1>2 DEF IInv, Types, WireLess, HostLess
<1>4. \A c \in Clients : client[c].pc = "admitted" => admission' = c
  BY ZenonT(30) DEF IInv, Held
<1>. QED  BY ZenonT(30), <1>2, <1>3, <1>4, Quieter DEF WireLess, HostLess

\* A step of the driver that answers nothing it should not keeps the invariant.
LEMMA DriverStep ==
  ASSUME IInv, client' = client, admission' = admission, used' = used, handled' = handled,
         WireLess, HostLess, driver' \in Drivers, worker' = worker,
         queue' = queue \/ (queue # <<>> /\ queue' = Tail(queue)) \/ queue' = <<>>,
         answer' \in [Ids -> Answers],
         \A i \in Ids : \/ answer'[i] = answer[i] \/ answer'[i] \in Unknown
                        \/ answer'[i] = "Ok" /\ handled[i] = 1
                        \/ /\ answer'[i] \in NotExecuted
                           /\ i \in Queued(queue) /\ i \notin Queued(queue')
  PROVE  IInv'
<1>1. worker' \in Workers /\ AtPhone' /\ Running' \subseteq Running
  BY ZenonT(30) DEF IInv, Types, AtPhone, Running
<1>. QED  BY ZenonT(30), <1>1, QuietStep

\* The authenticated loop returns: the outstanding request is answered unknown.
LEMMA LoopEnds ==
  ASSUME IInv, EndLoop
  PROVE  /\ driver' \in Drivers /\ answer' \in [Ids -> Answers]
         /\ \A i \in Ids : answer'[i] = answer[i] \/ answer'[i] \in Unknown
<1>1. driver \in Drivers /\ answer \in [Ids -> Answers] /\ driver.app \in Requests \cup {None}
  BY ZenonT(30) DEF IInv, Types, Drivers
<1>2. driver' \in Drivers
  <2>1. driver' = [driver EXCEPT !.pc = "ended", !.app = None]
    BY ZenonT(30) DEF EndLoop
  <2>2. "ended" \in DriverPcs
    BY ZenonT(30) DEF DriverPcs
  <2>. QED  BY <1>1, <2>1, <2>2, ZenonT(30) DEF Drivers
<1>3. CASE driver.app = None
  BY ZenonT(30), <1>1, <1>2, <1>3 DEF EndLoop
<1>4. CASE driver.app # None
  <2> DEFINE k == driver.app.id
  <2>1. answer' = Answered(answer, k, "UnknownAfterDisconnect")
    BY ZenonT(30), <1>4 DEF EndLoop
  <2>2. k \in Ids
    BY ZenonT(30), <1>1, <1>4 DEF Requests
  <2> HIDE DEF k
  <2>3. "UnknownAfterDisconnect" \in Answers /\ "UnknownAfterDisconnect" \in Unknown
    BY ZenonT(30) DEF Answers, Unknown
  <2>4. /\ answer' \in [Ids -> Answers]
        /\ answer'[k] \in {answer[k], "UnknownAfterDisconnect"}
        /\ \A j \in Ids \ {k} : answer'[j] = answer[j]
    BY <1>1, <2>1, <2>2, <2>3, AnsweredIs
  <2>5. \A i \in Ids : answer'[i] = answer[i] \/ answer'[i] \in Unknown
    BY ZenonT(30), <2>3, <2>4
  <2>. QED  BY ZenonT(30), <1>2, <2>4, <2>5
<1>. QED  BY ZenonT(30), <1>3, <1>4

\* The driver's steps that only change its own program counter.
LEMMA PcOnly ==
  ASSUME IInv, BeginSession \/ NothingToSend \/ NothingToRead \/ EndSession \/ DrainEmpty
  PROVE  IInv'
<1>1. /\ client' = client /\ admission' = admission /\ used' = used /\ handled' = handled
      /\ toWorker' = toWorker /\ toHost' = toHost /\ worker' = worker /\ queue' = queue
      /\ answer' = answer
  BY ZenonT(30) DEF BeginSession, NothingToSend, NothingToRead, EndSession, DrainEmpty
<1>2. \E pc \in DriverPcs : driver' = [driver EXCEPT !.pc = pc]
  BY ZenonT(30) DEF BeginSession, NothingToSend, NothingToRead, EndSession, DrainEmpty, DriverPcs
<1>3. driver' \in Drivers
  <2>1. driver \in Drivers
    BY ZenonT(30) DEF IInv, Types
  <2>. QED  BY <1>2, <2>1, ZenonT(30) DEF Drivers
<1>4. answer' \in [Ids -> Answers]
  BY ZenonT(30), <1>1 DEF IInv, Types
<1>. QED  BY ZenonT(30), <1>1, <1>3, <1>4, ChannelsStay, DriverStep

\* A handshake that fails (run_session).
LEMMA HandshakeFailsInv == ASSUME IInv, HandshakeFails PROVE IInv'
<1>1. /\ client' = client /\ admission' = admission /\ used' = used /\ handled' = handled
      /\ Break /\ worker' = worker /\ queue' = queue /\ answer' = answer
      /\ driver' = [driver EXCEPT !.pc = "ended"] /\ "ended" \in DriverPcs
  BY ZenonT(30) DEF HandshakeFails, DriverPcs
<1>2. driver \in Drivers /\ answer \in [Ids -> Answers]
  BY ZenonT(30) DEF IInv, Types
<1>3. driver' \in Drivers
  BY <1>1, <1>2, ZenonT(30) DEF Drivers
<1>. QED  BY ZenonT(30), <1>1, <1>2, <1>3, BreakKeeps, DriverStep

\* LoopTop, SessionLost and a frame that is refused end the loop.
LEMMA EndLoopInv ==
  ASSUME IInv, EndLoop, UNCHANGED <<client, admission, waiter, queue, worker, handled, used>>
  PROVE  IInv'
<1>1. /\ client' = client /\ admission' = admission /\ used' = used /\ handled' = handled
      /\ Break /\ worker' = worker /\ queue' = queue
  BY ZenonT(30) DEF EndLoop
<1>. QED  BY ZenonT(30), <1>1, LoopEnds, BreakKeeps, DriverStep

\* The top of the loop of the driver (run_authenticated).
LEMMA LoopTopInv == ASSUME IInv, LoopTop PROVE IInv'
<1>1. CASE shared.cancel
  BY ZenonT(30), <1>1, EndLoopInv DEF LoopTop
<1>2. CASE ~shared.cancel
  <2>1. /\ client' = client /\ admission' = admission /\ used' = used /\ handled' = handled
        /\ toWorker' = toWorker /\ toHost' = toHost /\ worker' = worker /\ queue' = queue
        /\ answer' = answer /\ driver' = [driver EXCEPT !.pc = "send"] /\ "send" \in DriverPcs
    BY ZenonT(30), <1>2 DEF LoopTop, DriverPcs
  <2>2. driver \in Drivers /\ answer \in [Ids -> Answers]
    BY DEF IInv, Types
  <2>3. driver' \in Drivers
    BY <2>1, <2>2, ZenonT(30) DEF Drivers
  <2>. QED  BY ZenonT(30), <2>1, <2>2, <2>3, ChannelsStay, DriverStep
<1>. QED  BY ZenonT(30), <1>1, <1>2

\* The driver sends a heartbeat (run_authenticated).
LEMMA SendPingInv == ASSUME IInv, SendPing PROVE IInv'
<1> DEFINE f == [type |-> "Ping", id |-> driver.pings + 1, kind |-> None, seq |-> driver.sent]
<1>1. /\ client' = client /\ admission' = admission /\ used' = used /\ handled' = handled
      /\ toHost' = toHost /\ worker' = worker /\ queue' = queue /\ answer' = answer
      /\ toWorker' = Append(toWorker, f) \/ toWorker' = toWorker
      /\ driver' = [driver EXCEPT !.pc = "receive", !.ping = driver.pings + 1,
                                  !.pings = @ + 1, !.sent = @ + 1]
  BY ZenonT(30) DEF SendPing, HostSends
<1>2. /\ driver \in Drivers /\ answer \in [Ids -> Answers]
      /\ driver.pings + 1 \in Nat /\ driver.sent + 1 \in Nat /\ driver.sent \in Nat
      /\ "receive" \in DriverPcs
  BY DEF IInv, Types, Drivers, DriverPcs
<1>3. f \in Wire /\ f.type # "Request"
  BY ZenonT(30), <1>2 DEF Wire
<1> HIDE DEF f
<1>4. driver' \in Drivers
  BY <1>1, <1>2, ZenonT(30) DEF Drivers
<1>5. WireLess
  BY ZenonT(30), <1>1, <1>3, HostPings
<1>. QED  BY ZenonT(30), <1>1, <1>2, <1>4, <1>5, ChannelsStay, DriverStep

\* The first request of the queue is taken out and answered without being sent.
LEMMA TakenOut ==
  ASSUME IInv, queue # <<>>, queue' = Tail(queue), NEW what \in NotExecuted \cup Unknown,
         answer' = Answered(answer, Head(queue).id, what)
  PROVE  /\ answer' \in [Ids -> Answers]
         /\ \A i \in Ids : \/ answer'[i] = answer[i] \/ answer'[i] \in Unknown
                           \/ /\ answer'[i] \in NotExecuted
                              /\ i \in Queued(queue) /\ i \notin Queued(queue')
<1>1. queue \in Seq(Requests) /\ answer \in [Ids -> Answers] /\ QueueDistinct(queue)
  BY ZenonT(30) DEF IInv, Types, Waiting
<1>2. /\ Head(queue) \in Requests /\ Head(queue).id \in Queued(queue)
      /\ Head(queue).id \notin Queued(queue')
  BY ZenonT(30), <1>1, QueueTail
<1>3. Head(queue).id \in Ids /\ what \in Answers
  BY ZenonT(30), <1>2 DEF Requests, Answers
<1>4. /\ answer' \in [Ids -> Answers] /\ answer'[Head(queue).id] \in {answer[Head(queue).id], what}
      /\ \A j \in Ids \ {Head(queue).id} : answer'[j] = answer[j]
  BY <1>1, <1>3, AnsweredIs
<1>. QED  BY ZenonT(30), <1>2, <1>4

\* A request that the driver takes and refuses (start_request).
LEMMA RefuseRequestInv == ASSUME IInv, RefuseRequest PROVE IInv'
<1>1. /\ client' = client /\ admission' = admission /\ used' = used /\ handled' = handled
      /\ toHost' = toHost /\ toWorker' = toWorker /\ worker' = worker
      /\ queue # <<>> /\ queue' = Tail(queue)
      /\ answer' = Answered(answer, Head(queue).id, "InvalidRequest")
      /\ driver' = [driver EXCEPT !.pc = "receive"] /\ "receive" \in DriverPcs
  BY ZenonT(30) DEF RefuseRequest, DriverPcs
<1>2. driver \in Drivers /\ "InvalidRequest" \in NotExecuted \cup Unknown
  BY ZenonT(30) DEF IInv, Types, NotExecuted
<1>3. driver' \in Drivers
  BY <1>1, <1>2, ZenonT(30) DEF Drivers
<1>. QED  BY ZenonT(30), <1>1, <1>2, <1>3, TakenOut, ChannelsStay, DriverStep

\* A request that cannot be written (start_request).
LEMMA SendFailsInv == ASSUME IInv, SendFails PROVE IInv'
<1>1. /\ client' = client /\ admission' = admission /\ used' = used /\ handled' = handled
      /\ toHost' = toHost /\ toWorker' = toWorker /\ worker' = worker
      /\ queue # <<>> /\ queue' = Tail(queue)
      /\ answer' = Answered(answer, Head(queue).id, "UnknownAfterDisconnect")
      /\ driver' = [driver EXCEPT !.pc = "ended"] /\ "ended" \in DriverPcs
  BY ZenonT(30) DEF SendFails, DriverPcs
<1>2. driver \in Drivers /\ "UnknownAfterDisconnect" \in NotExecuted \cup Unknown
  BY ZenonT(30) DEF IInv, Types, Unknown
<1>3. driver' \in Drivers
  BY <1>1, <1>2, ZenonT(30) DEF Drivers
<1>. QED  BY ZenonT(30), <1>1, <1>2, <1>3, TakenOut, ChannelsStay, DriverStep

\* The queue is emptied when a session ends (drain).
LEMMA DrainInv == ASSUME IInv, Drain PROVE IInv'
<1>1. /\ client' = client /\ admission' = admission /\ used' = used /\ handled' = handled
      /\ toHost' = toHost /\ toWorker' = toWorker /\ worker' = worker /\ driver' = driver
      /\ queue # <<>> /\ queue' = Tail(queue)
      /\ answer' = Answered(answer, Head(queue).id, "SessionLost")
  BY ZenonT(30) DEF Drain
<1>2. driver' \in Drivers /\ "SessionLost" \in NotExecuted \cup Unknown
  BY ZenonT(30), <1>1 DEF IInv, Types, NotExecuted
<1>. QED  BY ZenonT(30), <1>1, <1>2, TakenOut, ChannelsStay, DriverStep

\* The driver goes away and takes its queue with it (drop).
LEMMA DropDriverInv == ASSUME IInv, DropDriver PROVE IInv'
<1>1. /\ client' = client /\ admission' = admission /\ used' = used /\ handled' = handled
      /\ toHost' = toHost /\ toWorker' = toWorker /\ worker' = worker /\ queue' = <<>>
      /\ answer' = [i \in Ids |-> IF i \in LeftOver /\ answer[i] = None THEN "SessionLost" ELSE answer[i]]
      /\ driver' = [driver EXCEPT !.pc = "closed"] /\ "closed" \in DriverPcs
  BY ZenonT(30) DEF DropDriver, DriverPcs
<1>2. driver \in Drivers /\ answer \in [Ids -> Answers] /\ "SessionLost" \in NotExecuted
  BY ZenonT(30) DEF IInv, Types, NotExecuted
<1>3. driver' \in Drivers
  BY <1>1, <1>2, ZenonT(30) DEF Drivers
<1>4. answer' \in [Ids -> Answers]
  BY ZenonT(30), <1>1, <1>2 DEF Answers
<1>5. LeftOver = Queued(queue) /\ Queued(queue') = {}
  <2>1. 1..Len(queue') = {}
    BY <1>1
  <2>. QED  BY ZenonT(30), <2>1 DEF LeftOver, Queued
<1>6. \A i \in Ids : \/ answer'[i] = answer[i]
                     \/ /\ answer'[i] \in NotExecuted
                        /\ i \in Queued(queue) /\ i \notin Queued(queue')
  BY ZenonT(30), <1>1, <1>2, <1>5
<1>. QED  BY ZenonT(30), <1>1, <1>3, <1>4, <1>6, ChannelsStay, DriverStep

\* Only a response in flight, so only a request that was run, is answered Ok.
LEMMA ReceiveInv == ASSUME IInv, Receive PROVE IInv'
<1>1. /\ client' = client /\ admission' = admission /\ used' = used /\ handled' = handled
      /\ waiter' = waiter /\ worker' = worker /\ queue' = queue /\ toHost # <<>>
  BY ZenonT(30) DEF Receive
<1>2. CASE EndLoop
  BY ZenonT(30), <1>1, <1>2, EndLoopInv
<1>3. CASE Received(Head(toHost))
  <2> DEFINE f == Head(toHost)
  <2>1. /\ toHost' = Tail(toHost) /\ toWorker' = toWorker
        /\ answer' = IF f.type = "Response" THEN Answered(answer, f.id, "Ok") ELSE answer
        /\ driver' \in {[driver EXCEPT !.pc = "top", !.expected = @ + 1, !.ping = None],
                        [driver EXCEPT !.pc = "top", !.expected = @ + 1, !.app = None],
                        [driver EXCEPT !.pc = "top", !.expected = @ + 1]}
    BY ZenonT(30), <1>3 DEF Received, AfterPong
  <2>2. /\ driver \in Drivers /\ answer \in [Ids -> Answers] /\ driver.expected + 1 \in Nat
        /\ "top" \in DriverPcs /\ "Ok" \in Answers
    BY DEF IInv, Types, Drivers, DriverPcs, Answers
  <2>3. driver' \in Drivers
    BY <2>1, <2>2, ZenonT(30) DEF Drivers
  <2>4. HostLess /\ (f.type = "Response" => f.id \in Ids /\ handled[f.id] = 1)
    BY ZenonT(30), <1>1, <2>1, HostReads
  <2> HIDE DEF f
  <2>5. CASE f.type = "Response"
    <3>1. /\ answer' \in [Ids -> Answers] /\ answer'[f.id] \in {answer[f.id], "Ok"}
          /\ \A j \in Ids \ {f.id} : answer'[j] = answer[j]
      BY <2>1, <2>2, <2>4, <2>5, AnsweredIs
    <3>2. \A i \in Ids : answer'[i] = answer[i] \/ (answer'[i] = "Ok" /\ handled[i] = 1)
      BY ZenonT(30), <2>4, <2>5, <3>1
    <3>. QED  BY ZenonT(30), <1>1, <2>1, <2>3, <2>4, <3>1, <3>2, ChannelsStay, DriverStep
  <2>6. CASE f.type # "Response"
    BY ZenonT(30), <1>1, <2>1, <2>2, <2>3, <2>4, <2>6, ChannelsStay, DriverStep
  <2>. QED  BY ZenonT(30), <2>5, <2>6
<1>. QED  BY ZenonT(30), <1>2, <1>3 DEF Receive

\* start_initiator_request: the head of the queue goes on the wire.
LEMMA StartRequestInv == ASSUME IInv, StartRequest PROVE IInv'
<1> DEFINE r == Head(queue)
           f == [type |-> "Request", id |-> r.id, kind |-> r.kind, seq |-> driver.sent]
<1>1. /\ client' = client /\ admission' = admission /\ used' = used /\ handled' = handled
      /\ toHost' = toHost /\ worker' = worker /\ answer' = answer
      /\ queue # <<>> /\ queue' = Tail(queue)
      /\ toWorker' = Append(toWorker, f) \/ toWorker' = toWorker
      /\ driver' = [driver EXCEPT !.pc = "receive", !.app = r, !.sent = @ + 1]
  BY ZenonT(30) DEF StartRequest, HostSends
<1>2. /\ driver \in Drivers /\ queue \in Seq(Requests) /\ toWorker \in Seq(Wire)
      /\ QueueDistinct(queue) /\ WireDistinct(toWorker)
      /\ answer \in [Ids -> Answers]
  BY ZenonT(30) DEF IInv, Types, Waiting, OnWire
<1>d. driver.sent + 1 \in Nat /\ driver.sent \in Nat /\ "receive" \in DriverPcs
  BY <1>2 DEF Drivers, DriverPcs
<1>3. /\ r \in Requests /\ r.id \in Queued(queue) /\ queue' \in Seq(Requests)
      /\ Queued(queue') \subseteq Queued(queue) /\ QueueDistinct(queue')
      /\ r.id \notin Queued(queue')
  BY ZenonT(30), <1>1, <1>2, QueueTail
<1>4. r.id \in Ids /\ r.kind \in Kinds /\ r.id \in Nat
  BY <1>3 DEF Requests, Ids
<1>5. f \in Wire /\ f.type = "Request" /\ f.id = r.id
  BY ZenonT(30), <1>4, <1>d DEF Wire
<1> HIDE DEF r, f
<1>6. Sendable(r.id) /\ r.id <= used
  BY ZenonT(30), <1>3 DEF IInv, Waiting
<1>7. driver' \in Drivers
  BY <1>1, <1>2, <1>3, <1>d, ZenonT(30) DEF Drivers
<1>8. /\ toWorker' \in Seq(Wire) /\ WireDistinct(toWorker')
      /\ Asked(toWorker') \subseteq Asked(toWorker) \cup {r.id}
  BY ZenonT(30), <1>1, <1>2, <1>5, <1>6, WireAppend DEF Sendable, Fresh
<1>9. Types'
  BY ZenonT(30), <1>1, <1>3, <1>7, <1>8 DEF IInv, Types
<1>10. Running' = Running
  BY ZenonT(30), <1>1 DEF Running
<1>11. \A i \in Ids \ {r.id} : (Fresh(i) => Fresh(i)') /\ (Sendable(i) => Sendable(i)')
  BY ZenonT(30), <1>1, <1>8, <1>10 DEF Fresh, Sendable
<1>12. Known'
  BY ZenonT(30), <1>1, <1>3, <1>6, <1>11 DEF IInv, Known, Sendable
<1>13. Later'
  <2>. SUFFICES ASSUME NEW i \in Ids, i > used PROVE Sendable(i)' /\ i \notin Queued(queue')
    BY ZenonT(30), <1>1 DEF Later
  <2>1. i # r.id
    BY <1>4, <1>6 DEF IInv, Types, Ids
  <2>. QED  BY ZenonT(30), <1>3, <1>11, <2>1 DEF IInv, Later
<1>14. Held'
  <2>. SUFFICES ASSUME NEW c \in Clients, client[c].pc # "idle"
                PROVE  /\ client[c].req \in Requests /\ client[c].req.id <= used
                       /\ client[c].pc = "admitted" => /\ admission = c
                                                       /\ Sendable(client[c].req.id)'
                                                       /\ client[c].req.id \notin Queued(queue')
    BY ZenonT(30), <1>1 DEF Held
  <2> DEFINE i == client[c].req.id
  <2>1. /\ client[c].req \in Requests /\ i <= used
        /\ client[c].pc = "admitted" => admission = c /\ Sendable(i) /\ i \notin Queued(queue)
    BY ZenonT(30) DEF IInv, Held
  <2>2. i \in Ids
    BY ZenonT(30), <2>1 DEF Requests
  <2>3. ASSUME client[c].pc = "admitted" PROVE Sendable(client[c].req.id)' /\ i \notin Queued(queue')
    <3>1. i # r.id /\ i \notin Queued(queue') /\ Sendable(i)
      BY ZenonT(30), <1>3, <2>1, <2>3
    <3>2. client'[c].req.id = i
      BY ZenonT(30), <1>1
    <3> HIDE DEF i
    <3>3. Sendable(i)
      BY ZenonT(30), <3>1
    <3>4. handled'[i] = 0 /\ i \notin Asked(toWorker') /\ i \notin Running' /\ answer'[i] \notin NotExecuted
      BY ZenonT(30), <1>1, <1>8, <1>10, <3>1, <3>3 DEF Sendable, Fresh
    <3>. QED  BY ZenonT(30), <3>1, <3>2, <3>4 DEF Sendable, Fresh
  <2>. QED  BY ZenonT(30), <2>1, <2>3
<1>15. Waiting'
  <2>1. Queued(queue) \subseteq Ids
    <3>1. \A n \in 1..Len(queue) : queue[n] \in Requests
      BY ZenonT(30), <1>2, ElementOfSeq
    <3>. QED  BY ZenonT(30), <3>1 DEF Queued, Requests
  <2>. QED  BY ZenonT(30), <1>1, <1>3, <1>11, <2>1 DEF IInv, Waiting
<1>16. OnWire'
  BY ZenonT(30), <1>1, <1>4, <1>6, <1>8, <1>10 DEF IInv, OnWire, Sendable, Fresh
<1>17. AtPhone' /\ Responses' /\ Earned'
  BY ZenonT(30), <1>1 DEF IInv, AtPhone, Responses, Earned
<1>. QED  BY ZenonT(30), <1>9, <1>12, <1>13, <1>14, <1>15, <1>16, <1>17 DEF IInv

-----------------------------------------------------------------------------
\* The threads of the host.
LEMMA ReturnInv ==
  ASSUME IInv, NEW c \in Clients, TakeAnswer(c) \/ GiveUp(c)
  PROVE  IInv'
<1>1. /\ client' = [client EXCEPT ![c] = Idle] /\ admission' = admission /\ queue' = queue
      /\ driver' = driver /\ worker' = worker /\ toWorker' = toWorker /\ toHost' = toHost
      /\ handled' = handled /\ used' = used /\ client[c].pc = "waiting"
      /\ answer' = answer \/ answer' = Answered(answer, client[c].req.id, "Timeout")
  BY ZenonT(30) DEF TakeAnswer, GiveUp
<1>2. /\ client \in [Clients -> Threads] /\ answer \in [Ids -> Answers]
      /\ client[c].req \in Requests
  BY ZenonT(30), <1>1 DEF IInv, Types, Held
<1>3. client' \in [Clients -> Threads] /\ \A d \in Clients : client'[d] \in {client[d], Idle}
  <2>1. Idle \in Threads
    BY ZenonT(30) DEF Idle, Threads
  <2>. QED  BY ZenonT(30), <1>1, <1>2, <2>1
<1> DEFINE k == client[c].req.id
<1>4. k \in Ids /\ "Timeout" \in Answers /\ "Timeout" \in Unknown
  BY ZenonT(30), <1>2 DEF Requests, Answers, Unknown
<1>5. answer' = answer \/ answer' = Answered(answer, k, "Timeout")
  BY ZenonT(30), <1>1
<1> HIDE DEF k
<1>6. answer' \in [Ids -> Answers] /\ \A i \in Ids : answer'[i] = answer[i] \/ answer'[i] \in Unknown
  <2>1. CASE answer' = answer
    BY ZenonT(30), <1>2, <2>1
  <2>2. CASE answer' = Answered(answer, k, "Timeout")
    <3>1. /\ answer' \in [Ids -> Answers] /\ answer'[k] \in {answer[k], "Timeout"}
          /\ \A j \in Ids \ {k} : answer'[j] = answer[j]
      BY <1>2, <1>4, <2>2, AnsweredIs
    <3>. QED  BY ZenonT(30), <1>4, <3>1
  <2>. QED  BY ZenonT(30), <1>5, <2>1, <2>2
<1>7. Types'
  BY ZenonT(30), <1>1, <1>3, <1>6 DEF IInv, Types
<1>8. /\ QueueDistinct(queue') /\ Queued(queue') \subseteq Queued(queue) /\ WireDistinct(toWorker')
      /\ Asked(toWorker') \subseteq Asked(toWorker) /\ Running' \subseteq Running
      /\ AtPhone' /\ Responses'
  BY ZenonT(30), <1>1 DEF IInv, Waiting, OnWire, Running, AtPhone, Responses
<1>9. \A d \in Clients : client[d].pc = "admitted" => admission' = d
  BY ZenonT(30), <1>1 DEF IInv, Held
<1>. QED  BY ZenonT(30), <1>1, <1>3, <1>6, <1>7, <1>8, <1>9, Quieter

\* The state lock and the waiter say nothing about requests.
LEMMA CancelInv ==
  ASSUME IInv, CancelStore \/ CancelClear \/ WaitAuthenticated \/ UNCHANGED vars
  PROVE  IInv'
<1>1. /\ client' = client /\ queue' = queue /\ driver' = driver /\ worker' = worker
      /\ toWorker' = toWorker /\ toHost' = toHost /\ handled' = handled /\ used' = used
      /\ answer' = answer
  BY ZenonT(30) DEF CancelStore, CancelClear, WaitAuthenticated, vars
<1>2. \A c \in Clients : client[c].pc = "admitted" => admission' = c
  <2>1. admission' = admission \/ admission \in {"free", "canceller"}
    BY ZenonT(30) DEF CancelStore, CancelClear, WaitAuthenticated, vars
  <2>. QED  BY ZenonT(30), <2>1, ChannelAssumption DEF IInv, Held
<1>3. Types'
  BY ZenonT(30), <1>1 DEF IInv, Types
<1>4. /\ QueueDistinct(queue') /\ Queued(queue') \subseteq Queued(queue) /\ WireDistinct(toWorker')
      /\ Asked(toWorker') \subseteq Asked(toWorker) /\ Running' \subseteq Running
      /\ AtPhone' /\ Responses'
  <2>1. QueueDistinct(queue) /\ WireDistinct(toWorker) /\ AtPhone /\ Responses
    BY ZenonT(30) DEF IInv, Waiting, OnWire
  <2>2. AtPhone' /\ Responses' /\ Running' = Running
    BY <1>1, <2>1, ZenonT(30) DEF AtPhone, Responses, Running
  <2>. QED  BY <1>1, <2>1, <2>2, ZenonT(30)
<1>. QED  BY ZenonT(30), <1>1, <1>2, <1>3, <1>4, Quieter

\* request_with_id under the admission lock: nobody else is admitted, and the
\* new id has been nowhere.
LEMMA AdmitInv ==
  ASSUME IInv, NEW c \in Clients, NEW kind \in Kinds, Admit(c, kind)
  PROVE  IInv'
<1> DEFINE k == used + 1
           r == [id |-> k, kind |-> kind]
<1>1. /\ queue' = queue /\ driver' = driver /\ worker' = worker /\ toWorker' = toWorker
      /\ toHost' = toHost /\ handled' = handled /\ used' = k /\ used < MaxRequests
      /\ admission = "free"
      /\ \/ /\ answer' = Answered(answer, k, "NotAuthenticated") /\ client' = client
            /\ admission' = admission
         \/ /\ client' = [client EXCEPT ![c] = [pc |-> "admitted", req |-> r]]
            /\ admission' = c /\ answer' = answer
  BY ZenonT(30) DEF Admit
<1>2. /\ client \in [Clients -> Threads] /\ answer \in [Ids -> Answers] /\ used \in Nat
      /\ queue \in Seq(Requests)
  BY ZenonT(30) DEF IInv, Types
<1>3. k \in Ids /\ k \in Nat /\ k > used /\ r \in Requests /\ r.id = k
  BY <1>1, <1>2, ChannelAssumption DEF Ids, Requests
<1>4. Sendable(k) /\ k \notin Queued(queue) /\ Fresh(k)
  BY ZenonT(30), <1>3 DEF IInv, Later, Sendable
<1>5. \A d \in Clients : client[d].pc # "admitted"
  BY ZenonT(30), <1>1, ChannelAssumption DEF IInv, Held
<1>6. [pc |-> "admitted", req |-> r] \in Threads
  BY ZenonT(30), <1>3 DEF Threads
<1> HIDE DEF k, r
<1>7. \A i \in Ids : Fresh(i)' <=> Fresh(i)
  BY ZenonT(30), <1>1 DEF Fresh, Running
<1>8. OnWire' /\ AtPhone' /\ Responses'
  BY ZenonT(30), <1>1 DEF IInv, OnWire, AtPhone, Responses, Running
<1>9. Queued(queue) \subseteq Ids
  <2>1. \A n \in 1..Len(queue) : queue[n] \in Requests
    BY ZenonT(30), <1>2, ElementOfSeq
  <2>. QED  BY ZenonT(30), <2>1 DEF Queued, Requests
<1>q. Ids \subseteq Nat
  BY DEF Ids
<1>10. CASE answer' = Answered(answer, k, "NotAuthenticated") /\ client' = client /\ admission' = admission
  <2>1. "NotAuthenticated" \in Answers /\ "NotAuthenticated" \in NotExecuted
    BY ZenonT(30) DEF Answers, NotExecuted
  <2>2. /\ answer' \in [Ids -> Answers] /\ answer'[k] \in {answer[k], "NotAuthenticated"}
        /\ \A j \in Ids \ {k} : answer'[j] = answer[j]
    BY <1>2, <1>3, <1>10, <2>1, AnsweredIs
  <2>3. Types'
    BY ZenonT(30), <1>1, <1>3, <1>10, <2>2 DEF IInv, Types
  <2>4. Known'
    BY ZenonT(30), <1>1, <1>4, <1>7, <2>2 DEF IInv, Known
  <2>5. \A i \in Ids \ {k} : Sendable(i) => Sendable(i)'
    BY ZenonT(30), <1>7, <2>2 DEF Sendable
  <2>6. Later'
    BY <1>1, <1>2, <1>3, <1>q, <2>5 DEF IInv, Later, k
  <2>7. Held'
    <3>1. ASSUME NEW d \in Clients, client'[d].pc # "idle"
          PROVE  /\ client'[d].req \in Requests /\ client'[d].req.id <= used'
                 /\ client'[d].pc # "admitted"
      <4>1. client[d].req \in Requests /\ client[d].req.id <= used /\ client[d].req.id \in Nat
        BY ZenonT(30), <1>q, <1>10, <3>1 DEF IInv, Held, Requests
      <4>. QED  BY <1>1, <1>2, <1>5, <1>10, <4>1 DEF k
    <3>. QED  BY ZenonT(30), <3>1 DEF Held
  <2>8. Waiting'
    <3>1. QueueDistinct(queue) /\ \A i \in Queued(queue) : Sendable(i) /\ i <= used
      BY ZenonT(30) DEF IInv, Waiting
    <3>2. \A i \in Queued(queue) : i \in Ids \ {k}
      BY <1>4, <1>9, ZenonT(30)
    <3>3. \A i \in Queued(queue) : i <= k
      BY <1>2, <1>3, <1>9, <1>q, <3>1
    <3>. QED  BY ZenonT(30), <1>1, <2>5, <3>1, <3>2, <3>3 DEF Waiting
  <2>9. Earned'
    BY ZenonT(30), <1>1, <2>2 DEF IInv, Earned
  <2>. QED  BY ZenonT(30), <1>8, <2>3, <2>4, <2>6, <2>7, <2>8, <2>9 DEF IInv
<1>11. CASE /\ client' = [client EXCEPT ![c] = [pc |-> "admitted", req |-> r]]
            /\ admission' = c /\ answer' = answer
  <2>1. /\ client' \in [Clients -> Threads] /\ client'[c].pc = "admitted" /\ client'[c].req = r
        /\ \A d \in Clients \ {c} : client'[d] = client[d]
    BY ZenonT(30), <1>2, <1>6, <1>11
  <2>2. Types'
    BY ZenonT(30), <1>1, <1>3, <1>11, <2>1 DEF IInv, Types
  <2>3. \A i \in Ids : Sendable(i) => Sendable(i)'
    BY ZenonT(30), <1>7, <1>11 DEF Sendable
  <2>4. Known' /\ Earned'
    BY ZenonT(30), <1>1, <1>7, <1>11 DEF IInv, Known, Earned
  <2>5. Later'
    BY <1>1, <1>2, <1>3, <1>q, <2>3 DEF IInv, Later, k
  <2>6. Waiting'
    <3>1. \A i \in Queued(queue) : i \in Nat /\ i \in Ids /\ Sendable(i) /\ i <= used
      BY ZenonT(30), <1>9, <1>q DEF IInv, Waiting
    <3>2. \A i \in Queued(queue) : Sendable(i)' /\ i <= used'
      BY <1>1, <1>2, <2>3, <3>1 DEF k
    <3>. QED  BY ZenonT(30), <1>1, <3>2 DEF IInv, Waiting
  <2>7. Held'
    <3>1. ASSUME NEW d \in Clients \ {c}, client'[d].pc # "idle"
          PROVE  /\ client'[d].req \in Requests /\ client'[d].req.id <= used'
                 /\ client'[d].pc # "admitted"
      <4>1. client[d].req \in Requests /\ client[d].req.id <= used /\ client[d].req.id \in Nat
        BY ZenonT(30), <1>q, <2>1, <3>1 DEF IInv, Held, Requests
      <4>. QED  BY <1>1, <1>2, <1>5, <2>1, <3>1, <4>1 DEF k
    <3>2. Sendable(client[c].req.id)'
      <4>1. client'[c].req.id = k
        BY ZenonT(30), <1>3, <2>1
      <4>2. handled'[k] = 0 /\ k \notin Asked(toWorker') /\ k \notin Running' /\ answer'[k] \notin NotExecuted
        BY ZenonT(30), <1>1, <1>4, <1>11 DEF Sendable, Fresh, Running
      <4>. QED  BY ZenonT(30), <4>1, <4>2 DEF Sendable, Fresh
    <3>3. /\ client'[c].req \in Requests /\ client'[c].req.id <= used' /\ admission' = c
          /\ client'[c].req.id \notin Queued(queue')
      BY <1>1, <1>3, <1>4, <1>11, <2>1
    <3>. QED  BY ZenonT(30), <3>1, <3>2, <3>3 DEF Held
  <2>. QED  BY ZenonT(30), <1>8, <2>2, <2>4, <2>5, <2>6, <2>7 DEF IInv
<1>. QED  BY ZenonT(30), <1>1, <1>10, <1>11

\* try_send: the one admitted request joins the queue or is turned away.
LEMMA EnqueueInv ==
  ASSUME IInv, NEW c \in Clients, Enqueue(c)
  PROVE  IInv'
<1> DEFINE r == client[c].req
           k == r.id
<1>1. /\ driver' = driver /\ worker' = worker /\ toWorker' = toWorker /\ toHost' = toHost
      /\ handled' = handled /\ used' = used /\ client[c].pc = "admitted"
      /\ \/ /\ \E what \in {"SessionLost", "Busy"} : answer' = Answered(answer, k, what)
            /\ client' = [client EXCEPT ![c] = Idle] /\ queue' = queue
         \/ /\ client' = [client EXCEPT ![c].pc = "waiting"] /\ queue' = Append(queue, r)
            /\ answer' = answer
  BY ZenonT(30) DEF Enqueue
<1>2. /\ client \in [Clients -> Threads] /\ answer \in [Ids -> Answers] /\ used \in Nat
      /\ queue \in Seq(Requests) /\ QueueDistinct(queue)
  BY ZenonT(30) DEF IInv, Types, Waiting
<1>3. /\ r \in Requests /\ k <= used /\ admission = c /\ Sendable(k) /\ k \notin Queued(queue)
  BY ZenonT(30), <1>1 DEF IInv, Held
<1>4. k \in Ids
  BY ZenonT(30), <1>3 DEF Requests
<1>5. \A d \in Clients \ {c} : client[d].pc # "admitted"
  BY ZenonT(30), <1>3 DEF IInv, Held
<1> HIDE DEF r, k
<1>6. \A i \in Ids : Fresh(i)' <=> Fresh(i)
  BY ZenonT(30), <1>1 DEF Fresh, Running
<1>7. OnWire' /\ AtPhone' /\ Responses'
  BY ZenonT(30), <1>1 DEF IInv, OnWire, AtPhone, Responses, Running
<1>8. Queued(queue) \subseteq Ids
  <2>1. \A n \in 1..Len(queue) : queue[n] \in Requests
    BY ZenonT(30), <1>2, ElementOfSeq
  <2>. QED  BY ZenonT(30), <2>1 DEF Queued, Requests
<1>9. ASSUME NEW what \in {"SessionLost", "Busy"}, answer' = Answered(answer, k, what),
             client' = [client EXCEPT ![c] = Idle], queue' = queue
      PROVE  IInv'
  <2>1. what \in Answers /\ what \in NotExecuted /\ what # "Ok"
    BY ZenonT(30) DEF Answers, NotExecuted
  <2>2. /\ answer' \in [Ids -> Answers] /\ answer'[k] \in {answer[k], what}
        /\ \A j \in Ids \ {k} : answer'[j] = answer[j]
    BY <1>2, <1>4, <1>9, <2>1, AnsweredIs
  <2>3. /\ client' \in [Clients -> Threads] /\ client'[c].pc = "idle"
        /\ \A d \in Clients \ {c} : client'[d] = client[d]
    BY ZenonT(30), <1>2, <1>9 DEF Idle, Threads
  <2>4. Types'
    BY ZenonT(30), <1>1, <1>9, <2>2, <2>3 DEF IInv, Types
  <2>5. Known'
    BY ZenonT(30), <1>3, <1>6, <1>9, <2>2 DEF IInv, Known, Sendable
  <2>6. \A i \in Ids \ {k} : Sendable(i) => Sendable(i)'
    BY ZenonT(30), <1>6, <2>2 DEF Sendable
  <2>7. Later'
    <3>. SUFFICES ASSUME NEW i \in Ids, i > used PROVE Sendable(i)' /\ i \notin Queued(queue')
      BY ZenonT(30), <1>1 DEF Later
    <3>1. i # k
      BY <1>2, <1>3, <1>4 DEF Ids
    <3>. QED  BY ZenonT(30), <1>9, <2>6, <3>1 DEF IInv, Later
  <2>8. Held'
    BY ZenonT(30), <1>1, <1>5, <2>3 DEF IInv, Held
  <2>9. Waiting'
    BY ZenonT(30), <1>1, <1>3, <1>8, <1>9, <2>6 DEF IInv, Waiting
  <2>10. Earned'
    BY ZenonT(30), <1>1, <2>1, <2>2 DEF IInv, Earned
  <2>. QED  BY ZenonT(30), <1>7, <2>4, <2>5, <2>7, <2>8, <2>9, <2>10 DEF IInv
<1>10. CASE /\ client' = [client EXCEPT ![c].pc = "waiting"] /\ queue' = Append(queue, r)
            /\ answer' = answer
  <2>1. /\ client' \in [Clients -> Threads] /\ client'[c].pc = "waiting" /\ client'[c].req = r
        /\ \A d \in Clients \ {c} : client'[d] = client[d]
    <3> DEFINE t == [client[c] EXCEPT !.pc = "waiting"]
    <3>1. client[c] \in Threads
      BY ZenonT(30), <1>2
    <3>2. t \in Threads /\ t.pc = "waiting" /\ t.req = client[c].req
      BY <3>1, ZenonT(30) DEF Threads
    <3>3. client' = [client EXCEPT ![c] = t]
      BY ZenonT(30), <1>10
    <3> HIDE DEF t
    <3>. QED  BY ZenonT(30), <1>2, <3>2, <3>3 DEF r
  <2>2. /\ queue' \in Seq(Requests) /\ Queued(queue') = Queued(queue) \cup {k} /\ QueueDistinct(queue')
    BY ZenonT(30), <1>2, <1>3, <1>10, QueueAppend DEF k
  <2>3. Types'
    BY ZenonT(30), <1>1, <1>10, <2>1, <2>2 DEF IInv, Types
  <2>4. \A i \in Ids : Sendable(i) => Sendable(i)'
    BY ZenonT(30), <1>6, <1>10 DEF Sendable
  <2>5. Known'
    BY ZenonT(30), <1>3, <1>6, <1>10, <2>2 DEF IInv, Known, Sendable
  <2>6. Later'
    <3>. SUFFICES ASSUME NEW i \in Ids, i > used PROVE Sendable(i)' /\ i \notin Queued(queue')
      BY ZenonT(30), <1>1 DEF Later
    <3>1. i # k
      BY <1>2, <1>3, <1>4 DEF Ids
    <3>. QED  BY ZenonT(30), <2>2, <2>4, <3>1 DEF IInv, Later
  <2>7. Held'
    BY ZenonT(30), <1>1, <1>3, <1>5, <2>1 DEF IInv, Held, k
  <2>8. Waiting'
    BY ZenonT(30), <1>1, <1>3, <1>4, <1>8, <2>2, <2>4 DEF IInv, Waiting
  <2>9. Earned'
    BY ZenonT(30), <1>1, <1>10 DEF IInv, Earned
  <2>. QED  BY ZenonT(30), <1>7, <2>3, <2>5, <2>6, <2>7, <2>8, <2>9 DEF IInv
<1>. QED  BY ZenonT(30), <1>1, <1>9, <1>10

-----------------------------------------------------------------------------
\* The phone, and the network.
HostStill == /\ client' = client /\ admission' = admission /\ queue' = queue /\ driver' = driver
             /\ answer' = answer /\ used' = used

\* A step of the phone that runs nothing.
LEMMA PhoneQuiet ==
  ASSUME IInv, HostStill, handled' = handled, WireLess, HostLess, worker' \in Workers,
         \/ worker'.pc \in {"live", "ended"}
         \/ worker'.pc = worker.pc /\ worker'.job = worker.job
  PROVE  IInv'
<1>1. AtPhone' /\ Running' \subseteq Running
  BY ZenonT(30) DEF IInv, AtPhone, Running
<1>2. driver' \in Drivers /\ answer' \in [Ids -> Answers]
  BY ZenonT(30) DEF IInv, Types, HostStill
<1>. QED  BY ZenonT(30), <1>1, <1>2, QuietStep DEF HostStill

\* The phone begins or ends a session, or the network breaks.
LEMMA PhoneLoopInv ==
  ASSUME IInv, WorkerBegin \/ WorkerEnds \/ NetworkBreaks
  PROVE  IInv'
<1>0. worker \in Workers /\ {"live", "ended"} \subseteq WorkerPcs
  BY ZenonT(30) DEF IInv, Types, WorkerPcs
<1>1. CASE WorkerBegin
  <2>1. /\ HostStill /\ handled' = handled /\ toWorker' = toWorker /\ toHost' = toHost
        /\ worker' = [worker EXCEPT !.pc = "live"]
    BY ZenonT(30), <1>1 DEF WorkerBegin, HostStill
  <2>2. worker' \in Workers /\ worker'.pc = "live"
    BY <1>0, <2>1, ZenonT(30) DEF Workers
  <2>. QED  BY ZenonT(30), <2>1, <2>2, ChannelsStay, PhoneQuiet
<1>2. CASE WorkerEnds
  <2>1. /\ HostStill /\ handled' = handled /\ Break
        /\ worker' = [worker EXCEPT !.pc = "ended", !.job = None]
    BY ZenonT(30), <1>2 DEF WorkerEnds, HostStill
  <2>2. worker' \in Workers /\ worker'.pc = "ended"
    BY <1>0, <2>1, ZenonT(30) DEF Workers
  <2>. QED  BY ZenonT(30), <2>1, <2>2, BreakKeeps, PhoneQuiet
<1>3. CASE NetworkBreaks
  <2>1. HostStill /\ handled' = handled /\ Break /\ worker' = worker
    BY ZenonT(30), <1>3 DEF NetworkBreaks, HostStill
  <2>. QED  BY ZenonT(30), <1>0, <2>1, BreakKeeps, PhoneQuiet
<1>. QED  BY ZenonT(30), <1>1, <1>2, <1>3

\* The phone sends a heartbeat, the answer to one, or the answer to a request.
LEMMA PhoneSendsInv ==
  ASSUME IInv, WorkerHeartbeat \/ WorkerPong \/ WorkerResponds
  PROVE  IInv'
<1>0. /\ worker \in Workers /\ toWorker \in Seq(Wire) /\ handled \in [Ids -> {0, 1}]
      /\ WireDistinct(toWorker)
  BY ZenonT(30) DEF IInv, Types, OnWire
<1>n. /\ worker.sent \in Nat /\ worker.sent + 1 \in Nat /\ worker.expected + 1 \in Nat
      /\ worker.beats + 1 \in Nat /\ "live" \in WorkerPcs
  BY <1>0 DEF Workers, WorkerPcs
<1>1. CASE WorkerHeartbeat
  <2> DEFINE f == [type |-> "Heartbeat", id |-> 0, kind |-> None, seq |-> worker.sent]
  <2>1. /\ HostStill /\ handled' = handled /\ toWorker' = toWorker
        /\ toHost' = Append(toHost, f) \/ toHost' = toHost
        /\ worker' = [worker EXCEPT !.beats = @ + 1, !.sent = @ + 1]
    BY ZenonT(30), <1>1 DEF WorkerHeartbeat, WorkerSends, HostStill
  <2>2. f \in Wire /\ f.type # "Response"
    BY ZenonT(30), <1>n DEF Wire
  <2> HIDE DEF f
  <2>3. worker' \in Workers /\ worker'.pc = worker.pc /\ worker'.job = worker.job
    BY <1>0, <1>n, <2>1, ZenonT(30) DEF Workers
  <2>4. HostLess
    BY ZenonT(30), <1>0, <2>1, <2>2, PhoneSends
  <2>. QED  BY ZenonT(30), <2>1, <2>3, <2>4, ChannelsStay, PhoneQuiet
<1>2. CASE WorkerPong
  <2> DEFINE f == [type |-> "Pong", id |-> Head(toWorker).id, kind |-> None, seq |-> worker.sent]
  <2>1. /\ HostStill /\ handled' = handled /\ toWorker # <<>> /\ toWorker' = Tail(toWorker)
        /\ toHost' = Append(toHost, f) \/ toHost' = toHost
        /\ worker' = [worker EXCEPT !.expected = @ + 1, !.sent = @ + 1]
    BY ZenonT(30), <1>2 DEF WorkerPong, WorkerSends, HostStill
  <2>2. Head(toWorker) \in Wire /\ WireLess
    BY ZenonT(30), <1>0, <2>1, WireTail DEF WireLess
  <2>3. f \in Wire /\ f.type # "Response"
    BY ZenonT(30), <1>n, <2>2 DEF Wire
  <2> HIDE DEF f
  <2>4. worker' \in Workers /\ worker'.pc = worker.pc /\ worker'.job = worker.job
    BY <1>0, <1>n, <2>1, ZenonT(30) DEF Workers
  <2>5. HostLess
    BY ZenonT(30), <1>0, <2>1, <2>3, PhoneSends
  <2>. QED  BY ZenonT(30), <2>1, <2>2, <2>4, <2>5, PhoneQuiet
<1>3. CASE WorkerResponds
  <2> DEFINE f == [type |-> "Response", id |-> worker.job.id, kind |-> worker.job.kind,
                   seq |-> worker.sent]
  <2>1. /\ HostStill /\ handled' = handled /\ toWorker' = toWorker /\ worker.pc = "handled"
        /\ toHost' = Append(toHost, f) \/ toHost' = toHost
        /\ worker' = [worker EXCEPT !.pc = "live", !.job = None, !.sent = @ + 1]
    BY ZenonT(30), <1>3 DEF WorkerResponds, WorkerSends, HostStill
  <2>2. worker.job \in Requests /\ handled[worker.job.id] = 1
    BY ZenonT(30), <2>1 DEF IInv, AtPhone
  <2>3. worker.job.id \in Ids /\ worker.job.id \in Nat /\ worker.job.kind \in Kinds
    BY <2>2 DEF Requests, Ids
  <2>4. f \in Wire /\ f.id = worker.job.id
    BY ZenonT(30), <1>n, <2>3 DEF Wire
  <2> HIDE DEF f
  <2>5. worker' \in Workers /\ worker'.pc = "live"
    BY <1>0, <1>n, <2>1, ZenonT(30) DEF Workers
  <2>6. HostLess
    BY ZenonT(30), <1>0, <2>1, <2>2, <2>3, <2>4, PhoneSends
  <2>. QED  BY ZenonT(30), <2>1, <2>5, <2>6, ChannelsStay, PhoneQuiet
<1>. QED  BY <1>1, <1>2, <1>3

\* A request that is read leaves the wire for good; it is run at once, handed to
\* a thread, or, later, run by that thread.  k is the one request it concerns.
LEMMA PhoneRuns ==
  ASSUME IInv, HostStill, NEW k \in Ids, k \in Asked(toWorker) \cup Running,
         WireLess, HostLess, worker' \in Workers, handled' \in [Ids -> {0, 1}],
         \A i \in Ids \ {k} : handled'[i] = handled[i],
         Running' \subseteq Running \cup {k},
         k \notin Asked(toWorker'),
         AtPhone'
  PROVE  IInv'
<1>1. handled[k] = 0
  <2>1. ASSUME k \in Running PROVE handled[k] = 0
    BY ZenonT(30), <2>1 DEF IInv, AtPhone, Running
  <2>. QED  BY ZenonT(30), <2>1 DEF IInv, OnWire
<1>2. ~Fresh(k)
  BY ZenonT(30) DEF Fresh
<1>3. \A i \in Ids : (Fresh(i) => Fresh(i)') /\ (Sendable(i) => Sendable(i)')
  <2>. SUFFICES ASSUME NEW i \in Ids, Fresh(i) PROVE Fresh(i)'
    BY ZenonT(30) DEF HostStill, Sendable
  <2>1. i # k
    BY ZenonT(30), <1>2
  <2>. QED  BY ZenonT(30), <2>1 DEF Fresh, WireLess
<1>4. Types'
  BY ZenonT(30) DEF IInv, Types, HostStill, WireLess, HostLess
<1>5. Known' /\ Later'
  BY ZenonT(30), <1>3 DEF IInv, Known, Later, HostStill
<1>6. Held'
  <2>. SUFFICES ASSUME NEW c \in Clients, client[c].pc = "admitted"
                PROVE  Sendable(client[c].req.id)'
    BY ZenonT(30) DEF Held, HostStill, IInv
  <2> DEFINE i == client[c].req.id
  <2>1. i \in Ids /\ Sendable(i) /\ client'[c].req.id = i
    BY ZenonT(30) DEF IInv, Held, Requests, HostStill
  <2> HIDE DEF i
  <2>2. i # k /\ Sendable(i)
    BY ZenonT(30), <1>2, <2>1 DEF Sendable
  <2>3. handled'[i] = 0 /\ i \notin Asked(toWorker') /\ i \notin Running' /\ answer'[i] \notin NotExecuted
    BY ZenonT(30), <2>1, <2>2 DEF Sendable, Fresh, WireLess, HostStill
  <2>. QED  BY ZenonT(30), <2>1, <2>3 DEF Sendable, Fresh
<1>7. Waiting'
  <2>1. Queued(queue) \subseteq Ids
    <3>1. \A n \in 1..Len(queue) : queue[n] \in Requests
      BY ZenonT(30), ElementOfSeq DEF IInv, Types
    <3>. QED  BY ZenonT(120), <3>1 DEF Queued, Requests
  <2>. QED  BY ZenonT(30), <1>3, <2>1 DEF IInv, Waiting, HostStill
<1>8. OnWire'
  <2>. SUFFICES ASSUME NEW i \in Asked(toWorker')
                PROVE  i \in Ids /\ handled'[i] = 0 /\ i \notin Running'
    BY ZenonT(30) DEF OnWire, WireLess
  <2>1. i \in Asked(toWorker) /\ i # k
    BY ZenonT(30) DEF WireLess
  <2>. QED  BY ZenonT(30), <2>1 DEF IInv, OnWire
<1>9. Earned'
  BY ZenonT(30), <1>1 DEF IInv, Earned, HostStill
<1>. QED  BY ZenonT(30), <1>4, <1>5, <1>6, <1>7, <1>8, <1>9 DEF IInv, HostLess

\* What WorkerReads takes off the wire.
LEMMA ReadsOne ==
  ASSUME IInv, NEW kind, WorkerReads(kind)
  PROVE  /\ WireLess /\ worker.pc = "live" /\ Running = {}
         /\ Head(toWorker).id \in Ids /\ Head(toWorker).id \in Asked(toWorker)
         /\ Head(toWorker).id \notin Asked(toWorker') /\ handled[Head(toWorker).id] = 0
         /\ Head(toWorker).kind = kind /\ Head(toWorker) \in Wire
<1>1. toWorker \in Seq(Wire) /\ WireDistinct(toWorker)
  BY ZenonT(30) DEF IInv, Types, OnWire
<1>2. /\ toWorker # <<>> /\ Head(toWorker).type = "Request" /\ toWorker' = Tail(toWorker)
      /\ worker.pc = "live" /\ Head(toWorker).kind = kind
  BY ZenonT(30) DEF WorkerReads
<1>3. /\ WireLess /\ Head(toWorker).id \in Asked(toWorker) /\ Head(toWorker) \in Wire
      /\ Head(toWorker).id \notin Asked(toWorker')
  BY ZenonT(30), <1>1, <1>2, WireTail DEF WireLess
<1>. QED  BY ZenonT(30), <1>2, <1>3 DEF IInv, OnWire, Running

\* A request that the phone handles in its loop.
LEMMA HandledInlineInv ==
  ASSUME IInv, HandleCommand \/ HandleResource
  PROVE  IInv'
<1>1. PICK kind : WorkerReads(kind) /\ HandledInline
  BY ZenonT(30) DEF HandleCommand, HandleResource
<1> DEFINE k == Head(toWorker).id
           f == [type |-> "Response", id |-> k, kind |-> Head(toWorker).kind, seq |-> worker.sent]
<1>2. /\ WireLess /\ worker.pc = "live" /\ Running = {} /\ k \in Ids /\ k \in Asked(toWorker)
      /\ k \notin Asked(toWorker') /\ handled[k] = 0 /\ Head(toWorker) \in Wire
  BY ZenonT(30), <1>1, ReadsOne
<1>3. /\ HostStill /\ handled' = [handled EXCEPT ![k] = @ + 1]
      /\ toHost' = Append(toHost, f) \/ toHost' = toHost
      /\ worker' = [worker EXCEPT !.expected = @ + 1, !.sent = @ + 1]
  BY ZenonT(30), <1>1 DEF HandledInline, WorkerSends, HostStill
<1>4. /\ worker \in Workers /\ handled \in [Ids -> {0, 1}]
      /\ worker.sent \in Nat /\ worker.sent + 1 \in Nat /\ worker.expected + 1 \in Nat
  BY DEF IInv, Types, Workers
<1>5. f \in Wire /\ f.id = k
  BY ZenonT(30), <1>2, <1>4 DEF Wire
<1> HIDE DEF k, f
<1>6. worker' \in Workers /\ worker'.pc = worker.pc
  BY <1>3, <1>4, ZenonT(30) DEF Workers
<1>7. /\ handled' \in [Ids -> {0, 1}] /\ handled'[k] = 1
      /\ \A i \in Ids \ {k} : handled'[i] = handled[i]
  BY <1>2, <1>3, <1>4
<1>8. HostLess
  BY ZenonT(30), <1>2, <1>3, <1>5, <1>7, PhoneSends
<1>9. AtPhone' /\ Running' = {}
  BY ZenonT(30), <1>2, <1>6 DEF AtPhone, Running
<1>. QED  BY ZenonT(30), <1>2, <1>3, <1>6, <1>7, <1>8, <1>9, PhoneRuns

\* A request that the phone hands to a thread of its own.
LEMMA HandedToThreadInv ==
  ASSUME IInv, HandleBuffer \/ HandleCompute
  PROVE  IInv'
<1>1. PICK kind \in {"RemoteBuffer", "Compute"} : WorkerReads(kind) /\ HandedToThread
  BY ZenonT(30) DEF HandleBuffer, HandleCompute
<1> DEFINE k == Head(toWorker).id
           j == [id |-> k, kind |-> Head(toWorker).kind]
<1>2. /\ WireLess /\ worker.pc = "live" /\ Running = {} /\ k \in Ids /\ k \in Asked(toWorker)
      /\ k \notin Asked(toWorker') /\ handled[k] = 0 /\ Head(toWorker) \in Wire
      /\ Head(toWorker).kind = kind
  BY ZenonT(30), <1>1, ReadsOne
<1>3. /\ HostStill /\ handled' = handled /\ toHost' = toHost
      /\ worker' = [worker EXCEPT !.pc = "handling", !.expected = @ + 1, !.job = j]
  BY ZenonT(30), <1>1 DEF HandedToThread, HostStill
<1>4. /\ worker \in Workers /\ handled \in [Ids -> {0, 1}] /\ worker.expected + 1 \in Nat
      /\ "handling" \in WorkerPcs
  BY DEF IInv, Types, Workers, WorkerPcs
<1>5. j \in Requests /\ j.id = k
  <2>1. Head(toWorker).kind \in Kinds
    BY ZenonT(30), <1>1, <1>2, NoneAssumption DEF Wire
  <2>. QED  BY ZenonT(30), <1>2, <2>1 DEF Requests
<1> HIDE DEF k, j
<1>6. worker' \in Workers /\ worker'.pc = "handling" /\ worker'.job = j
  BY <1>3, <1>4, <1>5, ZenonT(30) DEF Workers
<1>7. AtPhone' /\ Running' = {k}
  BY ZenonT(30), <1>2, <1>3, <1>5, <1>6 DEF AtPhone, Running
<1>8. handled' \in [Ids -> {0, 1}] /\ \A i \in Ids \ {k} : handled'[i] = handled[i]
  BY ZenonT(30), <1>3, <1>4
<1>. QED  BY ZenonT(30), <1>2, <1>3, <1>6, <1>7, <1>8, ChannelsStay, PhoneRuns

\* The thread of a request returns, and the answer is sent.
LEMMA HandlerReturnsInv ==
  ASSUME IInv, HandlerReturns
  PROVE  IInv'
<1> DEFINE k == worker.job.id
<1>1. /\ HostStill /\ toWorker' = toWorker /\ toHost' = toHost /\ worker.pc = "handling"
      /\ handled' = [handled EXCEPT ![k] = @ + 1] /\ worker' = [worker EXCEPT !.pc = "handled"]
  BY ZenonT(30) DEF HandlerReturns, HostStill
<1>2. /\ worker \in Workers /\ handled \in [Ids -> {0, 1}] /\ "handled" \in WorkerPcs
      /\ worker.job \in Requests /\ handled[k] = 0 /\ toWorker \in Seq(Wire) /\ toHost \in Seq(Wire)
  BY ZenonT(30), <1>1 DEF IInv, Types, WorkerPcs, AtPhone
<1>3. k \in Ids /\ Running = {k}
  BY ZenonT(30), <1>1, <1>2 DEF Requests, Running
<1>4. k \notin Asked(toWorker)
  BY ZenonT(30), <1>3 DEF IInv, OnWire
<1>5. worker' \in Workers /\ worker'.pc = "handled" /\ worker'.job = worker.job
  BY <1>1, <1>2, ZenonT(30) DEF Workers
<1>6. worker'.job.id = k
  BY ZenonT(30), <1>5
<1> HIDE DEF k
<1>7. /\ handled' \in [Ids -> {0, 1}] /\ handled'[k] = 1
      /\ \A i \in Ids \ {k} : handled'[i] = handled[i]
  BY <1>1, <1>2, <1>3
<1>8. AtPhone' /\ Running' = {}
  BY ZenonT(30), <1>2, <1>5, <1>6, <1>7 DEF AtPhone, Running
<1>9. WireLess
  BY ZenonT(30), <1>1, <1>2 DEF WireLess, IInv, OnWire
<1>10. HostLess
  <2>1. \A i \in Ids : handled[i] = 1 => handled'[i] = 1
    BY ZenonT(30), <1>7
  <2>. QED  BY ZenonT(30), <1>1, <1>2, <2>1 DEF HostLess, IInv, Responses
<1>. QED  BY ZenonT(30), <1>1, <1>3, <1>4, <1>5, <1>7, <1>8, <1>9, <1>10, PhoneRuns

\* Every step keeps the invariant.
LEMMA NextInv == IInv /\ [Next]_vars => IInv'
<1>. SUFFICES ASSUME IInv, [Next]_vars PROVE IInv'
  BY ZenonT(30)
<1>1. CASE ClientNext
  BY ZenonT(30), <1>1, AdmitInv, EnqueueInv, ReturnInv DEF ClientNext
<1>2. CASE Cancel \/ WaitAuthenticated \/ UNCHANGED vars
  BY ZenonT(30), <1>2, CancelInv DEF Cancel
<1>3. CASE SessionLost
  BY ZenonT(30), <1>3, EndLoopInv DEF SessionLost
<1>4. CASE DriverNext
  BY ZenonT(30), <1>3, <1>4, PcOnly, HandshakeFailsInv, LoopTopInv, SendPingInv, StartRequestInv,
     RefuseRequestInv, SendFailsInv, ReceiveInv, DrainInv, DropDriverInv DEF DriverNext
<1>5. CASE WorkerWork
  BY ZenonT(30), <1>5, PhoneLoopInv, PhoneSendsInv, HandledInlineInv, HandedToThreadInv, HandlerReturnsInv
     DEF WorkerWork
<1>6. CASE WorkerEnds \/ NetworkBreaks
  BY ZenonT(30), <1>6, PhoneLoopInv
<1>. QED  BY ZenonT(30), <1>1, <1>2, <1>4, <1>5, <1>6 DEF Next

\* The invariant of the channel holds in every behaviour.
LEMMA Invariance == Spec => []IInv
BY InitInv, NextInv, PTL DEF Spec

\* A request answered NotAuthenticated, Busy, SessionLost or InvalidRequest has
\* not been run by the phone, for any number of threads and requests and however
\* the answer races a cancelled, lost or ending session (request_with_id,
\* end_session, Drop of the driver).
THEOREM KnownAlwaysUnsent == Spec => []KnownMeansUnsent
<1>1. IInv => KnownMeansUnsent
  BY ZenonT(30) DEF IInv, Known, KnownMeansUnsent, Fresh
<1>. QED  BY <1>1, Invariance, PTL

\* The phone runs a request at most once, and an Ok answer was earned by exactly
\* one run (take_initiator_outstanding, the responder's loop).
THEOREM OkAlwaysHandledOnce == Spec => []OkMeansHandledOnce
<1>1. IInv => OkMeansHandledOnce
  <2>. SUFFICES ASSUME IInv, NEW i \in Ids
                PROVE  handled[i] <= 1 /\ (answer[i] = "Ok" => handled[i] = 1)
    BY ZenonT(30) DEF OkMeansHandledOnce
  <2>1. handled[i] \in {0, 1}
    BY ZenonT(30) DEF IInv, Types
  <2>. QED  BY <2>1 DEF IInv, Earned
<1>. QED  BY <1>1, Invariance, PTL
=============================================================================
