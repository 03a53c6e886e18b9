----------------------------- MODULE LocalFraming -----------------------------
(***************************************************************************)
(* One local client after another over the control socket: admission        *)
(* (pb-host/admission.rs), the bounded line framing of its byte stream with *)
(* the descriptors that travel with it (admission/framing.rs), and the loop *)
(* that serves one request at a time (local_api.rs).                        *)
(*                                                                         *)
(* Byte k > 0 belongs to the k-th request of the connection, byte 0 ends    *)
(* its line; a descriptor is the number of the request it was sent for.     *)
(* The socket holds segments, one for each send of the client.  A receive   *)
(* joins segments, but nothing after one that carries descriptors.          *)
(***************************************************************************)
EXTENDS Integers, Sequences, SequencesExt, FiniteSets

CONSTANTS Conns,       \* connections a client may make
          MaxClients,  \* max_clients
          MaxLine,     \* max_line_bytes
          Chunk,       \* READ_CHUNK_BYTES
          Lengths,     \* line lengths a client sends
          FdCounts,    \* numbers of descriptors a client sends with a request
          MaxRequests, \* bound: requests of a connection
          OutCap,      \* responses the socket takes before send blocks
          Pipelined,   \* may a client send before it has read the response
          MaxFaults    \* bound: failing calls

FramingConstants ==
  /\ {MaxClients, MaxLine, Chunk, MaxRequests, OutCap, MaxFaults} \subseteq Nat
  /\ Chunk > 0 /\ OutCap > 0 /\ Pipelined \in BOOLEAN

VARIABLES c,       \* the connections
          slots,   \* LocalAdmissionGate.active
          faults

vars == <<c, slots, faults>>

Max2Fds == 2

\* out: bytes of the current request not yet sent; sent: the requests as they were meant;
\* got: the frames as the server took them; read: responses the client has read
Fresh == [pc |-> "new", client |-> "open", slot |-> FALSE,
          sent |-> <<>>, out |-> <<>>, fds |-> <<>>, segs |-> <<>>,
          carry |-> <<>>, line |-> <<>>, held |-> <<>>,
          got |-> <<>>, answered |-> 0, inflight |-> 0, why |-> "none"]

Init == c = [k \in Conns |-> Fresh] /\ slots = 0 /\ faults = 0

Fault == faults < MaxFaults /\ faults' = faults + 1

Put(k, r) == c' = [c EXCEPT ![k] = r]

TryAcquire == slots < MaxClients

\* accept, authenticate, try_acquire, next_connection_id, into_framed in the accept loop
\* and its thread; a client over the limit is closed, and nothing of it is read
Admit(k) ==
  /\ c[k].pc = "new"
  /\ IF ~TryAcquire
     THEN Put(k, [c[k] EXCEPT !.pc = "gone", !.why = "busy"]) /\ UNCHANGED slots
     ELSE Put(k, [c[k] EXCEPT !.pc = "accepted", !.slot = TRUE]) /\ slots' = slots + 1
  /\ UNCHANGED faults

\* the thread does not start, or the receive timeout cannot be set: the client is dropped
NotServed(k) ==
  /\ c[k].pc = "accepted" /\ Fault
  /\ Put(k, [c[k] EXCEPT !.pc = "gone", !.slot = FALSE, !.why = "fault"]) /\ slots' = slots - 1

Serve(k) ==
  /\ c[k].pc = "accepted"
  /\ Put(k, [c[k] EXCEPT !.pc = "reading"])
  /\ UNCHANGED <<slots, faults>>

\* The client.  It begins a request with its descriptors, sends it in parts ...
Begin(k) ==
  /\ c[k].client = "open" /\ c[k].pc # "new" /\ c[k].out = <<>> /\ Len(c[k].sent) < MaxRequests
  /\ Pipelined \/ (c[k].answered = Len(c[k].sent) /\ c[k].inflight = 0)
  /\ \E n \in Lengths, f \in FdCounts :
       LET i == Len(c[k].sent) + 1
       IN  Put(k, [c[k] EXCEPT !.sent = Append(@, [len |-> n, fds |-> f]),
                               !.out = Append([j \in 1..n |-> i], 0),
                               !.fds = [j \in 1..f |-> i]])
  /\ UNCHANGED <<slots, faults>>

\* (descriptors go with the first part)
SendPart(k) ==
  /\ c[k].client = "open" /\ c[k].out # <<>> /\ c[k].pc # "gone"
  /\ \E n \in {1, Len(c[k].out)} :
       Put(k, [c[k] EXCEPT !.segs = Append(@, [bytes |-> SubSeq(c[k].out, 1, n), fds |-> c[k].fds]),
                           !.out = SubSeq(@, n + 1, Len(@)), !.fds = <<>>])
  /\ UNCHANGED <<slots, faults>>

\* ... reads responses, and goes away, or stays and says nothing.
ReadResponse(k) ==
  /\ c[k].client = "open" /\ c[k].inflight > 0
  /\ Put(k, [c[k] EXCEPT !.inflight = @ - 1])
  /\ UNCHANGED <<slots, faults>>

Hangup(k) ==
  /\ c[k].client = "open" /\ c[k].pc # "new"
  /\ Put(k, [c[k] EXCEPT !.client = "closed", !.out = <<>>, !.fds = <<>>])
  /\ UNCHANGED <<slots, faults>>

\* FramedLocalClient::close, which ends the serving loop
Closed(r, why) ==
  [r EXCEPT !.pc = "leaving", !.slot = FALSE, !.line = <<>>, !.held = <<>>, !.carry = <<>>,
            !.segs = <<>>, !.why = why]

\* ClientSlotPermit: given back when it is dropped
Held(r) == IF r.slot THEN 1 ELSE 0

Close(k, why) == Put(k, Closed(c[k], why)) /\ slots' = slots - Held(c[k])

\* What a receive of at most Chunk bytes takes: segments up to the first that fills the
\* chunk or carries descriptors.
Bytes(segs, n) == FlattenSeq([j \in 1..n |-> segs[j].bytes])
Taken(segs) ==
  CHOOSE n \in 1..Len(segs) :
    /\ n = Len(segs) \/ segs[n].fds # <<>> \/ Len(Bytes(segs, n)) >= Chunk
    /\ \A m \in 1..(n - 1) : segs[m].fds = <<>> /\ Len(Bytes(segs, m)) < Chunk

Left(segs, n) ==
  LET all == Bytes(segs, n)
      rest == SubSeq(segs, n + 1, Len(segs))
  IN  IF Len(all) <= Chunk THEN rest
      ELSE <<[bytes |-> SubSeq(all, Chunk + 1, Len(all)), fds |-> <<>>]>> \o rest

TooMany(held) == Len(held) > Max2Fds

\* next_line_bytes: the carry is used up, a receive fills it
Receive(k) ==
  LET r == c[k]
      n == Taken(r.segs)
      all == Bytes(r.segs, n)
      held == r.held \o r.segs[n].fds
  IN  /\ r.pc = "reading" /\ r.carry = <<>> /\ r.segs # <<>>
      /\ IF TooMany(held) THEN Close(k, "bad")
         ELSE /\ Put(k, [r EXCEPT !.carry = SubSeq(all, 1, IF Len(all) < Chunk THEN Len(all) ELSE Chunk),
                                  !.segs = Left(r.segs, n), !.held = held])
              /\ UNCHANGED slots
      /\ UNCHANGED faults

\* the end of the stream, in the middle of a line or not
EndOfStream(k) ==
  /\ c[k].pc = "reading" /\ c[k].carry = <<>> /\ c[k].segs = <<>> /\ c[k].client = "closed"
  /\ Close(k, IF c[k].line = <<>> THEN "eof" ELSE "partial")
  /\ UNCHANGED faults

\* the receive timeout: nothing came for idle_timeout
IdleTimeout(k) ==
  /\ c[k].pc = "reading" /\ c[k].carry = <<>> /\ c[k].segs = <<>> /\ c[k].client = "open"
  /\ Close(k, "idle")
  /\ UNCHANGED faults

ReceiveFails(k) ==
  /\ c[k].pc = "reading" /\ c[k].carry = <<>> /\ Fault
  /\ Close(k, "fault")

\* (mutant) what follows the line is thrown away with it
AfterLine_Dropped(carry, n) == <<>>

\* the bytes after the newline stay for the next line
AfterLine(carry, n) == SubSeq(carry, n + 2, Len(carry))

Room(line) == MaxLine - Len(line)

HeldAfter(held) == <<>>

\* consume_carry: up to the newline if there is one
ConsumeCarry(k) ==
  LET r == c[k]
      nl == {j \in 1..Len(r.carry) : r.carry[j] = 0}
      n == IF nl = {} THEN Len(r.carry) ELSE (CHOOSE j \in nl : \A i \in nl : j <= i) - 1
      line == r.line \o SubSeq(r.carry, 1, n)
  IN  /\ r.pc = "reading" /\ r.carry # <<>>
      /\ IF n > Room(r.line) THEN Close(k, "bad")
         ELSE /\ Put(k, IF nl = {} THEN [r EXCEPT !.line = line, !.carry = <<>>]
                        ELSE [r EXCEPT !.line = <<>>, !.held = HeldAfter(r.held), !.carry = AfterLine(r.carry, n),
                                       !.got = Append(@, [bytes |-> line, fds |-> r.held]),
                                       !.pc = "handling"])
              /\ UNCHANGED slots
      /\ UNCHANGED faults

\* the request is handled and answered; the send waits while the client does not read
Respond(k) ==
  /\ c[k].pc = "handling" /\ c[k].inflight < OutCap /\ c[k].client = "open"
  /\ Put(k, [c[k] EXCEPT !.pc = "reading", !.answered = @ + 1, !.inflight = @ + 1])
  /\ UNCHANGED <<slots, faults>>

\* the client has gone, or the send fails
RespondFails(k) ==
  /\ c[k].pc = "handling" /\ ((c[k].client = "closed" /\ UNCHANGED faults) \/ Fault)
  /\ Close(k, "write")

\* the answer, which carries the client's id, is too long: it is not sent, and the
\* connection is still open
Overlong(k) ==
  /\ c[k].pc = "handling" /\ Fault
  /\ Put(k, [c[k] EXCEPT !.pc = "leaving", !.why = "overlong"])
  /\ UNCHANGED slots

\* the serving loop has ended: ImportStore::disconnect, then everything is dropped
Leave(k) ==
  /\ c[k].pc = "leaving"
  /\ Put(k, [Closed(c[k], c[k].why) EXCEPT !.pc = "gone"]) /\ slots' = slots - Held(c[k])
  /\ UNCHANGED faults

Next == \E k \in Conns :
  \/ Admit(k) \/ NotServed(k) \/ Serve(k)
  \/ Begin(k) \/ SendPart(k) \/ ReadResponse(k) \/ Hangup(k)
  \/ Receive(k) \/ EndOfStream(k) \/ IdleTimeout(k) \/ ReceiveFails(k) \/ ConsumeCarry(k)
  \/ Respond(k) \/ RespondFails(k) \/ Overlong(k) \/ Leave(k)

Spec == Init /\ [][Next]_vars

-----------------------------------------------------------------------------
\* However the bytes were cut into sends and receives, the i-th frame that
\* next_line_bytes returns is the i-th line the client sent, whole.
LinesExact ==
  \A k \in Conns : \A i \in 1..Len(c[k].got) :
    c[k].got[i].bytes = [j \in 1..c[k].sent[i].len |-> i]

\* A client that waits for each answer: "one bounded request line and the descriptors
\* delivered with its bytes" is the line with the descriptors sent for it, and no others.
DescriptorsStay ==
  \A k \in Conns : \A i \in 1..Len(c[k].got) :
    c[k].got[i].fds = [j \in 1..c[k].sent[i].fds |-> i]

\* A client that sends ahead: a receive that ends one line may bring the descriptors of a
\* later one, which next_line_bytes adds to the line it is reading.  They reach a request
\* no later than their own, in the order sent, each once, and none is left out.
DescriptorsInOrder ==
  \A k \in Conns :
    LET sent == FlattenSeq([i \in 1..Len(c[k].sent) |-> [j \in 1..c[k].sent[i].fds |-> i]])
        got == FlattenSeq([i \in 1..Len(c[k].got) |-> c[k].got[i].fds])
    IN  /\ IsPrefix(got \o c[k].held, sent)
        /\ \A i \in 1..Len(c[k].got) : \A f \in ToSet(c[k].got[i].fds) : f >= i
        /\ \A f \in ToSet(sent) : f <= Len(c[k].got) => f \in ToSet(got)

\* A client is turned away for a bad line only if one of its lines is longer than
\* max_line_bytes or came with more than two descriptors: the limits are exact, but for
\* the descriptors of two requests when the second was sent ahead.
OnlyBadIsRefused ==
  \A k \in Conns : c[k].why = "bad" =>
    \E i, j \in 1..Len(c[k].sent) :
      \/ c[k].sent[i].len > MaxLine \/ c[k].sent[i].fds > Max2Fds
      \/ Pipelined /\ i < j /\ c[k].sent[i].fds + c[k].sent[j].fds > Max2Fds

\* What is kept of a stream stays within FRAMING_MEMORY_BOUND_BYTES and two descriptors,
\* and no frame exceeds the limits.
MemoryBounded ==
  \A k \in Conns :
    /\ Len(c[k].line) + Len(c[k].carry) <= MaxLine + Chunk /\ Len(c[k].held) <= Max2Fds
    /\ \A i \in 1..Len(c[k].got) : Len(c[k].got[i].bytes) <= MaxLine /\ Len(c[k].got[i].fds) <= Max2Fds

\* The gate's counter is the number of connections that hold a permit, at most
\* max_clients, whichever way connections end.
SlotsExact == slots = Cardinality({k \in Conns : c[k].slot}) /\ slots <= MaxClients

=============================================================================
