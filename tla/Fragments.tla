------------------------------ MODULE Fragments ------------------------------
(***************************************************************************)
(* Fragmentation and reassembly of PBMUX messages: the cutting of a         *)
(* remote-buffer message into frames, the checks every frame passes on its  *)
(* way out and in, and the Reassembler with its accounting (pb-pbmux).      *)
(*                                                                         *)
(* A byte is the pair <<message, position>>, so that a payload put together *)
(* from the wrong pieces is told from the right one.  The two streams of a  *)
(* session never interleave two messages; the Reassembler does not rely on  *)
(* it, so here frames of several messages are interleaved, lost and         *)
(* repeated before they reach it.                                           *)
(***************************************************************************)
EXTENDS Integers, Sequences, FiniteSets, FiniteSetsExt

CONSTANTS Messages,       \* name -> [key, type, ack, len]
          MaxPayload,     \* MAX_PBMUX_PAYLOAD
          MaxLogical,     \* MAX_LOGICAL_MESSAGE
          CountLimit,     \* MAX_INFLIGHT_PER_DATA_CHANNEL, MAX_INFLIGHT_CONTROL
          ChannelQuota,   \* MAX_REASSEMBLY_PER_CHANNEL
          SessionQuota,   \* MAX_REASSEMBLY_PER_SESSION
          MaxFaults,      \* bound: frames lost or repeated
          None

FragmentConstants ==
  /\ {MaxPayload, MaxLogical, CountLimit} \subseteq Nat \ {0}
  /\ {ChannelQuota, SessionQuota, MaxFaults} \subseteq Nat

VARIABLES outbox,     \* message -> its frames not yet sent
          partial,    \* key -> PartialMessage or None
          accounting, \* ReassemblyAccounting
          delivered,  \* payloads handed up
          refused,    \* kinds of errors frames have been answered with
          faults

vars == <<outbox, partial, accounting, delivered, refused, faults>>

Names == DOMAIN Messages
KeyOf(m) == Messages[m].key
AllKeys == {KeyOf(m) : m \in Names}
Channels == {k.channel : k \in AllKeys}
Bytes(m) == [p \in 1..Messages[m].len |-> <<m, p>>]

-----------------------------------------------------------------------------
(* The sender: build_remote_buffer_{request,result}_frames                   *)

DivCeil(n, d) == (n + d - 1) \div d

IsLast(index, count) == index + 1 = count

\* The chunks of a payload, START on the first, END on the last, the logical
\* length on the first only.
Cut(m) ==
  LET len == Messages[m].len
      count == DivCeil(len, MaxPayload)
      Chunk(i) == SubSeq(Bytes(m), i * MaxPayload + 1,
                         IF (i + 1) * MaxPayload < len THEN (i + 1) * MaxPayload ELSE len)
  IN  [n \in 1..count |->
         [key |-> KeyOf(m), type |-> Messages[m].type, ack |-> Messages[m].ack,
          start |-> n = 1, end |-> IsLast(n - 1, count),
          index |-> n - 1, payload |-> Chunk(n - 1),
          logical |-> IF n = 1 THEN len ELSE 0]]

\* validate_fragment_fields, on the way out (encode) and on the way in (decode).
ValidFields(f) ==
  /\ Len(f.payload) <= MaxPayload
  /\ f.logical <= MaxLogical
  /\ IF f.start
       THEN /\ f.index = 0 /\ f.logical >= Len(f.payload)
            /\ f.end => f.logical = Len(f.payload)
            /\ ~f.end => f.logical > Len(f.payload)
       ELSE f.index # 0 /\ f.logical = 0

\* validate_remote_buffer_{request,result}_fragment for the one type that may
\* be cut: PUT to the phone (ACK_REQUIRED), DATA to the host (not).
ValidBufferFragment(f) ==
  /\ f.type = "Put" => f.ack
  /\ f.type = "Data" => ~f.ack
  /\ f.start /\ f.end => f.index = 0 /\ f.logical = Len(f.payload)
  /\ f.start /\ ~f.end => f.index = 0 /\ f.logical <= MaxLogical
                                     /\ f.logical > Len(f.payload)
  /\ ~f.start => f.index # 0 /\ f.logical = 0

-----------------------------------------------------------------------------
(* The receiver: ReassemblyAccounting and Reassembler                        *)

NoBytes == [bytes |-> [c \in Channels |-> 0], count |-> [c \in Channels |-> 0],
            session |-> 0]

\* try_start: the quotas of the channel and of the session.
Admits(c, n) ==
  /\ n <= MaxLogical
  /\ accounting.count[c] < CountLimit
  /\ accounting.bytes[c] + n <= ChannelQuota
  /\ accounting.session + n <= SessionQuota

Started(c, n) == [bytes |-> [accounting.bytes EXCEPT ![c] = @ + n],
                  count |-> [accounting.count EXCEPT ![c] = @ + 1],
                  session |-> accounting.session + n]

Finished(c, n) == [bytes |-> [accounting.bytes EXCEPT ![c] = @ - n],
                   count |-> [accounting.count EXCEPT ![c] = @ - 1],
                   session |-> accounting.session - n]

\* (mutant) an aborted message keeps its ticket
Abort_TicketKept(k) ==
  /\ partial' = [partial EXCEPT ![k] = None]
  /\ UNCHANGED <<accounting, delivered>>
  /\ refused' = refused \cup {"FragmentInvalid"}

\* abort_partial: the partial message and its ticket are given up.
Abort(k) ==
  /\ partial' = [partial EXCEPT ![k] = None]
  /\ accounting' = IF partial[k] = None THEN accounting
                   ELSE Finished(k.channel, partial[k].expected)
  /\ refused' = refused \cup {"FragmentInvalid"}
  /\ UNCHANGED delivered

\* A frame that is a whole message.
AcceptWhole(f) ==
  /\ f.start /\ f.end
  /\ IF partial[f.key] # None
       THEN Abort(f.key)
       ELSE /\ delivered' = delivered \cup {f.payload}
            /\ UNCHANGED <<partial, accounting, refused>>

\* The first frame of several.
AcceptStart(f) ==
  /\ f.start /\ ~f.end
  /\ IF partial[f.key] # None
       THEN Abort(f.key)
       ELSE IF ~Admits(f.key.channel, f.logical)
         THEN /\ refused' = refused \cup {"ReassemblyQuota"}
              /\ UNCHANGED <<partial, accounting, delivered>>
         ELSE /\ partial' = [partial EXCEPT ![f.key] =
                    [type |-> f.type, ack |-> f.ack, next |-> 1,
                     expected |-> f.logical, payload |-> f.payload]]
              /\ accounting' = Started(f.key.channel, f.logical)
              /\ UNCHANGED <<delivered, refused>>

\* A continuation belongs to the partial message and is its next piece.
Fits(p, f) ==
  /\ f.type = p.type /\ f.ack = p.ack /\ f.index = p.next
  /\ Len(p.payload) + Len(f.payload) <= p.expected

\* A later frame: refused without a partial message, aborts a message it does
\* not fit, and completes one at its END.
AcceptNext(f) ==
  LET k == f.key
      p == partial[k]
      grown == p.payload \o f.payload
  IN
  /\ ~f.start
  /\ IF p = None
       THEN /\ refused' = refused \cup {"ReassemblyMissing"}
            /\ UNCHANGED <<partial, accounting, delivered>>
       ELSE IF ~Fits(p, f) \/ (f.end /\ Len(grown) # p.expected)
         THEN Abort(k)
         ELSE IF ~f.end
           THEN /\ partial' = [partial EXCEPT ![k].payload = grown,
                                              ![k].next = @ + 1]
                /\ UNCHANGED <<accounting, delivered, refused>>
           ELSE /\ partial' = [partial EXCEPT ![k] = None]
                /\ accounting' = Finished(k.channel, p.expected)
                /\ delivered' = delivered \cup {grown}
                /\ UNCHANGED refused

\* Reassembler::accept
Accept(f) == AcceptWhole(f) \/ AcceptStart(f) \/ AcceptNext(f)

-----------------------------------------------------------------------------
Init ==
  /\ outbox = [m \in Names |-> Cut(m)]
  /\ partial = [k \in AllKeys |-> None]
  /\ accounting = NoBytes
  /\ delivered = {}
  /\ refused = {}
  /\ faults = 0

Send(m) ==
  /\ outbox[m] # <<>>
  /\ Accept(Head(outbox[m]))
  /\ outbox' = [outbox EXCEPT ![m] = Tail(@)]
  /\ UNCHANGED faults

\* A frame arrives and arrives again.
Repeat(m) ==
  /\ outbox[m] # <<>> /\ faults < MaxFaults
  /\ Accept(Head(outbox[m]))
  /\ faults' = faults + 1
  /\ UNCHANGED outbox

Lose(m) ==
  /\ outbox[m] # <<>> /\ faults < MaxFaults
  /\ outbox' = [outbox EXCEPT ![m] = Tail(@)]
  /\ faults' = faults + 1
  /\ UNCHANGED <<partial, accounting, delivered, refused>>

Next == \E m \in Names : Send(m) \/ Repeat(m) \/ Lose(m)
Spec == Init /\ [][Next]_vars

-----------------------------------------------------------------------------
\* Every frame that waits to be sent passes the checks of encode, of decode and
\* of the remote-buffer channel, whatever the length of its message.
CutsAreValid ==
  \A m \in Names : \A n \in 1..Len(outbox[m]) :
    ValidFields(outbox[m][n]) /\ ValidBufferFragment(outbox[m][n])

\* The accounting is the sum of what is held, per channel and for the session:
\* no ticket outlives its message and none is returned twice.
Open(c) == {k \in AllKeys : k.channel = c /\ partial[k] # None}
AccountingExact ==
  /\ \A c \in Channels :
       /\ accounting.count[c] = Cardinality(Open(c))
       /\ accounting.bytes[c] = MapThenSumSet(LAMBDA k : partial[k].expected, Open(c))
  /\ accounting.session = MapThenSumSet(LAMBDA c : accounting.bytes[c], Channels)

\* The memory set aside for unfinished messages, over all channels, stays
\* within the session's quota.
QuotaHeld ==
  MapThenSumSet(LAMBDA k : IF partial[k] = None THEN 0 ELSE partial[k].expected,
                AllKeys) <= SessionQuota

\* Only whole messages are handed up: lost, repeated and foreign fragments
\* never make up a payload, and no byte of one message ends up in another.
DeliveredWhole == \A d \in delivered : \E m \in Names : d = Bytes(m)

\* Without faults, and unless a quota refused it, a message whose key is its
\* own arrives, whatever is interleaved with it and whatever is aborted beside
\* it.
AllArrive ==
  \A m \in Names :
    /\ outbox[m] = <<>> /\ faults = 0 /\ "ReassemblyQuota" \notin refused
    /\ \A o \in Names \ {m} : KeyOf(o) # KeyOf(m)
    => Bytes(m) \in delivered

\* Reassembly as a whole: valid frames, exact accounts within the quota, and whole
\* messages only, all of them where nothing was lost.
Reassembles == CutsAreValid /\ AccountingExact /\ QuotaHeld /\ DeliveredWhole /\ AllArrive
=============================================================================
