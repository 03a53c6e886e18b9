---------------------------- MODULE WireMessages ----------------------------
(***************************************************************************)
(* The fixed payloads of PBMUX: what the encoders write, what the decoders  *)
(* read, and what both refuse (pb-pbmux: lib.rs, resource.rs,               *)
(* remote_buffer.rs, compute.rs).                                           *)
(*                                                                         *)
(* An encoder appends fields one after the other, so its layout is the      *)
(* sequence of <<field, width>> it writes; a decoder slices at fixed         *)
(* offsets, so its layout is a function from field to offset.  A payload on *)
(* the wire is a function from offsets to field values.  Field values are   *)
(* integers from small sets around the limits the code compares with; ids   *)
(* are 0 (all bytes zero) or not.                                           *)
(***************************************************************************)
EXTENDS Integers, Sequences, FiniteSets, SequencesExt, TLC

MiB == 1048576
MaxTtl == 30000          \* RESOURCE_RESERVATION_TTL_MS
DefaultBufferTtl == 300000
MaxBufferTtl == 1800000
MaxPayload == 61440      \* MAX_PBMUX_PAYLOAD
MaxLogical == 4 * MiB    \* MAX_LOGICAL_MESSAGE
Magic == 1               \* stands for "PBM1"

Payloads == {"Header", "Command", "Ack", "Heartbeat", "Reserve", "ReservationRef",
             "ResourceResult", "Expire", "Alloc", "Range", "Handle",
             "BufferResult", "Submit", "JobRef", "Status", "Result"}

-----------------------------------------------------------------------------
(* The numbers the enumerations have on the wire; any other number is refused. *)

Channel == [Control |-> 0, Resource |-> 1, RemoteBuffer |-> 2, Compute |-> 3,
            AiRpc |-> 4, Metrics |-> 5]

ControlType == [Ping |-> 1, Pong |-> 2, Error |-> 3, Capabilities |-> 4, Command |-> 5,
                CommandAck |-> 6, SessionClose |-> 7, PairConfirm |-> 8]

ComputeType == [Submit |-> 1, Status |-> 2, Result |-> 3, Cancel |-> 4]

\* is_known_message_type
KnownTypes(c) ==
  CASE c = Channel.Control -> Range(ControlType)
    [] c = Channel.Resource -> 1..5
    [] c = Channel.RemoteBuffer -> 1..8
    [] c = Channel.Compute -> Range(ComputeType)
    [] c = Channel.AiRpc -> 1..4
    [] OTHER -> 1..2

ResourceClass == [RemoteBufferBytes |-> 1, NativeOpScratchBytes |-> 2]

ResourceReason ==
  [None |-> 0, StaleControllerLease |-> 1, RefusedStaleState |-> 2,
   ResourceExhausted |-> 3, ReservationNotFound |-> 4, ReservationNotCommitted |-> 5,
   ReservationExpired |-> 6, ReservationAlreadyConsumed |-> 7,
   CommitRefusedSafety |-> 8, RequestIdConflict |-> 9, IdempotenceTableFull |-> 10,
   UnsupportedMessage |-> 11, InternalError |-> 12]

ReservationState ==
  [Reserved |-> 1, Committed |-> 2, Consumed |-> 3, Released |-> 4, Expired |-> 5,
   RefusedSafety |-> 6, ConsumedReleased |-> 7]

BufferReason ==
  [None |-> 0, StaleControllerLease |-> 1, BufferNotFound |-> 2, BufferNotOwned |-> 3,
   BufferWrongIncarnation |-> 4, BufferInvalidState |-> 5, BufferLost |-> 6,
   BufferFreed |-> 7, BufferEvicted |-> 8, BufferRangeInvalid |-> 9,
   BufferRangeBusy |-> 10, PayloadTooLarge |-> 11, ResourceExhausted |-> 12,
   ReservationInvalid |-> 13, UnsupportedMessage |-> 14, InternalError |-> 15]

BufferState ==
  [Allocated |-> 1, Ready |-> 2, InUse |-> 3, Evicted |-> 4, Lost |-> 5, Freed |-> 6]

BufferTerminal == {BufferState.Evicted, BufferState.Lost, BufferState.Freed}

ComputeJobState ==
  [Invalid |-> 0, Accepted |-> 1, Running |-> 2, Completed |-> 3, Failed |-> 4,
   Cancelled |-> 5]

JobTerminal == {ComputeJobState.Completed, ComputeJobState.Failed, ComputeJobState.Cancelled}

ComputeReason ==
  [None |-> 0, StaleControllerLease |-> 1, WrongWorkerIncarnation |-> 2,
   UnsupportedProvider |-> 3, InvalidInput |-> 4, BufferNotFound |-> 5,
   BufferNotOwned |-> 6, BufferWrongIncarnation |-> 7, BufferInvalidState |-> 8,
   BufferLost |-> 9, BufferFreed |-> 10, BufferEvicted |-> 11, InputTooLarge |-> 12,
   ReservationInvalid |-> 13, ResourceExhausted |-> 14, RequestIdConflict |-> 15,
   IdempotenceTableFull |-> 16, JobNotFound |-> 17, JobNotOwned |-> 18,
   JobNotCancellable |-> 19, ProviderTimeout |-> 20, ProviderFailed |-> 21,
   SessionLost |-> 22, UnsupportedMessage |-> 23, InternalError |-> 24]

Completed == 2
Failed == 3

-----------------------------------------------------------------------------
(* What the encoders write.                                                  *)

Owner == <<<<"lease_id", 16>>, <<"incarnation", 16>>>>

HeaderWritten ==
  <<<<"magic", 4>>, <<"version", 1>>, <<"channel", 1>>, <<"flags", 2>>,
    <<"message_type", 2>>, <<"header_len", 2>>, <<"request_id", 8>>,
    <<"sequence", 8>>, <<"fragment_index", 4>>, <<"payload_len", 4>>,
    <<"logical_len", 4>>>>

CommandWritten ==
  <<<<"command_type", 1>>, <<"lease_present", 1>>, <<"lease_id", 16>>,
    <<"command_seq", 8>>, <<"trace_id", 16>>, <<"provider_present", 1>>,
    <<"provider_id", 1>>, <<"payload_len", 2>>>>

AckWritten ==
  <<<<"ack_state", 1>>, <<"reason", 2>>, <<"command_seq", 8>>,
    <<"expected_present", 1>>, <<"expected", 8>>, <<"ref_present", 1>>>> \o Owner \o
  <<<<"ttl", 4>>, <<"next_command_seq", 8>>, <<"digest_present", 1>>, <<"digest", 32>>>>

HeartbeatWritten ==
  <<<<"peer_id", 32>>, <<"incarnation", 16>>, <<"lease_present", 1>>,
    <<"lease_id", 16>>, <<"monotonic", 8>>, <<"thermal", 1>>,
    <<"headroom_present", 1>>, <<"headroom", 4>>, <<"battery", 1>>,
    <<"charging", 1>>, <<"power_save", 1>>, <<"available", 8>>,
    <<"safe_budget", 8>>, <<"reserved", 8>>, <<"queue_depth", 2>>,
    <<"provider_count", 1>>, <<"transport_count", 1>>>>

ReserveWritten ==
  Owner \o <<<<"class", 1>>, <<"zero_a", 3>>, <<"bytes", 8>>, <<"ttl", 4>>>>

ReservationRefWritten == Owner \o <<<<"reservation_id", 16>>>>

ResourceResultWritten ==
  <<<<"code", 1>>, <<"present", 1>>, <<"reason", 2>>>> \o Owner \o
  <<<<"reservation_id", 16>>, <<"state", 1>>, <<"class", 1>>, <<"zero_a", 2>>,
    <<"bytes", 8>>, <<"ttl", 4>>, <<"zero_b", 4>>>>

ExpireWritten ==
  Owner \o <<<<"reservation_id", 16>>, <<"class", 1>>, <<"state", 1>>,
             <<"reason", 2>>, <<"bytes", 8>>, <<"zero_a", 4>>>>

AllocWritten ==
  Owner \o <<<<"reservation_id", 16>>, <<"size", 8>>, <<"flags", 4>>, <<"zero_a", 4>>>>

\* PUT (followed by its data) and GET
RangeWritten ==
  Owner \o <<<<"buffer_id", 16>>, <<"offset", 8>>, <<"data_len", 4>>, <<"zero_a", 4>>>>

\* FREE, STAT and TOUCH
HandleWritten == Owner \o <<<<"buffer_id", 16>>>>

BufferResultWritten ==
  <<<<"code", 1>>, <<"present", 1>>, <<"reason", 2>>>> \o Owner \o
  <<<<"buffer_id", 16>>, <<"reservation_present", 1>>, <<"reservation_id", 16>>,
    <<"state", 1>>, <<"zero_a", 2>>, <<"flags", 4>>, <<"size", 8>>,
    <<"offset", 8>>, <<"data_len", 4>>, <<"ttl", 4>>>>

SubmitWritten ==
  Owner \o <<<<"reservation_id", 16>>, <<"provider", 1>>, <<"version", 1>>,
             <<"input_kind", 1>>, <<"zero_a", 1>>, <<"buffer_id", 16>>,
             <<"offset", 8>>, <<"length", 8>>>>

\* STATUS and CANCEL requests
JobRefWritten == Owner \o <<<<"job_id", 16>>>>

StatusWritten ==
  <<<<"state", 1>>, <<"present", 1>>, <<"reason", 2>>>> \o Owner \o
  <<<<"job_id", 16>>, <<"provider", 1>>, <<"version", 1>>, <<"zero_a", 2>>>>

ResultWritten ==
  <<<<"state", 1>>, <<"present", 1>>, <<"reason", 2>>, <<"digest_present", 1>>,
    <<"provider", 1>>, <<"version", 1>>, <<"zero_a", 1>>>> \o Owner \o
  <<<<"job_id", 16>>, <<"digest", 32>>>>

Written(p) ==
  CASE p = "Header" -> HeaderWritten [] p = "Command" -> CommandWritten [] p = "Ack" -> AckWritten
    [] p = "Heartbeat" -> HeartbeatWritten [] p = "Reserve" -> ReserveWritten
    [] p = "ReservationRef" -> ReservationRefWritten
    [] p = "ResourceResult" -> ResourceResultWritten
    [] p = "Expire" -> ExpireWritten [] p = "Alloc" -> AllocWritten
    [] p = "Range" -> RangeWritten [] p = "Handle" -> HandleWritten
    [] p = "BufferResult" -> BufferResultWritten [] p = "Submit" -> SubmitWritten
    [] p = "JobRef" -> JobRefWritten [] p = "Status" -> StatusWritten
    [] OTHER -> ResultWritten

-----------------------------------------------------------------------------
(* Where the decoders read, and how long a payload must be.                  *)

HeaderRead ==
  [magic |-> 0, version |-> 4, channel |-> 5, flags |-> 6, message_type |-> 8,
   header_len |-> 10, request_id |-> 12, sequence |-> 20, fragment_index |-> 28,
   payload_len |-> 32, logical_len |-> 36]

CommandRead ==
  [command_type |-> 0, lease_present |-> 1, lease_id |-> 2, command_seq |-> 18,
   trace_id |-> 26, provider_present |-> 42, provider_id |-> 43, payload_len |-> 44]

AckRead ==
  [ack_state |-> 0, reason |-> 1, command_seq |-> 3, expected_present |-> 11,
   expected |-> 12, ref_present |-> 20, lease_id |-> 21, incarnation |-> 37,
   ttl |-> 53, next_command_seq |-> 57, digest_present |-> 65, digest |-> 66]

HeartbeatRead ==
  [peer_id |-> 0, incarnation |-> 32, lease_present |-> 48, lease_id |-> 49,
   monotonic |-> 65, thermal |-> 73, headroom_present |-> 74, headroom |-> 75,
   battery |-> 79, charging |-> 80, power_save |-> 81, available |-> 82,
   safe_budget |-> 90, reserved |-> 98, queue_depth |-> 106,
   provider_count |-> 108, transport_count |-> 109]

ReserveRead == [lease_id |-> 0, incarnation |-> 16, class |-> 32, zero_a |-> 33,
                bytes |-> 36, ttl |-> 44]

ReservationRefRead == [lease_id |-> 0, incarnation |-> 16, reservation_id |-> 32]

ResourceResultRead ==
  [code |-> 0, present |-> 1, reason |-> 2, lease_id |-> 4, incarnation |-> 20,
   reservation_id |-> 36, state |-> 52, class |-> 53, zero_a |-> 54,
   bytes |-> 56, ttl |-> 64, zero_b |-> 68]

ExpireRead ==
  [lease_id |-> 0, incarnation |-> 16, reservation_id |-> 32, class |-> 48,
   state |-> 49, reason |-> 50, bytes |-> 52, zero_a |-> 60]

AllocRead == [lease_id |-> 0, incarnation |-> 16, reservation_id |-> 32,
              size |-> 48, flags |-> 56, zero_a |-> 60]

RangeRead == [lease_id |-> 0, incarnation |-> 16, buffer_id |-> 32,
              offset |-> 48, data_len |-> 56, zero_a |-> 60]

HandleRead == [lease_id |-> 0, incarnation |-> 16, buffer_id |-> 32]

\* (mutant) size and offset are read from one another's place
BufferResultRead_Swapped ==
  [code |-> 0, present |-> 1, reason |-> 2, lease_id |-> 4, incarnation |-> 20,
   buffer_id |-> 36, reservation_present |-> 52, reservation_id |-> 53,
   state |-> 69, zero_a |-> 70, flags |-> 72, size |-> 84, offset |-> 76,
   data_len |-> 92, ttl |-> 96]

BufferResultRead ==
  [code |-> 0, present |-> 1, reason |-> 2, lease_id |-> 4, incarnation |-> 20,
   buffer_id |-> 36, reservation_present |-> 52, reservation_id |-> 53,
   state |-> 69, zero_a |-> 70, flags |-> 72, size |-> 76, offset |-> 84,
   data_len |-> 92, ttl |-> 96]

SubmitRead ==
  [lease_id |-> 0, incarnation |-> 16, reservation_id |-> 32, provider |-> 48,
   version |-> 49, input_kind |-> 50, zero_a |-> 51, buffer_id |-> 52,
   offset |-> 68, length |-> 76]

JobRefRead == [lease_id |-> 0, incarnation |-> 16, job_id |-> 32]

StatusRead ==
  [state |-> 0, present |-> 1, reason |-> 2, lease_id |-> 4, incarnation |-> 20,
   job_id |-> 36, provider |-> 52, version |-> 53, zero_a |-> 54]

ResultRead ==
  [state |-> 0, present |-> 1, reason |-> 2, digest_present |-> 4, provider |-> 5,
   version |-> 6, zero_a |-> 7, lease_id |-> 8, incarnation |-> 24,
   job_id |-> 40, digest |-> 56]

Read(p) ==
  CASE p = "Header" -> HeaderRead [] p = "Command" -> CommandRead [] p = "Ack" -> AckRead
    [] p = "Heartbeat" -> HeartbeatRead [] p = "Reserve" -> ReserveRead
    [] p = "ReservationRef" -> ReservationRefRead
    [] p = "ResourceResult" -> ResourceResultRead
    [] p = "Expire" -> ExpireRead [] p = "Alloc" -> AllocRead
    [] p = "Range" -> RangeRead [] p = "Handle" -> HandleRead
    [] p = "BufferResult" -> BufferResultRead [] p = "Submit" -> SubmitRead
    [] p = "JobRef" -> JobRefRead [] p = "Status" -> StatusRead
    [] OTHER -> ResultRead

PayloadLen ==
  [Header |-> 40, Command |-> 46, Ack |-> 98, Heartbeat |-> 110, Reserve |-> 48,
   ReservationRef |-> 48, ResourceResult |-> 72, Expire |-> 64, Alloc |-> 64,
   Range |-> 64, Handle |-> 48, BufferResult |-> 100, Submit |-> 84,
   JobRef |-> 48, Status |-> 56, Result |-> 88]

\* Where the i-th field an encoder writes ends up, and the field at an offset.
OffsetOf ==
  [p \in Payloads |-> [i \in 1..Len(Written(p)) + 1 |->
     FoldSeq(LAMBDA fw, n : fw[2] + n, 0, SubSeq(Written(p), 1, i - 1))]]

FieldAt ==
  [p \in Payloads |->
     [o \in {OffsetOf[p][i] : i \in 1..Len(Written(p))} |->
        Written(p)[CHOOSE i \in 1..Len(Written(p)) : OffsetOf[p][i] = o][1]]]

Fields(p) == {Written(p)[i][1] : i \in 1..Len(Written(p))}

-----------------------------------------------------------------------------
(* What both sides accept.  m is a payload's fields; kind is the message type *)
(* where several share a payload.                                            *)

NonZero(m, S) == \A f \in S : m[f] # 0
Zero(m, S) == \A f \in S : m[f] = 0
OwnerKnown(m) == NonZero(m, {"lease_id", "incarnation"})

\* The flags are FLAG_START 1, FLAG_END 2, FLAG_ACK_REQUIRED 4 and FLAG_ERROR 8.
Start(m) == m.flags % 2 = 1
End(m) == (m.flags \div 2) % 2 = 1

\* encode, decode and validate_fragment_fields
ValidHeader(m) ==
  /\ m.magic = Magic /\ m.version = 1 /\ m.header_len = PayloadLen.Header
  /\ m.channel \in Range(Channel) /\ m.flags \in 0..15
  /\ m.message_type \in KnownTypes(m.channel)
  /\ m.payload_len <= MaxPayload /\ m.logical_len <= MaxLogical
  /\ IF Start(m)
       THEN /\ m.fragment_index = 0
            /\ IF End(m) THEN m.logical_len = m.payload_len
               ELSE m.logical_len > m.payload_len
       ELSE m.fragment_index # 0 /\ m.logical_len = 0

\* encode_command_payload, decode_command_payload
ValidCommand(m) ==
  /\ m.lease_present \in {0, 1}
  /\ m.lease_present = 0 => m.lease_id = 0
  /\ Zero(m, {"provider_present", "provider_id", "payload_len"})
  /\ \/ m.command_type = 1 /\ m.lease_present = 0 /\ m.command_seq = 0
     \/ m.command_type \in {2, 3} /\ m.lease_present = 1 /\ m.lease_id # 0

\* validate_ack_payload: 1 accepted, 2 completed, 3 failed; reason 3 is the
\* sequence error, the only one that says which sequence number is expected.
ValidAck(m) ==
  /\ {m.expected_present, m.ref_present} \subseteq {0, 1}
  /\ m.expected_present = 0 => m.expected = 0
  /\ m.ref_present = 0 => Zero(m, {"lease_id", "incarnation", "ttl", "next_command_seq"})
  /\ Zero(m, {"digest_present", "digest"})
  /\ m.reason <= 5
  /\ \/ m.ack_state = 1 /\ Zero(m, {"reason", "expected_present", "ref_present"})
     \/ m.ack_state = 2 /\ Zero(m, {"reason", "expected_present"})
     \/ /\ m.ack_state = 3 /\ m.reason # 0 /\ m.ref_present = 0
        /\ m.expected_present = IF m.reason = 3 THEN 1 ELSE 0

\* validate_heartbeat_payload; headroom is -1 for a negative or non-finite one.
ValidHeartbeat(m) ==
  /\ {m.lease_present, m.headroom_present, m.charging, m.power_save} \subseteq {0, 1}
  /\ m.lease_present = 0 => m.lease_id = 0
  /\ m.thermal <= 6 /\ m.battery <= 100
  /\ IF m.headroom_present = 0 THEN m.headroom = 0 ELSE m.headroom >= 0
  /\ Zero(m, {"provider_count", "transport_count"})

\* ResourceClass::max_bytes
ClassMax(c) == IF c = ResourceClass.RemoteBufferBytes THEN 128 * MiB ELSE 8 * MiB

ValidReserve(m) ==
  /\ OwnerKnown(m) /\ m.class \in Range(ResourceClass) /\ m.zero_a = 0 /\ m.ttl = MaxTtl
  /\ m.bytes \in 1..ClassMax(m.class)

ValidReservationRef(m) == OwnerKnown(m) /\ m.reservation_id # 0

ReservationShown(m) ==
  /\ m.reservation_id # 0 /\ m.class \in Range(ResourceClass) /\ m.state \in Range(ReservationState)
  /\ m.bytes \in 1..ClassMax(m.class)
  /\ IF m.state = ReservationState.Reserved THEN m.ttl \in 1..MaxTtl ELSE m.ttl = 0

ReservationAbsent(m) == Zero(m, {"reservation_id", "state", "class", "bytes", "ttl"})

\* resource.rs validate_result; kinds ReserveAck, Commit, Release
ValidResourceResult(kind, m) ==
  /\ OwnerKnown(m) /\ Zero(m, {"zero_a", "zero_b"})
  /\ m.code \in {Completed, Failed} /\ m.reason \in Range(ResourceReason)
  /\ (m.code = Completed) = (m.reason = ResourceReason.None)
  /\ \/ m.present = 1 /\ ReservationShown(m)
     \/ m.present = 0 /\ ReservationAbsent(m)
  /\ m.code = Completed =>
       /\ m.present = 1
       /\ m.state = CASE kind = "ReserveAck" -> ReservationState.Reserved
                      [] kind = "Commit" -> ReservationState.Committed
                      [] OTHER -> ReservationState.Released

ValidExpire(m) ==
  /\ OwnerKnown(m) /\ m.reservation_id # 0 /\ m.class \in Range(ResourceClass)
  /\ m.state = ReservationState.Expired /\ m.zero_a = 0
  /\ m.reason = ResourceReason.ReservationExpired
  /\ m.bytes \in 1..ClassMax(m.class)

ValidAlloc(m) ==
  OwnerKnown(m) /\ m.reservation_id # 0 /\ m.flags \in 0..7 /\ m.zero_a = 0

ValidHandle(m) == OwnerKnown(m) /\ m.buffer_id # 0

ValidRange(m) == ValidHandle(m) /\ m.zero_a = 0

BufferShown(m) ==
  /\ m.buffer_id # 0 /\ m.state \in Range(BufferState) /\ m.flags \in 0..7 /\ m.size # 0
  /\ IF m.state \in BufferTerminal THEN m.ttl = 0 ELSE m.ttl \in 1..MaxBufferTtl

BufferAbsent(m) == Zero(m, {"buffer_id", "state", "flags", "size", "ttl"})

NoRange(m) == m.offset = 0 /\ m.data_len = 0

\* remote_buffer.rs validate_result.  The data of a Data result is its own
\* length: parse_remote_buffer_result_payload compares it with data_len.
CompletedBuffer(kind, m) ==
  /\ m.present = 1
  /\ m.reservation_present = IF kind \in {"AllocAck", "Stat"} THEN 1 ELSE 0
  /\ kind \notin {"Put", "Data"} => NoRange(m)
  /\ CASE kind = "AllocAck" -> m.state = BufferState.Allocated /\ m.ttl <= DefaultBufferTtl
       [] kind = "Put"  -> m.state \in {BufferState.Allocated, BufferState.Ready} /\ m.data_len # 0
       [] kind = "Data" -> m.state = BufferState.Ready
       [] kind = "Free" -> m.state = BufferState.Freed
       [] OTHER -> m.state \notin BufferTerminal

ValidBufferResult(kind, m) ==
  /\ OwnerKnown(m) /\ m.zero_a = 0
  /\ m.code \in {Completed, Failed} /\ m.reason \in Range(BufferReason)
  /\ (m.code = Completed) = (m.reason = BufferReason.None)
  /\ \/ m.present = 1 /\ BufferShown(m)
     \/ m.present = 0 /\ BufferAbsent(m)
  /\ \/ m.reservation_present = 1 /\ m.reservation_id # 0
     \/ m.reservation_present = 0 /\ m.reservation_id = 0
  /\ IF m.code = Completed THEN CompletedBuffer(kind, m)
     ELSE NoRange(m) /\ m.reservation_present = 0

ValidSubmit(m) ==
  OwnerKnown(m) /\ NonZero(m, {"reservation_id", "buffer_id"}) /\ m.zero_a = 0

ValidJobRef(m) == OwnerKnown(m) /\ m.job_id # 0

JobShown(m) == m.job_id # 0 /\ m.provider = 1 /\ m.version = 1
JobAbsent(m) == Zero(m, {"job_id", "provider", "version"})

\* valid_absent_lookup_reason
LookupReasons ==
  {ComputeReason[r] : r \in {"StaleControllerLease", "WrongWorkerIncarnation",
     "JobNotFound", "JobNotOwned", "UnsupportedMessage", "InternalError"}}

\* valid_admission_reason
AdmissionReasons ==
  {ComputeReason[r] : r \in {"StaleControllerLease", "WrongWorkerIncarnation",
     "UnsupportedProvider", "InvalidInput", "BufferNotFound", "BufferNotOwned",
     "BufferWrongIncarnation", "BufferInvalidState", "BufferLost", "BufferFreed",
     "BufferEvicted", "InputTooLarge", "ReservationInvalid", "ResourceExhausted",
     "RequestIdConflict", "IdempotenceTableFull", "UnsupportedMessage", "InternalError"}}

\* the reasons a failed job may carry
FailedReasons ==
  {ComputeReason[r] : r \in {"BufferInvalidState", "BufferLost", "BufferFreed",
     "BufferEvicted", "ResourceExhausted", "ProviderTimeout", "ProviderFailed",
     "SessionLost", "InternalError"}}

\* validate_status; kinds Status and Cancel
ValidStatus(kind, m) ==
  LET S == ComputeJobState R == ComputeReason IN
  /\ OwnerKnown(m) /\ m.zero_a = 0
  /\ \/ m.present = 0 /\ JobAbsent(m) /\ m.state = S.Invalid /\ m.reason \in LookupReasons
     \/ /\ m.present = 1 /\ JobShown(m)
        /\ IF kind = "Cancel"
             THEN \/ m.state = S.Cancelled /\ m.reason = R.None
                  \/ m.state \in JobTerminal /\ m.reason = R.JobNotCancellable
             ELSE m.state \in {S.Accepted, S.Running} /\ m.reason = R.None

\* compute.rs validate_result
ValidResult(m) ==
  LET S == ComputeJobState R == ComputeReason IN
  /\ OwnerKnown(m) /\ m.zero_a = 0
  /\ m.digest_present = 1 \/ (m.digest_present = 0 /\ m.digest = 0)
  /\ \/ /\ m.present = 0 /\ JobAbsent(m) /\ m.state = S.Invalid
        /\ m.reason \in AdmissionReasons /\ m.digest_present = 0
     \/ /\ m.present = 1 /\ JobShown(m)
        /\ \/ m.state = S.Completed /\ m.reason = R.None /\ m.digest_present = 1
           \/ m.state = S.Failed /\ m.reason \in FailedReasons /\ m.digest_present = 0
           \/ m.state = S.Cancelled /\ m.reason \in {R.None, R.SessionLost} /\ m.digest_present = 0

Valid(p, kind, m) ==
  CASE p = "Header" -> ValidHeader(m) [] p = "Command" -> ValidCommand(m) [] p = "Ack" -> ValidAck(m)
    [] p = "Heartbeat" -> ValidHeartbeat(m) [] p = "Reserve" -> ValidReserve(m)
    [] p = "ReservationRef" -> ValidReservationRef(m)
    [] p = "ResourceResult" -> ValidResourceResult(kind, m)
    [] p = "Expire" -> ValidExpire(m) [] p = "Alloc" -> ValidAlloc(m)
    [] p = "Range" -> ValidRange(m) [] p = "Handle" -> ValidHandle(m)
    [] p = "BufferResult" -> ValidBufferResult(kind, m)
    [] p = "Submit" -> ValidSubmit(m) [] p = "JobRef" -> ValidJobRef(m)
    [] p = "Status" -> ValidStatus(kind, m) [] OTHER -> ValidResult(m)

-----------------------------------------------------------------------------
(* Encode appends the fields of a typed message; Decode slices.  A typed      *)
(* message has no constant field, and no field of a part that is absent:      *)
(* Emitted is what the encoder writes for the typed message behind m.         *)

ReservationPart == {"reservation_id", "state", "class", "bytes", "ttl"}
BufferPart == {"buffer_id", "state", "flags", "size", "ttl"}
JobPart == {"job_id", "provider", "version"}

Absent(p, m) ==
  CASE p = "ResourceResult" /\ m.present = 0 -> ReservationPart
    [] p = "BufferResult" ->
         (IF m.present = 0 THEN BufferPart ELSE {}) \cup
         (IF m.reservation_present = 0 THEN {"reservation_id"} ELSE {})
    [] p = "Status" /\ m.present = 0 -> JobPart
    [] p = "Result" -> (IF m.present = 0 THEN JobPart ELSE {}) \cup
                       (IF m.digest_present = 0 THEN {"digest"} ELSE {})
    [] OTHER -> {}

Emitted(p, m) ==
  [f \in Fields(p) |->
     CASE f \in {"zero_a", "zero_b"} \cup Absent(p, m) -> 0
       [] p = "Header" /\ f = "magic" -> Magic
       [] p = "Header" /\ f = "version" -> 1
       [] p = "Header" /\ f = "header_len" -> PayloadLen.Header
       [] p = "Reserve" /\ f = "ttl" -> MaxTtl
       [] p = "Expire" /\ f = "state" -> ReservationState.Expired
       [] p = "Expire" /\ f = "reason" -> ResourceReason.ReservationExpired
       [] OTHER -> m[f]]

Encode(p, m) == [o \in DOMAIN FieldAt[p] |-> m[FieldAt[p][o]]]

Decode(p, w) ==
  [f \in Fields(p) |-> IF Read(p)[f] \in DOMAIN w THEN w[Read(p)[f]] ELSE -1]

-----------------------------------------------------------------------------
(* The frame around a payload.  Messages of several kinds share a payload, and *)
(* a request and its answer may share a message type: the flag ACK_REQUIRED,  *)
(* and request id 0 for what is unsolicited, tell them apart.                 *)

Profile(channel, type, ack, solicited) ==
  [channel |-> channel, type |-> type, ack |-> ack, solicited |-> solicited]

ControlProfiles ==
  [Command |-> Profile(Channel.Control, ControlType.Command, TRUE, TRUE),
   Ack |-> Profile(Channel.Control, ControlType.CommandAck, FALSE, TRUE),
   Heartbeat |-> Profile(Channel.Metrics, 1, FALSE, FALSE)]

ResourceProfiles ==
  [Reserve |-> Profile(Channel.Resource, 1, TRUE, TRUE),
   CommitRequest |-> Profile(Channel.Resource, 3, TRUE, TRUE),
   ReleaseRequest |-> Profile(Channel.Resource, 4, TRUE, TRUE),
   ReserveAck |-> Profile(Channel.Resource, 2, FALSE, TRUE),
   Commit |-> Profile(Channel.Resource, 3, FALSE, TRUE),
   Release |-> Profile(Channel.Resource, 4, FALSE, TRUE),
   Expire |-> Profile(Channel.Resource, 5, FALSE, FALSE)]

BufferRequestProfiles ==
  [Alloc |-> Profile(Channel.RemoteBuffer, 1, TRUE, TRUE),
   PutRequest |-> Profile(Channel.RemoteBuffer, 3, TRUE, TRUE),
   GetRequest |-> Profile(Channel.RemoteBuffer, 4, TRUE, TRUE),
   FreeRequest |-> Profile(Channel.RemoteBuffer, 6, TRUE, TRUE),
   StatRequest |-> Profile(Channel.RemoteBuffer, 7, TRUE, TRUE),
   TouchRequest |-> Profile(Channel.RemoteBuffer, 8, TRUE, TRUE)]

BufferResultProfiles ==
  [AllocAck |-> Profile(Channel.RemoteBuffer, 2, FALSE, TRUE),
   Put |-> Profile(Channel.RemoteBuffer, 3, FALSE, TRUE),
   Data |-> Profile(Channel.RemoteBuffer, 5, FALSE, TRUE),
   Free |-> Profile(Channel.RemoteBuffer, 6, FALSE, TRUE),
   Stat |-> Profile(Channel.RemoteBuffer, 7, FALSE, TRUE),
   Touch |-> Profile(Channel.RemoteBuffer, 8, FALSE, TRUE)]

ComputeRequestProfiles ==
  [Submit |-> Profile(Channel.Compute, ComputeType.Submit, TRUE, TRUE),
   StatusRequest |-> Profile(Channel.Compute, ComputeType.Status, TRUE, TRUE),
   CancelRequest |-> Profile(Channel.Compute, ComputeType.Cancel, TRUE, TRUE)]

ComputeResponseProfiles ==
  [Status |-> Profile(Channel.Compute, ComputeType.Status, FALSE, TRUE),
   Result |-> Profile(Channel.Compute, ComputeType.Result, FALSE, TRUE),
   Cancel |-> Profile(Channel.Compute, ComputeType.Cancel, FALSE, TRUE)]

Profiles ==
  ControlProfiles @@ ResourceProfiles @@ BufferRequestProfiles @@
  BufferResultProfiles @@ ComputeRequestProfiles @@ ComputeResponseProfiles

KindsOf(p) ==
  CASE p = "ReservationRef" -> {"CommitRequest", "ReleaseRequest"}
    [] p = "ResourceResult" -> {"ReserveAck", "Commit", "Release"}
    [] p = "Range" -> {"PutRequest", "GetRequest"}
    [] p = "Handle" -> {"FreeRequest", "StatRequest", "TouchRequest"}
    [] p = "BufferResult" -> DOMAIN BufferResultProfiles
    [] p = "JobRef" -> {"StatusRequest", "CancelRequest"}
    [] p = "Status" -> {"Status", "Cancel"}
    [] OTHER -> {p}
=============================================================================
