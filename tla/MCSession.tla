------------------------------ MODULE MCSession ------------------------------
(***************************************************************************)
(* What a session is made of, side by side: the request channel, which is  *)
(* the module's own state, the fragments of long messages, and a payload   *)
(* on its way from encoder to decoder.  In a behaviour one of them moves   *)
(* and the others stay as they started.                                    *)
(***************************************************************************)
EXTENDS SessionChannel, TLC

CONSTANTS c1, c2

VARIABLES
  part,                                                     \* the part that moves
  outbox, partial, accounting, delivered, refused, faults,  \* Fragments
  payload, fields, stage, kind, wire, got, again            \* a payload on its way

ClientSymmetry == Permutations({c1, c2})

Key(c, i) == [channel |-> c, id |-> i]

\* two messages share a key, there are two channels, and lengths around the payload
\* of a frame (2) and around the quotas
MCMessages ==
  [put  |-> [key |-> Key("RemoteBuffer", 1), type |-> "Put", ack |-> TRUE, len |-> 5],
   data |-> [key |-> Key("RemoteBuffer", 1), type |-> "Data", ack |-> FALSE, len |-> 4],
   long |-> [key |-> Key("RemoteBuffer", 2), type |-> "Put", ack |-> TRUE, len |-> 8],
   tiny |-> [key |-> Key("RemoteBuffer", 3), type |-> "Put", ack |-> TRUE, len |-> 3],
   one  |-> [key |-> Key("Compute", 1), type |-> "Put", ack |-> TRUE, len |-> 2],
   two  |-> [key |-> Key("Compute", 2), type |-> "Put", ack |-> TRUE, len |-> 4]]

Frag == INSTANCE Fragments WITH
  Messages <- MCMessages, MaxPayload <- 2, MaxLogical <- 8, CountLimit <- 2,
  ChannelQuota <- 13, SessionQuota <- 15, MaxFaults <- 1

M == INSTANCE WireMessages

(* Values per field name: zero, an ordinary value, and the values around the  *)
(* limits the code compares with.                                            *)
MCValues ==
  [command_type |-> {1, 2, 4}, lease_present |-> {0, 1, 2}, command_seq |-> {0, 7},
   provider_present |-> {0, 1}, provider_id |-> {0, 1}, payload_len |-> {0, 1},
   ack_state |-> {1, 2, 3, 4}, expected_present |-> {0, 1}, expected |-> {0, 3},
   ref_present |-> {0, 1}, next_command_seq |-> {0, 1}, digest_present |-> {0, 1},
   digest |-> {0, 9}, thermal |-> {0, 6, 7}, headroom_present |-> {0, 1},
   headroom |-> {-1, 0, 2}, battery |-> {100, 101}, charging |-> {1, 2},
   power_save |-> {0}, provider_count |-> {0, 1}, transport_count |-> {0},
   class |-> {0, 1, 2}, zero_a |-> {0, 1}, zero_b |-> {0, 1},
   bytes |-> {0, 1, 8 * M!MiB, 8 * M!MiB + 1, 128 * M!MiB + 1},
   present |-> {0, 1, 2}, reservation_present |-> {0, 1}, buffer_id |-> {0, 4},
   flags |-> {0, 8}, size |-> {0, 5}, offset |-> {0, 6}, data_len |-> {0, 8},
   provider |-> {0, 1}, version |-> {0, 1}, job_id |-> {0, 4},
   reservation_id |-> {0, 3}, lease_id |-> {0, 1}, incarnation |-> {2},
   code |-> {2, 3}, input_kind |-> {1}, length |-> {0, 5}]

MCHeader ==
  [magic |-> {0, M!Magic}, version |-> {1, 2}, channel |-> {0, 1, 6},
   flags |-> {0, 1, 2, 7, 16}, message_type |-> {1, 6, 9}, header_len |-> {40, 41},
   request_id |-> {0}, fragment_index |-> {0, 1},
   payload_len |-> {0, 5, M!MaxPayload + 1}, logical_len |-> {0, 5, M!MaxLogical + 1}]

MCReasons(p) ==
  CASE p = "Ack" -> {0, 3, 5, 6}
    [] p = "ResourceResult" -> {0, 4, 13}
    [] p = "Expire" -> {0, 6}
    [] p = "BufferResult" -> {0, 2}
    [] p = "Status" -> {0, 1, 17, 19, 25}
    [] OTHER -> {0, 9, 22}

MCStates(p) ==
  CASE p = "ResourceResult" -> {0, 1, 2, 5}
    [] p = "Expire" -> {1, 5}
    [] p = "BufferResult" -> {0, 1, 2}
    [] OTHER -> 0..5

MCTtls(p) ==
  CASE p = "BufferResult" -> {0, M!DefaultBufferTtl, M!MaxBufferTtl + 1}
    [] OTHER -> {0, M!MaxTtl}

MCSample ==
  [p \in M!Payloads |->
     [f \in M!Fields(p) |->
        CASE f = "reason" -> MCReasons(p)
          [] f = "state" -> MCStates(p)
          [] f = "ttl" -> MCTtls(p)
          [] f = "bytes" /\ p = "ResourceResult" -> {0, 8 * M!MiB + 1}
          [] f = "present" /\ p = "BufferResult" -> {0, 1}
          [] f = "lease_id" /\ p = "BufferResult" -> {1}
          [] f \in {"zero_a", "zero_b"} /\ p = "BufferResult" -> {0}
          [] f = "size" /\ p = "BufferResult" -> {5}
          [] f = "zero_b" /\ p = "ResourceResult" -> {0}
          [] p = "Header" /\ f \in DOMAIN MCHeader -> MCHeader[f]
          [] f \in DOMAIN MCValues -> MCValues[f]
          [] OTHER -> {5}]]

ASSUME Frag!FragmentConstants

-----------------------------------------------------------------------------
(* One PBMUX payload on its way: a sender builds it from a typed message, or  *)
(* it arrives as it is; the receiver parses it and, when it accepts it, the   *)
(* same message is built again.  The fields are filled in one at a time from  *)
(* the values given for them.                                                *)

NoBytes == <<>>

WireInit ==
  /\ payload \in M!Payloads
  /\ fields = <<>> /\ stage = "filling" /\ kind = "none"
  /\ wire = NoBytes /\ got = NoBytes /\ again = NoBytes

Complete == Len(fields) = Len(M!Written(payload))

Message == [f \in M!Fields(payload) |->
              fields[CHOOSE i \in DOMAIN fields : M!Written(payload)[i][1] = f]]

Fill(v) ==
  /\ stage = "filling" /\ ~Complete
  /\ v \in MCSample[payload][M!Written(payload)[Len(fields) + 1][1]]
  /\ fields' = Append(fields, v)
  /\ UNCHANGED <<payload, stage, kind, wire, got, again>>

\* A sender builds the frame of the typed message, or its validation refuses.
Build(k) ==
  /\ stage = "filling" /\ Complete /\ kind' = k
  /\ LET m == M!Emitted(payload, Message) IN
     /\ stage' = IF M!Valid(payload, k, m) THEN "built" ELSE "refused"
     /\ wire' = IF M!Valid(payload, k, m) THEN M!Encode(payload, m) ELSE NoBytes
  /\ UNCHANGED <<payload, fields, got, again>>

\* Bytes of the right length arrive.
Arrive(k) ==
  /\ stage = "filling" /\ Complete /\ kind' = k
  /\ stage' = "arrived" /\ wire' = M!Encode(payload, Message)
  /\ UNCHANGED <<payload, fields, got, again>>

WrittenLen(p) == M!OffsetOf[p][Len(M!Written(p)) + 1]

\* The kinds of message whose parser takes the frame's profile.
Readers == {k \in DOMAIN M!Profiles : kind \in DOMAIN M!Profiles /\ M!Profiles[k] = M!Profiles[kind]}

\* The receiver checks the length, slices the payload and validates what it read.
Parse ==
  /\ stage \in {"built", "arrived"}
  /\ LET m == M!Decode(payload, wire) IN
     IF WrittenLen(payload) = M!PayloadLen[payload] /\ M!Valid(payload, kind, m)
       THEN stage' = "accepted" /\ got' = m
       ELSE stage' = (IF stage = "built" THEN "lost" ELSE "rejected") /\ got' = NoBytes
  /\ UNCHANGED <<payload, fields, kind, wire, again>>

\* The accepted message is encoded again.
Rebuild ==
  /\ stage = "accepted" /\ stage' = "rebuilt"
  /\ again' = M!Encode(payload, M!Emitted(payload, got))
  /\ UNCHANGED <<payload, fields, kind, wire, got>>

WireNext ==
  \/ /\ ~Complete
     /\ \E v \in MCSample[payload][M!Written(payload)[Len(fields) + 1][1]] : Fill(v)
  \/ \E k \in M!KindsOf(payload) : Build(k) \/ Arrive(k)
  \/ Parse \/ Rebuild

-----------------------------------------------------------------------------
fragVars == <<outbox, partial, accounting, delivered, refused, faults>>
wireVars == <<payload, fields, stage, kind, wire, got, again>>
mcVars == <<part, vars, fragVars, wireVars>>

MCInit ==
  /\ part \in {"channel", "fragments", "wire"}
  /\ Init
  /\ \/ part = "fragments" /\ Frag!Init
     \/ /\ part # "fragments" /\ outbox = 0 /\ partial = 0 /\ accounting = 0
        /\ delivered = 0 /\ refused = 0 /\ faults = 0
  /\ \/ part = "wire" /\ WireInit
     \/ /\ part # "wire" /\ payload = 0 /\ fields = 0 /\ stage = 0 /\ kind = 0 /\ wire = 0
        /\ got = 0 /\ again = 0

MCNext ==
  /\ UNCHANGED part
  /\ \/ part = "channel" /\ Next /\ UNCHANGED <<fragVars, wireVars>>
     \/ part = "fragments" /\ Frag!Next /\ UNCHANGED <<vars, wireVars>>
     \/ part = "wire" /\ WireNext /\ UNCHANGED <<vars, fragVars>>

MCSpec == MCInit /\ [][MCNext]_mcVars

-----------------------------------------------------------------------------
(* Properties. *)

\* Fragments are valid frames, the memory set aside for unfinished messages is
\* accounted for exactly and within the quotas, and only whole messages are handed
\* up, all of them where nothing was lost or refused (Reassembler::accept,
\* fragment_message).
Reassembles == part = "fragments" => Frag!Reassembles

(* A payload an encoder lets out is accepted by the matching decoder, as the  *)
(* message that was meant: the sender's validation admits nothing the         *)
(* receiver's refuses.                                                       *)
BuiltIsUnderstood ==
  /\ stage # "lost"
  /\ stage \in {"accepted", "rebuilt"} /\ M!Valid(payload, kind, M!Emitted(payload, Message))
       /\ wire = M!Encode(payload, M!Emitted(payload, Message))
     => got = M!Emitted(payload, Message)

(* A frame has one reading: no other kind of message, and never a request     *)
(* where an answer is expected, has the channel, the type and the flags of    *)
(* the frame.                                                                *)
OneReading == stage # "filling" /\ payload # "Header" => Readers = {kind}

(* Bytes that a decoder accepts are the bytes its encoder writes for that     *)
(* message: no two payloads carry the same message, and nothing rides along   *)
(* in reserved fields or in the fields of absent parts.                       *)
Canonical == stage = "rebuilt" => again = wire

\* What an encoder lets out the matching decoder accepts as the message that was
\* meant, a frame has one reading, and accepted bytes are the bytes the encoder
\* writes for that message (the encode and parse functions of every channel).
OneMeaning == part = "wire" => BuiltIsUnderstood /\ OneReading /\ Canonical
=============================================================================
