----------------------------- MODULE BufferRanges -----------------------------
(***************************************************************************)
(* The contents of one remote buffer (C09): PUT writes a span of bytes and *)
(* notes it in a sorted list of disjoint spans, and the buffer is READY    *)
(* when the list is the single span of the whole buffer (put, merge_range  *)
(* and get in pb-worker-core/src/remote_buffer.rs).  WorkerCore models who *)
(* may use a buffer and for how long.                                      *)
(***************************************************************************)
EXTENDS Integers, Sequences, SequencesExt, TLC

CONSTANTS
  Size,    \* size_bytes
  Values,  \* what a PUT may write
  Blank,   \* a byte that was not written
  MaxRead  \* MAX_DATA_BODY: bytes one GET may return

RangesConstants ==
  /\ Size \in Nat \ {0} /\ MaxRead \in Nat
  /\ Blank \notin Values /\ 0 \notin Values

VARIABLES
  state,    \* BufferState
  ranges,   \* initialized_ranges, as <<start, end>> with end excluded
  backing,  \* the bytes, zero at first; empty once the buffer has ended
  answer    \* the bytes of the last answer

bufferVars == <<state, ranges, backing, answer>>

Positions == 0 .. Size - 1

\* the loop body of merge_range
Absorb(merged, r) ==
  IF merged # <<>> /\ r[1] <= Last(merged)[2]
  THEN Append(Front(merged), <<Last(merged)[1], Max({r[2], Last(merged)[2]})>>)
  ELSE Append(merged, r)

MergeRange(list, r) ==
  FoldLeft(Absorb, <<>>, SortSeq(Append(list, r), LAMBDA a, b : a[1] < b[1]))

Terminal == state \in {"Freed", "Evicted", "Lost"}

InBounds(from, n) == n > 0 /\ from + n <= Size

Put(from, n, v) ==
  /\ ~Terminal /\ InBounds(from, n)
  /\ ranges' = MergeRange(ranges, <<from, from + n>>)
  /\ backing' = [x \in Positions |-> IF x \in from .. from + n - 1 THEN v ELSE backing[x]]
  /\ state' = IF ranges' = <<<<0, Size>>>> THEN "Ready" ELSE "Allocated"
  /\ answer' = <<>>

\* (mutant) GET does not wait for the buffer to be READY
Readable_Early(from, n) == ~Terminal /\ n <= MaxRead /\ InBounds(from, n)

Readable(from, n) == state = "Ready" /\ n <= MaxRead /\ InBounds(from, n)

\* GET; BLAKE3 reads its input in the same way (with_compute_input)
Get(from, n) ==
  /\ Readable(from, n)
  /\ answer' = [k \in 1 .. n |-> backing[from + k - 1]]
  /\ UNCHANGED <<state, ranges, backing>>

\* a PUT or a GET that is out of bounds, too early or too late, or for which there
\* is no memory (try_reserve_exact)
Refused ==
  /\ answer' = <<>>
  /\ UNCHANGED <<state, ranges, backing>>

\* terminalize
End(how) ==
  /\ ~Terminal
  /\ state' = how
  /\ ranges' = <<>>
  /\ backing' = <<>>
  /\ answer' = <<>>

RangesInit ==
  /\ state = "Allocated"
  /\ ranges = <<>>
  /\ backing = [x \in Positions |-> 0]
  /\ answer = <<>>

RangesNext ==
  \/ \E from \in 0 .. Size, n \in 0 .. Size + 1 :
       \/ \E v \in Values : Put(from, n, v)
       \/ Get(from, n)
  \/ Refused
  \/ \E how \in {"Freed", "Evicted", "Lost"} : End(how)

RangesSpec == RangesInit /\ [][RangesNext]_bufferVars

-----------------------------------------------------------------------------
(* Properties. *)

Covered(x) == \E k \in DOMAIN ranges : ranges[k][1] <= x /\ x < ranges[k][2]

Bytes == INSTANCE ByteStore WITH
  bytes <- [x \in Positions |-> IF Covered(x) THEN backing[x] ELSE Blank],
  ended <- Terminal

\* The spans stand for the bytes that were written: the buffer can be read exactly
\* when all were, and reads as what was last written (put, get).
ImplementsByteStore == Bytes!Spec
=============================================================================
