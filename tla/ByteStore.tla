------------------------------- MODULE ByteStore -------------------------------
(***************************************************************************)
(* What a remote buffer promises of its contents: a byte reads as what was *)
(* last written to it, and nothing can be read before everything was       *)
(* written.                                                                *)
(***************************************************************************)
EXTENDS Integers

CONSTANTS Size, Values, Blank

VARIABLES
  bytes,   \* what each byte holds, Blank if it was not written
  ended,   \* freed, evicted or lost
  answer   \* the answer to the last request

vars == <<bytes, ended, answer>>

Positions == 0 .. Size - 1

Span(from, n) == from .. from + n - 1

Init == bytes = [x \in Positions |-> Blank] /\ ended = FALSE /\ answer = <<>>

Put(from, n, v) ==
  /\ ~ended /\ n > 0 /\ Span(from, n) \subseteq Positions
  /\ bytes' = [x \in Positions |-> IF x \in Span(from, n) THEN v ELSE bytes[x]]
  /\ answer' = <<>>
  /\ UNCHANGED ended

Get(from, n) ==
  /\ ~ended /\ n > 0 /\ Span(from, n) \subseteq Positions
  /\ \A x \in Positions : bytes[x] # Blank
  /\ answer' = [k \in 1 .. n |-> bytes[from + k - 1]]
  /\ UNCHANGED <<bytes, ended>>

Refuse == answer' = <<>> /\ UNCHANGED <<bytes, ended>>

End ==
  /\ ~ended
  /\ ended' = TRUE
  /\ bytes' = [x \in Positions |-> Blank]
  /\ answer' = <<>>

Next ==
  \/ \E from \in Positions, n \in 1 .. Size :
       Get(from, n) \/ \E v \in Values : Put(from, n, v)
  \/ Refuse
  \/ End

Spec == Init /\ [][Next]_vars
=============================================================================
