------------------------------ MODULE EagerLease ------------------------------
(***************************************************************************)
(* What the controller lease promises, with nothing of how it is kept.     *)
(*                                                                         *)
(* At every instant at most one peer holds the lease.  The lease ends at   *)
(* the very tick its deadline is reached, or when its holder releases it.  *)
(* The deadline moves only when the next command of the holder is          *)
(* executed, and then to exactly one TTL from that instant; commands are   *)
(* counted, so none is executed twice and none is skipped.                 *)
(*                                                                         *)
(* ControllerLease, which expires leases lazily and answers repeated       *)
(* commands from a cache, is shown to implement this.                      *)
(***************************************************************************)
EXTENDS Integers

CONSTANTS Peers, NoPeer, LeaseTtl

VARIABLES
  now,     \* the clock
  holder,  \* who holds the lease, until when, and the commands executed under it
  grants   \* leases granted so far

vars == <<now, holder, grants>>

Nobody == [id |-> 0, peer |-> NoPeer, until |-> 0, executed |-> 0]

Init == now = 0 /\ holder = Nobody /\ grants = 0

Grant(p) ==
  /\ holder = Nobody
  /\ grants' = grants + 1
  /\ holder' = [id |-> grants + 1, peer |-> p, until |-> now + LeaseTtl, executed |-> 0]
  /\ UNCHANGED now

Renew ==
  /\ holder.id # 0
  /\ holder' = [id |-> holder.id, peer |-> holder.peer,
                until |-> now + LeaseTtl, executed |-> holder.executed + 1]
  /\ UNCHANGED <<now, grants>>

Release ==
  /\ holder.id # 0
  /\ holder' = Nobody
  /\ UNCHANGED <<now, grants>>

\* the deadline is met on the tick that reaches it
Tick ==
  /\ now' = now + 1
  /\ holder' = IF holder.id # 0 /\ now + 1 >= holder.until THEN Nobody ELSE holder
  /\ UNCHANGED grants

Next == (\E p \in Peers : Grant(p)) \/ Renew \/ Release \/ Tick

Spec == Init /\ [][Next]_vars
=============================================================================
