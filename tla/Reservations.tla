----------------------------- MODULE Reservations -----------------------------
(***************************************************************************)
(* The reservation table of the ResourceGuard (C08) and what each step     *)
(* does to it, pb-worker-core/src/resource_guard.rs.                       *)
(*                                                                         *)
(* A guard is a record [res, alloc]: the reservations, and the running     *)
(* count allocated_bytes that the code keeps beside them.  An identifier   *)
(* that was never drawn is "Unused"; one that was removed from the map is  *)
(* "Dropped" and is never drawn again.  The peer of a reservation is the   *)
(* peer of its lease and is not repeated here.  A deadline that the code   *)
(* keeps but no longer reads, once the reservation is committed or has     *)
(* ended, is 0.                                                            *)
(***************************************************************************)
EXTENDS Integers, FiniteSets

LOCAL INSTANCE FiniteSetsExt

CONSTANTS
  ReservationTtl,  \* RESERVATION_TTL_MS, in ticks
  Retention        \* TERMINAL_RETENTION_MS, in ticks

ASSUME ReservationConstants == ReservationTtl \in Nat \ {0} /\ Retention \in Nat

Unused == [state |-> "Unused", lease |-> 0, req |-> 0, class |-> "None", bytes |-> 0,
           expires |-> 0, at |-> 0]

Dropped == [Unused EXCEPT !.state = "Dropped"]

\* the states of ReservationState, by what they mean for the budget
Pending == {"Reserved", "Committed"}

Live == Pending \cup {"Consumed"}

Ended == {"Released", "Expired", "RefusedSafety", "ConsumedReleased"}

SumOf(sizes, set) == MapThenSumSet(LAMBDA x : sizes[x], set)

SumBytes(res, ids) == SumOf([i \in ids |-> res[i].bytes], ids)

\* the reservation r, in the given state since t
InState(r, state, t) ==
  [state |-> state, lease |-> r.lease, req |-> r.req, class |-> r.class, bytes |-> r.bytes,
   expires |-> 0, at |-> t]

\* release_allocation (saturating)
ReleaseAllocation(alloc, bytes) == IF alloc >= bytes THEN alloc - bytes ELSE 0

\* the reservations in ids end in the given state and give their bytes back
Finish(guard, ids, state, t) ==
  [res   |-> [i \in DOMAIN guard.res |->
                IF i \in ids THEN InState(guard.res[i], state, t) ELSE guard.res[i]],
   alloc |-> ReleaseAllocation(guard.alloc, SumBytes(guard.res, ids))]

\* reservations of another lease that no buffer or job took over
Superseded(guard, lease) ==
  {i \in DOMAIN guard.res :
     /\ guard.res[i].state \in (Pending \cup Ended) \ {"ConsumedReleased"}
     /\ guard.res[i].lease # lease}

\* what expire_reserved finds
Overdue(guard, t) ==
  {i \in DOMAIN guard.res : guard.res[i].state = "Reserved" /\ t >= guard.res[i].expires}

\* what reservations.retain removes
Outdated(guard, t) ==
  {i \in DOMAIN guard.res : guard.res[i].state \in Ended /\ t - guard.res[i].at > Retention}

\* (mutant) the bytes of a committed reservation whose lease ended are not given back
Aged_CommittedKept(guard, gone, late, t) ==
  [res   |-> [i \in DOMAIN guard.res |->
                CASE i \in gone        -> Dropped
                  [] i \in late \ gone -> InState(guard.res[i], "Expired", t)
                  [] OTHER            -> guard.res[i]],
   alloc |-> ReleaseAllocation(guard.alloc, SumBytes(guard.res, late))]

\* the reservations in `gone' are removed, those in `late' expire
Aged(guard, gone, late, t) ==
  [res   |-> [i \in DOMAIN guard.res |->
                CASE i \in gone        -> Dropped
                  [] i \in late \ gone -> InState(guard.res[i], "Expired", t)
                  [] OTHER            -> guard.res[i]],
   alloc |-> ReleaseAllocation(guard.alloc,
               SumBytes(guard.res, late \cup {i \in gone : guard.res[i].state \in Pending}))]

\* expire_and_purge: a reservation that expires now is not outdated yet
ExpireAndPurge(guard, lease, t) ==
  Aged(guard, Superseded(guard, lease) \cup Outdated(guard, t), Overdue(guard, t), t)

\* tick, which the health sampler calls
GuardTick(guard, t) == Aged(guard, Outdated(guard, t), Overdue(guard, t), t)

\* the insertion in reserve
Insert(guard, i, lease, req, class, bytes, t) ==
  [res   |-> [guard.res EXCEPT ![i] =
                [state |-> "Reserved", lease |-> lease, req |-> req, class |-> class,
                 bytes |-> bytes, expires |-> t + ReservationTtl, at |-> 0]],
   alloc |-> guard.alloc + bytes]

\* from one live state to another
SetState(guard, i, state) ==
  [res   |-> [guard.res EXCEPT ![i] = InState(guard.res[i], state, 0)],
   alloc |-> guard.alloc]

\* (mutant) a reservation that was given back can be consumed again
Consumable_Again(guard, i, lease, class) ==
  /\ guard.res[i].state \in {"Committed", "ConsumedReleased"}
  /\ guard.res[i].lease = lease
  /\ guard.res[i].class = class

\* what consume requires
Consumable(guard, i, lease, class) ==
  /\ guard.res[i].state = "Committed"
  /\ guard.res[i].lease = lease
  /\ guard.res[i].class = class

\* release_consumed, for every buffer or job that ends: a claim names the
\* reservation, its class and its size
ReleaseConsumed(guard, claims, t) ==
  Finish(guard,
         {i \in DOMAIN guard.res :
            /\ guard.res[i].state = "Consumed"
            /\ [id |-> i, class |-> guard.res[i].class, bytes |-> guard.res[i].bytes] \in claims},
         "ConsumedReleased", t)
=============================================================================
