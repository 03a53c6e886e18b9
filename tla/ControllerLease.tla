---------------------------- MODULE ControllerLease ----------------------------
(***************************************************************************)
(* The controller lease of the worker (C07), pb-worker-core/src/lease.rs.  *)
(*                                                                         *)
(* One peer at a time controls the worker.  It holds a lease that ends     *)
(* LeaseTtl after it was granted or last renewed.  RENEW and RELEASE carry *)
(* a command sequence number: a number is executed once, its answer is     *)
(* kept in a bounded cache, and a repeated number is answered from there.  *)
(*                                                                         *)
(* Expiry is lazy.  No timer ends a lease; every handler calls             *)
(* expire_if_needed with the current time before it looks at the lease.    *)
(*                                                                         *)
(* The worker is called with its mutex held, so a handler is one action.   *)
(* The `pending' set of lease.rs is filled and emptied inside one handler  *)
(* and is empty between two of them; it has no variable here.              *)
(* An identifier is 128 random bits and never zero: 0 stands for "none",   *)
(* and a fresh identifier is the next number never used.                   *)
(***************************************************************************)
EXTENDS Integers, Sequences

CONSTANTS
  Peers,          \* the paired peers
  NoPeer,         \* the peer of an absent lease
  LeaseTtl,       \* LEASE_TTL_MS, in ticks
  CacheCapacity,  \* TERMINAL_CACHE_CAPACITY
  SeqLimit,       \* the largest command sequence number (u64::MAX)
  MaxLeases,      \* bound: leases granted in a behaviour
  LastGrant,      \* bound: the last tick at which a lease is granted or renewed
  Horizon         \* bound: the last tick

ASSUME LeaseConstants ==
  /\ NoPeer \notin Peers
  /\ LeaseTtl \in Nat \ {0}
  /\ CacheCapacity \in Nat \ {0}
  /\ SeqLimit \in Nat
  /\ MaxLeases \in Nat
  /\ LastGrant \in Nat /\ Horizon \in Nat

VARIABLES
  now,       \* the worker's monotonic clock
  active,    \* the lease in force (NoLease when free)
  released,  \* the last lease that was released, until the next grant
  granted,   \* how many leases were granted: the source of fresh identifiers
  reply      \* the answer given by the last step, NoReply if it was no lease command

leaseVars == <<now, active, released, granted, reply>>

NoSeq == -1

NoRef == [id |-> 0, ttl |-> 0, next |-> 0]

NoLease == [id |-> 0, peer |-> NoPeer, expires |-> 0, next |-> 0,
            terminal |-> <<>>, evicted |-> NoSeq]

Refs == [id : Nat, ttl : Nat, next : Nat]

Entries == [seq : Nat, ref : Refs]

Leases == [id : Nat, peer : Peers \cup {NoPeer}, expires : Nat, next : Nat,
           terminal : Seq(Entries), evicted : Nat \cup {NoSeq}]

-----------------------------------------------------------------------------
(* Reading the lease. *)

\* (mutant) the deadline itself still counts as held
Current_DeadlineHeld == IF active.id # 0 /\ now > active.expires THEN NoLease ELSE active

\* expire_if_needed: the lease a handler sees once it has expired the old one
Current == IF active.id # 0 /\ now >= active.expires THEN NoLease ELSE active

\* validate
Valid(p, l) == l # 0 /\ Current.id = l /\ Current.peer = p

\* lease_ref, the facts about a lease that an answer carries
LeaseRef(lease) ==
  [id |-> lease.id, ttl |-> lease.expires - now, next |-> lease.next]

Cached(lease, s) == \E i \in DOMAIN lease.terminal : lease.terminal[i].seq = s

Entry(lease, s) ==
  lease.terminal[CHOOSE i \in DOMAIN lease.terminal : lease.terminal[i].seq = s]

Completed(s, ref) == [outcome |-> "Completed", seq |-> s, ref |-> ref]

Failed(reason, s) == [outcome |-> reason, seq |-> s, ref |-> NoRef]

NoReply == Failed("None", 0)

\* begin_mutation_internal, on a lease that was found valid
Admission(lease, s) ==
  CASE Cached(lease, s)       -> "Replay"
    [] s <= lease.evicted     -> "DuplicateResultEvicted"
    [] s # lease.next         -> "OutOfOrder"
    [] s = SeqLimit           -> "SequenceExhausted"
    [] OTHER                  -> "ExecuteOnce"

\* result_from_admission, for a command that is not executed; the last number is an
\* error of the call and no answer
ResultFromAdmission(lease, s) ==
  LET verdict == Admission(lease, s)
  IN  CASE verdict = "Replay"            -> Completed(s, Entry(lease, s).ref)
        [] verdict = "SequenceExhausted" -> Failed("InternalInvariant", s)
        [] OTHER                         -> Failed(verdict, s)

\* released_admission: a command for a lease that is not in force is answered
\* from the cache of the lease released last, if that is the one it names
ReleasedAdmission(p, l, s) ==
  LET mine == l # 0 /\ released.id = l /\ released.peer = p
  IN  CASE mine /\ Cached(released, s)   -> Completed(s, Entry(released, s).ref)
        [] mine /\ ~Cached(released, s)
                /\ s <= released.evicted -> Failed("DuplicateResultEvicted", s)
        [] OTHER                         -> Failed("StaleControllerLease", s)

\* trim_terminal_cache
Trim(lease) ==
  IF Len(lease.terminal) > CacheCapacity
  THEN [lease EXCEPT !.terminal = Tail(@),
                     !.evicted = Head(lease.terminal).seq]
  ELSE lease

\* complete_active: the answer of the executed number s goes into the cache
CompleteActive(lease, s, ref) ==
  Trim([lease EXCEPT !.terminal = Append(@, [seq |-> s, ref |-> ref])])

-----------------------------------------------------------------------------
(* The commands.  Each is sent by the peer p of the live session. *)

\* a new lease for p (apply_acquire)
Grant(p) ==
  [id |-> granted + 1, peer |-> p, expires |-> now + LeaseTtl, next |-> 0,
   terminal |-> <<>>, evicted |-> NoSeq]

AcquireFree(p) ==
  /\ Current.id = 0
  /\ granted < MaxLeases
  /\ now <= LastGrant
  /\ active' = Grant(p)
  /\ released' = NoLease
  /\ granted' = granted + 1
  /\ reply' = Completed(0, LeaseRef(Grant(p)))

\* the lease is held, or no random identifier could be drawn
AcquireHeld(p) ==
  /\ active' = Current
  /\ \/ /\ Current.id # 0
        /\ reply' = IF Current.peer = p THEN Completed(0, LeaseRef(Current))
                                        ELSE Failed("ControllerBusy", 0)
     \/ /\ Current.id = 0
        /\ reply' = Failed("EntropyUnavailable", 0)
  /\ UNCHANGED <<released, granted>>

Acquire(p) == (AcquireFree(p) \/ AcquireHeld(p)) /\ UNCHANGED now

\* a RENEW or RELEASE that changes nothing but an expired lease
Refuse(p, l, s) ==
  /\ \/ /\ Valid(p, l)
        /\ Admission(Current, s) # "ExecuteOnce"
        /\ reply' = ResultFromAdmission(Current, s)
     \/ /\ ~Valid(p, l)
        /\ reply' = ReleasedAdmission(p, l, s)
  /\ active' = Current
  /\ UNCHANGED <<now, released, granted>>

\* begin_mutation_internal admits s: the sequence moves on
Begun(lease) == [lease EXCEPT !.next = @ + 1]

RenewExecutes(p, l, s) ==
  /\ Valid(p, l)
  /\ Admission(Current, s) = "ExecuteOnce"
  /\ now <= LastGrant
  /\ LET renewed == [Begun(Current) EXCEPT !.expires = now + LeaseTtl]
     IN  /\ active' = CompleteActive(renewed, s, LeaseRef(renewed))
         /\ reply' = Completed(s, LeaseRef(renewed))
  /\ UNCHANGED <<now, released, granted>>

Renew(p, l, s) == RenewExecutes(p, l, s) \/ Refuse(p, l, s)

ReleaseExecutes(p, l, s) ==
  /\ Valid(p, l)
  /\ Admission(Current, s) = "ExecuteOnce"
  /\ released' = CompleteActive(Begun(Current), s, NoRef)
  /\ active' = NoLease
  /\ reply' = Completed(s, NoRef)
  /\ UNCHANGED <<now, granted>>

Release(p, l, s) == ReleaseExecutes(p, l, s) \/ Refuse(p, l, s)

\* a command type this version does not know
Unsupported(s) ==
  /\ active' = Current
  /\ reply' = Failed("UnsupportedMessage", s)
  /\ UNCHANGED <<now, released, granted>>

\* reconcile_expired_controller_lease, which the health sampler, the heartbeat
\* and every C08, C09 and C10 handler run first
Reconcile ==
  /\ active' = Current
  /\ reply' = NoReply
  /\ UNCHANGED <<now, released, granted>>

Tick ==
  /\ now < Horizon
  /\ now' = now + 1
  /\ reply' = NoReply
  /\ UNCHANGED <<active, released, granted>>

-----------------------------------------------------------------------------
LeaseInit ==
  /\ now = 0
  /\ active = NoLease
  /\ released = NoLease
  /\ granted = 0
  /\ reply = NoReply

\* a peer may name any lease it was ever given, and any number
LeaseCommand ==
  \E p \in Peers :
    \/ Acquire(p)
    \/ \E l \in 1 .. granted, s \in 0 .. SeqLimit : Renew(p, l, s) \/ Release(p, l, s)

LeaseNext ==
  \/ LeaseCommand
  \/ \E s \in 0 .. SeqLimit : Unsupported(s)
  \/ Reconcile
  \/ Tick

\* Time passes, and the health sampler of the Android service calls into the
\* worker every HEALTH_INTERVAL_MS whatever the peers do.
LeaseSpec ==
  LeaseInit /\ [][LeaseNext]_leaseVars /\ WF_leaseVars(Tick) /\ WF_leaseVars(Reconcile)
-----------------------------------------------------------------------------
(* Properties. *)

InRange(lease) ==
  /\ lease \in Leases
  /\ lease.id <= granted
  /\ lease.next <= SeqLimit
  /\ lease.expires <= now + LeaseTtl
  /\ lease.id = 0 => lease = NoLease
  /\ lease.id # 0 => lease.peer \in Peers

\* Types, and the ranges that the code relies on: an identifier was granted, a
\* sequence number does not pass u64::MAX, a deadline is at most one TTL away.
LeaseTypeOK ==
  /\ now \in Nat
  /\ granted \in Nat
  /\ InRange(active)
  /\ InRange(released)

Contiguous(lease) ==
  /\ Len(lease.terminal) = lease.next - lease.evicted - 1
  /\ Len(lease.terminal) <= CacheCapacity
  /\ \A i \in DOMAIN lease.terminal : lease.terminal[i].seq = lease.evicted + i

\* The answers kept for a lease are those of the numbers evicted+1 .. next-1, in
\* order.  So every number below next_command_sequence is a duplicate that is
\* answered (from the cache, or as evicted) and never executed again, and no
\* number was skipped (begin_mutation_internal, trim_terminal_cache).
CacheContiguous == Contiguous(active) /\ Contiguous(released)

\* Until the next lease is granted, a peer that repeats its RELEASE is told again
\* that it completed: the released lease is kept only while no lease is in force,
\* and its last cached answer is that of the RELEASE (apply_release,
\* released_admission).
ReleaseAnswerKept ==
  released.id # 0 =>
    /\ active.id = 0
    /\ released.next > 0
    /\ Cached(released, released.next - 1)
    /\ Entry(released, released.next - 1).ref = NoRef

\* The inductive invariant: the answer to a RELEASE can be found because the
\* cache is contiguous, and the cache is contiguous because its entries, the
\* eviction mark and the next number move together.
LeaseInv == LeaseTypeOK /\ CacheContiguous /\ ReleaseAnswerKept

\* A lease's deadline moves only in a step that executes the lease's next
\* number: a retried RENEW, a second ACQUIRE by the holder and a refused command
\* leave it alone (apply_acquire, apply_renew).
RetryNeverExtends ==
  [][ active'.id = active.id /\ active'.expires # active.expires
        => active'.next = active.next + 1 ]_leaseVars

\* Lazy expiry with a cache of answers cannot be told apart from EagerLease: the
\* lease a handler acts on is the one an exact timer would have left.
Eager == INSTANCE EagerLease
  WITH holder <- [id |-> Current.id, peer |-> Current.peer,
                  until |-> Current.expires, executed |-> Current.next],
       grants <- granted
ImplementsEagerLease == Eager!Spec

\* A lease whose holder falls silent ends, though no peer sends anything: the
\* health sampler's call is enough to expire it (expire_if_needed,
\* record_local_health).
LeaseEnds == \A l \in 1 .. MaxLeases : (active.id = l) ~> (active.id # l)
=============================================================================
