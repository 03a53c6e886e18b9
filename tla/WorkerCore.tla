------------------------------ MODULE WorkerCore ------------------------------
(***************************************************************************)
(* The worker: the controller lease (C07), the reservations (C08), the     *)
(* remote buffers (C09), the compute jobs (C10) and the authenticated      *)
(* session that uses them, pb-worker-core/src/{lib,remote_buffer,compute}  *)
(* .rs, called from android/core-jni under one mutex.                      *)
(*                                                                         *)
(* A committed reservation is taken over (consumed) by one buffer or one   *)
(* job, which gives it back when it ends.  A buffer ends when it is freed, *)
(* times out, when its lease ends or when its session ends.                *)
(*                                                                         *)
(* A handler is one action, but for SUBMIT: BLAKE3 runs inside the handler *)
(* with the mutex held, while time passes and the transport may be lost.   *)
(* `running' is the job being computed; as long as there is one, no other  *)
(* handler runs.                                                           *)
(*                                                                         *)
(* Left out here: the idempotence tables of C08 and C10 (a hit changes     *)
(* nothing, a miss is what is modelled here; ResourceGuard models those of *)
(* C08), the classification of health (any RESERVE or COMMIT may find the  *)
(* worker unsafe), and the bytes of a buffer (any PUT may be the one that  *)
(* completes it).  One behaviour is one worker incarnation: nothing is     *)
(* persisted, and a request that names another incarnation is refused      *)
(* before anything but the lease's expiry is looked at.                    *)
(***************************************************************************)
EXTENDS ControllerLease, Reservations

CONSTANTS
  Ids,                 \* reservation identifiers
  Buffers,             \* buffer identifiers
  Jobs,                \* job identifiers
  Sizes,               \* sizes in bytes
  BufferTtl,           \* DEFAULT_BUFFER_TTL_MS, in ticks
  BufferLifetime,      \* MAX_BUFFER_LIFETIME_MS, in ticks
  TombstoneRetention,  \* TOMBSTONE_RETENTION_MS, COMPUTE_TERMINAL_RETENTION_MS
  MaxBuffers,          \* MAX_BUFFERS_PER_LEASE
  MaxHeld,             \* MAX_REMOTE_BUFFER_BYTES
  ProviderTimeout,     \* PROVIDER_TIMEOUT_MS, in ticks
  MaxSessions,         \* bound: sessions in a behaviour
  NoId, NoJob          \* no reservation, no job

ASSUME WorkerConstants ==
  /\ NoId \notin Ids
  /\ NoJob \notin Jobs
  /\ Sizes \subseteq Nat \ {0}
  /\ BufferTtl \in Nat \ {0} /\ BufferLifetime \in Nat \ {0} /\ TombstoneRetention \in Nat
  /\ MaxBuffers \in Nat /\ MaxHeld \in Nat /\ ProviderTimeout \in Nat /\ MaxSessions \in Nat

VARIABLES
  guard,     \* the reservations, [res, alloc]
  buffers,   \* the remote buffers
  jobs,      \* the compute jobs
  running,   \* the job whose SUBMIT handler holds the mutex
  session,   \* the authenticated session: [id, peer, live]
  sessions   \* sessions so far

storeVars == <<guard, buffers, jobs>>

workerVars == <<leaseVars, storeVars, running, session, sessions>>

NoSession == [id |-> 0, peer |-> NoPeer, live |-> FALSE]

\* a buffer or a job that is not in its map: not yet, or no more (which reservation
\* it had is kept for the properties only)
AbsentBuffer(state, res) ==
  [state |-> state, lease |-> 0, session |-> 0, res |-> res, size |-> 0,
   created |-> 0, expires |-> 0, at |-> 0]

AbsentJob(state, res) ==
  [state |-> state, lease |-> 0, session |-> 0, res |-> res, size |-> 0, started |-> 0, at |-> 0]

\* BufferState, ComputeJobState: whether the record still owns its reservation
LiveBuffer(b) == b.state \in {"Allocated", "Ready"}

EndedBuffer(b) == b.state \in {"Freed", "Evicted", "Lost"}

EndedJob(j) == j.state \in {"Completed", "Failed", "Cancelled"}

-----------------------------------------------------------------------------
(* What a handler may do to the stores on its way. *)

\* RemoteBufferStore::expire_and_purge, first loop: the buffers past their deadline
TimedOut == {b \in Buffers : LiveBuffer(buffers[b]) /\ now >= buffers[b].expires}

\* terminalize; the time of creation is not read again
Terminal(b, state) ==
  [state |-> state, lease |-> b.lease, session |-> b.session, res |-> b.res, size |-> b.size,
   created |-> 0, expires |-> now, at |-> now]

\* finish_record
FinishRecord(j, state) ==
  [state |-> state, lease |-> j.lease, session |-> j.session, res |-> j.res, size |-> j.size,
   started |-> j.started, at |-> now]

\* the jobs once those in `set' ended
JobsEnded(set, state) ==
  [j \in Jobs |-> IF j \in set THEN FinishRecord(jobs[j], state) ELSE jobs[j]]

\* the buffers once those in `evict' were evicted, those in `lose' lost and old
\* tombstones removed (terminalize, expire_and_purge)
Swept(evict, lose) ==
  [b \in Buffers |->
     CASE b \in evict                         -> Terminal(buffers[b], "Evicted")
       [] b \in lose \ evict                  -> Terminal(buffers[b], "Lost")
       [] /\ b \notin evict \cup lose
          /\ EndedBuffer(buffers[b])
          /\ now - buffers[b].at > TombstoneRetention -> AbsentBuffer("Dropped", buffers[b].res)
       [] OTHER                               -> buffers[b]]

BufferClaims(set) ==
  {[id |-> buffers[b].res, class |-> "Buffer", bytes |-> buffers[b].size] : b \in set}

JobClaims(set) ==
  {[id |-> jobs[j].res, class |-> "Scratch", bytes |-> jobs[j].size] : j \in set}

\* the guard once these buffers and jobs gave their reservations back
Returned(bufferSet, jobSet) ==
  ReleaseConsumed(guard, BufferClaims(bufferSet) \cup JobClaims(jobSet), now)

\* ComputeJobStore::purge
PurgedJobs ==
  [j \in Jobs |-> IF EndedJob(jobs[j]) /\ now - jobs[j].at > TombstoneRetention
                  THEN AbsentJob("Dropped", jobs[j].res) ELSE jobs[j]]

\* lease_ended in both stores
LeaseEnded(l) ==
  LET evict == TimedOut \cup {b \in Buffers : LiveBuffer(buffers[b]) /\ buffers[b].lease = l}
      cancel == {j \in Jobs : jobs[j].state = "Running" /\ jobs[j].lease = l}
  IN  /\ buffers' = Swept(evict, {})
      /\ jobs' = JobsEnded(cancel, "Cancelled")
      /\ guard' = Returned(evict, cancel)

\* expire_if_needed finds the lease past its deadline
LeaseExpired == active.id # 0 /\ Current.id = 0

\* the effect of reconcile_expired_controller_lease on the stores
ReconcileStores == IF LeaseExpired THEN LeaseEnded(active.id) ELSE UNCHANGED storeVars

-----------------------------------------------------------------------------
(* Handlers.  All need the mutex. *)

MutexFree == running = NoJob

\* a handler that leaves the sessions alone
Handler == MutexFree /\ UNCHANGED <<running, session, sessions>>

\* validate succeeds: the session's peer holds the lease.  There is nothing to
\* reconcile then
Authorized ==
  /\ Handler
  /\ session.id # 0
  /\ Valid(session.peer, active.id)
  /\ Reconcile

\* apply_controller_command
ControllerCommand ==
  /\ Handler
  /\ session.id # 0
  /\ \/ /\ \/ Acquire(session.peer)
           \/ \E l \in 1 .. granted, s \in 0 .. SeqLimit : Renew(session.peer, l, s)
           \/ Unsupported(0)
        /\ ReconcileStores
     \/ \E l \in 1 .. granted, s \in 0 .. SeqLimit :
          /\ Release(session.peer, l, s)
          /\ IF reply'.outcome = "Completed" /\ reply'.ref = NoRef
             THEN LeaseEnded(l) ELSE ReconcileStores

\* heartbeat_payload, and any request that names a wrong incarnation or lease
Unauthorized == Handler /\ session.id # 0 /\ Reconcile /\ ReconcileStores

\* record_local_health.  The buffers that time out give their reservations back
\* after the guard's own tick in the code; the two commute.
HealthTick ==
  /\ Handler
  /\ Reconcile
  /\ LET ended == {b \in Buffers : /\ LiveBuffer(buffers[b])
                                   /\ LeaseExpired /\ buffers[b].lease = active.id}
         cancel == {j \in Jobs : /\ jobs[j].state = "Running"
                                 /\ LeaseExpired /\ jobs[j].lease = active.id}
     IN  /\ buffers' = Swept(TimedOut \cup ended, {})
         /\ jobs' = JobsEnded(cancel, "Cancelled")
         /\ guard' = GuardTick(Returned(TimedOut \cup ended, cancel), now)

-----------------------------------------------------------------------------
(* C08, apply_resource_request. *)

Checked == ExpireAndPurge(guard, active.id, now)

ResourceRequest == Authorized /\ UNCHANGED <<buffers, jobs>>

Reserve(i, class, bytes) ==
  /\ ResourceRequest
  /\ Checked.res[i].state = "Unused"
  /\ now + ReservationTtl <= Horizon
  /\ guard' = Insert(Checked, i, active.id, 0, class, bytes, now)

\* refused, unknown, or answered without a change
ResourceRefused == ResourceRequest /\ guard' = Checked

Commit(i) ==
  /\ ResourceRequest
  /\ Checked.res[i].state \in Pending
  /\ guard' = SetState(Checked, i, "Committed")

CommitUnsafe(i) ==
  /\ ResourceRequest
  /\ Checked.res[i].state = "Reserved"
  /\ guard' = Finish(Checked, {i}, "RefusedSafety", now)

ReleaseReservation(i) ==
  /\ ResourceRequest
  /\ Checked.res[i].state \in Pending
  /\ guard' = Finish(Checked, {i}, "Released", now)

-----------------------------------------------------------------------------
(* C09, apply_remote_buffer_request.  RemoteBufferStore::apply sweeps first. *)

BufferRequest == Authorized /\ UNCHANGED jobs

Owns(b) == buffers[b].lease = active.id /\ buffers[b].session = session.id

\* a live buffer of another session, which authorized_record_mut ends when it
\* is named
Foreign(b) == {b} \cap {c \in Buffers : LiveBuffer(buffers[c])
                                       /\ buffers[c].session # session.id}

\* the quotas of alloc, on the swept buffers
WithinQuota(size) ==
  LET left == {b \in Buffers : LiveBuffer(buffers[b])} \ TimedOut
  IN  /\ Cardinality({b \in left : buffers[b].lease = active.id}) < MaxBuffers
      /\ SumOf([b \in left |-> buffers[b].size], left) + size <= MaxHeld

\* the guard when alloc has looked the reservation up
CheckedAfterSweep == ExpireAndPurge(Returned(TimedOut, {}), active.id, now)

\* (mutant) ALLOC does not consume the reservation
Alloc_Unconsumed(b, i) ==
  LET size == CheckedAfterSweep.res[i].bytes
  IN  /\ BufferRequest
      /\ Consumable(CheckedAfterSweep, i, active.id, "Buffer")
      /\ WithinQuota(size)
      /\ buffers[b].state = "Unused"
      /\ now + BufferLifetime <= Horizon
      /\ guard' = CheckedAfterSweep
      /\ buffers' = [Swept(TimedOut, {}) EXCEPT ![b] =
            [state |-> "Allocated", lease |-> active.id, session |-> session.id, res |-> i,
             size |-> size, created |-> now, expires |-> now + BufferTtl, at |-> 0]]

\* alloc: the size asked for must be the size reserved
Alloc(b, i) ==
  LET size == CheckedAfterSweep.res[i].bytes
  IN  /\ BufferRequest
      /\ Consumable(CheckedAfterSweep, i, active.id, "Buffer")
      /\ WithinQuota(size)
      /\ buffers[b].state = "Unused"
      /\ now + BufferLifetime <= Horizon
      /\ guard' = SetState(CheckedAfterSweep, i, "Consumed")
      /\ buffers' = [Swept(TimedOut, {}) EXCEPT ![b] =
            [state |-> "Allocated", lease |-> active.id, session |-> session.id, res |-> i,
             size |-> size, created |-> now, expires |-> now + BufferTtl, at |-> 0]]

\* no such reservation, or no memory for the backing
AllocRefused ==
  /\ BufferRequest
  /\ buffers' = Swept(TimedOut, {})
  /\ guard' = CheckedAfterSweep

\* a request that only reads, or is refused: PUT and GET end a live buffer of
\* another session, STAT, TOUCH and FREE leave it alone
BufferAccess(b) ==
  /\ BufferRequest
  /\ \E lose \in {{}, Foreign(b)} :
       /\ buffers' = Swept(TimedOut, lose)
       /\ guard' = Returned(TimedOut \cup lose, {})

\* PUT writes the last missing bytes
PutCompletes(b) ==
  /\ BufferRequest
  /\ Owns(b) /\ buffers[b].state = "Allocated" /\ b \notin TimedOut
  /\ buffers' = [Swept(TimedOut, {}) EXCEPT ![b] = [buffers[b] EXCEPT !.state = "Ready"]]
  /\ guard' = Returned(TimedOut, {})

\* (mutant) the deadline is not capped by the lifetime
Touch_Uncapped(b) ==
  /\ BufferRequest
  /\ Owns(b) /\ LiveBuffer(buffers[b]) /\ b \notin TimedOut
  /\ buffers' = [Swept(TimedOut, {}) EXCEPT ![b] =
       [buffers[b] EXCEPT !.expires = now + BufferTtl]]
  /\ guard' = Returned(TimedOut, {})

Touch(b) ==
  /\ BufferRequest
  /\ Owns(b) /\ LiveBuffer(buffers[b]) /\ b \notin TimedOut
  /\ LET cap == buffers[b].created + BufferLifetime
     IN  buffers' = [Swept(TimedOut, {}) EXCEPT ![b] =
           [buffers[b] EXCEPT !.expires =
              IF now + BufferTtl <= cap THEN now + BufferTtl ELSE cap]]
  /\ guard' = Returned(TimedOut, {})

Free(b) ==
  /\ BufferRequest
  /\ Owns(b) /\ LiveBuffer(buffers[b]) /\ b \notin TimedOut
  /\ buffers' = [Swept(TimedOut, {}) EXCEPT ![b] = Terminal(buffers[b], "Freed")]
  /\ guard' = Returned(TimedOut \cup {b}, {})

-----------------------------------------------------------------------------
(* C10, apply_compute_request.  Since the mutex is held while a job runs, no  *)
(* CANCEL, lease end or session end ever finds one running: a CANCEL only     *)
(* looks jobs up.                                                             *)

\* STATUS, CANCEL, and a SUBMIT that is refused before its input is looked at
ComputeLookup ==
  /\ Authorized
  /\ jobs' = PurgedJobs
  /\ UNCHANGED <<guard, buffers>>

Input(b) == Owns(b) /\ buffers[b].state = "Ready" /\ b \notin TimedOut

\* a live buffer of this lease and another session, which validate_compute_input
\* ends when it is named
Stale(b) == {c \in Foreign(b) : buffers[c].lease = active.id}

\* the input is refused, or accepted and the reservation refused
SubmitRefused(b) ==
  /\ Authorized
  /\ jobs' = PurgedJobs
  /\ buffers' = Swept(TimedOut, Stale(b))
  /\ \/ guard' = Returned(TimedOut \cup Stale(b), {})
     \/ Input(b) /\ guard' = CheckedAfterSweep

\* the job is published; BLAKE3 starts with the mutex held
SubmitBegin(j, b, i) ==
  /\ MutexFree
  /\ session.id # 0
  /\ Valid(session.peer, active.id)
  /\ Reconcile
  /\ Input(b)
  /\ Consumable(CheckedAfterSweep, i, active.id, "Scratch")
  /\ jobs[j].state = "Unused"
  /\ buffers' = Swept(TimedOut, {})
  /\ guard' = SetState(CheckedAfterSweep, i, "Consumed")
  /\ jobs' = [PurgedJobs EXCEPT ![j] =
       [state |-> "Running", lease |-> active.id, session |-> session.id, res |-> i,
        size |-> CheckedAfterSweep.res[i].bytes, started |-> now, at |-> 0]]
  /\ running' = j
  /\ UNCHANGED <<session, sessions>>

\* (mutant) the scratch of a job that failed is kept
SubmitEnd_FailedKeeps(j, outcome) ==
  /\ running = j
  /\ IF now - jobs[j].started > ProviderTimeout THEN outcome = "Failed"
     ELSE outcome = "Completed" \/ (outcome = "Failed" /\ ~session.live)
  /\ jobs' = JobsEnded({j}, outcome)
  /\ guard' = IF outcome = "Completed" THEN Returned({}, {j}) ELSE guard
  /\ running' = NoJob
  /\ UNCHANGED <<leaseVars, buffers, session, sessions>>

\* blake3_digest_bounded returns and the job is terminalized.  The transport may
\* be lost after the last look at it.
SubmitEnd(j, outcome) ==
  /\ running = j
  /\ IF now - jobs[j].started > ProviderTimeout THEN outcome = "Failed"
     ELSE outcome = "Completed" \/ (outcome = "Failed" /\ ~session.live)
  /\ jobs' = JobsEnded({j}, outcome)
  /\ guard' = Returned({}, {j})
  /\ running' = NoJob
  /\ UNCHANGED <<leaseVars, buffers, session, sessions>>

-----------------------------------------------------------------------------
(* Sessions: one at a time (pb-runtime-secure). *)

Connect(p) ==
  /\ session.id = 0
  /\ sessions < MaxSessions
  /\ session' = [id |-> sessions + 1, peer |-> p, live |-> TRUE]
  /\ sessions' = sessions + 1
  /\ UNCHANGED <<leaseVars, storeVars, running>>

\* the transport is lost; a handler may be running or waiting for the mutex
Revoke ==
  /\ session.live
  /\ session' = [session EXCEPT !.live = FALSE]
  /\ UNCHANGED <<leaseVars, storeVars, running, sessions>>

\* (mutant) buffers survive their session
SessionEnded_BuffersKept ==
  /\ MutexFree
  /\ session.id # 0
  /\ session' = NoSession
  /\ UNCHANGED <<leaseVars, storeVars, running, sessions>>

\* authenticated_session_ended, before another session may begin
SessionEnded ==
  /\ MutexFree
  /\ session.id # 0
  /\ LET lost == {b \in Buffers : LiveBuffer(buffers[b]) /\ buffers[b].session = session.id}
         fail == {j \in Jobs : jobs[j].state = "Running" /\ jobs[j].session = session.id}
     IN  /\ buffers' = Swept(TimedOut, lost)
         /\ jobs' = JobsEnded(fail, "Failed")
         /\ guard' = Returned(TimedOut \cup lost, fail)
  /\ session' = NoSession
  /\ UNCHANGED <<leaseVars, running, sessions>>

-----------------------------------------------------------------------------
WorkerInit ==
  /\ LeaseInit
  /\ guard = [res |-> [i \in Ids |-> Unused], alloc |-> 0]
  /\ buffers = [b \in Buffers |-> AbsentBuffer("Unused", NoId)]
  /\ jobs = [j \in Jobs |-> AbsentJob("Unused", NoId)]
  /\ running = NoJob
  /\ session = NoSession
  /\ sessions = 0

\* time passes, in a running job too
WorkerTick == Tick /\ UNCHANGED <<storeVars, running, session, sessions>>

Compute == \E j \in Jobs : \E outcome \in {"Completed", "Failed"} : SubmitEnd(j, outcome)

WorkerNext ==
  \/ ControllerCommand
  \/ Unauthorized
  \/ HealthTick
  \/ \E i \in Ids :
       \/ \E class \in {"Buffer", "Scratch"}, bytes \in Sizes : Reserve(i, class, bytes)
       \/ Commit(i)
       \/ CommitUnsafe(i)
       \/ ReleaseReservation(i)
  \/ ResourceRefused
  \/ \E b \in Buffers :
       \/ \E i \in Ids : Alloc(b, i)
       \/ BufferAccess(b)
       \/ PutCompletes(b)
       \/ Touch(b)
       \/ Free(b)
  \/ AllocRefused
  \/ ComputeLookup
  \/ \E b \in Buffers : SubmitRefused(b)
  \/ \E j \in Jobs, b \in Buffers, i \in Ids : SubmitBegin(j, b, i)
  \/ Compute
  \/ \E p \in Peers : Connect(p)
  \/ Revoke
  \/ SessionEnded
  \/ WorkerTick

\* Time passes, the health sampler calls in again and again, BLAKE3 terminates.
WorkerSpec ==
  /\ WorkerInit
  /\ [][WorkerNext]_workerVars
  /\ WF_workerVars(WorkerTick)
  /\ WF_workerVars(HealthTick)
  /\ WF_workerVars(Compute)

-----------------------------------------------------------------------------
(* Properties. *)

OwnedBy(b, i) == LiveBuffer(buffers[b]) /\ buffers[b].res = i

RunBy(j, i) == jobs[j].state = "Running" /\ jobs[j].res = i

ReservationStates == {"Unused", "Dropped"} \cup Live \cup Ended

\* Types.  Only the job whose handler holds the mutex is running.
WorkerTypeOK ==
  /\ LeaseTypeOK
  /\ DOMAIN guard.res = Ids
  /\ \A i \in Ids : guard.res[i].state \in ReservationStates
  /\ \A b \in Buffers :
       /\ buffers[b].state \in {"Unused", "Dropped", "Allocated", "Ready", "Freed", "Evicted", "Lost"}
       /\ buffers[b].state = "Unused" <=> buffers[b].res = NoId
       /\ buffers[b].res \in Ids \cup {NoId}
  /\ \A j \in Jobs :
       /\ jobs[j].state \in {"Unused", "Dropped", "Running", "Completed", "Failed", "Cancelled"}
       /\ jobs[j].state = "Unused" <=> jobs[j].res = NoId
       /\ jobs[j].res \in Ids \cup {NoId}
       /\ jobs[j].state = "Running" <=> running = j
  /\ running \in Jobs \cup {NoJob}
  /\ session.id <= sessions

\* A consumed reservation has an owner, a live buffer of its class and size or
\* the running job, and an owner's reservation is consumed: no path ends an owner
\* without giving the reservation back, or gives it back under a live owner
\* (alloc, terminalize, finish_record, release_consumed).
ConsumedIffOwned ==
  /\ \A i \in Ids : guard.res[i].state = "Consumed" =>
       (\E b \in Buffers : OwnedBy(b, i)) \/ (\E j \in Jobs : RunBy(j, i))
  /\ \A b \in Buffers, i \in Ids : OwnedBy(b, i) =>
       /\ guard.res[i].state = "Consumed" /\ guard.res[i].class = "Buffer"
       /\ guard.res[i].bytes = buffers[b].size
  /\ \A j \in Jobs, i \in Ids : RunBy(j, i) =>
       /\ guard.res[i].state = "Consumed" /\ guard.res[i].class = "Scratch"
       /\ guard.res[i].bytes = jobs[j].size

\* A reservation backs at most one buffer or job, ever: after the record was
\* forgotten, too, no repeated ALLOC or SUBMIT takes it again (consume).
BacksOnce ==
  /\ \A b, c \in Buffers : buffers[b].res = buffers[c].res /\ buffers[b].res # NoId => b = c
  /\ \A j, k \in Jobs : jobs[j].res = jobs[k].res /\ jobs[j].res # NoId => j = k
  /\ \A b \in Buffers, j \in Jobs : buffers[b].res = jobs[j].res => buffers[b].res = NoId

\* A live buffer belongs to the session there is and to the lease that was not
\* yet found expired: none outlives its session or its lease
\* (authenticated_session_ended, reconcile_expired_controller_lease).
NoneOutlives ==
  \A b \in Buffers : LiveBuffer(buffers[b]) =>
    /\ session.id # 0 /\ buffers[b].session = session.id
    /\ active.id # 0 /\ buffers[b].lease = active.id

\* allocated_bytes is what the live reservations hold, whichever of the stores
\* released or took them over (release_allocation).
BudgetExact == guard.alloc = SumBytes(guard.res, {i \in Ids : guard.res[i].state \in Live})

\* What has ended stays ended: a buffer that was freed, evicted or lost never holds
\* memory again, a reservation that ended or was removed from its map never holds
\* budget again, and one that was consumed is never again open to ALLOC or SUBMIT
\* (terminalize, commit, consume).
EndedForGood ==
  [][ /\ \A b \in Buffers : EndedBuffer(buffers[b]) \/ buffers[b].state = "Dropped"
                             => ~LiveBuffer(buffers'[b])
      /\ \A i \in Ids :
           /\ guard.res[i].state \in Ended \cup {"Dropped"} => guard'.res[i].state \notin Live
           /\ guard.res[i].state = "Consumed" => guard'.res[i].state \notin Pending
    ]_workerVars

\* Nothing is held for ever, though the host and the transport fall silent: a buffer
\* ends however often it is touched, and a reservation that is not committed gives its
\* bytes back.  The health sampler's call is enough (touch, tick, expire_reserved).
HoldingsEnd ==
  /\ \A b \in Buffers : LiveBuffer(buffers[b]) ~> ~LiveBuffer(buffers[b])
  /\ \A i \in Ids : (guard.res[i].state = "Reserved") ~> (guard.res[i].state # "Reserved")
=============================================================================
