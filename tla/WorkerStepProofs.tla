-------------------------- MODULE WorkerStepProofs --------------------------
(***************************************************************************)
(* The worker's invariant, and its steps: the lease's commands, the health *)
(* sampler and the resource guard's requests, which start no buffer and no *)
(* job; then the requests of the two stores, and the end of a session.     *)
(***************************************************************************)
EXTENDS WorkerTableProofs

\* The solver that most steps need, with time to spare; the others name theirs.
USE SMTT(60)

(* The inductive invariant. *)

\* a running job is the one that holds the mutex
Scheduled ==
  /\ running \in Jobs \cup {NoJob}
  /\ \A j \in Jobs : jobs[j].state = "Running" <=> running = j

SessionOK ==
  /\ sessions \in Nat
  /\ session \in [id : Nat, peer : Peers \cup {NoPeer}, live : BOOLEAN]
  /\ session.id <= sessions
  /\ session.id # 0 => session.peer \in Peers

WorkerInv ==
  /\ LeaseInv
  /\ Consistent(guard.res, buffers, jobs)
  /\ Scheduled
  /\ SessionOK
  /\ NoneOutlives

-----------------------------------------------------------------------------
(* What a step does to the owners. *)

\* No buffer of bufs2 is live that was not live in the same record before.
NoneRevived(bufs2) ==
  \A b \in Buffers : LiveBuffer(bufs2[b]) => LiveBuffer(buffers[b]) /\ bufs2[b] = buffers[b]

\* A sweep, on the way of most handlers.
LEMMA SweepStep ==
  ASSUME WorkerInv, NEW lose \in SUBSET Buffers, NEW evict \in SUBSET Buffers,
         \A b \in evict \cup lose : LiveBuffer(buffers[b]),
         NEW jbs2, JobsLater(jobs, jbs2),
         \A j \in Jobs : jbs2[j].state = "Running" <=> jobs[j].state = "Running"
  PROVE  /\ Consistent(Returned(evict \cup lose, {}).res, Swept(evict, lose), jbs2)
         /\ NoneRevived(Swept(evict, lose))
         /\ \A b \in evict \cup lose : ~LiveBuffer(Swept(evict, lose)[b])
         /\ \A b \in Buffers : LiveBuffer(buffers[b]) /\ b \notin evict \cup lose
                                 => Swept(evict, lose)[b] = buffers[b]
<1>0. /\ now \in Nat /\ buffers \in [Buffers -> BufferRecords]
      /\ Consistent(guard.res, buffers, jobs)
  BY ZenonT(30) DEF WorkerInv, LeaseInv, LeaseTypeOK, Consistent, Typed
<1>1. /\ BuffersLater(buffers, Swept(evict, lose))
      /\ \A b \in Buffers :
           /\ LiveBuffer(Swept(evict, lose)[b]) <=> LiveBuffer(buffers[b]) /\ b \notin evict \cup lose
           /\ LiveBuffer(Swept(evict, lose)[b]) => Swept(evict, lose)[b] = buffers[b]
  BY <1>0, SweptLater
<1>2. Later(buffers, jobs, Swept(evict, lose), jbs2)
  BY ZenonT(30), <1>1 DEF Later
<1>3. Consistent(Returned(evict \cup lose, {}).res, Swept(evict, lose), jbs2)
  BY ZenonT(30), <1>0, <1>1, <1>2, ReturnedGives
<1>. QED  BY ZenonT(30), <1>1, <1>3 DEF NoneRevived

\* A step that leaves the jobs alone moves them on trivially.
LEMMA SameJobs ==
  ASSUME WorkerInv
  PROVE  JobsLater(jobs, jobs)
  BY ZenonT(30) DEF WorkerInv, Consistent, Typed, JobsLater

\* The end of a lease leaves no buffer of it live.
LEMMA LeaseEndedStep ==
  ASSUME WorkerInv, MutexFree, NEW l, LeaseEnded(l)
  PROVE  /\ Consistent(guard'.res, buffers', jobs')
         /\ NoneRevived(buffers')
         /\ \A b \in Buffers : LiveBuffer(buffers'[b]) => buffers[b].lease # l
         /\ \A j \in Jobs : jobs'[j].state # "Running"
<1> DEFINE evict == TimedOut \cup {b \in Buffers : LiveBuffer(buffers[b]) /\ buffers[b].lease = l}
<1>1. \A j \in Jobs : jobs[j].state # "Running"
  BY ZenonT(30), WorkerConstants DEF WorkerInv, Scheduled, MutexFree
<1>2. /\ buffers' = Swept(evict, {})
      /\ jobs' = JobsEnded({}, "Cancelled")
      /\ guard' = Returned(evict, {})
  BY <1>1, ZenonT(30) DEF LeaseEnded
<1>3. jobs' = jobs
  BY ZenonT(30), <1>2 DEF JobsEnded, WorkerInv, Consistent, Typed
<1>4. evict \in SUBSET Buffers /\ \A b \in evict \cup {} : LiveBuffer(buffers[b])
  BY ZenonT(30), TimedOutLive
<1>5. \A b \in Buffers : LiveBuffer(buffers[b]) /\ buffers[b].lease = l => b \in evict
  BY ZenonT(30)
<1> HIDE DEF evict
<1>6. JobsLater(jobs, jobs)
  BY ZenonT(30), SameJobs
<1>7. /\ Consistent(Returned(evict \cup {}, {}).res, Swept(evict, {}), jobs)
      /\ NoneRevived(Swept(evict, {}))
      /\ \A b \in evict \cup {} : ~LiveBuffer(Swept(evict, {})[b])
  BY ZenonT(30), <1>4, <1>6, SweepStep
<1>8. evict \cup {} = evict
  BY ZenonT(30)
<1>9. Consistent(guard'.res, buffers', jobs') /\ NoneRevived(buffers')
  BY ZenonT(30), <1>2, <1>3, <1>7, <1>8
<1>10. \A b \in Buffers : LiveBuffer(buffers'[b]) => buffers[b].lease # l
  BY ZenonT(30), <1>2, <1>5, <1>7, <1>8 DEF NoneRevived
<1>. QED  BY ZenonT(30), <1>1, <1>3, <1>9, <1>10

\* Reconciling leaves no buffer live when the lease has expired.
LEMMA ReconcileStep ==
  ASSUME WorkerInv, MutexFree, ReconcileStores
  PROVE  /\ Consistent(guard'.res, buffers', jobs')
         /\ NoneRevived(buffers')
         /\ LeaseExpired => \A b \in Buffers : ~LiveBuffer(buffers'[b])
         /\ \A j \in Jobs : jobs'[j].state # "Running"
<1>1. CASE LeaseExpired
  <2>1. LeaseEnded(active.id)
    BY ZenonT(30), <1>1 DEF ReconcileStores
  <2>2. /\ Consistent(guard'.res, buffers', jobs')
        /\ NoneRevived(buffers')
        /\ \A b \in Buffers : LiveBuffer(buffers'[b]) => buffers[b].lease # active.id
        /\ \A j \in Jobs : jobs'[j].state # "Running"
    BY ZenonT(30), <2>1, LeaseEndedStep
  <2>. QED  BY ZenonT(30), <2>2 DEF NoneRevived, WorkerInv, NoneOutlives
<1>2. CASE ~LeaseExpired
  <2>1. UNCHANGED storeVars
    BY ZenonT(30), <1>2 DEF ReconcileStores
  <2>. QED  BY ZenonT(30), <1>2, <2>1, WorkerConstants
            DEF storeVars, WorkerInv, Scheduled, MutexFree, NoneRevived
<1>. QED  BY ZenonT(30), <1>1, <1>2

-----------------------------------------------------------------------------
(* The actions. *)

\* An authorized request finds the lease in force and leaves it so.
LEMMA AuthorizedKeeps ==
  ASSUME Valid(session.peer, active.id), Reconcile
  PROVE  active' = active /\ now' = now /\ active.id # 0
  BY ZenonT(30) DEF Valid, Current, Reconcile, NoLease

\* Reconciled stores fit a lease that changed in any way but by a release.
LEMMA CommandReconciles ==
  ASSUME WorkerInv, MutexFree, ReconcileStores, session' = session,
         \/ active' = Current
         \/ AcquireFree(session.peer)
         \/ \E l, s : RenewExecutes(session.peer, l, s)
  PROVE  /\ Consistent(guard'.res, buffers', jobs')
         /\ \A j \in Jobs : jobs'[j].state # "Running"
         /\ NoneOutlives'
<1>0. LeaseInv /\ NoneOutlives
  BY ZenonT(30) DEF WorkerInv
<1>1. /\ Consistent(guard'.res, buffers', jobs')
      /\ NoneRevived(buffers')
      /\ LeaseExpired => \A b \in Buffers : ~LiveBuffer(buffers'[b])
      /\ \A j \in Jobs : jobs'[j].state # "Running"
  BY ZenonT(30), ReconcileStep
<1>2. ASSUME NEW b \in Buffers, LiveBuffer(buffers'[b])
      PROVE  /\ session'.id # 0 /\ buffers'[b].session = session'.id
             /\ active'.id # 0 /\ buffers'[b].lease = active'.id
  <2>1. /\ LiveBuffer(buffers[b]) /\ buffers'[b] = buffers[b]
        /\ active.id # 0 /\ Current = active
    BY ZenonT(30), <1>0, <1>1, <1>2 DEF NoneRevived, LeaseExpired, NoneOutlives, Current, NoLease
  <2>2. CASE active' = Current
    BY ZenonT(30), <1>0, <2>1, <2>2 DEF NoneOutlives
  <2>3. CASE AcquireFree(session.peer)
    BY ZenonT(30), <2>1, <2>3 DEF AcquireFree
  <2>4. ASSUME NEW l, NEW s, RenewExecutes(session.peer, l, s) PROVE active'.id = active.id
    <3>1. PICK until : active' = CompleteActive([Begun(Current) EXCEPT !.expires = until], s,
                            LeaseRef([Begun(Current) EXCEPT !.expires = until]))
      BY <2>4, ZenonT(30) DEF RenewExecutes
    <3>2. active'.id = Begun(Current).id
      BY ZenonT(30), <3>1, <2>1, <1>0
         DEF CompleteActive, Trim, Begun, LeaseInv, LeaseTypeOK, InRange, Leases
    <3>. QED  BY ZenonT(30), <3>2, <2>1, <1>0 DEF Begun, LeaseInv, LeaseTypeOK, InRange, Leases
  <2>. QED  BY ZenonT(30), <1>0, <2>1, <2>2, <2>3, <2>4 DEF NoneOutlives
<1>. QED  BY ZenonT(30), <1>1, <1>2 DEF NoneOutlives

\* ACQUIRE, RENEW and RELEASE, with the reconciliation around them, keep the stores
\* consistent (apply_controller_command in lib.rs).
LEMMA CommandKeeps ==
  ASSUME WorkerInv, ControllerCommand
  PROVE  /\ Consistent(guard'.res, buffers', jobs')
         /\ \A j \in Jobs : jobs'[j].state # "Running"
         /\ NoneOutlives'
<1>0. MutexFree /\ session' = session /\ LeaseInv /\ NoneOutlives
  BY ZenonT(30) DEF ControllerCommand, Handler, WorkerInv
<1> DEFINE Goal == /\ Consistent(guard'.res, buffers', jobs')
                   /\ \A j \in Jobs : jobs'[j].state # "Running"
                   /\ NoneOutlives'
<1>1. ASSUME ReconcileStores,
             \/ Acquire(session.peer)
             \/ \E l \in 1 .. granted, s \in 0 .. SeqLimit : Renew(session.peer, l, s)
             \/ Unsupported(0)
      PROVE  Goal
  <2>1. \/ active' = Current
        \/ AcquireFree(session.peer)
        \/ \E l, s : RenewExecutes(session.peer, l, s)
    BY ZenonT(30), <1>1 DEF Acquire, AcquireHeld, Renew, Refuse, Unsupported
  <2>. QED  BY ZenonT(30), <1>0, <1>1, <2>1, CommandReconciles
<1>2. ASSUME NEW l, NEW s, Refuse(session.peer, l, s), ReconcileStores PROVE Goal
  BY ZenonT(30), <1>0, <1>2, CommandReconciles DEF Refuse
<1>3. ASSUME NEW l, NEW s, LeaseEnded(l),
             \/ ReleaseExecutes(session.peer, l, s)
             \/ Refuse(session.peer, l, s) /\ reply'.outcome = "Completed"
      PROVE  Goal
  <2>1. /\ Consistent(guard'.res, buffers', jobs')
        /\ NoneRevived(buffers')
        /\ \A b \in Buffers : LiveBuffer(buffers'[b]) => buffers[b].lease # l
        /\ \A j \in Jobs : jobs'[j].state # "Running"
    BY ZenonT(30), <1>0, <1>3, LeaseEndedStep
  <2>2. ASSUME NEW b \in Buffers, LiveBuffer(buffers'[b])
        PROVE  /\ session'.id # 0 /\ buffers'[b].session = session'.id
               /\ active'.id # 0 /\ buffers'[b].lease = active'.id
    <3>1. /\ LiveBuffer(buffers[b]) /\ buffers'[b] = buffers[b]
          /\ active.id # 0 /\ active.id # l
      BY ZenonT(30), <1>0, <2>1, <2>2 DEF NoneRevived, NoneOutlives
    <3>2. ~Valid(session.peer, l)
      BY ZenonT(30), <3>1 DEF Valid, Current, NoLease
    <3>3. reply' = ReleasedAdmission(session.peer, l, s) /\ reply'.outcome = "Completed"
      BY ZenonT(30), <1>3, <3>2 DEF ReleaseExecutes, Refuse
    <3>4. released.id # 0
      BY ZenonT(30), <3>3 DEF ReleasedAdmission, Failed
    <3>. QED  BY ZenonT(30), <1>0, <3>1, <3>4 DEF LeaseInv, ReleaseAnswerKept
  <2>. QED  BY ZenonT(30), <2>1, <2>2 DEF NoneOutlives
<1>4. ASSUME NEW l, NEW s, ReleaseExecutes(session.peer, l, s)
      PROVE  reply'.outcome = "Completed" /\ reply'.ref = NoRef
  BY ZenonT(30), <1>4 DEF ReleaseExecutes, Completed
<1>. QED  BY ZenonT(30), <1>1, <1>2, <1>3, <1>4 DEF ControllerCommand, Release

\* The health sampler's call, which expires the lease and ticks the stores, keeps
\* them consistent (record_local_health).
LEMMA HealthTickKeeps ==
  ASSUME WorkerInv, HealthTick
  PROVE  /\ Consistent(guard'.res, buffers', jobs')
         /\ \A j \in Jobs : jobs'[j].state # "Running"
         /\ NoneOutlives'
<1> DEFINE ended == {b \in Buffers : /\ LiveBuffer(buffers[b])
                                     /\ LeaseExpired /\ buffers[b].lease = active.id}
           evict == TimedOut \cup ended
<1>0. MutexFree /\ session' = session /\ active' = Current /\ now \in Nat /\ NoneOutlives
  BY ZenonT(30) DEF HealthTick, Handler, Reconcile, WorkerInv, LeaseInv, LeaseTypeOK
<1>1. \A j \in Jobs : jobs[j].state # "Running"
  BY ZenonT(30), <1>0, WorkerConstants DEF WorkerInv, Scheduled, MutexFree
<1>2. /\ buffers' = Swept(evict, {})
      /\ jobs' = JobsEnded({}, "Cancelled")
      /\ guard' = GuardTick(Returned(evict, {}), now)
  BY <1>1, ZenonT(30) DEF HealthTick
<1>3. jobs' = jobs
  BY ZenonT(30), <1>2 DEF JobsEnded, WorkerInv, Consistent, Typed
<1>4. /\ evict \in SUBSET Buffers /\ \A b \in evict \cup {} : LiveBuffer(buffers[b])
      /\ evict \cup {} = evict
  BY ZenonT(30), TimedOutLive
<1>5. \A b \in Buffers : LiveBuffer(buffers[b]) /\ LeaseExpired => b \in evict
  BY ZenonT(30), <1>0 DEF NoneOutlives
<1> HIDE DEF evict
<1>6. /\ Consistent(Returned(evict \cup {}, {}).res, Swept(evict, {}), jobs)
      /\ NoneRevived(Swept(evict, {}))
      /\ \A b \in evict \cup {} : ~LiveBuffer(Swept(evict, {})[b])
  BY <1>4, SameJobs, SweepStep, ZenonT(30)
<1>7. Consistent(guard'.res, buffers', jobs')
  BY ZenonT(30), <1>0, <1>2, <1>3, <1>4, <1>6, CheckedStep
<1>8. NoneOutlives'
  BY ZenonT(30), <1>0, <1>2, <1>4, <1>5, <1>6 DEF NoneOutlives, NoneRevived, LeaseExpired, Current, NoLease
<1>. QED  BY ZenonT(30), <1>1, <1>3, <1>7, <1>8

\* What the handlers of an authorized request start from.
LEMMA AuthorizedFrom ==
  ASSUME WorkerInv, MutexFree, Valid(session.peer, active.id), Reconcile
  PROVE  /\ active' = active /\ active.id # 0 /\ active.id \in Nat /\ now \in Nat
         /\ \A j \in Jobs : jobs[j].state # "Running"
         /\ Consistent(guard.res, buffers, jobs)
<1>1. active' = active /\ active.id # 0
  BY ZenonT(30), AuthorizedKeeps
<1>2. active.id \in Nat /\ now \in Nat
  BY ZenonT(30) DEF WorkerInv, LeaseInv, LeaseTypeOK, InRange, Leases
<1>3. \A j \in Jobs : jobs[j].state # "Running"
  BY ZenonT(30), WorkerConstants DEF WorkerInv, Scheduled, MutexFree
<1>. QED  BY ZenonT(30), <1>1, <1>2, <1>3 DEF WorkerInv

\* RESERVE, COMMIT and RELEASE consume nothing and release nothing consumed.
LEMMA ResourceKeeps ==
  ASSUME WorkerInv, ResourceRequest,
         \/ \E i \in Ids :
              \/ \E class \in {"Buffer", "Scratch"}, bytes \in Sizes : Reserve(i, class, bytes)
              \/ Commit(i) \/ CommitUnsafe(i) \/ ReleaseReservation(i)
         \/ ResourceRefused
  PROVE  Consistent(guard'.res, buffers', jobs')
<1>0. /\ active.id \in Nat /\ now \in Nat /\ Consistent(guard.res, buffers, jobs)
      /\ UNCHANGED <<buffers, jobs>>
  BY ZenonT(30), AuthorizedFrom DEF ResourceRequest, Authorized, Handler
<1>1. Consistent(Checked.res, buffers, jobs)
  BY ZenonT(30), <1>0, CheckedStep DEF Checked
<1>2. Checked.res \in [Ids -> ReservationRecords]
  BY ZenonT(30), <1>1 DEF Consistent, Typed
<1>3. ASSUME NEW i \in Ids, NEW r \in ReservationRecords,
             Checked.res[i].state \in Pending \cup {"Unused"},
             r.state # "Consumed", guard'.res = [Checked.res EXCEPT ![i] = r]
      PROVE  Consistent(guard'.res, buffers, jobs)
  <2>1. guard'.res \in [Ids -> ReservationRecords]
    BY ZenonT(30), <1>2, <1>3
  <2>2. \A k \in Ids : /\ Checked.res[k].state = "Consumed" => guard'.res[k] = Checked.res[k]
                       /\ Checked.res[k].state # "Consumed" => guard'.res[k].state # "Consumed"
                       /\ Checked.res[k].state \in SpentStates => guard'.res[k].state \in SpentStates
    BY ZenonT(30), <1>2, <1>3 DEF Pending, SpentStates
  <2>. QED  BY ZenonT(30), <1>1, <2>1, <2>2, GuardStep
<1>4. ASSUME NEW i \in Ids, NEW class \in {"Buffer", "Scratch"}, NEW bytes \in Sizes,
             Reserve(i, class, bytes)
      PROVE  Consistent(guard'.res, buffers, jobs)
  <2> DEFINE r == [state |-> "Reserved", lease |-> active.id, req |-> 0, class |-> class,
                   bytes |-> bytes, expires |-> now + ReservationTtl, at |-> 0]
  <2>1. r \in ReservationRecords /\ r.state = "Reserved"
    BY <1>0, WorkerConstants, ReservationConstants
       DEF ReservationRecords, ReservationStates, Live, Pending
  <2>2. guard'.res = [Checked.res EXCEPT ![i] = r] /\ Checked.res[i].state = "Unused"
    BY ZenonT(30), <1>4 DEF Reserve, Insert
  <2> HIDE DEF r
  <2>. QED  BY ZenonT(30), <2>1, <2>2, <1>3
<1>5. ASSUME NEW i \in Ids, Commit(i) PROVE Consistent(guard'.res, buffers, jobs)
  <2>1. /\ InState(Checked.res[i], "Committed", 0) \in ReservationRecords
        /\ InState(Checked.res[i], "Committed", 0).state = "Committed"
    BY ZenonT(30), <1>2 DEF InState, ReservationRecords, ReservationStates, Live, Pending
  <2>2. /\ guard'.res = [Checked.res EXCEPT ![i] = InState(Checked.res[i], "Committed", 0)]
        /\ Checked.res[i].state \in Pending
    BY ZenonT(30), <1>5 DEF Commit, SetState
  <2>. QED  BY ZenonT(30), <2>1, <2>2, <1>3
<1>6. ASSUME NEW i \in Ids, NEW state \in {"RefusedSafety", "Released"},
             Checked.res[i].state \in Pending, guard' = Finish(Checked, {i}, state, now)
      PROVE  Consistent(guard'.res, buffers, jobs)
  <2>1. /\ InState(Checked.res[i], state, now) \in ReservationRecords
        /\ InState(Checked.res[i], state, now).state = state
    BY ZenonT(30), <1>0, <1>2 DEF InState, ReservationRecords, ReservationStates, Ended
  <2>2. guard'.res = [Checked.res EXCEPT ![i] = InState(Checked.res[i], state, now)]
    BY ZenonT(30), <1>2, <1>6 DEF Finish
  <2>. QED  BY ZenonT(30), <2>1, <2>2, <1>3, <1>6
<1>7. \A i \in Ids : /\ CommitUnsafe(i) => Consistent(guard'.res, buffers, jobs)
                     /\ ReleaseReservation(i) => Consistent(guard'.res, buffers, jobs)
  BY <1>6, ZenonT(30) DEF CommitUnsafe, ReleaseReservation, Pending
<1>8. ResourceRefused => Consistent(guard'.res, buffers, jobs)
  BY ZenonT(30), <1>1 DEF ResourceRefused
<1>. QED  BY ZenonT(30), <1>0, <1>4, <1>5, <1>7, <1>8

-----------------------------------------------------------------------------
(* The requests of the buffer store and of the compute store, and the end  *)
(* of a session: the tables stay consistent, and no live buffer outlives   *)
(* its session or its lease.                                               *)

\* A sweep, and then one live buffer gets another record: PUT, TOUCH and FREE.
LEMMA ReplaceStep ==
  ASSUME WorkerInv, NEW b \in Buffers, LiveBuffer(buffers[b]), b \notin TimedOut,
         NEW r \in BufferRecords, r.res = buffers[b].res, r.state # "Unused",
         r.lease = buffers[b].lease, r.session = buffers[b].session, r.size = buffers[b].size,
         NEW ended, ended = IF LiveBuffer(r) THEN TimedOut ELSE TimedOut \cup {b}
  PROVE  /\ Consistent(Returned(ended, {}).res, [Swept(TimedOut, {}) EXCEPT ![b] = r], jobs)
         /\ \A c \in Buffers : LiveBuffer([Swept(TimedOut, {}) EXCEPT ![b] = r][c]) =>
              /\ LiveBuffer(buffers[c])
              /\ [Swept(TimedOut, {}) EXCEPT ![b] = r][c].lease = buffers[c].lease
              /\ [Swept(TimedOut, {}) EXCEPT ![b] = r][c].session = buffers[c].session
<1> DEFINE sw == Swept(TimedOut, {})
           bufs2 == [sw EXCEPT ![b] = r]
<1>0. /\ now \in Nat /\ buffers \in [Buffers -> BufferRecords]
      /\ Consistent(guard.res, buffers, jobs)
  BY ZenonT(30) DEF WorkerInv, LeaseInv, LeaseTypeOK, Consistent, Typed
<1>1. /\ BuffersLater(buffers, sw)
      /\ \A c \in Buffers : /\ LiveBuffer(sw[c]) <=> LiveBuffer(buffers[c]) /\ c \notin TimedOut
                            /\ LiveBuffer(sw[c]) => sw[c] = buffers[c]
  BY <1>0, TimedOutLive, SweptLater, ZenonT(30)
<1> HIDE DEF sw
<1>2. sw \in [Buffers -> BufferRecords] /\ bufs2 \in [Buffers -> BufferRecords]
  BY ZenonT(30), <1>1 DEF BuffersLater
<1>3. bufs2[b] = r /\ \A c \in Buffers \ {b} : bufs2[c] = sw[c]
  BY ZenonT(30), <1>2
<1> HIDE DEF bufs2
<1>4. BuffersLater(buffers, bufs2)
  <2>1. ASSUME NEW c \in Buffers
        PROVE  /\ bufs2[c].res = buffers[c].res
               /\ bufs2[c].state = "Unused" <=> buffers[c].state = "Unused"
               /\ LiveBuffer(bufs2[c]) => LiveBuffer(buffers[c]) /\ bufs2[c].size = buffers[c].size
    <3>1. CASE c = b
      BY ZenonT(30), <1>3, <3>1 DEF LiveBuffer
    <3>2. CASE c # b
      BY ZenonT(120), <1>1, <1>3, <3>2 DEF BuffersLater
    <3>. QED  BY ZenonT(30), <3>1, <3>2
  <2>. QED  BY ZenonT(30), <1>2, <2>1 DEF BuffersLater
<1>5. \A c \in Buffers : LiveBuffer(bufs2[c]) <=> LiveBuffer(buffers[c]) /\ c \notin ended
  BY ZenonT(30), <1>1, <1>3
<1>6. ended \in SUBSET Buffers /\ \A c \in ended : LiveBuffer(buffers[c])
  BY ZenonT(30), TimedOutLive
<1>7. Later(buffers, jobs, bufs2, jobs)
  BY ZenonT(30), <1>4, SameJobs DEF Later
<1>8. Consistent(Returned(ended, {}).res, bufs2, jobs)
  BY ZenonT(30), <1>0, <1>5, <1>6, <1>7, ReturnedGives
<1>9. \A c \in Buffers : LiveBuffer(bufs2[c]) =>
        /\ LiveBuffer(buffers[c])
        /\ bufs2[c].lease = buffers[c].lease /\ bufs2[c].session = buffers[c].session
  BY ZenonT(30), <1>1, <1>3
<1>. QED  BY ZenonT(30), <1>8, <1>9 DEF bufs2, sw

\* GET, STAT, PUT, TOUCH and FREE keep the stores consistent.
LEMMA BufferKeeps ==
  ASSUME WorkerInv, BufferRequest, NEW b \in Buffers,
         BufferAccess(b) \/ PutCompletes(b) \/ Touch(b) \/ Free(b)
  PROVE  Consistent(guard'.res, buffers', jobs') /\ NoneOutlives'
<1>0. /\ active' = active /\ active.id # 0 /\ now \in Nat /\ session' = session /\ jobs' = jobs
      /\ NoneOutlives /\ buffers[b] \in BufferRecords
      /\ Consistent(guard.res, buffers, jobs)
  BY ZenonT(30), AuthorizedFrom DEF BufferRequest, Authorized, Handler, WorkerInv, Consistent, Typed
<1>1. ASSUME \A c \in Buffers : LiveBuffer(buffers'[c]) =>
               /\ LiveBuffer(buffers[c])
               /\ buffers'[c].lease = buffers[c].lease /\ buffers'[c].session = buffers[c].session
      PROVE  NoneOutlives'
  BY ZenonT(30), <1>0, <1>1 DEF NoneOutlives
<1>2. ASSUME NEW lose \in SUBSET Buffers, \A c \in lose : LiveBuffer(buffers[c])
      PROVE  /\ Consistent(Returned(TimedOut \cup lose, {}).res, Swept(TimedOut, lose), jobs)
             /\ NoneRevived(Swept(TimedOut, lose))
  BY <1>2, TimedOutLive, SameJobs, SweepStep, ZenonT(30)
<1>3. CASE BufferAccess(b)
  <2>1. PICK lose \in {{}, Foreign(b)} :
               buffers' = Swept(TimedOut, lose) /\ guard' = Returned(TimedOut \cup lose, {})
    BY ZenonT(30), <1>3 DEF BufferAccess
  <2>2. lose \in SUBSET Buffers /\ \A c \in lose : LiveBuffer(buffers[c])
    BY ZenonT(30) DEF Foreign
  <2>3. /\ Consistent(Returned(TimedOut \cup lose, {}).res, Swept(TimedOut, lose), jobs)
        /\ NoneRevived(Swept(TimedOut, lose))
    BY ZenonT(30), <1>2, <2>2
  <2>. QED  BY ZenonT(30), <1>0, <1>1, <2>1, <2>3 DEF NoneRevived
<1>5. CASE PutCompletes(b)
  <2> DEFINE r == [buffers[b] EXCEPT !.state = "Ready"]
  <2>1. /\ r \in BufferRecords /\ r.res = buffers[b].res /\ r.state = "Ready"
        /\ r.lease = buffers[b].lease /\ r.session = buffers[b].session /\ r.size = buffers[b].size
    BY ZenonT(30), <1>0 DEF BufferRecords
  <2>2. /\ buffers' = [Swept(TimedOut, {}) EXCEPT ![b] = r] /\ guard' = Returned(TimedOut, {})
        /\ LiveBuffer(buffers[b]) /\ b \notin TimedOut
    BY ZenonT(30), <1>5 DEF PutCompletes, LiveBuffer
  <2> HIDE DEF r
  <2>3. LiveBuffer(r)
    BY ZenonT(30), <2>1 DEF LiveBuffer
  <2>. QED  BY ZenonT(30), <1>0, <1>1, <2>1, <2>2, <2>3, ReplaceStep
<1>6. CASE Touch(b)
  <2>1. PICK e \in Nat : /\ buffers' = [Swept(TimedOut, {}) EXCEPT ![b] = [buffers[b] EXCEPT !.expires = e]]
                         /\ guard' = Returned(TimedOut, {})
                         /\ LiveBuffer(buffers[b]) /\ b \notin TimedOut
    <3>1. now + BufferTtl \in Nat /\ buffers[b].created + BufferLifetime \in Nat
      <4>1. now \in Nat /\ buffers[b].created \in Nat
        BY <1>0, ZenonT(30) DEF BufferRecords
      <4>2. BufferTtl \in Nat /\ BufferLifetime \in Nat
        BY WorkerConstants, ZenonT(30)
      <4>. QED  BY <4>1, <4>2
    <3>. QED  BY ZenonT(30), <1>6, <3>1 DEF Touch
  <2> DEFINE r == [buffers[b] EXCEPT !.expires = e]
  <2>2. /\ r \in BufferRecords /\ r.res = buffers[b].res /\ r.state = buffers[b].state
        /\ r.lease = buffers[b].lease /\ r.session = buffers[b].session /\ r.size = buffers[b].size
    BY ZenonT(30), <1>0 DEF BufferRecords
  <2>3. buffers' = [Swept(TimedOut, {}) EXCEPT ![b] = r]
    BY ZenonT(30), <2>1
  <2> HIDE DEF r
  <2>4. LiveBuffer(r) /\ r.state # "Unused"
    BY ZenonT(30), <2>1, <2>2 DEF LiveBuffer
  <2>. QED  BY <1>0, <1>1, <2>1, <2>2, <2>3, <2>4, ReplaceStep
<1>7. CASE Free(b)
  <2> DEFINE r == Terminal(buffers[b], "Freed")
  <2>1. /\ r \in BufferRecords /\ r.res = buffers[b].res /\ r.state = "Freed"
        /\ r.lease = buffers[b].lease /\ r.session = buffers[b].session /\ r.size = buffers[b].size
    BY ZenonT(30), <1>0 DEF Terminal, BufferRecords
  <2>2. /\ buffers' = [Swept(TimedOut, {}) EXCEPT ![b] = r]
        /\ guard' = Returned(TimedOut \cup {b}, {})
        /\ LiveBuffer(buffers[b]) /\ b \notin TimedOut
    BY ZenonT(30), <1>7 DEF Free
  <2> HIDE DEF r
  <2>3. ~LiveBuffer(r)
    BY ZenonT(30), <2>1 DEF LiveBuffer
  <2>. QED  BY ZenonT(30), <1>0, <1>1, <2>1, <2>2, <2>3, ReplaceStep
<1>. QED  BY ZenonT(30), <1>3, <1>5, <1>6, <1>7

\* The buffers swept, the guard's own expiry after it, the jobs purged or not.
LEMMA SweptChecked ==
  ASSUME WorkerInv, NEW jbs2 \in {jobs, PurgedJobs}
  PROVE  /\ Consistent(Returned(TimedOut, {}).res, Swept(TimedOut, {}), jbs2)
         /\ Consistent(CheckedAfterSweep.res, Swept(TimedOut, {}), jbs2)
<1>0. now \in Nat /\ jobs \in [Jobs -> JobRecords]
  BY ZenonT(30) DEF WorkerInv, LeaseInv, LeaseTypeOK, Consistent, Typed
<1>1. /\ JobsLater(jobs, jbs2)
      /\ \A j \in Jobs : jbs2[j].state = "Running" <=> jobs[j].state = "Running"
  BY ZenonT(30), <1>0, SameJobs, PurgedLater
<1>2. TimedOut \cup {} = TimedOut /\ {} \in SUBSET Buffers
  BY ZenonT(30)
<1>3. Consistent(Returned(TimedOut \cup {}, {}).res, Swept(TimedOut, {}), jbs2)
  BY <1>1, <1>2, TimedOutLive, SweepStep, ZenonT(30)
<1>4. Consistent(Returned(TimedOut, {}).res, Swept(TimedOut, {}), jbs2)
  BY ZenonT(30), <1>2, <1>3
<1>. QED  BY ZenonT(30), <1>0, <1>4, CheckedStep DEF CheckedAfterSweep

\* Sweeping revives no buffer.
LEMMA SweptNoneRevived ==
  ASSUME WorkerInv
  PROVE  /\ NoneRevived(Swept(TimedOut, {}))
         /\ \A b \in Buffers : buffers[b].state = "Unused" => Swept(TimedOut, {})[b] = buffers[b]
<1>1. now \in Nat /\ buffers \in [Buffers -> BufferRecords]
  BY ZenonT(30) DEF WorkerInv, LeaseInv, LeaseTypeOK, Consistent, Typed
<1>2. /\ {} \in SUBSET Buffers /\ TimedOut \in SUBSET Buffers
      /\ \A b \in TimedOut \cup {} : LiveBuffer(buffers[b])
  BY ZenonT(30), TimedOutLive
<1>3. \A b \in Buffers :
        /\ LiveBuffer(Swept(TimedOut, {})[b]) <=>
             LiveBuffer(buffers[b]) /\ b \notin TimedOut \cup {}
        /\ LiveBuffer(Swept(TimedOut, {})[b]) => Swept(TimedOut, {})[b] = buffers[b]
        /\ buffers[b].state = "Unused" => Swept(TimedOut, {})[b] = buffers[b]
  BY <1>1, <1>2, SweptLater
<1>. QED  BY <1>3, ZenonT(30) DEF NoneRevived

\* ALLOC consumes a reservation for a buffer that was never used (alloc).
LEMMA AllocKeeps ==
  ASSUME WorkerInv, NEW b \in Buffers, NEW i \in Ids, Alloc(b, i)
  PROVE  Consistent(guard'.res, buffers', jobs') /\ NoneOutlives'
<1> DEFINE swept == Swept(TimedOut, {})
           new == [state |-> "Allocated", lease |-> active.id, session |-> session.id, res |-> i,
                   size |-> CheckedAfterSweep.res[i].bytes, created |-> now,
                   expires |-> now + BufferTtl, at |-> 0]
<1>0. /\ active' = active /\ active.id # 0 /\ active.id \in Nat /\ now \in Nat
      /\ session' = session /\ session.id # 0 /\ session.id \in Nat /\ jobs' = jobs /\ NoneOutlives
  BY ZenonT(30), AuthorizedFrom DEF Alloc, BufferRequest, Authorized, Handler, WorkerInv, SessionOK
<1>1. /\ Consumable(CheckedAfterSweep, i, active.id, "Buffer")
      /\ buffers[b].state = "Unused"
      /\ guard' = SetState(CheckedAfterSweep, i, "Consumed")
      /\ buffers' = [swept EXCEPT ![b] = new]
  BY ZenonT(30) DEF Alloc
<1>2. Consistent(CheckedAfterSweep.res, swept, jobs)
  BY ZenonT(30), SweptChecked
<1>3. new \in BufferRecords
  <2>1. CheckedAfterSweep.res[i].bytes \in Nat
    BY ZenonT(30), <1>2 DEF Consistent, Typed, ReservationRecords
  <2>2. BufferTtl \in Nat
    BY WorkerConstants, ZenonT(30)
  <2>3. now + BufferTtl \in Nat /\ i \in Ids \cup {NoId} /\ 0 \in Nat
    BY <1>0, <2>2
  <2>4. active.id \in Nat /\ session.id \in Nat /\ now \in Nat
    BY <1>0, ZenonT(30)
  <2>. QED  BY <2>1, <2>3, <2>4, ZenonT(30) DEF BufferRecords
<1>4. /\ new.state = "Allocated" /\ new.res = i /\ new.size = CheckedAfterSweep.res[i].bytes
      /\ new.lease = active.id /\ new.session = session.id
  BY ZenonT(30)
<1>5. NoneRevived(swept) /\ swept[b].state = "Unused" /\ swept \in [Buffers -> BufferRecords]
  BY ZenonT(30), <1>1, <1>2, SweptNoneRevived DEF Consistent, Typed
<1> HIDE DEF new, swept
<1>6. guard'.res = [CheckedAfterSweep.res EXCEPT
                      ![i] = InState(CheckedAfterSweep.res[i], "Consumed", 0)]
  BY ZenonT(30), <1>1 DEF SetState
<1>7. Consistent(guard'.res, buffers', jobs')
  <2>1. CheckedAfterSweep.res[i].state = "Committed" /\ CheckedAfterSweep.res[i].class = "Buffer"
    BY ZenonT(30), <1>1 DEF Consumable
  <2>2. Consistent([CheckedAfterSweep.res EXCEPT
                      ![i] = InState(CheckedAfterSweep.res[i], "Consumed", 0)],
                   [swept EXCEPT ![b] = new], jobs)
    BY <1>2, <1>3, <1>4, <1>5, <2>1, BufferTakes, ZenonT(30)
  <2>. QED  BY ZenonT(30), <1>0, <1>1, <1>6, <2>2
<1>8. ASSUME NEW c \in Buffers, LiveBuffer(buffers'[c])
      PROVE  /\ session'.id # 0 /\ buffers'[c].session = session'.id
             /\ active'.id # 0 /\ buffers'[c].lease = active'.id
  <2>1. CASE c = b
    BY ZenonT(30), <1>0, <1>1, <1>4, <1>5, <2>1
  <2>2. CASE c # b
    <3>1. buffers'[c] = swept[c]
      BY ZenonT(30), <1>1, <1>5, <2>2
    <3>. QED  BY ZenonT(30), <1>0, <1>5, <1>8, <3>1 DEF NoneRevived, NoneOutlives
  <2>. QED  BY ZenonT(30), <2>1, <2>2
<1>. QED  BY ZenonT(30), <1>7, <1>8 DEF NoneOutlives

\* Requests that only sweep, a refused ALLOC or SUBMIT, STATUS and CANCEL, keep the
\* stores consistent.
LEMMA SweepingKeeps ==
  ASSUME WorkerInv, AllocRefused \/ ComputeLookup \/ \E b \in Buffers : SubmitRefused(b)
  PROVE  /\ Consistent(guard'.res, buffers', jobs') /\ NoneOutlives'
         /\ \A j \in Jobs : jobs'[j].state # "Running"
<1>0. /\ active' = active /\ session' = session /\ NoneOutlives
      /\ \A j \in Jobs : jobs[j].state # "Running"
      /\ jobs \in [Jobs -> JobRecords]
  BY AuthorizedFrom, ZenonT(30) DEF AllocRefused, ComputeLookup, SubmitRefused, BufferRequest, Authorized,
                        Handler, WorkerInv, Consistent, Typed
<1>s. \A b \in Buffers : Stale(b) = {}
  BY ZenonT(30), <1>0 DEF Stale, Foreign, NoneOutlives
<1>t. ASSUME NEW b \in Buffers, SubmitRefused(b)
      PROVE  /\ jobs' = PurgedJobs /\ buffers' = Swept(TimedOut, {})
             /\ guard' \in {Returned(TimedOut, {}), CheckedAfterSweep}
  <2>1. Stale(b) = {} /\ TimedOut \cup Stale(b) = TimedOut
    BY ZenonT(30), <1>s
  <2>. QED  BY ZenonT(30), <1>t, <2>1 DEF SubmitRefused
<1>1. /\ jobs' \in {jobs, PurgedJobs}
      /\ buffers' \in {buffers, Swept(TimedOut, {})}
  BY ZenonT(30), <1>t DEF AllocRefused, ComputeLookup, BufferRequest
<1>2. Consistent(guard'.res, buffers', jobs')
  <2>1. CASE AllocRefused \/ \E b \in Buffers : SubmitRefused(b)
    <3>1. /\ buffers' = Swept(TimedOut, {})
          /\ guard' \in {Returned(TimedOut, {}), CheckedAfterSweep}
      BY ZenonT(30), <1>t, <2>1 DEF AllocRefused
    <3>. QED  BY ZenonT(30), <1>1, <3>1, SweptChecked
  <2>2. CASE ComputeLookup
    <3>1. guard' = guard /\ buffers' = buffers /\ jobs' = PurgedJobs
      BY ZenonT(30), <2>2 DEF ComputeLookup
    <3>2. Later(buffers, jobs, buffers, PurgedJobs)
      BY ZenonT(30), <1>0, PurgedLater DEF Later, BuffersLater, WorkerInv, Consistent, Typed
    <3>3. \A i \in Ids : guard.res[i].state = "Consumed" => HasOwner(buffers, PurgedJobs, i)
      BY ZenonT(120), <1>0, PurgedLater DEF WorkerInv, Consistent, Held, HasOwner
    <3>4. guard.res \in [Ids -> ReservationRecords] /\ Consistent(guard.res, buffers, jobs)
      BY ZenonT(30) DEF WorkerInv, Consistent, Typed
    <3>5. Consistent(guard.res, buffers, PurgedJobs)
      BY ZenonT(30), <3>2, <3>3, <3>4, OwnersEnd
    <3>. QED  BY ZenonT(30), <3>1, <3>5
  <2>. QED  BY ZenonT(30), <2>1, <2>2
<1>3. \A j \in Jobs : jobs'[j].state # "Running"
  BY ZenonT(30), <1>0, <1>1, PurgedLater
<1>4. NoneRevived(buffers')
  BY ZenonT(30), <1>1, SweptNoneRevived DEF NoneRevived
<1>5. NoneOutlives'
  BY ZenonT(30), <1>0, <1>4 DEF NoneOutlives, NoneRevived
<1>. QED  BY ZenonT(30), <1>2, <1>3, <1>5

\* An admitted SUBMIT consumes its reservation for the job it starts.
LEMMA SubmitBeginKeeps ==
  ASSUME WorkerInv, NEW j \in Jobs, NEW b \in Buffers, NEW i \in Ids, SubmitBegin(j, b, i)
  PROVE  Consistent(guard'.res, buffers', jobs') /\ NoneOutlives' /\ Scheduled'
<1> DEFINE new == [state |-> "Running", lease |-> active.id, session |-> session.id, res |-> i,
                   size |-> CheckedAfterSweep.res[i].bytes, started |-> now, at |-> 0]
<1>0. /\ active' = active /\ active.id \in Nat /\ now \in Nat
      /\ session' = session /\ session.id \in Nat /\ NoneOutlives
      /\ \A k \in Jobs : jobs[k].state # "Running"
      /\ jobs \in [Jobs -> JobRecords]
  BY AuthorizedFrom, ZenonT(30) DEF SubmitBegin, WorkerInv, SessionOK, Consistent, Typed
<1>1. /\ Consumable(CheckedAfterSweep, i, active.id, "Scratch")
      /\ jobs[j].state = "Unused"
      /\ guard' = SetState(CheckedAfterSweep, i, "Consumed")
      /\ buffers' = Swept(TimedOut, {})
      /\ jobs' = [PurgedJobs EXCEPT ![j] = new]
      /\ running' = j
  BY ZenonT(30) DEF SubmitBegin
<1>2. Consistent(CheckedAfterSweep.res, Swept(TimedOut, {}), PurgedJobs)
  BY ZenonT(30), SweptChecked
<1>3. new \in JobRecords
  <2>1. CheckedAfterSweep.res[i].bytes \in Nat
    BY ZenonT(30), <1>2 DEF Consistent, Typed, ReservationRecords
  <2>. QED  BY ZenonT(30), <1>0, <2>1 DEF JobRecords
<1>4. new.state = "Running" /\ new.res = i /\ new.size = CheckedAfterSweep.res[i].bytes
  BY ZenonT(30)
<1> HIDE DEF new
<1>5. /\ PurgedJobs[j].state = "Unused" /\ PurgedJobs \in [Jobs -> JobRecords]
      /\ \A k \in Jobs : PurgedJobs[k].state # "Running"
  BY ZenonT(30), <1>0, <1>1, PurgedLater DEF JobsLater
<1>6. Consistent(guard'.res, buffers', jobs')
  <2>1. CheckedAfterSweep.res[i].state = "Committed" /\ CheckedAfterSweep.res[i].class = "Scratch"
    BY ZenonT(30), <1>1 DEF Consumable
  <2>2. Consistent([CheckedAfterSweep.res EXCEPT
                      ![i] = InState(CheckedAfterSweep.res[i], "Consumed", 0)],
                   Swept(TimedOut, {}), [PurgedJobs EXCEPT ![j] = new])
    BY <1>2, <1>3, <1>4, <1>5, <2>1, JobTakes, ZenonT(30)
  <2>3. guard'.res = [CheckedAfterSweep.res EXCEPT
                        ![i] = InState(CheckedAfterSweep.res[i], "Consumed", 0)]
    BY ZenonT(30), <1>1 DEF SetState
  <2>. QED  BY ZenonT(30), <1>1, <2>2, <2>3
<1>7. NoneOutlives'
  BY ZenonT(30), <1>0, <1>1, SweptNoneRevived DEF NoneOutlives, NoneRevived
<1>8. Scheduled'
  BY ZenonT(30), <1>1, <1>4, <1>5 DEF Scheduled
<1>. QED  BY ZenonT(30), <1>6, <1>7, <1>8, SMTT(30)

\* The job that ends gives its reservation back (terminalize).
LEMMA SubmitEndKeeps ==
  ASSUME WorkerInv, NEW j \in Jobs, NEW outcome \in {"Completed", "Failed"}, SubmitEnd(j, outcome)
  PROVE  /\ Consistent(guard'.res, buffers', jobs')
         /\ NoneOutlives'
         /\ Scheduled'
<1>0. /\ now \in Nat /\ jobs \in [Jobs -> JobRecords] /\ Consistent(guard.res, buffers, jobs)
      /\ NoneOutlives /\ Scheduled
  BY ZenonT(30) DEF WorkerInv, LeaseInv, LeaseTypeOK, Consistent, Typed
<1>1. /\ jobs' = JobsEnded({j}, outcome) /\ guard' = Returned({}, {j})
      /\ running = j /\ running' = NoJob
      /\ active' = active /\ buffers' = buffers /\ session' = session
  BY ZenonT(30) DEF SubmitEnd, leaseVars
<1>2. {j} \in SUBSET Jobs /\ \A k \in {j} : jobs[k].state = "Running"
  BY ZenonT(30), <1>0, <1>1 DEF Scheduled
<1>3. /\ JobsLater(jobs, JobsEnded({j}, outcome))
      /\ \A k \in Jobs : JobsEnded({j}, outcome)[k].state = "Running" <=>
                           jobs[k].state = "Running" /\ k \notin {j}
  <2>1. outcome \in {"Completed", "Failed", "Cancelled"}
    BY ZenonT(30)
  <2>2. now \in Nat /\ jobs \in [Jobs -> JobRecords]
    BY <1>0, ZenonT(30)
  <2>. QED  BY <2>2, <1>2, <2>1, JobsEndedLater
<1>4. Later(buffers, jobs, buffers, JobsEnded({j}, outcome))
  BY ZenonT(30), <1>0, <1>3 DEF Later, BuffersLater, Consistent, Typed
<1>5. Consistent(Returned({}, {j}).res, buffers, JobsEnded({j}, outcome))
  BY <1>0, <1>2, <1>3, <1>4, ReturnedGives, ZenonT(30)
<1>6. NoneOutlives'
  BY ZenonT(30), <1>0, <1>1 DEF NoneOutlives
<1>7. Scheduled'
  BY <1>0, <1>1, <1>3, WorkerConstants, ZenonT(30) DEF Scheduled
<1>. QED  BY ZenonT(30), <1>1, <1>5, <1>6, <1>7

\* The end of a session takes its buffers with it (authenticated_session_ended).
LEMMA SessionEndedKeeps ==
  ASSUME WorkerInv, SessionEnded
  PROVE  /\ Consistent(guard'.res, buffers', jobs')
         /\ NoneOutlives'
         /\ \A j \in Jobs : jobs'[j].state # "Running"
<1> DEFINE lost == {b \in Buffers : LiveBuffer(buffers[b]) /\ buffers[b].session = session.id}
<1>0. NoneOutlives /\ Consistent(guard.res, buffers, jobs) /\ jobs \in [Jobs -> JobRecords]
  BY ZenonT(30) DEF WorkerInv, Consistent, Typed
<1>1. \A j \in Jobs : jobs[j].state # "Running"
  BY ZenonT(30), WorkerConstants DEF SessionEnded, WorkerInv, Scheduled, MutexFree
<1>2. /\ buffers' = Swept(TimedOut, lost)
      /\ jobs' = JobsEnded({}, "Failed")
      /\ guard' = Returned(TimedOut \cup lost, {})
  BY <1>1, ZenonT(30) DEF SessionEnded
<1>3. jobs' = jobs
  BY ZenonT(30), <1>0, <1>2 DEF JobsEnded
<1>4. lost \in SUBSET Buffers /\ \A b \in TimedOut \cup lost : LiveBuffer(buffers[b])
  BY ZenonT(30), TimedOutLive
<1>5. \A b \in Buffers : LiveBuffer(buffers[b]) => b \in lost
  BY ZenonT(30), <1>0 DEF NoneOutlives
<1> HIDE DEF lost
<1>6. /\ Consistent(Returned(TimedOut \cup lost, {}).res, Swept(TimedOut, lost), jobs)
      /\ NoneRevived(Swept(TimedOut, lost))
      /\ \A b \in TimedOut \cup lost : ~LiveBuffer(Swept(TimedOut, lost)[b])
  BY <1>4, TimedOutLive, SameJobs, SweepStep, ZenonT(30)
<1>7. \A b \in Buffers : ~LiveBuffer(buffers'[b])
  BY ZenonT(30), <1>2, <1>5, <1>6 DEF NoneRevived
<1>8. NoneOutlives'
  BY ZenonT(30), <1>7 DEF NoneOutlives
<1>. QED  BY ZenonT(30), <1>1, <1>2, <1>3, <1>6, <1>8
=============================================================================
