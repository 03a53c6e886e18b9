-------------------------- MODULE WorkerCoreProofs --------------------------
(***************************************************************************)
(* Who owns a consumed reservation, for any number of peers, reservations, *)
(* buffers, jobs and sessions, any sizes, limits and timeouts: the invariant *)
(* of WorkerStepProofs is inductive.  The lease's own invariant is taken from *)
(* WorkerPartProofs, since every step of the worker is one of the lease. *)
(***************************************************************************)
EXTENDS WorkerStepProofs, WorkerPartProofs

\* The solver that most steps need, with time to spare; the others name theirs.
USE SMTT(60)

\* The inductive invariant holds after a cold start.
LEMMA WorkerInvInit == WorkerInit => WorkerInv
<1> SUFFICES ASSUME WorkerInit PROVE WorkerInv
  BY ZenonT(30)
<1>1. LeaseInv
  BY ZenonT(30), LeaseInvInit DEF WorkerInit
<1>2. /\ \A b \in Buffers : /\ buffers[b] \in BufferRecords
                            /\ buffers[b].state = "Unused" /\ buffers[b].res = NoId
      /\ \A j \in Jobs : /\ jobs[j] \in JobRecords
                         /\ jobs[j].state = "Unused" /\ jobs[j].res = NoId
      /\ \A i \in Ids : guard.res[i] \in ReservationRecords /\ guard.res[i].state = "Unused"
  BY ZenonT(30) DEF WorkerInit, AbsentBuffer, AbsentJob, Unused, BufferRecords, JobRecords,
         ReservationRecords, ReservationStates
<1>3. /\ guard.res \in [Ids -> ReservationRecords]
      /\ buffers \in [Buffers -> BufferRecords] /\ jobs \in [Jobs -> JobRecords]
  BY ZenonT(30), <1>2 DEF WorkerInit
<1>4. Consistent(guard.res, buffers, jobs)
  BY ZenonT(30), <1>2, <1>3 DEF Consistent, Typed, Held, Once, Spent, LiveBuffer
<1>5. Scheduled
  BY ZenonT(30), <1>2, WorkerConstants DEF WorkerInit, Scheduled
<1>6. SessionOK
  BY DEF WorkerInit, SessionOK, NoSession
<1>7. NoneOutlives
  BY ZenonT(30), <1>2 DEF NoneOutlives, LiveBuffer
<1>. QED  BY ZenonT(30), <1>1, <1>4, <1>5, <1>6, <1>7 DEF WorkerInv

\* Every step of the worker is a step of the lease, or leaves the lease alone.
LEMMA WorkerLeaseStep == WorkerInv /\ [WorkerNext]_workerVars => [LeaseNext]_leaseVars
<1> SUFFICES ASSUME WorkerInv, [WorkerNext]_workerVars PROVE [LeaseNext]_leaseVars
  BY ZenonT(30)
<1>1. ASSUME Reconcile PROVE LeaseNext
  BY ZenonT(30), <1>1 DEF LeaseNext
<1>2. ASSUME ControllerCommand PROVE LeaseNext
  <2>1. session.peer \in Peers /\ 0 \in 0 .. SeqLimit
    BY <1>2, LeaseConstants DEF ControllerCommand, WorkerInv, SessionOK
  <2>. QED  BY ZenonT(30), <1>2, <2>1 DEF ControllerCommand, LeaseNext, LeaseCommand
<1>3. ASSUME UNCHANGED leaseVars PROVE [LeaseNext]_leaseVars
  BY ZenonT(30), <1>3
<1>4. ASSUME WorkerTick PROVE LeaseNext
  BY ZenonT(30), <1>4 DEF WorkerTick, LeaseNext
<1>5. ASSUME Compute \/ (\E p \in Peers : Connect(p)) \/ Revoke \/ SessionEnded
      PROVE  UNCHANGED leaseVars
  BY <1>5, ZenonT(30) DEF Compute, SubmitEnd, Connect, Revoke, SessionEnded
<1>6. ASSUME Unauthorized \/ HealthTick \/ Authorized PROVE Reconcile
  BY ZenonT(30), <1>6 DEF Unauthorized, HealthTick, Authorized
<1>7. ASSUME NEW j \in Jobs, NEW b \in Buffers, NEW i \in Ids, SubmitBegin(j, b, i) PROVE Reconcile
  BY ZenonT(30), <1>7 DEF SubmitBegin
<1>8. ASSUME \/ \E i \in Ids :
                  \/ \E class \in {"Buffer", "Scratch"}, bytes \in Sizes : Reserve(i, class, bytes)
                  \/ Commit(i) \/ CommitUnsafe(i) \/ ReleaseReservation(i)
             \/ ResourceRefused
      PROVE  Authorized
  BY <1>8, ZenonT(30) DEF Reserve, Commit, CommitUnsafe, ReleaseReservation, ResourceRefused, ResourceRequest
<1>9. ASSUME \/ \E b \in Buffers :
                  \/ \E i \in Ids : Alloc(b, i)
                  \/ BufferAccess(b) \/ PutCompletes(b) \/ Touch(b) \/ Free(b)
             \/ AllocRefused \/ ComputeLookup \/ \E b \in Buffers : SubmitRefused(b)
      PROVE  Authorized
  BY <1>9, ZenonT(30) DEF Alloc, BufferAccess, PutCompletes, Touch, Free, AllocRefused, BufferRequest,
              ComputeLookup, SubmitRefused
<1>10. ASSUME UNCHANGED workerVars PROVE UNCHANGED leaseVars
  BY ZenonT(30), <1>10 DEF workerVars
<1>. QED  BY ZenonT(30), <1>1, <1>2, <1>3, <1>4, <1>5, <1>6, <1>7, <1>8, <1>9, <1>10 DEF WorkerNext

-----------------------------------------------------------------------------
(* The invariant is inductive. *)

\* A handler that leaves the session and the mutex alone, and no job running.
LEMMA HandlerKeeps ==
  ASSUME WorkerInv, LeaseInv', Handler,
         Consistent(guard'.res, buffers', jobs'), NoneOutlives',
         \A j \in Jobs : jobs'[j].state # "Running"
  PROVE  WorkerInv'
<1>1. UNCHANGED <<running, session, sessions>> /\ running = NoJob
  BY ZenonT(30) DEF Handler, MutexFree
<1>2. Scheduled'
  BY ZenonT(30), <1>1, WorkerConstants DEF Scheduled
<1>3. SessionOK'
  BY ZenonT(30), <1>1 DEF WorkerInv, SessionOK
<1>. QED  BY ZenonT(30), <1>2, <1>3 DEF WorkerInv

\* Every step of the worker keeps the inductive invariant.
LEMMA WorkerInvStep == WorkerInv /\ [WorkerNext]_workerVars => WorkerInv'
<1> SUFFICES ASSUME WorkerInv, [WorkerNext]_workerVars PROVE WorkerInv'
  BY ZenonT(30)
<1>1. LeaseInv'
  BY ZenonT(30), WorkerLeaseStep, LeaseInvStep DEF WorkerInv
<1>2. CASE ControllerCommand
  BY ZenonT(30), <1>1, <1>2, CommandKeeps, HandlerKeeps DEF ControllerCommand
<1>3. CASE Unauthorized
  <2>1. /\ Consistent(guard'.res, buffers', jobs') /\ NoneOutlives'
        /\ \A j \in Jobs : jobs'[j].state # "Running"
    BY ZenonT(30), <1>3, CommandReconciles DEF Unauthorized, Handler, Reconcile
  <2>. QED  BY ZenonT(30), <1>1, <1>3, <2>1, HandlerKeeps DEF Unauthorized
<1>4. CASE HealthTick
  BY ZenonT(30), <1>1, <1>4, HealthTickKeeps, HandlerKeeps DEF HealthTick
<1>5. ASSUME \/ \E i \in Ids :
                  \/ \E class \in {"Buffer", "Scratch"}, bytes \in Sizes : Reserve(i, class, bytes)
                  \/ Commit(i) \/ CommitUnsafe(i) \/ ReleaseReservation(i)
             \/ ResourceRefused
      PROVE  WorkerInv'
  <2>1. ResourceRequest
    BY <1>5, ZenonT(30) DEF Reserve, Commit, CommitUnsafe, ReleaseReservation, ResourceRefused
  <2>2. Consistent(guard'.res, buffers', jobs')
    BY ZenonT(30), <1>5, <2>1, ResourceKeeps
  <2>3. /\ active' = active /\ session' = session /\ buffers' = buffers /\ jobs' = jobs /\ Handler
        /\ \A j \in Jobs : jobs[j].state # "Running"
    BY ZenonT(30), <2>1, AuthorizedFrom DEF ResourceRequest, Authorized, Handler
  <2>4. NoneOutlives'
    BY ZenonT(30), <2>3 DEF WorkerInv, NoneOutlives
  <2>. QED  BY ZenonT(30), <1>1, <2>2, <2>3, <2>4, HandlerKeeps
<1>6. ASSUME NEW b \in Buffers,
             \/ \E i \in Ids : Alloc(b, i)
             \/ BufferAccess(b) \/ PutCompletes(b) \/ Touch(b) \/ Free(b)
      PROVE  WorkerInv'
  <2>1. BufferRequest
    BY ZenonT(30), <1>6 DEF Alloc, BufferAccess, PutCompletes, Touch, Free
  <2>2. Consistent(guard'.res, buffers', jobs') /\ NoneOutlives'
    BY ZenonT(30), <1>6, <2>1, AllocKeeps, BufferKeeps
  <2>3. jobs' = jobs /\ Handler /\ \A j \in Jobs : jobs[j].state # "Running"
    BY ZenonT(30), <2>1, AuthorizedFrom DEF BufferRequest, Authorized, Handler
  <2>. QED  BY ZenonT(30), <1>1, <2>2, <2>3, HandlerKeeps
<1>7. CASE AllocRefused \/ ComputeLookup \/ \E b \in Buffers : SubmitRefused(b)
  <2>1. Handler
    BY <1>7, ZenonT(30) DEF AllocRefused, ComputeLookup, SubmitRefused, BufferRequest, Authorized
  <2>. QED  BY ZenonT(30), <1>1, <1>7, <2>1, SweepingKeeps, HandlerKeeps
<1>8. ASSUME NEW j \in Jobs, NEW b \in Buffers, NEW i \in Ids, SubmitBegin(j, b, i)
      PROVE  WorkerInv'
  <2>1. UNCHANGED <<session, sessions>>
    BY ZenonT(30), <1>8 DEF SubmitBegin
  <2>2. SessionOK'
    BY ZenonT(30), <2>1 DEF WorkerInv, SessionOK
  <2>. QED  BY ZenonT(30), <1>1, <1>8, <2>2, SubmitBeginKeeps DEF WorkerInv
<1>9. ASSUME NEW j \in Jobs, NEW outcome \in {"Completed", "Failed"}, SubmitEnd(j, outcome)
      PROVE  WorkerInv'
  <2>1. UNCHANGED <<session, sessions>>
    BY ZenonT(30), <1>9 DEF SubmitEnd
  <2>2. SessionOK'
    BY ZenonT(30), <2>1 DEF WorkerInv, SessionOK
  <2>. QED  BY ZenonT(30), <1>1, <1>9, <2>2, SubmitEndKeeps DEF WorkerInv
<1>10. ASSUME NEW p \in Peers, Connect(p) PROVE WorkerInv'
  <2>1. /\ session.id = 0 /\ UNCHANGED <<active, guard, buffers, jobs, running>>
        /\ session' = [id |-> sessions + 1, peer |-> p, live |-> TRUE] /\ sessions' = sessions + 1
    BY ZenonT(30), <1>10 DEF Connect, leaseVars, storeVars
  <2>2. SessionOK'
    BY <2>1 DEF WorkerInv, SessionOK
  <2>3. NoneOutlives' /\ Scheduled' /\ Consistent(guard'.res, buffers', jobs')
    BY ZenonT(30), <2>1 DEF WorkerInv, NoneOutlives, Scheduled
  <2>. QED  BY ZenonT(30), <1>1, <2>2, <2>3 DEF WorkerInv
<1>11. CASE Revoke
  <2>1. /\ UNCHANGED <<active, guard, buffers, jobs, running, sessions>>
        /\ session' = [session EXCEPT !.live = FALSE]
    BY ZenonT(30), <1>11 DEF Revoke, leaseVars, storeVars
  <2>2. SessionOK' /\ session'.id = session.id
    BY <2>1, ZenonT(30) DEF WorkerInv, SessionOK
  <2>3. NoneOutlives' /\ Scheduled' /\ Consistent(guard'.res, buffers', jobs')
    BY ZenonT(30), <2>1, <2>2 DEF WorkerInv, NoneOutlives, Scheduled
  <2>. QED  BY ZenonT(30), <1>1, <2>2, <2>3 DEF WorkerInv
<1>12. CASE SessionEnded
  <2>1. running' = running /\ running = NoJob /\ session' = NoSession /\ sessions' = sessions
    BY ZenonT(30), <1>12 DEF SessionEnded, MutexFree
  <2>2. SessionOK'
    BY <2>1 DEF WorkerInv, SessionOK, NoSession
  <2>3. Scheduled'
    BY ZenonT(30), <1>12, <2>1, SessionEndedKeeps, WorkerConstants DEF Scheduled
  <2>. QED  BY ZenonT(30), <1>1, <1>12, <2>2, <2>3, SessionEndedKeeps DEF WorkerInv
<1>13. ASSUME UNCHANGED <<active, storeVars, running, session, sessions>> PROVE WorkerInv'
  <2>1. UNCHANGED <<guard, buffers, jobs>>
    BY ZenonT(30), <1>13 DEF storeVars
  <2>. QED  BY ZenonT(30), <1>1, <1>13, <2>1 DEF WorkerInv, NoneOutlives, Scheduled, SessionOK
<1>14. CASE WorkerTick
  BY ZenonT(30), <1>13, <1>14 DEF WorkerTick, Tick
<1>15. CASE UNCHANGED workerVars
  BY ZenonT(30), <1>13, <1>15 DEF workerVars, leaseVars
<1>. QED  BY ZenonT(30), <1>2, <1>3, <1>4, <1>5, <1>6, <1>7, <1>8, <1>9, <1>10, <1>11, <1>12, <1>14, <1>15
          DEF WorkerNext, Compute

\* The inductive invariant holds in every reachable state.
LEMMA WorkerInvHolds == WorkerSpec => []WorkerInv
  BY WorkerInvInit, WorkerInvStep, PTL DEF WorkerSpec

\* Types, for the tables of the worker: and only the job whose handler holds the
\* mutex is running (apply_compute_request).
THEOREM WorkerTypeCorrect == WorkerSpec => []WorkerTypeOK
<1>1. WorkerInv => WorkerTypeOK
  BY ZenonT(30) DEF WorkerInv, WorkerTypeOK, LeaseInv, Consistent, Typed, Scheduled, SessionOK,
         ReservationRecords, BufferRecords, JobRecords
<1>. QED  BY <1>1, WorkerInvHolds, PTL

\* A reservation is consumed exactly as long as a live buffer or the running job
\* owns it: memory is neither leaked nor given back under its owner, however
\* timeouts, lease ends, lost sessions and requests interleave.
THEOREM ConsumedHasOneOwner == WorkerSpec => []ConsumedIffOwned
<1>1. WorkerInv => ConsumedIffOwned
  <2>1. WorkerInv => Held(guard.res, buffers, jobs)
    BY ZenonT(30) DEF WorkerInv, Consistent
  <2>2. ASSUME Held(guard.res, buffers, jobs) PROVE ConsumedIffOwned
    <3>1. \A i \in Ids : guard.res[i].state = "Consumed" =>
            (\E b \in Buffers : OwnedBy(b, i)) \/ (\E j \in Jobs : RunBy(j, i))
      BY <2>2, ZenonT(30) DEF Held, HasOwner, OwnedBy, RunBy
    <3>2. ASSUME NEW b \in Buffers, NEW i \in Ids, OwnedBy(b, i)
          PROVE  /\ guard.res[i].state = "Consumed" /\ guard.res[i].class = "Buffer"
                 /\ guard.res[i].bytes = buffers[b].size
      BY <2>2, <3>2, ZenonT(30) DEF Held, OwnedBy
    <3>3. ASSUME NEW j \in Jobs, NEW i \in Ids, RunBy(j, i)
          PROVE  /\ guard.res[i].state = "Consumed" /\ guard.res[i].class = "Scratch"
                 /\ guard.res[i].bytes = jobs[j].size
      BY <2>2, <3>3, ZenonT(30) DEF Held, RunBy
    <3>. QED  BY <3>1, <3>2, <3>3, ZenonT(30) DEF ConsumedIffOwned
  <2>. QED  BY ZenonT(30), <2>1, <2>2
<1>. QED  BY <1>1, WorkerInvHolds, PTL

\* A reservation backs one buffer or one job in its whole life: a repeated ALLOC
\* or SUBMIT never takes it twice (consume).
THEOREM ReservationBacksOnce == WorkerSpec => []BacksOnce
<1>1. WorkerInv => BacksOnce
  BY ZenonT(30) DEF WorkerInv, BacksOnce, Consistent, Once
<1>. QED  BY <1>1, WorkerInvHolds, PTL

\* No live buffer outlives its session, or its lease once the expiry was noticed
\* (authenticated_session_ended, reconcile_expired_controller_lease).
THEOREM BuffersEndWithOwner == WorkerSpec => []NoneOutlives
<1>1. WorkerInv => NoneOutlives
  BY ZenonT(30) DEF WorkerInv
<1>. QED  BY <1>1, WorkerInvHolds, PTL

-----------------------------------------------------------------------------
(* What has ended stays ended. *)

\* What has ended in res has ended in res2, and what was consumed is not open again.
Over == Ended \cup {"Dropped"}
GrowOld(res, res2) ==
  \A i \in Ids : /\ res[i].state \in Over => res2[i].state \in Over
                 /\ res[i].state = "Consumed" => res2[i].state \in Over \cup {"Consumed"}

\* A buffer that has ended does not hold memory in bufs2.
Buried(bufs2) ==
  \A b \in Buffers : EndedBuffer(buffers[b]) \/ buffers[b].state = "Dropped" => ~LiveBuffer(bufs2[b])

\* The steps of the guard only let reservations grow old.
LEMMA AgedAges ==
  ASSUME NEW g, DOMAIN g.res = Ids, NEW gone, NEW late, NEW t
  PROVE  /\ GrowOld(g.res, Aged(g, gone, late, t).res)
         /\ DOMAIN Aged(g, gone, late, t).res = Ids
<1> DEFINE res2 == Aged(g, gone, late, t).res
<1>1. DOMAIN res2 = Ids
  BY ZenonT(30) DEF Aged
<1>2. \A i \in Ids : \/ res2[i] = Dropped
                     \/ res2[i] = InState(g.res[i], "Expired", t)
                     \/ res2[i] = g.res[i]
  BY ZenonT(30) DEF Aged
<1>3. Dropped.state = "Dropped" /\ \A i \in Ids : InState(g.res[i], "Expired", t).state = "Expired"
  BY ZenonT(30) DEF Dropped, Unused, InState
<1> HIDE DEF res2
<1>4. GrowOld(g.res, res2)
  BY ZenonT(30), <1>2, <1>3 DEF GrowOld, Over, Ended
<1>. QED  BY ZenonT(30), <1>1, <1>4 DEF res2

\* The sweep before a request and the tick age the reservations (expire_and_purge, tick).
LEMMA CheckedAges ==
  ASSUME NEW g, DOMAIN g.res = Ids, NEW l
  PROVE  /\ GrowOld(g.res, ExpireAndPurge(g, l, now).res) /\ DOMAIN ExpireAndPurge(g, l, now).res = Ids
         /\ GrowOld(g.res, GuardTick(g, now).res)
BY ZenonT(30), AgedAges DEF ExpireAndPurge, GuardTick

\* So does an end of some of them (release_allocation).
LEMMA FinishAges ==
  ASSUME NEW g, DOMAIN g.res = Ids, NEW ids, NEW state \in Ended, NEW t
  PROVE  GrowOld(g.res, Finish(g, ids, state, t).res) /\ DOMAIN Finish(g, ids, state, t).res = Ids
<1> DEFINE res2 == Finish(g, ids, state, t).res
<1>1. DOMAIN res2 = Ids /\ \A i \in Ids : res2[i] = InState(g.res[i], state, t) \/ res2[i] = g.res[i]
  BY ZenonT(30) DEF Finish
<1>2. \A i \in Ids : InState(g.res[i], state, t).state = state
  BY ZenonT(30) DEF InState
<1> HIDE DEF res2
<1>3. GrowOld(g.res, res2)
  BY ZenonT(30), <1>1, <1>2 DEF GrowOld, Over
<1>. QED  BY ZenonT(30), <1>1, <1>3 DEF res2

\* So does what ended buffers and jobs give back (release_consumed).
LEMMA ReturnedAges ==
  ASSUME DOMAIN guard.res = Ids, NEW bs, NEW js
  PROVE  GrowOld(guard.res, Returned(bs, js).res) /\ DOMAIN Returned(bs, js).res = Ids
<1>1. "ConsumedReleased" \in Ended
  BY ZenonT(30) DEF Ended
<1>. QED  BY ZenonT(30), <1>1, FinishAges DEF Returned, ReleaseConsumed

\* So does a step from one live state to another (commit, consume).
LEMMA SetStateAges ==
  ASSUME NEW g, DOMAIN g.res = Ids, NEW i \in Ids, g.res[i].state \in Pending, NEW state
  PROVE  GrowOld(g.res, SetState(g, i, state).res)
<1>1. \A k \in Ids \ {i} : SetState(g, i, state).res[k] = g.res[k]
  BY ZenonT(30) DEF SetState
<1>. QED  BY ZenonT(30), <1>1 DEF GrowOld, Over, Pending, Ended

\* So does a new reservation (reserve).
LEMMA InsertAges ==
  ASSUME NEW g, DOMAIN g.res = Ids, NEW i \in Ids, g.res[i].state = "Unused",
         NEW l, NEW r, NEW class, NEW bytes, NEW t
  PROVE  GrowOld(g.res, Insert(g, i, l, r, class, bytes, t).res)
<1>1. \A k \in Ids \ {i} : Insert(g, i, l, r, class, bytes, t).res[k] = g.res[k]
  BY ZenonT(30) DEF Insert
<1>. QED  BY ZenonT(30), <1>1 DEF GrowOld, Over, Ended

\* Two such steps are one.
LEMMA AgesFurther ==
  ASSUME NEW r1, NEW r2, NEW r3, GrowOld(r1, r2), GrowOld(r2, r3) PROVE GrowOld(r1, r3)
BY ZenonT(30) DEF GrowOld

\* Sweeping buries what it ends and revives nothing.
LEMMA SweptBuried ==
  ASSUME NEW evict, NEW lose
  PROVE  Buried(Swept(evict, lose)) /\ DOMAIN Swept(evict, lose) = Buffers
<1> DEFINE sw == Swept(evict, lose)
<1>1. DOMAIN sw = Buffers
  BY ZenonT(30) DEF Swept
<1>2. \A b \in Buffers : \/ sw[b] = Terminal(buffers[b], "Evicted") \/ sw[b] = Terminal(buffers[b], "Lost")
                         \/ sw[b] = AbsentBuffer("Dropped", buffers[b].res)
                         \/ sw[b] = buffers[b]
  BY ZenonT(30) DEF Swept
<1>3. \A b \in Buffers : /\ Terminal(buffers[b], "Evicted").state = "Evicted"
                         /\ Terminal(buffers[b], "Lost").state = "Lost"
                         /\ AbsentBuffer("Dropped", buffers[b].res).state = "Dropped"
  BY ZenonT(30) DEF Terminal, AbsentBuffer
<1> HIDE DEF sw
<1>4. Buried(sw)
  BY ZenonT(30), <1>2, <1>3 DEF Buried, LiveBuffer, EndedBuffer
<1>. QED  BY ZenonT(30), <1>1, <1>4 DEF sw

\* A handler then changes one buffer that had not ended.
LEMMA ChangedBuried ==
  ASSUME NEW bufs2, Buried(bufs2), DOMAIN bufs2 = Buffers, NEW b \in Buffers,
         LiveBuffer(buffers[b]) \/ buffers[b].state = "Unused", NEW new
  PROVE  Buried([bufs2 EXCEPT ![b] = new])
BY ZenonT(30) DEF Buried, LiveBuffer, EndedBuffer

\* What a step may do to the tables.
Mortal == GrowOld(guard.res, guard'.res) /\ Buried(buffers')

\* Buffers that are swept and what they and ended jobs give back (release_consumed).
LEMMA SweptMortal ==
  ASSUME DOMAIN guard.res = Ids, NEW evict, NEW lose, NEW bs, NEW js,
         buffers' = Swept(evict, lose), guard' = Returned(bs, js)
  PROVE  Mortal
<1>1. GrowOld(guard.res, guard'.res)
  BY ZenonT(30), ReturnedAges
<1>2. Buried(buffers')
  BY ZenonT(30), SweptBuried
<1>. QED  BY ZenonT(30), <1>1, <1>2 DEF Mortal

\* A lease or a session that ends revives nothing (lease_ended, session_lost).
LEMMA StoresMortal ==
  ASSUME DOMAIN guard.res = Ids, ReconcileStores \/ (\E l : LeaseEnded(l))
  PROVE  Mortal
<1>1. CASE \E l : LeaseEnded(l)
  <2>1. \E evict, bs, js : buffers' = Swept(evict, {}) /\ guard' = Returned(bs, js)
    BY ZenonT(30), <1>1 DEF LeaseEnded
  <2>. QED  BY ZenonT(30), <2>1, SweptMortal
<1>2. CASE UNCHANGED storeVars
  BY ZenonT(30), <1>2 DEF storeVars, Mortal, GrowOld, Over, Buried, LiveBuffer, EndedBuffer
<1>. QED  BY ZenonT(30), <1>1, <1>2 DEF ReconcileStores

\* Neither does RESERVE, COMMIT or RELEASE.
LEMMA GuardRequestsMortal ==
  ASSUME DOMAIN guard.res = Ids, NEW i \in Ids,
         \/ \E class \in {"Buffer", "Scratch"}, bytes \in Sizes : Reserve(i, class, bytes)
         \/ Commit(i) \/ CommitUnsafe(i) \/ ReleaseReservation(i) \/ ResourceRefused
  PROVE  Mortal
<1>1. /\ GrowOld(guard.res, Checked.res) /\ DOMAIN Checked.res = Ids
      /\ Buried(buffers)
  BY ZenonT(30), CheckedAges DEF Checked, Buried, LiveBuffer, EndedBuffer
<1>2. buffers' = buffers
  BY ZenonT(30) DEF Reserve, Commit, CommitUnsafe, ReleaseReservation, ResourceRefused, ResourceRequest
<1>3. GrowOld(Checked.res, guard'.res)
  <2>1. {"RefusedSafety", "Released"} \subseteq Ended
    BY ZenonT(30) DEF Ended
  <2>2. ASSUME NEW class, NEW bytes, Reserve(i, class, bytes) PROVE GrowOld(Checked.res, guard'.res)
    BY ZenonT(30), <1>1, <2>2, InsertAges DEF Reserve
  <2>3. CASE Commit(i)
    BY ZenonT(30), <1>1, <2>3, SetStateAges DEF Commit
  <2>4. CASE CommitUnsafe(i) \/ ReleaseReservation(i)
    BY ZenonT(30), <1>1, <2>1, <2>4, FinishAges DEF CommitUnsafe, ReleaseReservation
  <2>5. CASE ResourceRefused
    BY ZenonT(30), <2>5 DEF ResourceRefused, GrowOld
  <2>. QED  BY ZenonT(30), <2>2, <2>3, <2>4, <2>5
<1>. QED  BY ZenonT(30), <1>1, <1>2, <1>3, AgesFurther DEF Mortal

\* the guard that ALLOC and SUBMIT look at
LEMMA SweptGuardAges ==
  ASSUME DOMAIN guard.res = Ids
  PROVE  GrowOld(guard.res, CheckedAfterSweep.res) /\ DOMAIN CheckedAfterSweep.res = Ids
<1> DEFINE r == Returned(TimedOut, {})
<1>1. GrowOld(guard.res, r.res) /\ DOMAIN r.res = Ids
  BY ZenonT(30), ReturnedAges
<1>2. GrowOld(r.res, CheckedAfterSweep.res) /\ DOMAIN CheckedAfterSweep.res = Ids
  <2> HIDE DEF r
  <2>1. /\ GrowOld(r.res, ExpireAndPurge(r, active.id, now).res)
        /\ DOMAIN ExpireAndPurge(r, active.id, now).res = Ids
    BY ZenonT(30), <1>1, CheckedAges
  <2>. QED  BY ZenonT(30), <2>1 DEF r, CheckedAfterSweep
<1> HIDE DEF r
<1>. QED  BY ZenonT(30), <1>1, <1>2, AgesFurther

\* the guard once ALLOC or SUBMIT took a committed reservation
LEMMA TakenAges ==
  ASSUME DOMAIN guard.res = Ids, NEW i \in Ids, NEW class,
         Consumable(CheckedAfterSweep, i, active.id, class)
  PROVE  GrowOld(guard.res, SetState(CheckedAfterSweep, i, "Consumed").res)
<1>1. CheckedAfterSweep.res[i].state \in Pending
  BY ZenonT(30) DEF Consumable, Pending
<1>. QED  BY ZenonT(30), <1>1, SweptGuardAges, SetStateAges, AgesFurther

\* Neither does any request to the buffers (ALLOC, PUT, FREE, lookups).
LEMMA BufferRequestsMortal ==
  ASSUME DOMAIN guard.res = Ids, NEW b \in Buffers,
         \/ \E i \in Ids : Alloc(b, i)
         \/ BufferAccess(b) \/ PutCompletes(b) \/ Touch(b) \/ Free(b) \/ AllocRefused
  PROVE  Mortal
<1>1. ASSUME NEW i \in Ids, Alloc(b, i) PROVE Mortal
  <2>1. GrowOld(guard.res, guard'.res)
    BY ZenonT(30), <1>1, TakenAges DEF Alloc
  <2>2. Buried(buffers')
    BY ZenonT(30), <1>1, SweptBuried, ChangedBuried DEF Alloc
  <2>. QED  BY ZenonT(30), <2>1, <2>2 DEF Mortal
<1>2. CASE BufferAccess(b)
  BY ZenonT(30), <1>2, SweptBuried, ReturnedAges DEF BufferAccess, Mortal
<1>3. CASE AllocRefused
  BY ZenonT(30), <1>3, SweptBuried, SweptGuardAges DEF AllocRefused, Mortal
<1>4. CASE PutCompletes(b)
  <2>1. LiveBuffer(buffers[b])
    BY ZenonT(30), <1>4 DEF PutCompletes, LiveBuffer
  <2>. QED  BY ZenonT(30), <1>4, <2>1, SweptBuried, ChangedBuried, ReturnedAges DEF PutCompletes, Mortal
<1>5. CASE Touch(b)
  BY ZenonT(30), <1>5, SweptBuried, ChangedBuried, ReturnedAges DEF Touch, Mortal
<1>6. CASE Free(b)
  BY ZenonT(30), <1>6, SweptBuried, ChangedBuried, ReturnedAges DEF Free, Mortal
<1>. QED  BY ZenonT(30), <1>1, <1>2, <1>3, <1>4, <1>5, <1>6

\* Neither do the lease, the health tick, SUBMIT, the lookups and the end of a session.
LEMMA OtherStepsMortal ==
  ASSUME DOMAIN guard.res = Ids,
         \/ ControllerCommand \/ Unauthorized \/ HealthTick \/ ComputeLookup
         \/ \E b \in Buffers : SubmitRefused(b)
         \/ \E j \in Jobs, b \in Buffers, i \in Ids : SubmitBegin(j, b, i)
         \/ Compute \/ SessionEnded \/ UNCHANGED storeVars
  PROVE  Mortal
<1>0. ASSUME guard' = guard, buffers' = buffers PROVE Mortal
  BY ZenonT(30), <1>0 DEF Mortal, GrowOld, Over, Buried, LiveBuffer, EndedBuffer
<1>1. CASE ControllerCommand \/ Unauthorized
  BY ZenonT(30), <1>1, StoresMortal DEF ControllerCommand, Unauthorized
<1>2. CASE HealthTick
  <2>1. PICK bs, js : guard' = GuardTick(Returned(bs, js), now)
    BY ZenonT(30), <1>2 DEF HealthTick
  <2>2. GrowOld(guard.res, Returned(bs, js).res) /\ DOMAIN Returned(bs, js).res = Ids
    BY ZenonT(30), ReturnedAges
  <2>3. GrowOld(Returned(bs, js).res, guard'.res)
    BY ZenonT(30), <2>1, <2>2, CheckedAges
  <2>4. Buried(buffers')
    BY ZenonT(30), <1>2, SweptBuried DEF HealthTick
  <2>. QED  BY ZenonT(30), <2>2, <2>3, <2>4, AgesFurther DEF Mortal
<1>3. CASE ComputeLookup \/ UNCHANGED storeVars
  BY ZenonT(30), <1>0, <1>3 DEF ComputeLookup, storeVars
<1>4. CASE \E b \in Buffers : SubmitRefused(b)
  <2>1. \E evict, lose : /\ buffers' = Swept(evict, lose)
                         /\ guard' = CheckedAfterSweep \/ \E bs : guard' = Returned(bs, {})
    BY ZenonT(30), <1>4 DEF SubmitRefused
  <2>2. CASE guard' = CheckedAfterSweep
    <3>1. GrowOld(guard.res, guard'.res)
      BY ZenonT(30), <2>2, SweptGuardAges
    <3>. QED  BY ZenonT(30), <2>1, <3>1, SweptBuried DEF Mortal
  <2>. QED  BY ZenonT(30), <2>1, <2>2, SweptMortal
<1>5. CASE \E j \in Jobs, b \in Buffers, i \in Ids : SubmitBegin(j, b, i)
  <2>1. PICK i \in Ids : /\ Consumable(CheckedAfterSweep, i, active.id, "Scratch")
                         /\ guard' = SetState(CheckedAfterSweep, i, "Consumed")
                         /\ \E evict, lose : buffers' = Swept(evict, lose)
    BY ZenonT(30), <1>5 DEF SubmitBegin
  <2>2. GrowOld(guard.res, guard'.res)
    BY ZenonT(30), <2>1, TakenAges
  <2>. QED  BY ZenonT(30), <2>1, <2>2, SweptBuried DEF Mortal
<1>6. CASE Compute
  <2>1. \E j : guard' = Returned({}, {j}) /\ buffers' = buffers
    BY ZenonT(30), <1>6 DEF Compute, SubmitEnd
  <2>. QED  BY ZenonT(30), <2>1, ReturnedAges DEF Mortal, Buried, LiveBuffer, EndedBuffer
<1>7. CASE SessionEnded
  <2>1. \E evict, lose, bs, js : buffers' = Swept(evict, lose) /\ guard' = Returned(bs, js)
    BY ZenonT(30), <1>7 DEF SessionEnded
  <2>. QED  BY ZenonT(30), <2>1, SweptMortal
<1>. QED  BY ZenonT(30), <1>1, <1>2, <1>3, <1>4, <1>5, <1>6, <1>7

\* No step revives anything.
LEMMA StepsMortal ==
  ASSUME WorkerInv, WorkerNext PROVE Mortal
<1>1. DOMAIN guard.res = Ids
  BY ZenonT(30) DEF WorkerInv, Consistent, Typed
<1>2. CASE \/ \E p \in Peers : Connect(p)
           \/ Revoke \/ WorkerTick
  BY ZenonT(30), <1>1, <1>2, OtherStepsMortal DEF Connect, Revoke, WorkerTick
<1>3. CASE ResourceRefused
  <2>1. CASE Ids = {}
    BY ZenonT(30), <1>3, <2>1 DEF Mortal, GrowOld, Buried, LiveBuffer, EndedBuffer, ResourceRefused, ResourceRequest
  <2>2. CASE Ids # {}
    BY ZenonT(30), <1>1, <1>3, <2>2, GuardRequestsMortal
  <2>. QED  BY ZenonT(30), <2>1, <2>2
<1>4. CASE AllocRefused
  BY ZenonT(30), <1>1, <1>4, SweptBuried, SweptGuardAges DEF AllocRefused, Mortal
<1>. QED  BY ZenonT(30), <1>1, <1>2, <1>3, <1>4, GuardRequestsMortal, BufferRequestsMortal, OtherStepsMortal DEF WorkerNext

\* What has ended stays ended, for any number of peers, reservations, buffers and
\* jobs: no handler revives a freed, evicted or lost buffer, gives budget to a
\* reservation that ended or was removed, or opens a consumed one to ALLOC or
\* SUBMIT again (terminalize, commit, consume, expire_and_purge).
THEOREM EndedStaysEnded == WorkerSpec => EndedForGood
<1> DEFINE Stays ==
      /\ \A b \in Buffers : EndedBuffer(buffers[b]) \/ buffers[b].state = "Dropped"
                              => ~LiveBuffer(buffers'[b])
      /\ \A i \in Ids :
           /\ guard.res[i].state \in Ended \cup {"Dropped"} => guard'.res[i].state \notin Live
           /\ guard.res[i].state = "Consumed" => guard'.res[i].state \notin Pending
<1>1. Mortal => Stays
  BY ZenonT(30) DEF Mortal, Buried, GrowOld, Over, Live, Pending, Ended
<1> HIDE DEF Stays
<1>2. WorkerInv /\ [WorkerNext]_workerVars => [Stays]_workerVars
  BY ZenonT(30), <1>1, StepsMortal
<1>3. WorkerSpec => [][Stays]_workerVars
  BY <1>2, WorkerInvHolds, PTL DEF WorkerSpec
<1>. QED  BY ZenonT(30), <1>3 DEF EndedForGood, Stays
=============================================================================
