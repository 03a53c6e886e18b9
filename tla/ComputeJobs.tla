------------------------------ MODULE ComputeJobs ------------------------------
(***************************************************************************)
(* C10: the jobs of the worker and the tables that make SUBMIT and CANCEL  *)
(* idempotent (ComputeJobStore, pb-worker-core/src/compute.rs, and         *)
(* apply_compute_submit in lib.rs).                                        *)
(*                                                                         *)
(* A SUBMIT is remembered under its lease and its request number, with the *)
(* session it came in; it is answered again from there until the session   *)
(* or the lease ends or Retention has passed.  What is computed is chosen  *)
(* by the reservation the request names, and no reservation is used twice. *)
(* BLAKE3 runs while the worker's mutex is held (see WorkerCore): no other *)
(* request, and no end of a session or a lease, finds a job running.       *)
(*                                                                         *)
(* Reservations, leases and sessions are the environment here; WorkerCore  *)
(* composes all of them.                                                   *)
(***************************************************************************)
EXTENDS Integers, FiniteSets

CONSTANTS
  ResIds,             \* reservations
  Jobs,               \* job identifiers
  ReqNos,             \* request numbers
  SubmitCapacity,     \* COMPUTE_IDEMPOTENCE_CAPACITY_PER_LEASE
  TerminalRetention,  \* COMPUTE_TERMINAL_RETENTION_MS, in ticks
  LeaseBound,         \* bound: leases in a behaviour
  MaxSessions,        \* bound: sessions in a behaviour
  LastTick,           \* bound: the last tick
  NoJob, NoRes        \* no job, no reservation

JobConstants ==
  /\ NoJob \notin Jobs /\ NoRes \notin ResIds /\ IsFiniteSet(ReqNos)
  /\ SubmitCapacity \in Nat /\ TerminalRetention \in Nat
  /\ LeaseBound \in Nat \ {0} /\ MaxSessions \in Nat \ {0} /\ LastTick \in Nat

VARIABLES
  clock,
  jobLease,           \* the lease in force, 0 if none
  jobLeases,          \* leases so far
  session,            \* the session there is, 0 if none
  sessions,           \* sessions so far
  res,                \* the reservations: [lease, state]
  jobs,               \* ComputeJobStore::jobs
  submits,            \* ComputeJobStore::submits, by lease and request number
  cancels,            \* ComputeJobStore::cancels
  running             \* the job that is computed with the mutex held

jobVars == <<clock, jobLease, jobLeases, session, sessions, res, jobs, submits, cancels, running>>

Keys == (1 .. LeaseBound) \X ReqNos

NoEnd == -1

\* a job that is not in the map (once it was, its reservation is remembered for the
\* properties)
UnknownJob == [state |-> "Unknown", lease |-> 0, session |-> 0, req |-> 0, res |-> NoRes, at |-> NoEnd]

\* an entry of either table: what was asked (a reservation or a job), and the answer
Vacant == [session |-> 0, asked |-> NoRes, job |-> NoJob, answer |-> "None", at |-> NoEnd]

EndStates == {"Completed", "Failed"}

StillKept(at) == at = NoEnd \/ clock - at <= TerminalRetention

\* purge, on each of the three tables
PurgedJobs ==
  [j \in Jobs |-> IF StillKept(jobs[j].at) THEN jobs[j]
                  ELSE [UnknownJob EXCEPT !.state = "Dropped", !.res = jobs[j].res]]

PurgedSubmits == [k \in Keys |-> IF StillKept(submits[k].at) THEN submits[k] ELSE Vacant]

PurgedCancels == [k \in Keys |-> IF StillKept(cancels[k].at) THEN cancels[k] ELSE Vacant]

\* check_submit: what is left to look at, and the entries of this lease
Looked(q) ==
  IF PurgedSubmits[<<jobLease, q>>].session \notin {0, session}
  THEN [PurgedSubmits EXCEPT ![<<jobLease, q>>] = Vacant] ELSE PurgedSubmits

Full(q) ==
  Cardinality({r \in ReqNos : Looked(q)[<<jobLease, r>>] # Vacant}) >= SubmitCapacity

-----------------------------------------------------------------------------
(* Requests: validate has accepted the lease. *)

JobRequest ==
  /\ running = NoJob
  /\ jobLease # 0 /\ session # 0
  /\ UNCHANGED <<clock, jobLease, jobLeases, session, sessions>>

\* replayed, in conflict with what was asked before, or no room
SubmitKnown(q) ==
  /\ JobRequest
  /\ Looked(q)[<<jobLease, q>>] # Vacant \/ Full(q)
  /\ jobs' = PurgedJobs
  /\ submits' = Looked(q)
  /\ cancels' = PurgedCancels
  /\ UNCHANGED <<res, running>>

\* refused for its provider, its input or its reservation; the refusal is kept
SubmitRefused(q, i) ==
  /\ JobRequest
  /\ Looked(q)[<<jobLease, q>>] = Vacant /\ ~Full(q)
  /\ jobs' = PurgedJobs
  /\ cancels' = PurgedCancels
  /\ submits' = [Looked(q) EXCEPT ![<<jobLease, q>>] =
       [session |-> session, asked |-> i, job |-> NoJob, answer |-> "Refused", at |-> clock]]
  /\ UNCHANGED <<res, running>>

\* (mutant) a reservation that was given back is good for another job
Usable_Again(i) == res[i].state \in {"Committed", "Returned"} /\ res[i].lease = jobLease

\* what consume_for_compute accepts
Usable(i) == res[i].state = "Committed" /\ res[i].lease = jobLease

\* stage and publish_running
SubmitBegin(q, i, j) ==
  /\ JobRequest
  /\ Looked(q)[<<jobLease, q>>] = Vacant /\ ~Full(q)
  /\ Usable(i)
  /\ jobs[j] = UnknownJob
  /\ res' = [res EXCEPT ![i].state = "Consumed"]
  /\ jobs' = [PurgedJobs EXCEPT ![j] = [state |-> "Running", lease |-> jobLease, session |-> session,
                                        req |-> q, res |-> i, at |-> NoEnd]]
  /\ submits' = [Looked(q) EXCEPT ![<<jobLease, q>>] =
       [session |-> session, asked |-> i, job |-> j, answer |-> "Running", at |-> NoEnd]]
  /\ cancels' = PurgedCancels
  /\ running' = j

\* the end of terminalize: the answer that is kept becomes the job's result
Answered(j, outcome) ==
  LET k == <<jobs[j].lease, jobs[j].req>>
  IN  [submits EXCEPT ![k] = [@ EXCEPT !.answer = outcome, !.at = clock]]

\* BLAKE3 returns: terminalize and finish_record
SubmitEnd(j, outcome) ==
  /\ running = j
  /\ jobs' = [jobs EXCEPT ![j] = [@ EXCEPT !.state = outcome, !.at = clock]]
  /\ res' = [res EXCEPT ![jobs[j].res].state = "Returned"]
  /\ submits' = Answered(j, outcome)
  /\ running' = NoJob
  /\ UNCHANGED <<clock, jobLease, jobLeases, session, sessions, cancels>>

\* STATUS changes nothing else
Status ==
  /\ JobRequest
  /\ jobs' = PurgedJobs /\ submits' = PurgedSubmits /\ cancels' = PurgedCancels
  /\ UNCHANGED <<res, running>>

\* CANCEL of a job that ended or is not this session's; both answers are kept.  A running
\* job holds the worker's mutex, so the branch of cancel that ends one is never taken.
Cancel(q, j) ==
  LET k == <<jobLease, q>>
      own == PurgedJobs[j].lease = jobLease /\ PurgedJobs[j].session = session
  IN  /\ JobRequest
      /\ jobs' = PurgedJobs
      /\ submits' = PurgedSubmits
      /\ cancels' = IF PurgedCancels[k] # Vacant THEN PurgedCancels
                    ELSE [PurgedCancels EXCEPT ![k] =
                            [session |-> session, asked |-> j, job |-> IF own THEN j ELSE NoJob,
                             answer |-> IF own THEN PurgedJobs[j].state ELSE "Refused", at |-> clock]]
      /\ UNCHANGED <<res, running>>

-----------------------------------------------------------------------------
(* The ends of sessions and leases. *)

\* (mutant) the answers of a session that ended are kept
SessionLost_AnswersKept == session' = 0 /\ UNCHANGED <<submits, cancels>>

\* session_lost
SessionLost ==
  /\ session' = 0
  /\ submits' = [k \in Keys |-> IF submits[k].session = session THEN Vacant ELSE submits[k]]
  /\ cancels' = [k \in Keys |-> IF cancels[k].session = session THEN Vacant ELSE cancels[k]]

EndSession ==
  /\ running = NoJob /\ session # 0
  /\ SessionLost
  /\ UNCHANGED <<clock, jobLease, jobLeases, sessions, res, jobs, running>>

\* lease_ended
LoseLease ==
  /\ running = NoJob /\ jobLease # 0
  /\ jobLease' = 0
  /\ submits' = [k \in Keys |-> IF k[1] = jobLease THEN Vacant ELSE submits[k]]
  /\ cancels' = [k \in Keys |-> IF k[1] = jobLease THEN Vacant ELSE cancels[k]]
  /\ UNCHANGED <<clock, jobLeases, session, sessions, res, jobs, running>>

NewSession ==
  /\ session = 0 /\ sessions < MaxSessions
  /\ session' = sessions + 1 /\ sessions' = sessions + 1
  /\ UNCHANGED <<clock, jobLease, jobLeases, res, jobs, submits, cancels, running>>

NewLease ==
  /\ running = NoJob /\ session # 0 /\ jobLease = 0 /\ jobLeases < LeaseBound
  /\ jobLease' = jobLeases + 1 /\ jobLeases' = jobLeases + 1
  /\ UNCHANGED <<clock, session, sessions, res, jobs, submits, cancels, running>>

\* RESERVE and COMMIT (C08)
CommitScratch(i) ==
  /\ JobRequest
  /\ res[i].state = "Unused"
  /\ res' = [res EXCEPT ![i] = [lease |-> jobLease, state |-> "Committed"]]
  /\ UNCHANGED <<jobs, submits, cancels, running>>

ClockTick ==
  /\ clock < LastTick
  /\ clock' = clock + 1
  /\ UNCHANGED <<jobLease, jobLeases, session, sessions, res, jobs, submits, cancels, running>>

JobsInit ==
  /\ clock = 0
  /\ jobLease = 0 /\ jobLeases = 0 /\ session = 0 /\ sessions = 0
  /\ res = [i \in ResIds |-> [lease |-> 0, state |-> "Unused"]]
  /\ jobs = [j \in Jobs |-> UnknownJob]
  /\ submits = [k \in Keys |-> Vacant]
  /\ cancels = [k \in Keys |-> Vacant]
  /\ running = NoJob

JobsNext ==
  \/ \E q \in ReqNos :
       \/ SubmitKnown(q)
       \/ \E i \in ResIds : SubmitRefused(q, i) \/ \E j \in Jobs : SubmitBegin(q, i, j)
       \/ \E j \in Jobs : Cancel(q, j)
  \/ \E j \in Jobs : \E outcome \in EndStates : SubmitEnd(j, outcome)
  \/ Status
  \/ EndSession
  \/ LoseLease
  \/ NewSession
  \/ NewLease
  \/ \E i \in ResIds : CommitScratch(i)
  \/ ClockTick

JobsSpec == JobsInit /\ [][JobsNext]_jobVars

-----------------------------------------------------------------------------
(* Properties. *)

\* its reservation backs one job for ever (consume_for_compute)
SpentOnce ==
  \A j, k \in Jobs : jobs[j].res = jobs[k].res /\ jobs[j].res # NoRes => j = k

\* no second job is admitted under the request number in the session (check_submit, purge)
OneJobPerRequest ==
  \A j, k \in Jobs :
    /\ jobs[j].lease = jobLease /\ jobs[k].lease = jobLease /\ jobLease # 0
    /\ jobs[j].session = session /\ jobs[k].session = session
    /\ jobs[j].req = jobs[k].req
    => j = k

\* A SUBMIT that was admitted is never executed again, by a repetition in the same
\* session, in the next one, or after its answer was forgotten, and as long as a job
\* can be looked up its request number means that job (apply_compute_submit,
\* consume_for_compute, check_submit, purge).
RunsOnce == SpentOnce /\ OneJobPerRequest

\* an answer kept for a SUBMIT is the state of its job, which is kept as long; an answer
\* kept for a CANCEL says how the job ended, as long as that can be looked up
AnswersRight ==
  /\ \A k \in Keys : submits[k].job # NoJob => jobs[submits[k].job].state = submits[k].answer
  /\ \A k \in Keys : cancels[k].job # NoJob =>
       /\ cancels[k].answer \in EndStates
       /\ jobs[cancels[k].job].state \in {cancels[k].answer, "Dropped"}

\* no answer crosses to the next session or lease (session_lost, lease_ended)
AnswersOfSession ==
  \A k \in Keys : \A e \in {submits[k], cancels[k]} :
    e # Vacant => k[1] = jobLease /\ e.session = session

\* a lease never has more SUBMITs remembered than there is room for (check_submit)
TableBounded ==
  \A l \in 1 .. LeaseBound :
    Cardinality({q \in ReqNos : submits[<<l, q>>] # Vacant}) <= SubmitCapacity

\* What is answered from the tables of SUBMIT and CANCEL is the state of the job of
\* that request, of the lease in force and of the session there is, and the table
\* never holds more than there is room for (terminalize, cancel, session_lost,
\* lease_ended, check_submit).
AnswersTrue == AnswersRight /\ AnswersOfSession /\ TableBounded
=============================================================================
