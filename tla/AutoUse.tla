------------------------------- MODULE AutoUse -------------------------------
(***************************************************************************)
(* C12: the auto-use controller of the host (pb-host/src/auto_use.rs).      *)
(*                                                                         *)
(* Four parties share ControllerData: the user's threads (enable, disable,  *)
(* Drop), the manager thread (manager_loop down to run_connection), a       *)
(* thread that executes a BLAKE3 operation under the operation lock, and    *)
(* the secure session's own thread, which the manager spawns and joins.     *)
(* One step is one region under the data lock, or one call on the session   *)
(* client; two guarded writes of one thread in a row are one step where     *)
(* nothing reads in between.                                                *)
(*                                                                         *)
(* A SessionIdentity is its serial: serials are never reused, and sess       *)
(* remembers the epoch of each.  A remote operation is any number of        *)
(* requests, each one SessionAccess::require_current and then the client's  *)
(* admission; what the requests do to the worker is CleanupLedger.  Of the  *)
(* status only the state is kept, of an observation its verdict, its        *)
(* session and whether it is still fresh.                                   *)
(***************************************************************************)
EXTENDS Integers, Sequences, FiniteSets

CONSTANTS MaxEpoch,   \* bound: the last epoch
          MaxFaults,  \* bound: faults of the phone and of the network
          MaxMore,    \* bound: requests of one operation after its first
          Silent      \* whether a phone may fall silent during the handshake

AutoUseConstants ==
  {MaxEpoch, MaxFaults, MaxMore} \subseteq Nat /\ Silent \in BOOLEAN

VARIABLES data,   \* ControllerData: enabled, epoch, serial, status, client, ident,
                  \* active, lease (its observation), proof (its observation)
          drop,   \* how far Drop has come: "no", "invalidated", "cancelled"
          sess,   \* by serial: the session thread and its client
          mgr,    \* the manager thread
          ex,     \* the thread that holds the operation lock, if any
          faults,
          hist    \* the serials whose lease stands, that passed a probe, and whose
                  \* last probe passed; an unanswered doubt; a stray request

vars == <<data, drop, sess, mgr, ex, faults, hist>>

Serials == 1..(MaxEpoch + MaxFaults + 1)

Operations == {"acquire", "reconcile", "probe", "renew", "reprobe"}

Observed(verdict, s) == [verdict |-> verdict, s |-> s, fresh |-> TRUE]

NothingObserved == Observed("none", 0)

Idle == [pc |-> "idle", s |-> 0, more |-> 0]

Init ==
  /\ data = [enabled |-> FALSE, epoch |-> 0, serial |-> 0, status |-> "Off", client |-> 0,
             ident |-> 0, active |-> 0, lease |-> NothingObserved, proof |-> NothingObserved]
  /\ drop = "no"
  /\ sess = [s \in Serials |-> [phase |-> "none", auth |-> FALSE, cancel |-> FALSE, epoch |-> 0]]
  /\ mgr = [pc |-> "waiting", stage |-> "check", more |-> 0, res |-> "none", epoch |-> 0, s |-> 0,
            once |-> FALSE, end |-> "none", todo |-> <<>>]
  /\ ex = Idle
  /\ faults = 0
  /\ hist = [leased |-> {}, proved |-> {}, passed |-> {}, doubt |-> FALSE, stray |-> FALSE]

shutdown == drop # "no"

Fault == faults < MaxFaults /\ faults' = faults + 1

-----------------------------------------------------------------------------
(* Guarded writes of ControllerData, as functions of the data before.        *)

\* is_current
IsCurrent(e) == data.enabled /\ data.epoch = e /\ ~shutdown

\* SessionAccess::is_current
AccessCurrent(s) == IsCurrent(sess[s].epoch) /\ data.ident = s

\* set_phase
SetPhase(e, state) ==
  IF data.enabled /\ data.epoch = e
  THEN [data EXCEPT !.active = 0, !.status = state] ELSE data

\* the condition of publish_available
Publishable(s) ==
  data.enabled /\ data.epoch = sess[s].epoch /\ data.ident = s /\ sess[s].auth

\* publish_available
PublishAvailable(s) ==
  IF Publishable(s) THEN [data EXCEPT !.active = s, !.status = "Available"] ELSE data

OfSession(s) == data.enabled /\ data.ident = s

\* mark_connection_lost_identity and mark_degraded_identity
Mark(s, state) ==
  IF OfSession(s) THEN [data EXCEPT !.active = 0, !.status = state] ELSE data

\* record_lease_active, record_lease_unavailable
RecordLease(d, s, verdict) ==
  IF d.enabled /\ d.ident = s THEN [d EXCEPT !.lease = Observed(verdict, s)] ELSE d

\* record_admission_proof
RecordProof(d, s, verdict) ==
  IF d.enabled /\ d.ident = s THEN [d EXCEPT !.proof = Observed(verdict, s)] ELSE d

\* clear_session
ClearSession(s) ==
  IF data.ident = s
  THEN [data EXCEPT !.client = 0, !.ident = 0, !.active = 0,
                    !.lease = NothingObserved, !.proof = NothingObserved]
  ELSE data

\* cancel_session on the client of s (SessionChannel has its two steps)
Cancelled(s) == [sess EXCEPT ![s].cancel = TRUE, ![s].auth = FALSE]

-----------------------------------------------------------------------------
(* What a status consumer is told: gate_observations.                        *)

\* session_is_current
SessionIsCurrent(s) == s # 0 /\ data.ident = s /\ data.client # 0 /\ sess[data.client].auth

\* current_lease_observation
CurrentLease ==
  CASE ~data.enabled                     -> "UNAVAILABLE"
    [] data.enabled /\ data.lease.verdict # "ACTIVE" -> data.lease.verdict
    [] data.enabled /\ data.lease.verdict = "ACTIVE" ->
         IF ~SessionIsCurrent(data.lease.s) THEN "UNAVAILABLE"
         ELSE IF ~data.lease.fresh THEN "EXPIRED" ELSE "ACTIVE"

\* current_admission_proof_observation
CurrentProof ==
  IF data.proof.verdict = "none" \/ ~data.enabled
     \/ ~SessionIsCurrent(data.proof.s) \/ CurrentLease # "ACTIVE"
  THEN "UNKNOWN"
  ELSE IF ~data.proof.fresh THEN "STALE" ELSE data.proof.verdict

\* the acknowledged TTL elapses; two seconds pass since the proof
LeaseExpires ==
  /\ data.lease.verdict = "ACTIVE" /\ data.lease.fresh
  /\ data' = [data EXCEPT !.lease.fresh = FALSE]
  /\ UNCHANGED <<drop, sess, mgr, ex, faults, hist>>

ProofExpires ==
  /\ data.proof.verdict # "none" /\ data.proof.fresh
  /\ data' = [data EXCEPT !.proof.fresh = FALSE]
  /\ UNCHANGED <<drop, sess, mgr, ex, faults, hist>>

-----------------------------------------------------------------------------
(* The user. *)

Enable ==
  /\ ~data.enabled /\ ~shutdown /\ data.epoch < MaxEpoch
  /\ data' = [data EXCEPT !.enabled = TRUE, !.epoch = @ + 1, !.status = "Discovering",
                          !.lease = NothingObserved, !.proof = NothingObserved]
  /\ UNCHANGED <<drop, sess, mgr, ex, faults, hist>>

\* (mutant) the session is left to the manager
Disable_SessionKept ==
  /\ data.enabled /\ ~shutdown /\ data.epoch < MaxEpoch
  /\ data' = [data EXCEPT !.enabled = FALSE, !.epoch = @ + 1, !.status = "Off",
                          !.active = 0, !.ident = 0,
                          !.lease = NothingObserved, !.proof = NothingObserved]
  /\ UNCHANGED <<drop, sess, mgr, ex, faults, hist>>

\* disable: the session is cancelled under the data lock
Disable ==
  /\ data.enabled /\ ~shutdown /\ data.epoch < MaxEpoch
  /\ sess' = IF data.client = 0 THEN sess ELSE Cancelled(data.client)
  /\ data' = [data EXCEPT !.enabled = FALSE, !.epoch = @ + 1, !.status = "Off",
                          !.active = 0, !.ident = 0,
                          !.lease = NothingObserved, !.proof = NothingObserved]
  /\ UNCHANGED <<drop, mgr, ex, faults, hist>>

\* Drop, when nobody else holds the controller: invalidate under the lock ...
DropInvalidates ==
  /\ drop = "no" /\ ex = Idle
  /\ drop' = "invalidated"
  /\ data' = [data EXCEPT !.enabled = FALSE, !.active = 0, !.ident = 0]
  /\ UNCHANGED <<sess, mgr, ex, faults, hist>>

\* ... and cancel the session after it; the rest of Drop joins the manager
DropCancels ==
  /\ drop = "invalidated"
  /\ drop' = "cancelled"
  /\ sess' = IF data.client = 0 THEN sess ELSE Cancelled(data.client)
  /\ data' = [data EXCEPT !.client = 0]
  /\ UNCHANGED <<mgr, ex, faults, hist>>

-----------------------------------------------------------------------------
(* The session thread: run_initiator_session_with_client.                    *)

Opens(s) ==
  /\ sess[s].phase = "opening"
  /\ sess' = [sess EXCEPT ![s].phase = "live", ![s].auth = ~sess[s].cancel]
  /\ UNCHANGED <<data, drop, mgr, ex, faults, hist>>

\* the handshake fails, or the live session breaks
Breaks(s) ==
  /\ sess[s].phase \in {"opening", "live"}
  /\ Fault
  /\ sess' = [sess EXCEPT ![s].phase = "over", ![s].auth = FALSE]
  /\ UNCHANGED <<data, drop, mgr, ex, hist>>

\* (mutant) a session that no longer counts as authenticated is not looked at
SeesCancel_OnlyAuthenticated(s) ==
  /\ sess[s].phase = "live" /\ sess[s].cancel /\ sess[s].auth
  /\ sess' = [sess EXCEPT ![s].phase = "over"]
  /\ UNCHANGED <<data, drop, mgr, ex, faults, hist>>

\* the authenticated loop looks at the cancel flag; the wait for the first
\* PONG (run_committed_loop) does not
SeesCancel(s) ==
  /\ sess[s].phase = "live" /\ sess[s].cancel
  /\ sess' = [sess EXCEPT ![s].phase = "over"]
  /\ UNCHANGED <<data, drop, mgr, ex, faults, hist>>

\* the phone never answers the first PING: nothing ends that wait
FallsSilent(s) ==
  /\ Silent /\ sess[s].phase = "opening"
  /\ Fault
  /\ sess' = [sess EXCEPT ![s].phase = "silent"]
  /\ UNCHANGED <<data, drop, mgr, ex, hist>>

-----------------------------------------------------------------------------
(* One request of an operation: require_current, then the client.            *)

Admitted(s) == sess[s].auth /\ ~sess[s].cancel

Strays(s) == Admitted(s) /\ ~shutdown /\ ~(data.enabled /\ data.ident = s)

\* what may come back: success (of this request, or of the last one), a
\* refusal, or the loss of the transport
Answers(s, more) ==
  IF ~Admitted(s) THEN {"lost"}
  ELSE {"ok", "refused", "lost"} \cup (IF more < MaxMore THEN {"more"} ELSE {})

\* a refusal is a fault of the phone; a loss is one unless the session is over
Charged(s, answer) ==
  IF answer = "refused" \/ (answer = "lost" /\ Admitted(s))
  THEN Fault ELSE UNCHANGED faults

-----------------------------------------------------------------------------
(* Executions: execute_blake3 and execute_blake3_reader, once past the local *)
(* fallbacks, which change nothing.                                          *)

Execute ==
  /\ ex = Idle /\ ~shutdown
  /\ data.enabled /\ data.status = "Available" /\ data.active # 0
  /\ ex' = [pc |-> "check", s |-> data.active, more |-> 0]
  /\ UNCHANGED <<data, drop, sess, mgr, faults, hist>>

ExCheck ==
  /\ ex.pc = "check"
  /\ ex' = [ex EXCEPT !.pc = IF AccessCurrent(ex.s) THEN "send" ELSE "lost"]
  /\ UNCHANGED <<data, drop, sess, mgr, faults, hist>>

ExSend ==
  /\ ex.pc = "send"
  /\ \E answer \in Answers(ex.s, ex.more) :
       /\ Charged(ex.s, answer)
       /\ ex' = CASE answer = "more" -> [ex EXCEPT !.pc = "check", !.more = @ + 1]
                  [] answer = "ok"   -> Idle
                  [] OTHER           -> [ex EXCEPT !.pc = answer]
  /\ hist' = [hist EXCEPT !.stray = @ \/ Strays(ex.s)]
  /\ UNCHANGED <<data, drop, sess, mgr>>

\* a refusal: mark_degraded, then the local execution
ExRefused ==
  /\ ex.pc = "refused"
  /\ data' = Mark(ex.s, "Degraded")
  /\ hist' = [hist EXCEPT !.doubt = @ \/ OfSession(ex.s)]
  /\ ex' = Idle
  /\ UNCHANGED <<drop, sess, mgr, faults>>

\* a loss: cancel_session first, mark_connection_lost after it
ExCancels ==
  /\ ex.pc = "lost"
  /\ sess' = Cancelled(ex.s)
  /\ ex' = [ex EXCEPT !.pc = "mark"]
  /\ UNCHANGED <<data, drop, mgr, faults, hist>>

ExMarks ==
  /\ ex.pc = "mark"
  /\ data' = Mark(ex.s, "Reconnecting")
  /\ ex' = Idle
  /\ UNCHANGED <<drop, sess, mgr, faults, hist>>

Executor == ExCheck \/ ExSend \/ ExRefused \/ ExCancels \/ ExMarks

-----------------------------------------------------------------------------
(* The manager: manager_loop, wait_for_enable and run_enabled.               *)

Goto(pc) == [mgr EXCEPT !.pc = pc, !.stage = "check", !.more = 0, !.res = "none"]

WaitForEnable ==
  /\ mgr.pc = "waiting"
  /\ \/ /\ shutdown
        /\ mgr' = Goto("gone")
     \/ /\ data.enabled /\ ~shutdown
        /\ mgr' = [Goto("top") EXCEPT !.epoch = data.epoch, !.once = FALSE]
  /\ UNCHANGED <<data, drop, sess, ex, faults, hist>>

\* The head of run_enabled's loop.  Without a backend or a paired phone the
\* status says so, and the loop pauses and starts over.
Top ==
  /\ mgr.pc = "top"
  /\ IF ~IsCurrent(mgr.epoch)
     THEN mgr' = Goto("waiting") /\ UNCHANGED <<data, faults>>
     ELSE \/ /\ Fault
             /\ data' = SetPhase(mgr.epoch, "Unavailable")
             /\ UNCHANGED mgr
          \/ /\ data' = SetPhase(mgr.epoch, IF mgr.once THEN "Reconnecting" ELSE "Discovering")
             /\ mgr' = Goto("discover")
             /\ UNCHANGED faults
  /\ UNCHANGED <<drop, sess, ex, hist>>

\* discover: a candidate, or none and a pause
Discover ==
  /\ mgr.pc = "discover"
  /\ \/ /\ Fault
        /\ data' = SetPhase(mgr.epoch, "Unavailable")
        /\ mgr' = Goto("top")
     \/ /\ data' = SetPhase(mgr.epoch, "Connecting")
        /\ mgr' = Goto("connect")
        /\ UNCHANGED faults
  /\ UNCHANGED <<drop, sess, ex, hist>>

Ending(end, todo) == [Goto("ending") EXCEPT !.end = end, !.todo = todo]

\* (mutant) a session is opened for an epoch that has been replaced
Connect_AnyEpoch ==
  /\ mgr.pc = "connect"
  /\ \/ Fault /\ mgr' = Ending("failed", <<>>) /\ UNCHANGED <<data, sess>>
     \/ ~data.enabled /\ mgr' = Goto("waiting") /\ UNCHANGED <<data, sess, faults>>
     \/ /\ data.enabled
        /\ LET s == data.serial + 1
           IN  /\ data' = [data EXCEPT !.serial = s, !.client = s, !.ident = s,
                                       !.status = "Authenticating"]
               /\ sess' = [sess EXCEPT ![s].phase = "opening", ![s].epoch = mgr.epoch]
               /\ mgr' = [Goto("authwait") EXCEPT !.s = s]
        /\ UNCHANGED faults
  /\ UNCHANGED <<drop, ex, hist>>

\* run_connection up to the session thread; without a connection or a thread
\* the attempt failed, and in a later epoch it is given up
Connect ==
  /\ mgr.pc = "connect"
  /\ \/ Fault /\ mgr' = Ending("failed", <<>>) /\ UNCHANGED <<data, sess>>
     \/ /\ ~(data.enabled /\ data.epoch = mgr.epoch)
        /\ mgr' = Goto("waiting")
        /\ UNCHANGED <<data, sess, faults>>
     \/ /\ data.enabled /\ data.epoch = mgr.epoch
        /\ LET s == data.serial + 1
           IN  /\ data' = [data EXCEPT !.serial = s, !.client = s, !.ident = s,
                                       !.status = "Authenticating"]
               /\ sess' = [sess EXCEPT ![s].phase = "opening", ![s].epoch = mgr.epoch]
               /\ mgr' = [Goto("authwait") EXCEPT !.s = s]
        /\ UNCHANGED faults
  /\ UNCHANGED <<drop, ex, hist>>

Teardown == <<"cancel", "join", "clear">>

\* wait_authenticated: the session is there, is over or cancelled, or the
\* timeout has passed
AuthWait ==
  /\ mgr.pc = "authwait"
  /\ \/ /\ sess[mgr.s].auth
        /\ data' = SetPhase(mgr.epoch, "AcquiringAuthority")
        /\ mgr' = Goto("acquire")
        /\ UNCHANGED faults
     \/ /\ ~sess[mgr.s].auth
        /\ mgr' = Ending("auth", Teardown)
        /\ IF sess[mgr.s].phase = "opening" /\ ~sess[mgr.s].cancel
             THEN Fault ELSE UNCHANGED faults
        /\ UNCHANGED data
  /\ UNCHANGED <<drop, sess, ex, hist>>

-----------------------------------------------------------------------------
(* The manager's remote operations.  Before an operation of the two retry     *)
(* loops the session is looked at once more.                                  *)

MgrCheck ==
  /\ mgr.pc \in Operations /\ mgr.stage = "check"
  /\ IF AccessCurrent(mgr.s) /\ (mgr.pc \in {"acquire", "probe"} => sess[mgr.s].auth)
     THEN mgr' = [mgr EXCEPT !.stage = "send"]
     ELSE mgr' = [mgr EXCEPT !.stage = "done", !.res = "lost"]
  /\ UNCHANGED <<data, drop, sess, ex, faults, hist>>

\* with nothing to reconcile no request is made
NothingToReconcile ==
  /\ mgr.pc = "reconcile" /\ mgr.stage = "check"
  /\ mgr' = [mgr EXCEPT !.stage = "done", !.res = "ok"]
  /\ UNCHANGED <<data, drop, sess, ex, faults, hist>>

MgrSend ==
  /\ mgr.stage = "send"
  /\ \E answer \in Answers(mgr.s, mgr.more) :
       /\ answer = "more" => mgr.pc \in {"reconcile", "probe", "reprobe"}
       /\ Charged(mgr.s, answer)
       /\ mgr' = IF answer = "more" THEN [mgr EXCEPT !.stage = "check", !.more = @ + 1]
                 ELSE [mgr EXCEPT !.stage = "done", !.res = answer]
  /\ hist' = [hist EXCEPT !.stray = @ \/ Strays(mgr.s)]
  /\ UNCHANGED <<data, drop, sess, ex>>

Done(operation) == mgr.pc = operation /\ mgr.stage = "done"

\* the loop around acquire_lease
Acquired ==
  /\ Done("acquire")
  /\ CASE mgr.res = "ok" ->
            /\ data' = RecordLease(SetPhase(mgr.epoch, "CheckingReadiness"), mgr.s, "ACTIVE")
            /\ hist' = [hist EXCEPT !.leased = @ \cup {mgr.s}]
            /\ mgr' = Goto("reconcile")
       [] mgr.res = "lost" ->
            mgr' = Ending("lost", Teardown) /\ UNCHANGED <<data, hist>>
       [] mgr.res = "refused" ->
            /\ data' = RecordLease(SetPhase(mgr.epoch, "Unavailable"), mgr.s, "UNAVAILABLE")
            /\ mgr' = Goto("acquire")
            /\ UNCHANGED hist
  /\ UNCHANGED <<drop, sess, ex, faults>>

\* reconcile_cleanup: any failure ends the connection
Reconciled ==
  /\ Done("reconcile")
  /\ mgr' = IF mgr.res = "ok" THEN Goto("probe") ELSE Ending("lost", Teardown)
  /\ UNCHANGED <<data, drop, sess, ex, faults, hist>>

Probed(s, ok) ==
  hist' = [hist EXCEPT !.proved = IF ok THEN @ \cup {s} ELSE @,
                       !.passed = IF ok THEN @ \cup {s} ELSE @ \ {s},
                       !.doubt = @ /\ ~ok]

Verdict(res) == IF res = "ok" THEN "FRESH_PASS" ELSE "FAILED"

\* the loop around readiness_with_purge_proof, before the first publication
Ready ==
  /\ Done("probe")
  /\ Probed(mgr.s, mgr.res = "ok")
  /\ data' = RecordProof(IF mgr.res = "refused" THEN SetPhase(mgr.epoch, "Degraded") ELSE data,
                         mgr.s, Verdict(mgr.res))
  /\ mgr' = CASE mgr.res = "ok"      -> Goto("beat")
              [] mgr.res = "lost"    -> Ending("lost", Teardown)
              [] mgr.res = "refused" -> Goto("probe")
  /\ UNCHANGED <<drop, sess, ex, faults>>

\* wait_for_bound_capacity_heartbeat
Beat ==
  /\ mgr.pc = "beat"
  /\ IF OfSession(mgr.s) /\ sess[mgr.s].auth
     THEN \/ mgr' = Goto("publish") /\ UNCHANGED faults
          \/ Fault /\ mgr' = Ending("failed", Teardown)
     ELSE mgr' = Ending("failed", Teardown) /\ UNCHANGED faults
  /\ UNCHANGED <<data, drop, sess, ex, hist>>

Publish ==
  /\ mgr.pc = "publish"
  /\ data' = PublishAvailable(mgr.s)
  /\ mgr' = Goto("loop")
  /\ UNCHANGED <<drop, sess, ex, faults, hist>>

-----------------------------------------------------------------------------
(* The loop of run_connection over a published session.                       *)

Loop ==
  /\ mgr.pc = "loop"
  /\ \/ ~IsCurrent(mgr.epoch) /\ mgr' = Goto("release") /\ UNCHANGED faults
     \/ /\ IsCurrent(mgr.epoch) /\ ~sess[mgr.s].auth
        /\ mgr' = Ending("lost", <<"mark">> \o Teardown)
        /\ UNCHANGED faults
     \/ /\ IsCurrent(mgr.epoch) /\ sess[mgr.s].auth
        /\ \/ mgr' = Goto("renew") /\ UNCHANGED faults
           \/ mgr' = Goto("look") /\ UNCHANGED faults
           \/ Fault /\ mgr' = Ending("lost", <<"mark">> \o Teardown)
  /\ UNCHANGED <<data, drop, sess, ex, hist>>

\* The manager waits for the operation lock, calls release_lease (which the
\* session access refuses: the epoch is over) and cancels the session.
Release ==
  /\ mgr.pc = "release" /\ ex = Idle
  /\ sess' = Cancelled(mgr.s)
  /\ mgr' = Ending("disabled", <<"join", "clear">>)
  /\ UNCHANGED <<data, drop, ex, faults, hist>>

Renewed ==
  /\ Done("renew")
  /\ IF mgr.res = "ok"
     THEN /\ data' = RecordLease(data, mgr.s, "ACTIVE")
          /\ mgr' = Goto("renewed")
          /\ UNCHANGED hist
     ELSE /\ data' = RecordLease(data, mgr.s, "UNAVAILABLE")
          /\ hist' = [hist EXCEPT !.leased = @ \ {mgr.s}]
          /\ mgr' = Ending("lost", <<"cancel", "mark", "join", "clear">>)
  /\ UNCHANGED <<drop, sess, ex, faults>>

\* After a renewal the status is read under the lock, and the context with the
\* new lease is published under the lock: two regions.
LookAvailable ==
  /\ mgr.pc = "renewed"
  /\ mgr' = Goto(IF data.status = "Available" THEN "republish" ELSE "look")
  /\ UNCHANGED <<data, drop, sess, ex, faults, hist>>

Republish ==
  /\ mgr.pc = "republish"
  /\ data' = PublishAvailable(mgr.s)
  /\ mgr' = Goto("look")
  /\ UNCHANGED <<drop, sess, ex, faults, hist>>

\* a degraded session is probed; a retry that is not due yet goes round
LookDegraded ==
  /\ mgr.pc = "look"
  /\ mgr' = Goto(IF data.status = "Degraded" THEN "reprobe" ELSE "loop")
  /\ UNCHANGED <<data, drop, sess, ex, faults, hist>>

Reprobed ==
  /\ Done("reprobe")
  /\ Probed(mgr.s, mgr.res = "ok")
  /\ data' = RecordProof(IF mgr.res = "refused" THEN Mark(mgr.s, "Degraded") ELSE data,
                         mgr.s, Verdict(mgr.res))
  /\ mgr' = CASE mgr.res = "ok"      -> Goto("publish")
              [] mgr.res = "lost"    -> Ending("lost", <<"cancel", "mark", "join", "clear">>)
              [] mgr.res = "refused" -> Goto("loop")
  /\ UNCHANGED <<drop, sess, ex, faults>>

-----------------------------------------------------------------------------
(* The ways out of run_connection: cancel_session, the mark, session.join()   *)
(* and clear_session, in the order of the way taken.                          *)

EndCancel ==
  /\ mgr.pc = "ending" /\ mgr.todo # <<>> /\ Head(mgr.todo) = "cancel"
  /\ sess' = Cancelled(mgr.s)
  /\ mgr' = [mgr EXCEPT !.todo = Tail(@)]
  /\ UNCHANGED <<data, drop, ex, faults, hist>>

EndMark ==
  /\ mgr.pc = "ending" /\ mgr.todo # <<>> /\ Head(mgr.todo) = "mark"
  /\ data' = Mark(mgr.s, "Reconnecting")
  /\ mgr' = [mgr EXCEPT !.todo = Tail(@)]
  /\ UNCHANGED <<drop, sess, ex, faults, hist>>

EndJoin ==
  /\ mgr.pc = "ending" /\ mgr.todo # <<>> /\ Head(mgr.todo) = "join"
  /\ sess[mgr.s].phase = "over"
  /\ mgr' = [mgr EXCEPT !.todo = Tail(@)]
  /\ UNCHANGED <<data, drop, sess, ex, faults, hist>>

EndClear ==
  /\ mgr.pc = "ending" /\ mgr.todo # <<>> /\ Head(mgr.todo) = "clear"
  /\ data' = ClearSession(mgr.s)
  /\ mgr' = [mgr EXCEPT !.todo = Tail(@)]
  /\ UNCHANGED <<drop, sess, ex, faults, hist>>

\* back in run_enabled
ConnectionEnd ==
  /\ mgr.pc = "ending" /\ mgr.todo = <<>>
  /\ IF ~IsCurrent(mgr.epoch)
     THEN mgr' = Goto("waiting") /\ UNCHANGED data
     ELSE LET once == mgr.once \/ mgr.end = "lost"
          IN  /\ data' = SetPhase(mgr.epoch, IF once /\ mgr.end # "auth"
                                             THEN "Reconnecting" ELSE "Unavailable")
              /\ mgr' = [Goto("top") EXCEPT !.once = once, !.s = 0, !.end = "none"]
  /\ UNCHANGED <<drop, sess, ex, faults, hist>>

Manager ==
  \/ WaitForEnable \/ Top \/ Discover \/ Connect \/ AuthWait
  \/ MgrCheck \/ NothingToReconcile \/ MgrSend
  \/ Acquired \/ Reconciled \/ Ready \/ Beat \/ Publish
  \/ Loop \/ Release \/ Renewed \/ LookAvailable \/ Republish \/ LookDegraded \/ Reprobed
  \/ EndCancel \/ EndMark \/ EndJoin \/ EndClear \/ ConnectionEnd

User == Enable \/ Disable \/ DropInvalidates \/ Execute

SessionThread(s) == Opens(s) \/ SeesCancel(s)

Next ==
  \/ User \/ DropCancels \/ Executor \/ Manager
  \/ LeaseExpires \/ ProofExpires
  \/ \E s \in Serials : SessionThread(s) \/ Breaks(s) \/ FallsSilent(s)

Spec == Init /\ [][Next]_vars

-----------------------------------------------------------------------------
(* Properties. *)

\* disable is final for its epoch: nothing the manager or an execution still
\* does on behalf of the old epoch (set_phase, publish_available, the marks,
\* clear_session, the recorded observations) shows in the status, the active
\* context or the gates afterwards.
OffMeansOff ==
  /\ ~data.enabled /\ ~shutdown =>
       /\ data.status = "Off" /\ data.active = 0 /\ data.ident = 0
       /\ data.lease = NothingObserved /\ data.proof = NothingObserved
  /\ data.enabled => data.status # "Off"

\* The controller's session is one of the present epoch, also when disable and
\* enable came while the manager of the old epoch was connecting, and AVAILABLE
\* is always backed by it: the active context belongs to it, and a readiness
\* probe on it has passed (run_connection, publish_available, and everything
\* that withdraws it).
AvailableIsBacked ==
  /\ data.ident # 0 => data.enabled /\ sess[data.ident].epoch = data.epoch
  /\ data.status = "Available" /\ ~shutdown =>
       /\ data.enabled /\ data.active # 0 /\ data.active = data.ident
       /\ data.ident \in hist.proved

\* No request of any thread is admitted to a session once auto-use is disabled
\* or the session is no longer the controller's (require_current is a check
\* before the act; the cancellation in disable closes the gap).
RequestsAreCurrent == ~hist.stray

\* A positive gate is a present fact: ACTIVE only while the session that got
\* the acknowledgement is authenticated and no renewal has failed since,
\* FRESH_PASS only if, besides, the last probe of that session passed.
GatesAreTrue ==
  /\ CurrentLease = "ACTIVE" =>
       /\ data.ident # 0 /\ sess[data.ident].auth /\ data.ident \in hist.leased
       /\ data.lease.s = data.ident
  /\ CurrentProof = "FRESH_PASS" =>
       data.ident \in hist.passed /\ CurrentLease = "ACTIVE"

\* Only one session of the controller is not over: the next one is not opened
\* before the thread of the last one has been joined.
OneSession ==
  Cardinality({s \in Serials : sess[s].phase \in {"opening", "live", "silent"}}) <= 1

\* What the controller publishes is true of the session it has.
PublishedIsTrue == OffMeansOff /\ AvailableIsBacked /\ GatesAreTrue /\ OneSession

\* The status a refused execution leaves behind stands until a probe passes:
\* what the test busy_and_resource_refusal_are_explicit_and_recover_without_
\* false_available expects of the status read after a refusal.
NoFalseAvailable == hist.doubt => data.status # "Available"

\* After disable the manager comes to rest, whatever it was doing and whoever
\* holds the operation lock - unless the phone fell silent in the handshake.
DisableSettles ==
  ~data.enabled
    ~> (data.enabled \/ mgr.pc \in {"waiting", "gone"} \/ \E s \in Serials : sess[s].phase = "silent")

\* Left on, the controller reaches AVAILABLE again after every fault.
EnabledRecovers == data.enabled ~> (data.status = "Available" \/ ~data.enabled)

=============================================================================
