---------------------------- MODULE CleanupLedger ----------------------------
(***************************************************************************)
(* C12: what the host owes to the phone (pb-host/src/auto_use.rs).          *)
(*                                                                         *)
(* Every RESERVE is entered in a bounded ledger before it is sent, the      *)
(* entry follows the reservation while it becomes a buffer or a job, and    *)
(* it is struck out only when the phone has answered that nothing is left.  *)
(* Two host threads work on the ledger: an execution X and the manager M    *)
(* (reconciliation after a reconnect, then readiness probes).  An           *)
(* execution may be in the middle of its requests when its session ends;    *)
(* it then goes on, stale, beside the reconciliation of the next session.   *)
(*                                                                         *)
(* A reservation is named by the request that made it.  Known and Ambiguous *)
(* entries are treated alike by the code: they are "open" here.  The        *)
(* phone's side is what WorkerCore does to reservations, reduced to the     *)
(* state of each one; a request runs there once or not at all, and a lost   *)
(* answer ends the session.  One phone: the runtime admits one stored peer. *)
(***************************************************************************)
EXTENDS Integers, FiniteSets

CONSTANTS Requests,   \* request identifiers
          Capacity,   \* MAX_CLEANUP_OBLIGATIONS
          FaultKinds, \* which faults occur, of the kinds below
          MaxFaults   \* bound: how many

LedgerConstants ==
  /\ IsFiniteSet(Requests) /\ 0 \notin Requests
  /\ Capacity \in Nat \ {0} /\ MaxFaults \in Nat
  /\ FaultKinds \subseteq {"lost", "session", "lease", "expire", "refuse", "restart"}
  /\ Cardinality(Requests) >= Capacity + 3

VARIABLES ledger,   \* entries [kind, q, lease, inc, know]
          phone,    \* [inc, lease, last (lease granted), res, of, cache]
          up,       \* an authenticated session is up
          th,       \* the threads "X" and "M"
          faults

vars == <<ledger, phone, up, th, faults>>

Threads == {"X", "M"}
Kinds == {"Unresolved", "Reservation", "Buffer"}
Held == {"Reserved", "Committed"}           \* counted by ResourceGuard, owned by the host
Rest == [pc |-> "rest", op |-> "None", st |-> "None", ans |-> "None", q |-> 0, live |-> FALSE,
         stale |-> FALSE, lost |-> FALSE, good |-> FALSE, lease |-> 0, inc |-> 0, one |-> 0, two |-> 0, buf |-> 0,
         todo |-> {}, late |-> {}]

Init ==
  /\ ledger = {}
  /\ phone = [inc |-> 1, lease |-> 0, last |-> 0,
              res |-> [q \in Requests |-> "None"], of |-> [q \in Requests |-> 0],
              cache |-> [q \in Requests |-> "None"]]
  /\ up = FALSE
  /\ th = [c \in Threads |-> Rest]
  /\ faults = 0

Fault(kind) == kind \in FaultKinds /\ faults < MaxFaults /\ faults' = faults + 1

-----------------------------------------------------------------------------
(* The ledger. *)

Entry(kind, q, t, know) == [kind |-> kind, q |-> q, lease |-> t.lease, inc |-> t.inc, know |-> know]

Matches(e, kind, q, t) == e.kind = kind /\ e.q = q /\ e.lease = t.lease /\ e.inc = t.inc

\* remove_cleanup
Removed(kind, q, t) == {e \in ledger : ~Matches(e, kind, q, t)}

\* mark_cleanup_ambiguous
Marked(kind, q, t) ==
  {IF Matches(e, kind, q, t) THEN [e EXCEPT !.know = "open"] ELSE e : e \in ledger}

\* replace_cleanup
Replaced(from, to, q, t) ==
  {IF Matches(e, from, q, t) THEN Entry(to, q, t, "open") ELSE e : e \in ledger}

\* resolve_superseded_cleanup_after_purge_proof
Resolved(l, t) == {e \in l : ~(e.inc = t.inc /\ e.know = "awaiting" /\ e.lease # t.lease)}

\* (mutant) another lease means that the phone has already purged
Retained_LeaseEndsAll(t) ==
  {e \in ledger : e.kind # "Buffer" /\ e.inc = t.inc /\ e.lease = t.lease}

\* the retain and the loop at the head of reconcile_cleanup
Retained(t) ==
  {[e EXCEPT !.know = IF e.lease = t.lease THEN "open" ELSE "awaiting"] :
     e \in {d \in ledger : d.kind # "Buffer" /\ d.inc = t.inc}}

Full == Cardinality(ledger) >= Capacity

\* cleanup_ledger_is_full_with_superseded_entries
FullWithSuperseded == Full /\ \E e \in ledger : e.know = "awaiting"

-----------------------------------------------------------------------------
(* The phone: what a request does there, and what the host reads from it.     *)

\* ResourceGuard::expire_and_purge under the lease in force
Purged(p) ==
  [p EXCEPT !.res = [q \in Requests |->
     IF p.res[q] \in Held \cup {"Ended", "Expired"} /\ p.of[q] # p.lease THEN "None" ELSE p.res[q]]]

Reply(p, ans) == [phone |-> p, ans |-> ans]

\* the phone's answer to operation op for q, by a thread that holds t.lease
Replies(op, q, t) ==
  LET p == Purged(phone)
  IN  CASE t.lease # phone.lease -> {Reply(phone, "stale")}
        [] op = "Reserve" /\ t.lease = phone.lease ->
             IF p.cache[q] # "None" THEN {Reply(p, p.cache[q])}
             ELSE {Reply([p EXCEPT !.cache[q] = "ok", !.res[q] = "Reserved", !.of[q] = p.lease], "ok"),
                   Reply([p EXCEPT !.cache[q] = "refused"], "refused")}
        [] op = "Commit" /\ t.lease = phone.lease ->
             IF p.res[q] = "Reserved"
             THEN {Reply([p EXCEPT !.res[q] = "Committed"], "ok"),
                   Reply([p EXCEPT !.res[q] = "Ended"], "refused")}
             ELSE {Reply(p, "refused")}
        [] op = "Release" /\ t.lease = phone.lease ->
             {CASE p.res[q] \in Held -> Reply([p EXCEPT !.res[q] = "Ended"], "ok")
                [] p.res[q] = "None"  -> Reply(p, "notfound")
                [] OTHER              -> Reply(p, "gone")}
        [] op \in {"Alloc", "Submit"} /\ t.lease = phone.lease ->
             IF phone.res[q] = "Committed"
             THEN {Reply([phone EXCEPT !.res[q] = IF op = "Alloc" THEN "Buffer" ELSE "Consumed"], "ok"),
                   Reply(phone, "refused")}
             ELSE {Reply(phone, "refused")}
        [] op = "Free" /\ t.lease = phone.lease ->
             {Reply([phone EXCEPT !.res[q] = "Consumed"], "ok"), Reply(phone, "refused")}

\* the phone's end of a session: its buffers are lost
SessionEnded(p) ==
  [p EXCEPT !.res = [q \in Requests |-> IF p.res[q] = "Buffer" THEN "Consumed" ELSE p.res[q]]]

\* ResourceGuard::expire_reserved, when a thread is slower than the 30 s
Expire(q) ==
  /\ phone.res[q] = "Reserved" /\ Fault("expire")
  /\ phone' = [phone EXCEPT !.res[q] = "Expired"]
  /\ UNCHANGED <<ledger, up, th>>

LeaseExpires ==
  /\ phone.lease # 0 /\ Fault("lease")
  /\ phone' = [phone EXCEPT !.lease = 0]
  /\ UNCHANGED <<ledger, up, th>>

Gone == [th EXCEPT !["X"].live = FALSE, !["M"].live = FALSE]

LoseSession ==
  /\ up /\ Fault("session")
  /\ up' = FALSE /\ th' = Gone /\ phone' = SessionEnded(phone)
  /\ UNCHANGED ledger

Restart ==
  /\ Fault("restart")
  /\ phone' = [phone EXCEPT !.inc = @ + 1, !.lease = 0,
               !.res = [q \in Requests |-> "None"], !.cache = [q \in Requests |-> "None"]]
  /\ up' = FALSE /\ th' = Gone
  /\ UNCHANGED ledger

-----------------------------------------------------------------------------
(* Requests: SessionAccess refuses a stale thread, the channel may lose the   *)
(* request or the answer.                                                     *)

Asks(t, op, q) == [t EXCEPT !.op = op, !.q = q, !.st = "call", !.ans = "None"]

Answered(c, ans) == [th EXCEPT ![c].st = "handle", ![c].ans = ans]

CallStale(c) ==
  /\ th[c].st = "call" /\ ~th[c].live
  /\ th' = Answered(c, "lost")
  /\ UNCHANGED <<ledger, phone, up, faults>>

\* a refusal where the phone could have agreed counts as a fault
Call(c) ==
  /\ th[c].st = "call" /\ th[c].live
  /\ LET replies == Replies(th[c].op, th[c].q, th[c])
     IN  \E r \in replies :
           /\ phone' = r.phone
           /\ th' = Answered(c, r.ans)
           /\ IF r.ans = "refused" /\ \E o \in replies : o.ans = "ok"
              THEN Fault("refuse") ELSE UNCHANGED faults
  /\ UNCHANGED <<ledger, up>>

CallLost(c) ==
  /\ th[c].st = "call" /\ th[c].live /\ Fault("lost")
  /\ phone' \in {SessionEnded(phone)}
                  \cup {SessionEnded(r.phone) : r \in Replies(th[c].op, th[c].q, th[c])}
  /\ up' = FALSE
  /\ th' = [Answered(c, "lost") EXCEPT !["X"].live = FALSE, !["M"].live = FALSE]
  /\ UNCHANGED ledger

\* identifiers nothing refers to any more stand for fresh ones
Fresh == {q \in Requests : /\ \A e \in ledger : e.q # q
                           /\ \A c \in Threads : q \notin {th[c].q, th[c].one, th[c].two, th[c].buf}
                           /\ phone.res[q] \notin Held \cup {"Buffer"}}

\* ensure_cleanup_capacity and the request identifier: a thread whose session has
\* been cleared is refused here, one that has only lost its channel is not
Allocate(c) ==
  /\ th[c].st = "track"
  /\ th' = CASE Full                     -> Answered(c, "full")
             [] ~Full /\ th[c].stale      -> Answered(c, "lost")
             [] ~Full /\ ~th[c].stale     -> [th EXCEPT ![c].st = "enter"]
  /\ UNCHANGED <<ledger, phone, up, faults>>

Enters(c, q) ==
  /\ phone' = [phone EXCEPT !.cache = [f \in Requests |-> IF f \in Fresh THEN "None" ELSE @[f]],
                            !.res = [f \in Requests |-> IF f \in Fresh THEN "None" ELSE @[f]],
                            !.of = [f \in Requests |-> IF f \in Fresh THEN 0 ELSE @[f]]]
  /\ th' = [th EXCEPT ![c] = Asks(@, "Reserve", q), !["M"].late = @ \ {q}]

\* track_cleanup, which looks at the room again under its lock
Track(c) ==
  /\ th[c].st = "enter"
  /\ IF Full
     THEN th' = Answered(c, "full") /\ UNCHANGED <<ledger, phone>>
     ELSE \E q \in Fresh : /\ \A f \in Fresh : q <= f
                           /\ ledger' = ledger \cup {Entry("Unresolved", q, th[c], "open")}
                           /\ Enters(c, q)
  /\ UNCHANGED <<up, faults>>

Handles(c, pc, op) == th[c].st = "handle" /\ th[c].pc = pc /\ th[c].op = op

Ok(c) == th[c].ans = "ok"

\* cleanup_release_terminal
Terminal(c) == th[c].ans \in {"ok", "notfound", "gone"}

Settled(t) == [t EXCEPT !.st = "None", !.op = "None", !.ans = "None", !.q = 0]

Reserving(t, pc) == [t EXCEPT !.pc = pc, !.op = "Reserve", !.st = "track", !.q = 0, !.ans = "None"]

\* (nothing comes between the two for the manager, whose session is never stale)
MReserving(t, pc) == [Reserving(t, pc) EXCEPT !.st = "enter"]

-----------------------------------------------------------------------------
(* execute_remote_blake3_reader, with reserve_and_commit twice and              *)
(* cleanup_remote at the end on every path: an execution, or the manager as     *)
(* the last part of a readiness probe.                                          *)

Execute ==
  /\ th["X"].pc = "rest" /\ th["M"].pc = "run" /\ up
  /\ th' = [th EXCEPT !["X"] = Reserving([Rest EXCEPT !.live = TRUE, !.lease = th["M"].lease,
                                                      !.inc = th["M"].inc], "one")]
  /\ UNCHANGED <<ledger, phone, up, faults>>

\* cleanup_remote: the buffer, then the reservations still held
CleanupNext(t) ==
  LET u == [t EXCEPT !.pc = "cleanup"]
  IN  CASE t.buf # 0                             -> Asks([u EXCEPT !.buf = 0], "Free", t.buf)
        [] t.buf = 0 /\ t.two # 0                -> Asks([u EXCEPT !.two = 0], "Release", t.two)
        [] t.buf = 0 /\ t.two = 0 /\ t.one # 0   -> Asks([u EXCEPT !.one = 0], "Release", t.one)
        [] t.buf = 0 /\ t.two = 0 /\ t.one = 0   -> [Settled(t) EXCEPT !.pc = "done"]

\* (late: what an execution without a session touched since the reconciliation)
Goes(c, t) == th' = [th EXCEPT ![c] = t,
                               !["M"].late = IF c = "M" \/ th[c].live THEN @ ELSE @ \cup {th[c].q}]

Ends(c, t) == Goes(c, CleanupNext(t))

ClassReserved(c) ==
  LET t == th[c]
  IN  /\ t.pc \in {"one", "two"} /\ Handles(c, t.pc, "Reserve")
      /\ CASE t.ans = "ok" ->
                /\ ledger' = Replaced("Unresolved", "Reservation", t.q, t)
                /\ Goes(c, Asks(t, "Commit", t.q))
           [] t.ans = "refused" -> ledger' = Removed("Unresolved", t.q, t) /\ Ends(c, t)
           [] t.ans = "full"    -> UNCHANGED ledger /\ Ends(c, t)
           [] t.ans \in {"stale", "lost"} ->
                UNCHANGED ledger /\ Ends(c, [t EXCEPT !.lost = TRUE])
      /\ UNCHANGED <<phone, up, faults>>

Committed(c) ==
  LET t == th[c]
  IN  /\ t.pc \in {"one", "two"} /\ Handles(c, t.pc, "Commit")
      /\ Goes(c, CASE t.ans = "ok" /\ t.pc = "one" -> Asks([t EXCEPT !.one = t.q], "Alloc", t.q)
                   [] t.ans = "ok" /\ t.pc = "two" -> Asks([t EXCEPT !.two = t.q], "Submit", t.q)
                   [] t.ans = "lost"               -> CleanupNext([t EXCEPT !.lost = TRUE])
                   [] t.ans \in {"refused", "stale"} -> Asks(t, "Release", t.q))
      /\ ledger' = IF t.ans = "lost" THEN Marked("Reservation", t.q, t) ELSE ledger
      /\ UNCHANGED <<phone, up, faults>>

\* the release in reserve_and_commit after a refused COMMIT
Unwound(c) ==
  LET t == th[c]
  IN  /\ t.pc \in {"one", "two"} /\ Handles(c, t.pc, "Release")
      /\ ledger' = IF Terminal(c) THEN Removed("Reservation", t.q, t) ELSE ledger
      /\ Ends(c, t)
      /\ UNCHANGED <<phone, up, faults>>

\* ALLOC, then the PUTs and the STAT, which may end the execution
Allocated(c) ==
  LET t == th[c]
      u == [t EXCEPT !.one = 0, !.buf = t.q]
  IN  /\ Handles(c, "one", "Alloc")
      /\ CASE t.ans = "ok"   -> /\ ledger' = Replaced("Reservation", "Buffer", t.q, t)
                                /\ Goes(c, IF c = "M" THEN MReserving(u, "two") ELSE Reserving(u, "two"))
                                   \/ (Fault("refuse") /\ Ends(c, u))
           [] t.ans = "lost" -> /\ ledger' = Marked("Reservation", t.q, t)
                                /\ Ends(c, [t EXCEPT !.lost = TRUE])
           [] t.ans \in {"refused", "stale"} -> UNCHANGED ledger /\ Ends(c, t)
      /\ UNCHANGED <<phone, up>>
      /\ t.ans # "ok" \/ th'[c].pc = "two" => UNCHANGED faults

\* SUBMIT: a job in the answer owns the scratch reservation; its result is polled
Submitted(c) ==
  LET t == th[c]
  IN  /\ Handles(c, "two", "Submit")
      /\ ledger' = CASE t.ans = "ok"   -> Removed("Reservation", t.q, t)
                     [] t.ans = "lost" -> Marked("Reservation", t.q, t)
                     [] t.ans \in {"refused", "stale"} -> ledger
      /\ Ends(c, CASE t.ans = "ok"   -> [t EXCEPT !.two = 0, !.good = TRUE]
                   [] t.ans = "lost" -> [t EXCEPT !.lost = TRUE]
                   [] t.ans \in {"refused", "stale"} -> t)
      /\ UNCHANGED <<phone, up, faults>>

\* an unresolved cleanup is a lost transport
Cleaned(c) ==
  LET t == th[c]
      kind == IF t.op = "Free" THEN "Buffer" ELSE "Reservation"
  IN  /\ t.pc = "cleanup" /\ t.st = "handle"
      /\ IF Terminal(c)
         THEN ledger' = Removed(kind, t.q, t) /\ Ends(c, t)
         ELSE ledger' = Marked(kind, t.q, t) /\ Ends(c, [t EXCEPT !.lost = TRUE])
      /\ UNCHANGED <<phone, up, faults>>

Remote(c) ==
  ClassReserved(c) \/ Committed(c) \/ Unwound(c) \/ Allocated(c) \/ Submitted(c) \/ Cleaned(c)

\* execute_blake3 after the call: a lost transport cancels the session
Executed ==
  LET t == th["X"]
  IN  /\ t.pc = "done"
      /\ IF t.live /\ t.lost
         THEN up' = FALSE /\ phone' = SessionEnded(phone) /\ th' = [Gone EXCEPT !["X"] = Rest]
         ELSE th' = [th EXCEPT !["X"] = Rest] /\ UNCHANGED <<phone, up>>
      /\ UNCHANGED <<ledger, faults>>

-----------------------------------------------------------------------------
(* The manager: acquire, reconcile_cleanup, readiness_with_purge_proof.        *)

MTo(t) == th' = [th EXCEPT !["M"] = t]

\* cancel_session, join and the way back to the next connection
MEnds == /\ up' = FALSE
         /\ phone' = SessionEnded(phone)
         /\ th' = [th EXCEPT !["X"].live = FALSE, !["X"].stale = TRUE, !["M"] = Rest]

\* a new session; ACQUIRE returns the lease in force or a new one
Connect ==
  /\ th["M"].pc = "rest" /\ ~up
  /\ up' = TRUE
  /\ LET lease == IF phone.lease = 0 THEN phone.last + 1 ELSE phone.lease
     IN  /\ phone' = [phone EXCEPT !.lease = lease, !.last = IF @ < lease THEN lease ELSE @]
         /\ MTo([Rest EXCEPT !.pc = "reconcile", !.live = TRUE, !.lease = lease, !.inc = phone.inc])
  /\ UNCHANGED <<ledger, faults>>

\* a session the manager finds ended
Reconnect ==
  /\ th["M"].pc \in {"reconcile", "probe", "run"} /\ th["M"].st = "None"
  /\ ~th["M"].live
  /\ MEnds
  /\ UNCHANGED <<ledger, faults>>

\* the head of reconcile_cleanup: the obligations of this lease are copied
Reconcile ==
  LET t == th["M"]
  IN  /\ t.pc = "reconcile" /\ t.st = "None" /\ t.live
      /\ ledger' = Retained(t)
      /\ MTo([t EXCEPT !.pc = "obligations", !.late = {},
                       !.todo = {[kind |-> e.kind, q |-> e.q] :
                                   e \in {d \in Retained(t) : d.lease = t.lease}}])
      /\ UNCHANGED <<phone, up, faults>>

Obligation ==
  LET t == th["M"]
  IN  /\ t.pc = "obligations" /\ t.st = "None"
      /\ IF t.todo = {} THEN MTo([t EXCEPT !.pc = "probe"])
         ELSE \E o \in t.todo :
                MTo(Asks([t EXCEPT !.todo = @ \ {o}],
                         IF o.kind = "Reservation" THEN "Release" ELSE "Reserve", o.q))
      /\ UNCHANGED <<ledger, phone, up, faults>>

\* the replay of an unresolved RESERVE
Replayed ==
  LET t == th["M"]
  IN  /\ Handles("M", "obligations", "Reserve")
      /\ CASE t.ans = "ok" ->
                /\ ledger' = Replaced("Unresolved", "Reservation", t.q, t)
                /\ MTo(Asks(t, "Release", t.q))
                /\ UNCHANGED <<phone, up>>
           [] t.ans = "refused" ->
                /\ ledger' = Removed("Unresolved", t.q, t)
                /\ MTo(Settled(t))
                /\ UNCHANGED <<phone, up>>
           [] t.ans \in {"stale", "lost"} -> UNCHANGED ledger /\ MEnds
      /\ UNCHANGED faults

\* reconcile_reservation_release
ReconcileReleased ==
  LET t == th["M"]
  IN  /\ Handles("M", "obligations", "Release")
      /\ IF Terminal("M")
         THEN /\ ledger' = Removed("Reservation", t.q, t)
              /\ MTo(Settled(t))
              /\ UNCHANGED <<phone, up>>
         ELSE ledger' = Marked("Reservation", t.q, t) /\ MEnds
      /\ UNCHANGED faults

\* the reservations prove_purge_with_known_superseded_reservation may ask about
Provable == {e.q : e \in {d \in ledger : d.know = "awaiting" /\ d.kind = "Reservation"}}

\* A probe makes room first if the ledger is full; without a reservation to ask
\* about it fails, and is tried again.
Probe ==
  LET t == th["M"]
  IN  /\ t.pc = "probe" /\ t.st = "None" /\ t.live
      /\ IF FullWithSuperseded
         THEN \E q \in Provable : MTo(Asks([t EXCEPT !.pc = "prove"], "Release", q))
         ELSE MTo(MReserving(t, "probe"))
      /\ UNCHANGED <<ledger, phone, up, faults>>

Proved ==
  LET t == th["M"]
  IN  /\ Handles("M", "prove", "Release")
      /\ IF t.ans = "notfound"
         THEN /\ ledger' = Resolved(ledger, t)
              /\ MTo(MReserving(t, "probe"))
              /\ UNCHANGED <<phone, up>>
         ELSE UNCHANGED ledger /\ MEnds
      /\ UNCHANGED faults

ProbeReserved ==
  LET t == th["M"]
  IN  /\ Handles("M", "probe", "Reserve")
      /\ CASE t.ans = "ok" ->
                /\ ledger' = Replaced("Unresolved", "Reservation", t.q, t)
                /\ MTo(Asks(t, "Release", t.q))
                /\ UNCHANGED <<phone, up>>
           [] t.ans = "refused" ->
                /\ ledger' = Removed("Unresolved", t.q, t)
                /\ MTo(Settled(t))
                /\ UNCHANGED <<phone, up>>
           [] t.ans = "full" -> UNCHANGED <<ledger, phone, up>> /\ MTo(Settled(t))
           [] t.ans \in {"stale", "lost"} -> UNCHANGED ledger /\ MEnds
      /\ UNCHANGED faults

\* only an exact RELEASED strikes the probe's entry out and goes on to its execution
ProbeReleased ==
  LET t == th["M"]
  IN  /\ Handles("M", "probe", "Release")
      /\ CASE t.ans = "ok" ->
                /\ ledger' = Removed("Reservation", t.q, t)
                /\ MTo(MReserving(t, "one"))
                /\ UNCHANGED <<phone, up>>
           [] t.ans = "lost" -> ledger' = Marked("Reservation", t.q, t) /\ MEnds
           [] t.ans \in {"stale", "gone", "notfound"} ->
                /\ MTo([Settled(t) EXCEPT !.late = @ \cup {t.q}])
                /\ UNCHANGED <<ledger, phone, up>>
      /\ UNCHANGED faults

\* (mutant) a passed probe proves nothing
Probed_NothingProved ==
  LET t == th["M"]
      next == [t EXCEPT !.lost = FALSE, !.good = FALSE]
  IN  /\ t.pc = "done"
      /\ IF t.lost THEN MEnds
         ELSE MTo([next EXCEPT !.pc = IF t.good THEN "run" ELSE "probe"]) /\ UNCHANGED <<phone, up>>
      /\ UNCHANGED <<ledger, faults>>

\* A passed probe is the purge proof, and the session is published.
Probed ==
  LET t == th["M"]
      next == [t EXCEPT !.lost = FALSE, !.good = FALSE]
  IN  /\ t.pc = "done"
      /\ CASE t.lost -> UNCHANGED ledger /\ MEnds
           [] ~t.lost /\ t.good -> /\ ledger' = Resolved(ledger, t)
                                   /\ MTo([next EXCEPT !.pc = "run"])
                                   /\ UNCHANGED <<phone, up>>
           [] ~t.lost /\ ~t.good -> MTo([next EXCEPT !.pc = "probe"]) /\ UNCHANGED <<ledger, phone, up>>
      /\ UNCHANGED faults

\* a degraded session is probed again, when no execution is using it
Reprobe ==
  /\ th["M"].pc = "run" /\ th["M"].live /\ ~th["X"].live
  /\ MTo([th["M"] EXCEPT !.pc = "probe"])
  /\ UNCHANGED <<ledger, phone, up, faults>>

\* a renewal that the phone refuses ends the session
RenewFails ==
  /\ th["M"].pc \in {"run", "probe"} /\ th["M"].st = "None" /\ th["M"].live
  /\ phone.lease # th["M"].lease
  /\ MEnds
  /\ UNCHANGED <<ledger, faults>>

ManagerStep ==
  \/ Connect \/ Reconnect \/ Reconcile \/ Obligation \/ Replayed \/ ReconcileReleased
  \/ Probe \/ Proved \/ ProbeReserved \/ ProbeReleased \/ Remote("M") \/ Probed

ExecutionStep == Remote("X") \/ Executed

Requesting(c) == Allocate(c) \/ Track(c) \/ CallStale(c) \/ Call(c)

Next ==
  \/ Execute \/ ExecutionStep \/ ManagerStep \/ Reprobe \/ RenewFails
  \/ \E c \in Threads : Requesting(c) \/ CallLost(c)
  \/ \E q \in Requests : Expire(q)
  \/ LeaseExpires \/ LoseSession \/ Restart

Spec == Init /\ [][Next]_vars

-----------------------------------------------------------------------------
(* Properties. *)

Entries == [kind : Kinds, q : Requests, lease : 1..(MaxFaults + 1), inc : 1..(MaxFaults + 1),
            know : {"open", "awaiting"}]

Names(e, q) == e.q = q /\ e.lease = phone.of[q] /\ e.inc = phone.inc

\* Nothing is forgotten: whatever the phone still counts against its budget for
\* this host is named by an entry of the ledger, at every point between a
\* request, its lost or late answer, a reconnect, a new lease and the replay
\* (reserve_with_cleanup, replace_cleanup, reconcile_cleanup, the purge proof).
NothingForgotten ==
  /\ \A q \in Requests : phone.res[q] \in Held =>
       \E e \in ledger : Names(e, q) /\ e.kind # "Buffer"
  /\ \A q \in Requests : phone.res[q] = "Buffer" =>
       \E e \in ledger : Names(e, q) /\ e.kind # "Unresolved"

\* A full ledger refuses instead of growing, also when two threads track.
LedgerBounded == Cardinality(ledger) <= Capacity

\* What an execution of the present session and lease holds is not taken from
\* under it, by the clock, by the reconciliation or by a probe.
HoldsItsOwn ==
  \A q \in {th["X"].one, th["X"].two} \ {0} :
    th["X"].live /\ phone.lease = th["X"].lease /\ th["X"].st = "call" /\ th["X"].q = q
      => phone.res[q] = "Committed"

\* A full ledger in which no RELEASE can prove anything, and a ledger that is not
\* full when a probe looks but has no room for both entries of its execution.
NothingToProve == FullWithSuperseded /\ Provable = {}
NoRoomToProbe == th["M"].pc = "probe" /\ th["M"].st = "None" /\ Cardinality(ledger) = Capacity - 1

\* The ledger empties: with finitely many faults every obligation is settled in
\* the end - by its own release, a replay, the end of its session or a purge
\* proof.  What remains waits for the next reconciliation (what an execution that
\* outlived its session enters or reopens beside the new session, and a probe's
\* reservation that was gone before its RELEASE), or is one of the two ledgers
\* above, in which readiness_with_purge_proof fails every time.
LedgerDrains ==
  []<>(\/ th["X"].pc # "rest"
       \/ \A e \in ledger : e.q \in th["M"].late
       \/ NothingToProve \/ NoRoomToProbe)
=============================================================================
