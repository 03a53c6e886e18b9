----------------------------- MODULE ResourceGuard -----------------------------
(***************************************************************************)
(* C08: RESERVE, COMMIT and RELEASE as the worker serves them.             *)
(*                                                                         *)
(* Two tables make the requests idempotent.  `cache' is                    *)
(* WorkerCore::resource_requests (pb-worker-core/src/lib.rs): whole        *)
(* requests with their answers, kept Retention after the answer.  `idem'   *)
(* is ResourceGuard::idempotence (resource_guard.rs): RESERVE decisions,   *)
(* kept Retention after the decision became terminal.  Both are emptied of *)
(* other leases' entries before an entry is added, so here they are        *)
(* indexed by the request number, and an entry remembers its lease.        *)
(*                                                                         *)
(* The controller lease, the health samples and the C09 and C10 stores     *)
(* that consume reservations are the environment of this module; the       *)
(* health classification is HealthBands, the composition is WorkerCore.    *)
(***************************************************************************)
EXTENDS Reservations

CONSTANTS
  Ids,         \* reservation identifiers
  Reqs,        \* request numbers
  Classes,     \* resource classes
  Sizes,       \* sizes the request decoder lets through: 1 .. the class maximum
  Samples,     \* health samples, as [refused, budget]
  Capacity,    \* IDEMPOTENCE_CAPACITY, and the same literal in lib.rs
  StaleAfter,  \* HEALTH_STALE_AFTER_MS, in ticks
  MaxLeases,   \* bound: leases in a behaviour
  Horizon,     \* bound: the last tick; nothing is reserved so late that it outlives it
  NoId         \* no reservation

ASSUME GuardConstants ==
  /\ NoId \notin Ids
  /\ 0 \notin Reqs
  /\ Sizes \subseteq Nat \ {0}
  /\ Samples \subseteq [refused : BOOLEAN, budget : Nat]
  /\ Capacity \in Nat /\ StaleAfter \in Nat /\ MaxLeases \in Nat /\ Horizon \in Nat

VARIABLES
  now,
  lease,   \* the lease in force, 0 if none
  leases,  \* leases granted so far
  guard,   \* [res, alloc]
  idem,    \* ResourceGuard::idempotence
  cache,   \* WorkerCore::resource_requests
  health   \* the last sample and when it was taken

guardVars == <<now, lease, leases, guard, idem, cache, health>>

NoTime == -1

Answer(reason, id, state) == [reason |-> reason, id |-> id, state |-> state]

Refusal(reason) == Answer(reason, NoId, "None")

NoDecision == [lease |-> 0, class |-> "None", bytes |-> 0, decision |-> "None",
               id |-> NoId, at |-> NoTime]

NoEntry == [lease |-> 0, request |-> "None", answer |-> Refusal("None"), at |-> NoTime]

Requests == [op : {"Reserve"}, class : Classes, bytes : Sizes]
              \cup [op : {"Commit", "Release"}, id : Ids]

-----------------------------------------------------------------------------
(* Health, as the guard reads it (health_status). *)

Fresh == health.at # NoTime /\ now - health.at <= StaleAfter

SafetyRefused == ~Fresh \/ health.refused

Budget == IF Fresh THEN health.budget ELSE 0

-----------------------------------------------------------------------------
(* The two idempotence tables. *)

\* (mutant) an open decision counts as one that ended long ago
Kept_OnlyTerminal(e) == e.lease = lease /\ e.at # NoTime /\ now - e.at <= Retention

\* the retain in expire_and_purge
Kept(e) == e.lease = lease /\ (e.at = NoTime \/ now - e.at <= Retention)

\* mark_idempotence_terminal, for the reservations in ids
MarkTerminal(table, ids) ==
  [q \in Reqs |->
     IF \E i \in ids : guard.res[i].lease = table[q].lease /\ guard.res[i].req = q
     THEN [table[q] EXCEPT !.at = now] ELSE table[q]]

\* expire_and_purge with the lease in force, on the guard and on idem
Purged == ExpireAndPurge(guard, lease, now)

PurgedIdem ==
  LET marked == MarkTerminal(idem, Overdue(guard, now) \ Superseded(guard, lease))
  IN  [q \in Reqs |-> IF Kept(marked[q]) THEN marked[q] ELSE NoDecision]

\* resource_requests.retain
KeptCache ==
  [q \in Reqs |-> IF cache[q].lease = lease /\ now - cache[q].at <= Retention
                  THEN cache[q] ELSE NoEntry]

Count(table) == Cardinality({q \in Reqs : table[q].lease # 0})

-----------------------------------------------------------------------------
(* The handlers.  An outcome is what a request leaves behind: the guard, the *)
(* decisions, the answer, and whether the answer is cached.                  *)

Outcome(g, table, answer, cached) ==
  [guard |-> g, idem |-> table, answer |-> answer, cached |-> cached]

\* reservation_snapshot
Known(g, i) == g.res[i].state \in Live \cup Ended /\ g.res[i].lease = lease

\* the answer apply_resource_request gives to a RESERVE decision
ReserveAnswer(g, table, decision, id) ==
  CASE decision = "Reserved" /\ Known(g, id) ->
         Outcome(g, table, Answer("None", id, g.res[id].state), TRUE)
    [] decision = "Reserved" /\ ~Known(g, id) ->
         Outcome(g, table, Refusal("InternalError"), FALSE)
    [] decision = "RefusedSafety" ->
         Outcome(g, table, Refusal(IF Fresh THEN "ResourceExhausted" ELSE "RefusedStaleState"), TRUE)
    [] OTHER -> Outcome(g, table, Refusal(decision), TRUE)

\* what reserve decides about a new request (drawing an identifier may fail)
Decisions(g, c) ==
  CASE SafetyRefused                   -> {"RefusedSafety"}
    [] c.bytes > Budget - g.alloc      -> {"RefusedBudget"}
    [] OTHER                           -> {"Reserved", "EntropyUnavailable"}

\* reserve, and the rest of apply_resource_request for RESERVE
ReserveOutcomes(g, table, q, c) ==
  LET known == table[q]
  IN  CASE known.lease # 0 /\ known.class = c.class /\ known.bytes = c.bytes ->
             {ReserveAnswer(g, table, known.decision, known.id)}
        [] known.lease # 0 /\ ~(known.class = c.class /\ known.bytes = c.bytes) ->
             {Outcome(g, table, Refusal("RequestIdConflict"), TRUE)}
        [] known.lease = 0 /\ Count(table) >= Capacity ->
             {Outcome(g, table, Refusal("IdempotenceTableFull"), TRUE)}
        [] OTHER ->
             LET Decided(d, id, at) ==
                   [table EXCEPT ![q] = [lease |-> lease, class |-> c.class,
                      bytes |-> c.bytes, decision |-> d, id |-> id, at |-> at]]
             IN  {ReserveAnswer(Insert(g, i, lease, q, c.class, c.bytes, now),
                                Decided("Reserved", i, NoTime), "Reserved", i) :
                    i \in {i \in Ids : /\ "Reserved" \in Decisions(g, c)
                                       /\ g.res[i].state = "Unused"
                                       /\ now + ReservationTtl <= Horizon}}
                 \cup {ReserveAnswer(g, Decided(d, NoId, now), d, NoId) :
                         d \in Decisions(g, c) \ {"Reserved"}}

\* COMMIT or RELEASE of what is not there, or is left of another lease
NotThere(g, i) ==
  Refusal(IF g.res[i].state \in Live \cup Ended THEN "StaleControllerLease" ELSE "ReservationNotFound")

\* COMMIT or RELEASE of what has ended otherwise
NotPending(i, state) ==
  Answer(CASE state = "Expired" -> "ReservationExpired"
           [] state \in {"Consumed", "ConsumedReleased"} -> "ReservationAlreadyConsumed"
           [] OTHER -> "ReservationNotCommitted", i, state)

\* (mutant) COMMIT does not look at the state
CommitOutcome_AnyState(g, table, i) ==
  IF ~Known(g, i)
  THEN Outcome(g, table, NotThere(g, i), TRUE)
  ELSE Outcome(SetState(g, i, "Committed"), table, Answer("None", i, "Committed"), TRUE)

\* commit: a reservation that is safe to hold is committed, or given up
CommitOutcome(g, table, i) ==
  LET state == g.res[i].state
  IN  CASE ~Known(g, i) ->
             Outcome(g, table, NotThere(g, i), TRUE)
        [] Known(g, i) /\ state = "Reserved" /\ SafetyRefused ->
             Outcome(Finish(g, {i}, "RefusedSafety", now), MarkTerminal(table, {i}),
                     Answer("CommitRefusedSafety", i, "RefusedSafety"), TRUE)
        [] Known(g, i) /\ state \in Pending /\ ~(state = "Reserved" /\ SafetyRefused) ->
             Outcome(SetState(g, i, "Committed"), table,
                     Answer("None", i, "Committed"), TRUE)
        [] OTHER -> Outcome(g, table, NotPending(i, state), TRUE)

\* release: repeated, it is answered as it was the first time
ReleaseOutcome(g, table, i) ==
  LET state == g.res[i].state
  IN  CASE ~Known(g, i) ->
             Outcome(g, table, NotThere(g, i), TRUE)
        [] Known(g, i) /\ state \in Pending ->
             Outcome(Finish(g, {i}, "Released", now), MarkTerminal(table, {i}),
                     Answer("None", i, "Released"), TRUE)
        [] Known(g, i) /\ state = "Released" ->
             Outcome(g, table, Answer("None", i, "Released"), TRUE)
        [] OTHER -> Outcome(g, table, NotPending(i, state), TRUE)

Outcomes(g, table, q, c) ==
  CASE c.op = "Reserve" -> ReserveOutcomes(g, table, q, c)
    [] c.op = "Commit"  -> {CommitOutcome(g, table, c.id)}
    [] c.op = "Release" -> {ReleaseOutcome(g, table, c.id)}

\* apply_resource_request, under the lease in force
Repeated(q) ==
  /\ KeptCache[q].lease # 0      \* replayed, or refused as a conflict
  /\ cache' = KeptCache
  /\ UNCHANGED <<now, lease, leases, guard, idem, health>>

TableFull(q) ==
  /\ KeptCache[q].lease = 0
  /\ Count(KeptCache) >= Capacity
  /\ cache' = KeptCache
  /\ UNCHANGED <<now, lease, leases, guard, idem, health>>

Execute(q, c) ==
  /\ KeptCache[q].lease = 0
  /\ Count(KeptCache) < Capacity
  /\ \E o \in Outcomes(Purged, PurgedIdem, q, c) :
       /\ guard' = o.guard
       /\ idem' = o.idem
       /\ cache' = IF o.cached
                   THEN [KeptCache EXCEPT ![q] = [lease |-> lease, request |-> c,
                                                  answer |-> o.answer, at |-> now]]
                   ELSE KeptCache
  /\ UNCHANGED <<now, lease, leases, health>>

Request(q, c) == lease # 0 /\ (Repeated(q) \/ TableFull(q) \/ Execute(q, c))

-----------------------------------------------------------------------------
(* The environment: the stores that take reservations over, the lease, and   *)
(* the health sampler.                                                       *)

\* consume, called for an ALLOC (C09) or a SUBMIT (C10)
Consume(i) ==
  /\ lease # 0
  /\ guard' = IF Consumable(Purged, i, lease, Purged.res[i].class)
              THEN SetState(Purged, i, "Consumed") ELSE Purged
  /\ idem' = PurgedIdem
  /\ UNCHANGED <<now, lease, leases, cache, health>>

Claim(i) == [id |-> i, class |-> guard.res[i].class, bytes |-> guard.res[i].bytes]

\* release_consumed: the buffer or the job that took i over has ended
Dispose(i) ==
  /\ guard.res[i].state = "Consumed"
  /\ guard' = ReleaseConsumed(guard, {Claim(i)}, now)
  /\ UNCHANGED <<now, lease, leases, idem, cache, health>>

GrantLease ==
  /\ lease = 0
  /\ leases < MaxLeases
  /\ lease' = leases + 1
  /\ leases' = leases + 1
  /\ UNCHANGED <<now, guard, idem, cache, health>>

\* the lease is released or expires; its buffers and jobs end with it
EndLease ==
  /\ lease # 0
  /\ lease' = 0
  /\ guard' = ReleaseConsumed(guard, {Claim(i) : i \in Ids}, now)
  /\ UNCHANGED <<now, leases, idem, cache, health>>

\* record_health and tick
HealthTick(sample) ==
  /\ health' = [at |-> now, refused |-> sample.refused, budget |-> sample.budget]
  /\ guard' = GuardTick(guard, now)
  /\ idem' = LET marked == MarkTerminal(idem, Overdue(guard, now))
             IN  [q \in Reqs |-> IF marked[q].at = NoTime \/ now - marked[q].at <= Retention
                                 THEN marked[q] ELSE NoDecision]
  /\ UNCHANGED <<now, lease, leases, cache>>

Tick ==
  /\ now < Horizon
  /\ now' = now + 1
  /\ UNCHANGED <<lease, leases, guard, idem, cache, health>>

GuardInit ==
  /\ now = 0
  /\ lease = 0
  /\ leases = 0
  /\ guard = [res |-> [i \in Ids |-> Unused], alloc |-> 0]
  /\ idem = [q \in Reqs |-> NoDecision]
  /\ cache = [q \in Reqs |-> NoEntry]
  /\ health = [at |-> NoTime, refused |-> TRUE, budget |-> 0]

GuardNext ==
  \/ \E q \in Reqs, c \in Requests : Request(q, c)
  \/ \E i \in Ids : Consume(i) \/ Dispose(i)
  \/ GrantLease
  \/ EndLease
  \/ \E sample \in Samples : HealthTick(sample)
  \/ Tick

\* Time passes, and the Android service samples health again and again.
GuardSpec ==
  /\ GuardInit
  /\ [][GuardNext]_guardVars
  /\ WF_guardVars(Tick)
  /\ WF_guardVars(\E sample \in Samples : HealthTick(sample))

-----------------------------------------------------------------------------
(* Properties. *)

\* A RESERVE retried at any time, after its answer was forgotten too, never
\* obtains a second reservation while the first one holds memory: the decision
\* outlives the reservation (reserve, mark_idempotence_terminal).
OneReservationPerRequest ==
  \A i, j \in Ids :
    /\ guard.res[i].state \in Live /\ guard.res[j].state \in Live
    /\ guard.res[i].lease = guard.res[j].lease /\ guard.res[i].req = guard.res[j].req
    => i = j

\* What the host was told stands: after a COMMIT was acknowledged the reservation
\* does not expire and is not refused, after a RELEASE was acknowledged it never
\* holds memory again, as long as the lease lasts (commit, release, expire_reserved).
AnswersStand ==
  \A q \in Reqs :
    LET a == cache[q].answer
    IN  cache[q].lease = lease /\ lease # 0 /\ a.id # NoId =>
          /\ a.state = "Committed" =>
               guard.res[a.id].state \notin {"Unused", "Reserved", "Expired", "RefusedSafety"}
          /\ a.state \in Ended => guard.res[a.id].state \notin Live

\* C08 idempotence entries have "five-minute terminal retention or lease end,
\* whichever occurs first": a decision does not outlive the retention of the
\* reservation it is about.
DecisionsForgotten ==
  \A q \in Reqs :
    idem[q].lease = lease /\ lease # 0 /\ idem[q].id # NoId
      => guard.res[idem[q].id].state # "Dropped"
=============================================================================
