-------------------------- MODULE CapacityPlacement --------------------------
(***************************************************************************)
(* Where an execution is placed (auto_use.rs): the controller holds a lease *)
(* of one incarnation of the worker, the session keeps the last heartbeat,  *)
(* and each execution asks the planner with what it finds of both at that   *)
(* moment.  Heartbeats, the session, the worker and the lease go on in      *)
(* between.                                                                 *)
(***************************************************************************)
EXTENDS Planner

CONSTANTS
  Peers, Incarnations, MaxInput,
  Budgets,        \* the pairs of a safe budget and what is reserved of it
  Scratch,        \* SCRATCH_BYTES
  Fresh,          \* FRESH_CAPACITY_METRICS
  LowBattery      \* 15 per cent

CapacityConstants == Scratch \in Nat \ {0} /\ MaxInput \in Nat /\ Fresh \in Nat

VARIABLES
  session,  \* what the snapshot of the session shows: authenticated, the peer, the heartbeat
  worker,   \* external: the incarnation that runs
  active,   \* ActiveContext: the peer and the incarnation of the lease, and whether it still runs
  status,   \* NodeStatus: Available, and the provider seen
  last      \* the placement just made

vars == <<session, worker, active, status, last>>

NoHeartbeat == [peer |-> None, lease |-> None, inc |-> 0, age |-> 0, thermal |-> 0, charging |-> FALSE,
                battery |-> 0, power_save |-> FALSE, safe |-> 0, reserved |-> 0]
NoPlacement == [decision |-> Local("none"), reason |-> "none"]

Monus(a, b) == IF a > b THEN a - b ELSE 0

\* (mutant) a heartbeat of the lease counts whichever incarnation sent it
OfIncarnation_Any(h, a) == TRUE

OfIncarnation(h, a) == h.inc = a.inc

bound_capacity_heartbeat(s, a) ==
  /\ s.heartbeat # NoHeartbeat
  /\ s.authenticated /\ s.peer = a.peer
  /\ s.heartbeat.age <= Fresh
  /\ s.heartbeat.peer = a.peer
  /\ s.heartbeat.lease = a.lease
  /\ OfIncarnation(s.heartbeat, a)

\* what the planner is given instead of a heartbeat that is missing or not bound
Worst == [NoHeartbeat EXCEPT !.thermal = 6]

ThermalClass(n) == IF n = 0 THEN "Nominal" ELSE IF n = 1 THEN "Light" ELSE IF n = 2 THEN "Moderate" ELSE "Severe"

BatteryPolicy(h) ==
  IF h.charging THEN "ExternalPower"
  ELSE IF h.battery < LowBattery THEN "RemoteDisallowed"
  ELSE IF h.power_save THEN "PowerSave" ELSE "BatteryAllowed"

Remaining(h) == Monus(h.safe, h.reserved)

OpenGates(s, a, st, h, bytes) ==
  {g \in Gates :
     CASE g = "authenticated" -> s.authenticated /\ s.peer = a.peer
       [] g = "ready" -> st.available
       [] g = "active_lease" -> a.runs
       [] g = "fresh_metrics" -> bound_capacity_heartbeat(s, a)
       [] g = "provider_available" -> st.provider
       [] g = "resource_estimate_nonzero" -> bytes + Scratch > 0
       [] g = "resource_guard_admitted" -> h.safe > 0}

\* capacity_placement_decision_from_snapshot_for_length
CapacityDecision(s, a, st, bytes) ==
  LET h == IF bound_capacity_heartbeat(s, a) THEN s.heartbeat ELSE Worst
  IN  Decide([mode |-> "Capacity", gates |-> OpenGates(s, a, st, h, bytes), thermal |-> ThermalClass(h.thermal),
              battery |-> BatteryPolicy(h), resident |-> 0, aware |-> TRUE, local_fits |-> TRUE,
              remote_fits |-> Remaining(h) >= bytes + Scratch, key |-> None, profile |-> NoProfile, now |-> 0])

\* auto_use_reason_for_placement
ReasonFor(reason) ==
  CASE reason = "RemoteNotAuthenticated" -> "AuthFailed"
    [] reason = "LeaseInactive" -> "LeaseUnavailable"
    [] reason \in {"RemoteNotReady", "MetricsStale", "ProviderUnavailable", "ProfileUnknown", "ProfileInvalid",
                   "ProfileNotSpeedQualified", "LocalPreferred"} -> "WorkerUnhealthy"
    [] reason \in {"ResourceEstimateZero", "ResourceGuardRefused", "ThermalDisallowed", "BatteryPolicyDisallowed",
                   "RemoteCapacityInsufficient", "WorkloadNotPhoneBoostAware", "LocalOnlyRequested"} -> "ResourceRefused"
    [] reason \in {"RemoteCapacityRequired", "SpeedEvidenceQualified", "RemoteDataLocality"} -> "Ready"

Heartbeats(p, l, i) ==
  {[peer |-> p, lease |-> l, inc |-> i, age |-> 0, thermal |-> t, charging |-> power[1], battery |-> power[2],
    power_save |-> FALSE, safe |-> memory[1], reserved |-> memory[2]] :
     t \in {2, 3}, memory \in Budgets,
     power \in {<<FALSE, LowBattery>>, <<FALSE, LowBattery - 1>>, <<TRUE, LowBattery - 1>>}}
-----------------------------------------------------------------------------
Init ==
  /\ session = [authenticated |-> FALSE, peer |-> None, heartbeat |-> NoHeartbeat]
  /\ worker = [p \in Peers |-> 1]
  /\ active = [peer |-> None, lease |-> None, inc |-> 0, runs |-> FALSE]
  /\ status = [available |-> FALSE, provider |-> FALSE]
  /\ last = NoPlacement

Connect(p) ==
  /\ ~session.authenticated
  /\ session' = [authenticated |-> TRUE, peer |-> p, heartbeat |-> NoHeartbeat]
  /\ last' = NoPlacement /\ UNCHANGED <<worker, active, status>>

Disconnect ==
  /\ session.authenticated
  /\ session' = [authenticated |-> FALSE, peer |-> None, heartbeat |-> NoHeartbeat]
  /\ last' = NoPlacement /\ UNCHANGED <<worker, active, status>>

\* external: a lease granted by the incarnation that runs, and the context made of it
Granted(l) ==
  /\ session.authenticated
  /\ active' = [peer |-> session.peer, lease |-> l, inc |-> worker[session.peer], runs |-> TRUE]
  /\ status' \in [available : {TRUE}, provider : BOOLEAN]
  /\ last' = NoPlacement /\ UNCHANGED <<session, worker>>

\* external: the worker's process starts again; its leases are void, their numbers may come again
Restart(p) ==
  /\ worker[p] + 1 \in Incarnations
  /\ worker' = [worker EXCEPT ![p] = @ + 1]
  /\ last' = NoPlacement /\ UNCHANGED <<session, active, status>>

LeaseEnds ==
  /\ active.runs
  /\ active' = [active EXCEPT !.runs = FALSE]
  /\ last' = NoPlacement /\ UNCHANGED <<session, worker, status>>

Heartbeat(l) ==
  /\ session.authenticated
  /\ \E h \in Heartbeats(session.peer, l, worker[session.peer]) : session' = [session EXCEPT !.heartbeat = h]
  /\ last' = NoPlacement /\ UNCHANGED <<worker, active, status>>

Ages ==
  /\ session.heartbeat # NoHeartbeat /\ session.heartbeat.age <= Fresh
  /\ session' = [session EXCEPT !.heartbeat.age = @ + 1]
  /\ last' = NoPlacement /\ UNCHANGED <<worker, active, status>>

Withdrawn ==
  /\ status.available
  /\ status' = [status EXCEPT !.available = FALSE]
  /\ last' = NoPlacement /\ UNCHANGED <<session, worker, active>>

\* execute_blake3: the context was found, and the placement is decided
Place(bytes) ==
  /\ active.peer # None
  /\ LET d == CapacityDecision(session, active, status, bytes)
     IN  last' = [decision |-> d, reason |-> ReasonFor(d.reason)]
  /\ UNCHANGED <<session, worker, active, status>>

Next ==
  \/ \E p \in Peers : Connect(p) \/ Restart(p)
  \/ \E l \in {"l1", None} : Heartbeat(l)
  \/ Granted("l1") \/ Disconnect \/ LeaseEnds \/ Ages \/ Withdrawn
  \/ \E bytes \in 0..MaxInput : Place(bytes)

Spec == Init /\ [][Next]_vars
-----------------------------------------------------------------------------
\* An execution goes to the worker exactly when everything it depends on is there: the
\* session of the lease's peer, a running lease of a node that is available with its
\* provider, a heartbeat of that lease and of that incarnation that is fresh, cool enough
\* and powered, and room for the input and its scratch space beside what is reserved.
RemoteExactly ==
  LET h == session.heartbeat
      ready(b) == /\ session.authenticated /\ session.peer = active.peer
                  /\ status.available /\ status.provider /\ active.runs
                  /\ h.peer = active.peer /\ h.lease = active.lease /\ h.inc = active.inc /\ h.age <= Fresh
                  /\ h.thermal < 3 /\ (h.charging \/ h.battery >= LowBattery)
                  /\ h.safe >= h.reserved + b + Scratch
  IN  active.peer # None =>
        \A b \in 0..MaxInput : IsRemote(CapacityDecision(session, active, status, b)) <=> ready(b)

\* The reason given to the requester is READY exactly when the worker was chosen.
ReadyMeansRemote == last # NoPlacement => (last.reason = "Ready" <=> IsRemote(last.decision))
=============================================================================
