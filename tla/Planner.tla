------------------------------- MODULE Planner -------------------------------
(***************************************************************************)
(* The placement planner of planner.rs: what evidence a performance profile *)
(* holds, whether the profile is in force, and where a workload is placed.  *)
(* The strings of a key and the sizes of a cost estimate are abstracted to  *)
(* what the decision tells apart.                                           *)
(***************************************************************************)
EXTENDS Integers, Sequences, FiniteSetsExt

CONSTANTS
  Ttl,            \* PERFORMANCE_PROFILE_TTL
  MinimumRuns,    \* MINIMUM_MEASURED_RUNS
  SpeedGain,      \* SPEED_MINIMUM_GAIN_BASIS_POINTS
  LocalityLoss,   \* LOCALITY_MAXIMUM_LOSS_BASIS_POINTS, negative
  MinimumSustained \* MINIMUM_SUSTAINED_CHECK

PlannerConstants ==
  /\ Ttl \in Nat \ {0} /\ MinimumRuns \in Nat \ {0} /\ MinimumSustained \in Nat \ {0}
  /\ SpeedGain \in Int /\ LocalityLoss \in Int /\ LocalityLoss < SpeedGain

None == "none"

Thermal == {"Nominal", "Light", "Moderate", "Severe"}
Battery == {"ExternalPower", "BatteryAllowed", "PowerSave", "RemoteDisallowed"}
Modes == {"LocalOnly", "Capacity", "Speed", "Balanced"}

\* the verdict of the first check that fails
FirstFailing(checks, otherwise) ==
  LET failing == {i \in DOMAIN checks : checks[i][1]}
  IN  IF failing = {} THEN otherwise ELSE checks[Min(failing)][2]

has_minimum_measurements(e) ==
  e.local_warm /\ e.remote_warm /\ e.local_runs >= MinimumRuns /\ e.remote_runs >= MinimumRuns

is_speed_qualified(e) ==
  /\ has_minimum_measurements(e)
  /\ e.gain >= SpeedGain
  /\ e.lower_bound > 0
  /\ e.sustained >= MinimumSustained
  /\ ~e.severe

is_locality_acceptable(e) == has_minimum_measurements(e) /\ e.gain >= LocalityLoss /\ ~e.severe

NoEvidence == [local_warm |-> FALSE, remote_warm |-> FALSE, local_runs |-> 0, remote_runs |-> 0,
               gain |-> 0, lower_bound |-> 0, sustained |-> 0, severe |-> FALSE]
NoProfile == [schema |-> 0, key |-> None, created |-> 0, evidence |-> NoEvidence]

\* (mutant) a profile is still in force at the moment its time is up
Expired_Late(age) == age > Ttl

Expired(age) == age >= Ttl

\* PerformanceProfile::status
Status(p, key, now) ==
  FirstFailing(<< <<p.schema # 1, "SchemaUnsupported">>,
                  <<p.key # key, "KeyChanged">>,
                  <<now < p.created, "ClockMovedBackwards">>,
                  <<Expired(now - p.created), "TtlExpired">> >>, "Valid")

Gates == {"authenticated", "ready", "active_lease", "fresh_metrics", "provider_available",
          "resource_estimate_nonzero", "resource_guard_admitted"}

\* RemoteGates::refusal_reason; open is the set of gates that hold
Refusals(open) ==
  << <<"authenticated" \notin open, "RemoteNotAuthenticated">>,
     <<"ready" \notin open, "RemoteNotReady">>,
     <<"active_lease" \notin open, "LeaseInactive">>,
     <<"fresh_metrics" \notin open, "MetricsStale">>,
     <<"provider_available" \notin open, "ProviderUnavailable">>,
     <<"resource_estimate_nonzero" \notin open, "ResourceEstimateZero">>,
     <<"resource_guard_admitted" \notin open, "ResourceGuardRefused">> >>

Local(reason) == [target |-> "LocalOnly", reason |-> reason]
Remote(target, reason) == [target |-> target, reason |-> reason]

profile_status(in) ==
  IF in.key = None \/ in.profile = NoProfile THEN "Missing" ELSE Status(in.profile, in.key, in.now)

speed_decision(in) ==
  LET status == profile_status(in)
  IN  IF status = "Missing" THEN Local("ProfileUnknown")
      ELSE IF status # "Valid" THEN Local("ProfileInvalid")
      ELSE IF is_speed_qualified(in.profile.evidence) THEN Remote("RemoteSpeed", "SpeedEvidenceQualified")
      ELSE Local("ProfileNotSpeedQualified")

LocalityCounts(in) == in.resident > 0 /\ is_locality_acceptable(in.profile.evidence)

balanced_decision(in) ==
  IF ~in.local_fits THEN Remote("RemoteCapacity", "RemoteCapacityRequired")
  ELSE IF profile_status(in) = "Valid" /\ is_speed_qualified(in.profile.evidence)
       THEN Remote("RemoteSpeed", "SpeedEvidenceQualified")
  ELSE IF profile_status(in) = "Valid" /\ LocalityCounts(in) THEN Remote("RemoteLocality", "RemoteDataLocality")
  ELSE Local("LocalPreferred")

\* (mutant) a hot phone is refused only by name
ThermalRefused_Moderate(class) == class = "Moderate"

ThermalRefused(class) == class = "Severe"

\* PlannerInput::decide
Decide(in) ==
  LET refusal ==
        FirstFailing(<< <<in.mode = "LocalOnly", "LocalOnlyRequested">> >> \o Refusals(in.gates) \o
                     << <<ThermalRefused(in.thermal), "ThermalDisallowed">>,
                        <<in.battery = "RemoteDisallowed", "BatteryPolicyDisallowed">>,
                        <<~in.aware, "WorkloadNotPhoneBoostAware">>,
                        <<~in.remote_fits, "RemoteCapacityInsufficient">> >>, None)
  IN  IF refusal # None THEN Local(refusal)
      ELSE IF in.mode = "Capacity" THEN Remote("RemoteCapacity", "RemoteCapacityRequired")
      ELSE IF in.mode = "Speed" THEN speed_decision(in)
      ELSE balanced_decision(in)

IsRemote(d) == d.target # "LocalOnly"
=============================================================================
