------------------------------ MODULE MCAutoUse ------------------------------
(***************************************************************************)
(* Auto-use on the host, side by side: the stored preference, which is the  *)
(* module's own state, the controller, its ledger of cleanup obligations,   *)
(* and the placement of executions by capacity, by measurement and by the   *)
(* stored profiles.  In a behaviour one of them moves and the others stay   *)
(* as they started.  The planner by itself is a function: it is asked twice, *)
(* the second time in circumstances that have become worse in one respect.  *)
(***************************************************************************)
EXTENDS AutoUsePreference, FiniteSets

CONSTANTS MaxEpoch, MaxAutoFaults, MaxMore, Silent, MaxLedgerFaults,
          MaxTurns   \* bound: epochs and faults of the controller together

VARIABLES
  part,                                                \* the part that moves
  data, drop, sess, mgr, ex, faults, hist,             \* AutoUse
  ledger, phone, up, th, lost,                         \* CleanupLedger
  session, worker, active, status, last,               \* CapacityPlacement
  in, worse,                                           \* Planner: its input, and whether it was asked again
  now, made, files, pw, may, lone, rd, plan, failed    \* ProfileStore

Auto == INSTANCE AutoUse WITH MaxFaults <- MaxAutoFaults

Ledger == INSTANCE CleanupLedger WITH
  Requests <- 1..5, Capacity <- 2, FaultKinds <- {"lost", "lease", "expire", "refuse", "restart"},
  MaxFaults <- MaxLedgerFaults, faults <- lost

\* with room for what waits beside both entries of a probe
Roomy == INSTANCE CleanupLedger WITH
  Requests <- 1..6, Capacity <- 3, FaultKinds <- {"lost", "lease", "expire", "refuse", "restart"},
  MaxFaults <- 1, faults <- lost

Capacity == INSTANCE CapacityPlacement WITH
  Ttl <- 1, MinimumRuns <- 1, SpeedGain <- 1, LocalityLoss <- -1, MinimumSustained <- 1,
  Peers <- {"p1", "p2"}, Incarnations <- {1, 2}, Budgets <- {<<1, 3>>, <<3, 2>>},
  MaxInput <- 1, Scratch <- 1, Fresh <- 1, LowBattery <- 15

\* evidence on both sides of the thresholds
Of(runs, gain, bound, severe) ==
  [local_warm |-> TRUE, remote_warm |-> TRUE, local_runs |-> 1, remote_runs |-> runs, gain |-> gain,
   lower_bound |-> bound, sustained |-> 1, severe |-> severe]

Evidence == {Of(1, 1, 1, FALSE), Of(0, 1, 1, FALSE), Of(1, -1, 0, FALSE), Of(1, -2, 0, FALSE)}

Plan == INSTANCE Planner WITH
  Ttl <- 1, MinimumRuns <- 1, SpeedGain <- 1, LocalityLoss <- -1, MinimumSustained <- 1

Store == INSTANCE ProfileStore WITH
  Ttl <- 1, MinimumRuns <- 1, SpeedGain <- 1, LocalityLoss <- -1, MinimumSustained <- 1,
  Keys <- {"k1", "k2"}, Slots <- {"m1"}, Writers <- {"w1"},
  Evidence <- {Of(1, 1, 1, FALSE), Of(1, -1, 0, FALSE)}, MaxWall <- 2, MaxFaults <- 1,
  disk <- files, w <- pw, faults <- failed

ASSUME Auto!AutoUseConstants
ASSUME Ledger!LedgerConstants /\ Roomy!LedgerConstants
ASSUME Capacity!CapacityConstants /\ Capacity!PlannerConstants
ASSUME Plan!PlannerConstants
ASSUME Store!ProfileConstants /\ Store!PlannerConstants

-----------------------------------------------------------------------------
(* The planner: a gate closes, the phone warms up, its battery drains, the  *)
(* profile ages or is lost, less of the data lies at the worker.            *)

Profiles ==
  {Plan!NoProfile} \cup [schema : {1, 2}, key : {"k1"}, created : {1}, evidence : Evidence]

\* the inputs the planner is asked about: all gates open, or only the first or the last closed
Inputs ==
  [mode : Plan!Modes,
   gates : {Plan!Gates, Plan!Gates \ {"authenticated"}, Plan!Gates \ {"resource_guard_admitted"}},
   thermal : {"Nominal", "Moderate"}, battery : {"PowerSave"}, resident : {0, 1}, aware : {TRUE},
   local_fits : BOOLEAN, remote_fits : BOOLEAN, key : {Plan!None, "k1", "k2"}, profile : Profiles,
   now : 0..1]

GateCloses == \E g \in in.gates : in' = [in EXCEPT !.gates = @ \ {g}]

Hotter == [Nominal |-> "Light", Light |-> "Moderate", Moderate |-> "Severe"]
Warms == in.thermal # "Severe" /\ in' = [in EXCEPT !.thermal = Hotter[@]]

Lower == [ExternalPower |-> "BatteryAllowed", BatteryAllowed |-> "PowerSave", PowerSave |-> "RemoteDisallowed"]
Drains == in.battery # "RemoteDisallowed" /\ in' = [in EXCEPT !.battery = Lower[@]]

\* time passes for a profile that is in force
Ages == in.now >= in.profile.created /\ in' = [in EXCEPT !.now = @ + 1]

ProfileLost == in.profile # Plan!NoProfile /\ in' = [in EXCEPT !.profile = Plan!NoProfile]

DataLeaves == in.resident > 0 /\ in' = [in EXCEPT !.resident = @ - 1]

CapacityShrinks == in.remote_fits /\ in' = [in EXCEPT !.remote_fits = FALSE]

\* the workload fits at home again
HomeFits == ~in.local_fits /\ in' = [in EXCEPT !.local_fits = TRUE]

\* a later measurement: no better in any respect
NoBetter(a, b) ==
  /\ b.local_warm => a.local_warm
  /\ b.remote_warm => a.remote_warm
  /\ b.local_runs <= a.local_runs /\ b.remote_runs <= a.remote_runs
  /\ b.gain <= a.gain /\ b.lower_bound <= a.lower_bound /\ b.sustained <= a.sustained
  /\ a.severe => b.severe

MeasuredWorse ==
  /\ in.profile # Plan!NoProfile
  /\ \E e \in Evidence \ {in.profile.evidence} :
       NoBetter(in.profile.evidence, e) /\ in' = [in EXCEPT !.profile.evidence = e]

AskedAgain ==
  /\ ~worse /\ worse' = TRUE
  /\ \/ GateCloses \/ Warms \/ Drains \/ Ages \/ ProfileLost \/ DataLeaves
     \/ CapacityShrinks \/ HomeFits \/ MeasuredWorse

-----------------------------------------------------------------------------
autoVars == <<data, drop, sess, mgr, ex, faults, hist>>
ledgerVars == <<ledger, phone, up, th, lost>>
capacityVars == <<session, worker, active, status, last>>
placeVars == <<in, worse>>
storeVars == <<now, made, files, pw, may, lone, rd, plan, failed>>
mcVars == <<part, vars, autoVars, ledgerVars, capacityVars, placeVars, storeVars>>

MCInit ==
  /\ part \in {"preference", "controller", "ledger", "roomy", "capacity", "placement", "profiles"}
  /\ Init /\ (part # "preference" => disk.live[Config] = NoFile)
  /\ \/ part = "controller" /\ Auto!Init
     \/ /\ part # "controller" /\ data = 0 /\ drop = 0 /\ sess = 0 /\ mgr = 0 /\ ex = 0
        /\ faults = 0 /\ hist = 0
  /\ \/ part = "ledger" /\ Ledger!Init
     \/ part = "roomy" /\ Roomy!Init
     \/ part \notin {"ledger", "roomy"} /\ ledger = 0 /\ phone = 0 /\ up = 0 /\ th = 0 /\ lost = 0
  /\ \/ part = "capacity" /\ Capacity!Init
     \/ part # "capacity" /\ session = 0 /\ worker = 0 /\ active = 0 /\ status = 0 /\ last = 0
  /\ \/ part = "placement" /\ in \in Inputs /\ worse = FALSE
     \/ part # "placement" /\ in = 0 /\ worse = 0
  /\ \/ part = "profiles" /\ Store!Init
     \/ /\ part # "profiles" /\ now = 0 /\ made = 0 /\ files = 0 /\ pw = 0 /\ may = 0
        /\ lone = 0 /\ rd = 0 /\ plan = 0 /\ failed = 0

MCNext ==
  /\ UNCHANGED part
  /\ \/ /\ part = "preference" /\ Next
        /\ UNCHANGED <<autoVars, ledgerVars, capacityVars, placeVars, storeVars>>
     \/ /\ part = "controller" /\ Auto!Next /\ data'.epoch + faults' <= MaxTurns
        /\ UNCHANGED <<vars, ledgerVars, capacityVars, placeVars, storeVars>>
     \/ /\ part = "ledger" /\ Ledger!Next
        /\ UNCHANGED <<vars, autoVars, capacityVars, placeVars, storeVars>>
     \/ /\ part = "roomy" /\ Roomy!Next
        /\ UNCHANGED <<vars, autoVars, capacityVars, placeVars, storeVars>>
     \/ /\ part = "capacity" /\ Capacity!Next
        /\ UNCHANGED <<vars, autoVars, ledgerVars, placeVars, storeVars>>
     \/ /\ part = "placement" /\ AskedAgain
        /\ UNCHANGED <<vars, autoVars, ledgerVars, capacityVars, storeVars>>
     \/ /\ part = "profiles" /\ Store!Next
        /\ UNCHANGED <<vars, autoVars, ledgerVars, capacityVars, placeVars>>

MCSpec == MCInit /\ [][MCNext]_mcVars

-----------------------------------------------------------------------------
(* Properties. *)

\* What the controller publishes is true, whatever the manager, an execution, the session
\* threads and the user do at the same time: OFF at once and for good, AVAILABLE and the
\* gates only on the present session, one session at a time (set_phase,
\* publish_available, record_lease, record_readiness, clear_session).
PublishedIsTrue == part = "controller" => Auto!PublishedIsTrue

\* No request is admitted to a session once auto-use is off or the session is no longer
\* the controller's: the check in require_current and the cancellation in disable leave
\* no gap between them.
RequestsAreCurrent == part = "controller" => Auto!RequestsAreCurrent

\* Whatever the phone still counts against its budget for this host is named by an entry
\* of the ledger, which never outgrows its capacity; and what an execution holds is not
\* taken from under it (reserve_with_cleanup, replace_cleanup, reconcile_cleanup).
NothingForgotten ==
  /\ part = "ledger" => Ledger!NothingForgotten /\ Ledger!LedgerBounded /\ Ledger!HoldsItsOwn
  /\ part = "roomy" => Roomy!NothingForgotten /\ Roomy!LedgerBounded /\ Roomy!HoldsItsOwn

\* An execution goes to the worker exactly when the session, the lease, a fresh heartbeat
\* of that lease and incarnation, the battery, the temperature and the budget allow it,
\* and the reason READY says so (capacity_placement, bound_capacity_heartbeat).
RemoteExactly == part = "capacity" => Capacity!RemoteExactly /\ Capacity!ReadyMeansRemote

\* Circumstances that only get worse never move a workload to the worker
\* (PlannerInput::decide).
WorseNeverRemote ==
  [][part = "placement" => (Plan!IsRemote(Plan!Decide(in)') => Plan!IsRemote(Plan!Decide(in)))]_mcVars

\* data at the worker or a tie in speed: no more than the tolerated loss, and a cool phone
NeverAtALoss ==
  Plan!Decide(in).target \in {"RemoteSpeed", "RemoteLocality"} =>
    /\ in.profile.evidence.gain >= -1
    /\ ~in.profile.evidence.severe
    /\ in.key = in.profile.key
    /\ in.now = in.profile.created

\* A workload goes to the worker for speed or locality only on a measurement of its own
\* key that is in force, at no more than the tolerated loss; and the store and the planner
\* agree on which measurement that is (decide, profile_status, load).
RemoteIsEarned ==
  /\ part = "placement" => NeverAtALoss
  /\ part = "profiles" => Store!RemoteIsEarned /\ Store!ValidIsMeasured /\ Store!VerdictsAgree

\* What busy_and_resource_refusal_are_explicit_and_recover_without_false_available expects
\* of the status read after a refusal: not AVAILABLE until a probe has passed.
NoFalseAvailable == part = "controller" => Auto!NoFalseAvailable
=============================================================================
