------------------------------ MODULE HealthBands ------------------------------
(***************************************************************************)
(* How the worker's ResourceGuard classifies the health samples Android    *)
(* gives it (pb-worker-core/src/resource_guard.rs): memory, temperature    *)
(* and battery get worse at once and better only after a time of samples   *)
(* that agree.                                                             *)
(*                                                                         *)
(* Times are kept as ages, which the passing of time makes older up to     *)
(* Oldest; nothing compares an age with more than that.  `seen' is history *)
(* for the properties: how long ago there were samples that alarmed.       *)
(***************************************************************************)
EXTENDS Integers

CONSTANTS
  Samples,          \* the samples Android may report
  StaleAfter,       \* HEALTH_STALE_AFTER_MS
  Recovery,         \* 10 seconds: memory and temperature
  BatteryRecovery,  \* 30 seconds
  Oldest            \* bound: ages stop here

Never == -1

Ages == {Never} \cup 0 .. Oldest

\* memory in MiB, Android's thermal status 0 .. 6
HealthConstants ==
  /\ Samples \subseteq [memory : Nat, low : BOOLEAN, thermal : 0 .. 6, percent : 0 .. 100,
                        charging : BOOLEAN]
  /\ StaleAfter \in Nat /\ Recovery \in Nat /\ BatteryRecovery \in Nat /\ Oldest \in Nat
  /\ Oldest > StaleAfter /\ Oldest >= Recovery /\ Oldest >= 2 * BatteryRecovery

VARIABLES
  latest,   \* the last sample
  age,      \* its age, Never before the first one
  memory,   \* [blocked, since]: since when there has been enough
  thermal,  \* [band, target, since]: the band in force and the one it recovers to
  battery,  \* the same for the battery
  seen      \* ages of the last sample: of each thermal status, of scarce memory,
            \* of a battery to be spared, of one to be left alone

healthVars == <<latest, age, memory, thermal, battery, seen>>

MinAvailable == 768

RecoveryAvailable == 896

Margin == 512

PocCap == 128

\* BatteryBand, in its order
Nominal == 0

Throttle == 1

Refused == 2

Unknown == 3

ThermalUnknown == 7

-----------------------------------------------------------------------------
(* Classification. *)

Scarce(s) == s.low \/ s.memory < MinAvailable

\* raw_battery_band
RawBattery(s) ==
  CASE s.charging \/ s.percent > 25      -> Nominal
    [] ~s.charging /\ s.percent < 15     -> Refused
    [] OTHER                             -> Throttle

\* in force, with no recovery under way
Settled(band) == [band |-> band, target |-> Never, since |-> Never]

\* recovery begins or goes on: the band is left once it took long enough
Recovers(m, target, time) ==
  CASE m.target # target                    -> [m EXCEPT !.target = target, !.since = 0]
    [] m.target = target /\ m.since >= time -> Settled(target)
    [] OTHER                                -> m

\* memory_recovery_since_ms.get_or_insert
EnoughSince == IF memory.since = Never THEN 0 ELSE memory.since

UpdateMemory(s) ==
  CASE Scarce(s) -> [blocked |-> TRUE, since |-> Never]
    [] ~Scarce(s) /\ memory.blocked /\ s.memory >= RecoveryAvailable ->
         IF EnoughSince >= Recovery THEN [blocked |-> FALSE, since |-> Never]
         ELSE [blocked |-> TRUE, since |-> EnoughSince]
    [] OTHER -> [memory EXCEPT !.since = Never]

\* (mutant) a sample of the band in force does not end a recovery under way
UpdateThermal_RecoveryKept(s) ==
  CASE age = Never \/ s.thermal > thermal.band  -> Settled(s.thermal)
    [] age # Never /\ s.thermal < thermal.band  -> Recovers(thermal, s.thermal, Recovery)
    [] OTHER                                    -> thermal

\* (mutant) every sample starts the recovery anew
UpdateThermal_Restarts(s) ==
  CASE age = Never \/ s.thermal > thermal.band  -> Settled(s.thermal)
    [] age # Never /\ s.thermal < thermal.band  ->
         IF thermal.target = s.thermal /\ thermal.since >= Recovery THEN Settled(s.thermal)
         ELSE [thermal EXCEPT !.target = s.thermal, !.since = 0]
    [] OTHER                                    -> Settled(thermal.band)

\* the second sample in a row is the earliest that can end a recovery: the
\* code's count of samples says the same
UpdateThermal(s) ==
  CASE age = Never \/ s.thermal > thermal.band  -> Settled(s.thermal)
    [] age # Never /\ s.thermal < thermal.band  -> Recovers(thermal, s.thermal, Recovery)
    [] OTHER                                    -> Settled(thermal.band)

\* the charge the band in force is left at, and for which band
ThresholdMet(s) == \/ battery.band = Refused /\ s.percent >= 20
                   \/ battery.band = Throttle /\ s.percent >= 30

Better == IF battery.band = Refused THEN Throttle ELSE Nominal

UpdateBattery(s) ==
  LET observed == RawBattery(s)
  IN  CASE s.charging -> Settled(Nominal)
        [] ~s.charging /\ (age = Never \/ observed > battery.band) -> Settled(observed)
        [] /\ ~s.charging /\ age # Never /\ observed < battery.band
           /\ ThresholdMet(s) -> Recovers(battery, Better, BatteryRecovery)
        [] OTHER -> Settled(battery.band)

-----------------------------------------------------------------------------
(* What RESERVE and COMMIT are told: health_status. *)

Fresh == age # Never /\ age <= StaleAfter

MemoryRefused == memory.blocked \/ Scarce(latest)

\* SafetyBand::is_refused: SEVERE and worse, and the unknown, refuse
SafetyRefused ==
  ~Fresh \/ MemoryRefused \/ thermal.band >= 3 \/ battery.band = Refused

\* poc_budget
PocBudget(mib) ==
  LET quarter == (IF mib >= Margin THEN mib - Margin ELSE 0) \div 4
  IN  IF quarter < PocCap THEN quarter ELSE PocCap

Budget == IF Fresh /\ ~MemoryRefused THEN PocBudget(latest.memory) ELSE 0

-----------------------------------------------------------------------------
\* record_health
RecordHealth(s) ==
  /\ memory' = UpdateMemory(s)
  /\ thermal' = UpdateThermal(s)
  /\ battery' = UpdateBattery(s)
  /\ latest' = s
  /\ age' = 0
  /\ seen' = [thermal |-> [seen.thermal EXCEPT ![s.thermal] = 0],
              scarce  |-> IF Scarce(s) THEN 0 ELSE seen.scarce,
              spared  |-> CASE s.charging                  -> Never
                            [] RawBattery(s) >= Throttle   -> 0
                            [] OTHER                       -> seen.spared,
              left    |-> CASE s.charging                  -> Never
                            [] RawBattery(s) = Refused     -> 0
                            [] OTHER                       -> seen.left]

Older(a) == IF a = Never \/ a = Oldest THEN a ELSE a + 1

\* time passes
Elapse ==
  /\ age' = Older(age)
  /\ memory' = [memory EXCEPT !.since = Older(@)]
  /\ thermal' = [thermal EXCEPT !.since = Older(@)]
  /\ battery' = [battery EXCEPT !.since = Older(@)]
  /\ seen' = [thermal |-> [l \in 0 .. 6 |-> Older(seen.thermal[l])],
              scarce |-> Older(seen.scarce), spared |-> Older(seen.spared),
              left |-> Older(seen.left)]
  /\ UNCHANGED latest

\* a cold start counts as a time of scarce memory
HealthInit ==
  /\ latest \in Samples /\ age = Never   \* no sample yet
  /\ memory = [blocked |-> TRUE, since |-> Never]
  /\ thermal = Settled(ThermalUnknown)
  /\ battery = Settled(Unknown)
  /\ seen = [thermal |-> [l \in 0 .. 6 |-> Never], scarce |-> 0, spared |-> Never, left |-> Never]

HealthNext == (\E s \in Samples : RecordHealth(s)) \/ Elapse

\* Time passes, and the Android service goes on sampling.
HealthSpec ==
  /\ HealthInit
  /\ [][HealthNext]_healthVars
  /\ WF_healthVars(\E s \in Samples : RecordHealth(s))
  /\ WF_healthVars(Elapse)

-----------------------------------------------------------------------------
(* Properties. *)

\* The worker is treated as cooler than a status it reported only when that
\* report is ten seconds old: a lower status in between, or the same low status
\* before and after, does not make it cool (update_thermal).
ThermalHeld ==
  \A l \in 0 .. 6 : seen.thermal[l] # Never /\ l > thermal.band => seen.thermal[l] >= Recovery

\* Memory is given out only ten seconds after it was last scarce, or after the
\* cold start (update_memory, health_status).
MemoryHeld == ~SafetyRefused \/ Budget > 0 => seen.scarce >= Recovery

\* Unless it was charged since, a battery seen at a refused charge is used again
\* after thirty seconds at the earliest and fully after twice that, and one seen
\* at a throttled charge is used fully after thirty seconds (update_battery).
BatteryHeld ==
  /\ seen.left # Never /\ battery.band < Refused => seen.left >= BatteryRecovery
  /\ seen.left # Never /\ battery.band = Nominal => seen.left >= 2 * BatteryRecovery
  /\ seen.spared # Never /\ battery.band = Nominal => seen.spared >= BatteryRecovery

\* A sample that alarms is obeyed at once, whatever the recoveries under way: no
\* reservation is granted or committed on it (health_status).
AlarmObeyed ==
  age # Never /\ (Scarce(latest) \/ latest.thermal >= 3 \/ RawBattery(latest) = Refused)
    => SafetyRefused

\* The health bands recover late and alarm at once, whichever input varies: the
\* worker counts as cooler than a status it reported, as having memory to give, or
\* as charged, only after the recovery time of that input, whatever samples came in
\* between; and a sample that alarms is obeyed with the recoveries still under way
\* (update_thermal, update_memory, update_battery, health_status).
BandsHeld == ThermalHeld /\ MemoryHeld /\ BatteryHeld /\ AlarmObeyed

\* When the samples settle, the bands settle on what the samples say: no recovery
\* starts over for ever.  A battery below the thresholds keeps its band.
SteadyRecovers ==
  \A s \in Samples :
    <>[](age # Never /\ latest = s) =>
      <>[](/\ thermal.band = s.thermal
           /\ ~s.low /\ s.memory >= RecoveryAvailable => ~memory.blocked
           /\ s.percent >= 20 => battery.band <= Throttle
           /\ s.percent >= 30 \/ s.charging => battery.band = Nominal)
=============================================================================
