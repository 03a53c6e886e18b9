----------------------------- MODULE MCWorkerParts -----------------------------
(***************************************************************************)
(* The parts of the worker, each with its environment left free, side by   *)
(* side: in a behaviour one of them moves and the others stay as they      *)
(* started.  The controller lease and the health bands are the module's    *)
(* own state; the bands are driven by one kind of sample at a time, over   *)
(* the values on both sides of each threshold.                                           *)
(***************************************************************************)
EXTENDS ControllerLease, HealthBands

CONSTANTS NoId, NoJob, Blank

VARIABLES
  part,                                           \* the part that moves
  state, ranges, backing, answer,                 \* BufferRanges
  wNow, wActive, wReleased, wGranted, wReply, guard, buffers, jobs, running, session, sessions

Healthy == [memory |-> 2048, low |-> FALSE, thermal |-> 0, percent |-> 90, charging |-> FALSE]

ThermalSamples == {[Healthy EXCEPT !.thermal = t] : t \in {0, 2, 3, 6}}

MemorySamples == {[Healthy EXCEPT !.memory = m, !.low = l] :
                    m \in {767, 768, 896}, l \in BOOLEAN}
                   \cup {[Healthy EXCEPT !.thermal = 3], [Healthy EXCEPT !.percent = 10]}

BatterySamples == {[Healthy EXCEPT !.percent = p] : p \in {14, 15, 19, 20, 25, 26, 29, 30}}
                    \cup {[Healthy EXCEPT !.percent = 14, !.charging = TRUE]}

MCSamples == ThermalSamples \cup MemorySamples \cup BatterySamples

Thermal == INSTANCE HealthBands WITH Samples <- ThermalSamples
Memory == INSTANCE HealthBands WITH Samples <- MemorySamples
Battery == INSTANCE HealthBands WITH Samples <- BatterySamples

Buffer == INSTANCE BufferRanges WITH Size <- 5, Values <- {1, 2}, MaxRead <- 4

\* one lease that outlasts the buffer, which can be touched until its lifetime ends; no job
Worker == INSTANCE WorkerCore WITH
  Peers <- {"p1"},
  LeaseTtl <- 4, CacheCapacity <- 1, SeqLimit <- 0, MaxLeases <- 1, LastGrant <- 0,
  Horizon <- 3, ReservationTtl <- 1, Retention <- 1, Ids <- {1}, Buffers <- {1},
  Jobs <- {}, Sizes <- {1}, BufferTtl <- 2, BufferLifetime <- 3, TombstoneRetention <- 1,
  MaxBuffers <- 1, MaxHeld <- 1, ProviderTimeout <- 1, MaxSessions <- 1,
  now <- wNow, active <- wActive, released <- wReleased, granted <- wGranted, reply <- wReply

ASSUME /\ HealthConstants
       /\ Thermal!HealthConstants /\ Memory!HealthConstants /\ Battery!HealthConstants
       /\ Buffer!RangesConstants /\ Worker!WorkerConstants

-----------------------------------------------------------------------------
bufferVars == <<state, ranges, backing, answer>>
workerVars == <<wNow, wActive, wReleased, wGranted, wReply, guard, buffers, jobs, running,
                session, sessions>>
mcVars == <<part, leaseVars, healthVars, bufferVars, workerVars>>

MCInit ==
  /\ part \in {"lease", "thermal", "memory", "battery", "buffer", "worker"}
  /\ LeaseInit /\ Buffer!RangesInit /\ Worker!WorkerInit
  /\ CASE part = "thermal" -> Thermal!HealthInit
       [] part = "memory" -> Memory!HealthInit
       [] part = "battery" -> Battery!HealthInit
       [] OTHER -> Thermal!HealthInit /\ latest = Healthy

MCNext ==
  /\ UNCHANGED part
  /\ \/ /\ part = "lease" /\ LeaseNext
        /\ UNCHANGED <<healthVars, bufferVars, workerVars>>
     \/ /\ \/ part = "thermal" /\ Thermal!HealthNext
           \/ part = "memory" /\ Memory!HealthNext
           \/ part = "battery" /\ Battery!HealthNext
        /\ UNCHANGED <<leaseVars, bufferVars, workerVars>>
     \/ /\ part = "buffer" /\ Buffer!RangesNext
        /\ UNCHANGED <<leaseVars, healthVars, workerVars>>
     \/ /\ part = "worker" /\ Worker!WorkerNext
        /\ UNCHANGED <<leaseVars, healthVars, bufferVars>>

\* The fairness of each part, as the code's threads give it, for the part that moves:
\* time passes, Android goes on sampling.
Fairness ==
  /\ WF_leaseVars(part = "lease" /\ Tick) /\ WF_leaseVars(part = "lease" /\ Reconcile)
  /\ WF_healthVars(part \in {"thermal", "memory", "battery"} /\ Thermal!Elapse)
  /\ WF_healthVars(
       \/ part = "thermal" /\ \E s \in ThermalSamples : Thermal!RecordHealth(s)
       \/ part = "memory" /\ \E s \in MemorySamples : Memory!RecordHealth(s)
       \/ part = "battery" /\ \E s \in BatterySamples : Battery!RecordHealth(s))
  /\ WF_workerVars(part = "worker" /\ Worker!WorkerTick)
  /\ WF_workerVars(part = "worker" /\ Worker!HealthTick)

MCSpec == MCInit /\ [][MCNext]_mcVars /\ Fairness

-----------------------------------------------------------------------------
(* Properties. *)

\* When the samples settle, the bands settle on what the samples say: no recovery
\* starts over for ever (update_thermal, update_memory, update_battery).
BandsSettle ==
  /\ part = "thermal" => Thermal!SteadyRecovers
  /\ part = "memory" => Memory!SteadyRecovers
  /\ part = "battery" => Battery!SteadyRecovers

\* The spans of a remote buffer stand for the bytes that were written: it can be
\* read exactly when all were, and reads as what was last written (put, get).
ImplementsByteStore ==
  /\ Buffer!Bytes!Init
  /\ [][part = "buffer" => [Buffer!Bytes!Next]_(Buffer!Bytes!vars)]_mcVars

\* Nothing is held for ever, though the host and the transport fall silent: a lease
\* that is not renewed ends, a buffer ends however often it is touched, and a
\* reservation that is not committed gives its bytes back (expire_if_needed, touch,
\* tick, expire_reserved).
HoldingsEnd ==
  /\ part = "lease" => LeaseEnds
  /\ part = "worker" => Worker!HoldingsEnd
=============================================================================
