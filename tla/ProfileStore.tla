----------------------------- MODULE ProfileStore -----------------------------
(***************************************************************************)
(* The store of performance profiles (profile_store.rs) and the planner     *)
(* that uses what it loads.  Profiles are measured, stored by one or more   *)
(* processes, and loaded for a key at some time; the wall clock may be set  *)
(* to anything, the machine may stop, and other programs may write the      *)
(* files.  A planner may use a loaded profile at any later moment.          *)
(***************************************************************************)
EXTENDS Planner, AtomicFile

CONSTANTS
  Keys,        \* the keys that validate; a file is named by the hash of its key
  Slots,       \* the profiles that may be measured
  Writers,
  Evidence,
  MaxWall,     \* u64::MAX milliseconds
  MaxFaults    \* bound on what other programs do, failing calls and stops of the machine

ProfileConstants == MaxWall \in Nat /\ MaxFaults \in Nat

VARIABLES
  now,      \* the wall clock
  made,     \* what was measured, by slot
  disk, w,  \* AtomicFile: the directory, and each writer
  may,      \* history: for each key, the contents its file may have
  lone,     \* history: writers whose store nothing else has disturbed
  rd,       \* a load: its key, its time, what it opened and its verdict
  plan,     \* the decision just made of a loaded profile
  faults

vars == <<now, made, disk, w, may, lone, rd, plan, faults>>

NotMade == [schema |-> 0, key |-> None, created |-> 0, expires |-> 0, evidence |-> NoEvidence]
NoLoad == [stage |-> "idle", key |-> None, at |-> 0, val |-> "none", touched |-> FALSE, linked |-> FALSE,
           verdict |-> "none", profile |-> NoProfile]
NoPlan == [decision |-> Local("none"), key |-> None, at |-> 0]

Fault == faults < MaxFaults /\ faults' = faults + 1

Init ==
  /\ now = 0
  /\ made = [m \in Slots |-> NotMade]
  /\ disk = NewDisk(Keys)
  /\ w = [x \in Writers |-> Idle]
  /\ may = [k \in Keys |-> {"none"}]
  /\ lone = {}
  /\ rd = NoLoad
  /\ plan = NoPlan
  /\ faults = 0

ClockSet ==
  /\ now' \in (0..MaxWall) \ {now}
  /\ UNCHANGED <<made, disk, w, may, lone, rd, faults>>
  /\ plan' = NoPlan

Expires(created) == created + Ttl

\* C13PerformanceProfileV1::new: refused when the sum leaves the range of the clock
New(m, k, e) ==
  /\ made[m] = NotMade
  /\ now + Ttl <= MaxWall
  /\ made' = [made EXCEPT ![m] = [schema |-> 1, key |-> k, created |-> now, expires |-> Expires(now), evidence |-> e]]
  /\ UNCHANGED <<now, disk, w, may, lone, rd, faults>>
  /\ plan' = NoPlan

\* store: up to the temporary file; a destination that is not a private file is refused.
\* Each profile is stored once (bound).
Store(x, m) ==
  LET k == made[m].key
  IN  /\ w[x].stage \in {"idle", "done", "failed"}
      /\ made[m] # NotMade
      /\ \A j \in Keys : m \notin may[j]
      /\ \A y \in Writers : w[y].val # m
      /\ disk.live[k].val # "unsafe"
      /\ w' = [w EXCEPT ![x] = StartWrite(k, m)]
      /\ lone' = IF \E y \in Writers \ {x} : Writing(w[y]) /\ w[y].name = k
                 THEN {y \in lone \ {x} : w[y].name # k}
                 ELSE lone \cup {x}
      /\ may' = [may EXCEPT ![k] = @ \cup {m}]
      /\ UNCHANGED <<now, made, disk, rd, faults>>
      /\ plan' = NoPlan

\* ... and each of its system calls
StoreStep(x) ==
  LET done == Succeeds(disk, w[x], Keys)
      k == w[x].name
  IN  /\ Writing(w[x])
      /\ disk' = done.disk
      /\ w' = [w EXCEPT ![x] = done.w]
      /\ may' = [may EXCEPT ![k] = IF done.w.stage = "done" /\ x \in lone THEN {w[x].val} ELSE @]
      /\ rd' = [rd EXCEPT !.linked = @ /\ ~(w[x].stage = "rename" /\ rd.key = k)]
      /\ UNCHANGED <<now, made, lone, faults>>
      /\ plan' = NoPlan

\* Io, or DurabilityUnknown once the file has its name
StoreFails(x) ==
  /\ Writing(w[x]) /\ Fault
  /\ w' = [w EXCEPT ![x] = Fails(disk, w[x]).w]
  /\ may' = [may EXCEPT ![w[x].name] = IF w[x].stage = "dirsync" THEN @ ELSE @ \ {w[x].val}]
  /\ UNCHANGED <<now, made, disk, lone, rd>>
  /\ plan' = NoPlan

\* external: another program writes the file in place, or copies the file of another key
Contents(k) == {"garbled", "newer", "unsafe", "big"} \cup {disk.live[j].val : j \in Keys \ {k}}

Foreign(k) ==
  /\ Fault
  /\ \E v \in Contents(k) \ {"none"} :
       /\ disk' = [disk EXCEPT !.live[k] = [val |-> v, safe |-> FALSE]]
       /\ may' = [may EXCEPT ![k] = @ \cup {v, Torn}]
  /\ lone' = {y \in lone : w[y].name # k}
  /\ rd' = [rd EXCEPT !.touched = @ \/ (rd.linked /\ rd.key = k)]
  /\ UNCHANGED <<now, made, w>>
  /\ plan' = NoPlan

MachineStops ==
  /\ Fault
  /\ disk' \in Crashes(disk)
  /\ w' = [x \in Writers |-> Idle]
  /\ lone' = {}
  /\ rd' = NoLoad /\ plan' = NoPlan
  /\ UNCHANGED <<now, made, may>>

\* load: the file is opened, and looked at before it is read
Opened(v) ==
  FirstFailing(<< <<v = "none", "Missing">>, <<v = "unsafe", "UnsafeObject">>, <<v = "big", "Oversized">> >>, "none")

LoadOpen(k) ==
  LET v == disk.live[k].val
  IN  /\ rd.stage \in {"idle", "done"}
      /\ rd' = [NoLoad EXCEPT !.stage = IF Opened(v) = "none" THEN "read" ELSE "done", !.key = k, !.at = now,
                              !.val = v, !.linked = TRUE, !.verdict = Opened(v)]
      /\ UNCHANGED <<now, made, disk, w, may, lone, faults>>
      /\ plan' = NoPlan

KeyChanged(p, k) == p.key # k

\* what is read: a profile of the store, or content that cannot be one
ReadVerdict(v, k, at) ==
  IF v \in {"garbled", "empty", Torn} THEN "Malformed"
  ELSE IF v = "newer" THEN "SchemaUnsupported"
  ELSE FirstFailing(<< <<KeyChanged(made[v], k), "KeyChanged">>,
                       <<at < made[v].created, "ClockMovedBackwards">>,
                       <<at >= made[v].expires, "TtlExpired">> >>, "Valid")

\* planner_profile: with the key it was asked for
Loaded(v, k) == [schema |-> made[v].schema, key |-> k, created |-> made[v].created, evidence |-> made[v].evidence]

\* ... then read, looked at again, and judged
LoadRead ==
  LET verdict == IF rd.touched THEN "UnsafeObject" ELSE ReadVerdict(rd.val, rd.key, rd.at)
  IN  /\ rd.stage = "read"
      /\ rd' = [rd EXCEPT !.stage = "done", !.verdict = verdict, !.linked = FALSE, !.touched = FALSE,
                          !.profile = IF verdict = "Valid" THEN Loaded(rd.val, rd.key) ELSE NoProfile]
      /\ UNCHANGED <<now, made, disk, w, may, lone, faults>>
      /\ plan' = NoPlan

\* the planner, with all gates open, at any time after the load and for the key of that time
Plan(mode, k) ==
  /\ rd.stage = "done" /\ rd.profile # NoProfile
  /\ plan' = [decision |-> Decide([mode |-> mode, gates |-> Gates, thermal |-> "Nominal", battery |-> "ExternalPower",
                                   resident |-> 1, aware |-> TRUE, local_fits |-> TRUE, remote_fits |-> TRUE,
                                   key |-> k, profile |-> rd.profile, now |-> now]),
              key |-> k, at |-> now]
  /\ UNCHANGED <<now, made, disk, w, may, lone, rd, faults>>

Next ==
  \/ ClockSet \/ MachineStops \/ LoadRead
  \/ \E m \in Slots, k \in Keys, e \in Evidence : New(m, k, e)
  \/ \E x \in Writers : StoreStep(x) \/ StoreFails(x) \/ \E m \in Slots : Store(x, m)
  \/ \E k \in Keys : Foreign(k) \/ LoadOpen(k) \/ \E mode \in {"Speed", "Balanced"} : Plan(mode, k)

Spec == Init /\ [][Next]_vars
-----------------------------------------------------------------------------
InForce(p, k, t) == p.key = k /\ p.created <= t /\ t < p.created + Ttl

\* A profile the store calls valid was measured for the very key it was asked for, and
\* was in force at the time it was asked about, whatever other programs, failing calls
\* and stops of the machine left in the file.
ValidIsMeasured ==
  rd.verdict = "Valid" =>
    \E m \in Slots : /\ made[m] # NotMade /\ InForce(made[m], rd.key, rd.at)
                     /\ rd.profile.evidence = made[m].evidence /\ rd.profile.created = made[m].created

\* A workload is sent to the worker for speed or locality only on a measurement of its
\* own key that is in force when the decision is made, not only when it was loaded.
RemoteIsEarned ==
  IsRemote(plan.decision) =>
    \E m \in Slots : /\ made[m] # NotMade /\ InForce(made[m], plan.key, plan.at)
                     /\ is_locality_acceptable(made[m].evidence)
                     /\ plan.decision.target = "RemoteSpeed" => is_speed_qualified(made[m].evidence)

\* The store and the planner compute the end of a profile each in its own way, and agree
\* on it for every key and time.
VerdictsAgree ==
  \A m \in Slots : made[m] # NotMade =>
    \A k \in Keys, t \in 0..MaxWall :
      ReadVerdict(m, k, t) = Status([Loaded(m, k) EXCEPT !.key = made[m].key], k, t)

=============================================================================
