-------------------------- MODULE FileAndJobProofs ---------------------------
(***************************************************************************)
(* Three parts that need nothing of each other.                            *)
(*                                                                         *)
(* First the pairing guard over the life of an endpoint (PairingCooldown), *)
(* for every limit, every cooldown, any number of restarts, lost writes,   *)
(* attempts and clocks set back.                                           *)
(*                                                                         *)
(* Then the durable ON/OFF preference (AutoUsePreference), for any number  *)
(* of requests, failed system calls, restarts and crashes of the machine.  *)
(*                                                                         *)
(* Then the compute jobs of the worker (ComputeJobs), for any number of    *)
(* jobs, leases, sessions and requests, any capacity and any retention.    *)
(***************************************************************************)
EXTENDS PairingCooldown, AutoUsePreference, ComputeJobs, TLAPS

\* The solver that most steps need, with time to spare; the others name theirs.
USE SMTT(60)

-----------------------------------------------------------------------------
(* The pairing guard. *)

Guards == [count : 0..255, until : Nat, updated : Nat]
Debts == [misses : Nat, owed : 0..Cooldown]

\* What a guard says of a debt at the time t.  The count has every mismatch, up
\* to where a u8 saturates; the limit is reached exactly when a cooldown runs; no
\* cooldown ends later than Cooldown after the last update; and while something
\* is owed, the cooldown ends no earlier than that (a clock set back only makes
\* it end later).
Fits(g, d, t) ==
  /\ g \in Guards /\ d \in Debts
  /\ g.count = IF d.misses > 255 THEN 255 ELSE d.misses
  /\ g.until # 0 <=> d.misses >= MismatchLimit
  /\ g.until <= g.updated + Cooldown
  /\ d.owed > 0 => g.until # 0 /\ t + d.owed <= g.until

\* The inductive invariant: the guard in memory fits what is owed by what the
\* process did, and the guard file what is owed by what was written.
CooldownInv ==
  /\ now \in Nat
  /\ Fits(guard, debt, now)
  /\ Fits(onDisk, diskDebt, now)

\* A new guard fits when nothing is owed (PairingGuard::new and paired).
LEMMA NewFits ==
  ASSUME NEW t \in Nat
  PROVE  Fits(NewGuard(t), NoDebt, t)
BY GuardConstants DEF Fits, Guards, Debts, NewGuard, NoDebt

\* admit keeps a guard fitting, and lets nobody in who still owes.
LEMMA AdmitFits ==
  ASSUME NEW g, NEW d, NEW t \in Nat, Fits(g, d, t)
  PROVE  LET a == Admit(g, t) IN
         /\ Fits(a.guard, IF a.ok THEN Settled(d) ELSE d, t)
         /\ a.ok => d.owed = 0
<1>1. g \in [count : 0..255, until : Nat, updated : Nat] /\ d \in [misses : Nat, owed : 0..Cooldown]
  BY ZenonT(30) DEF Fits, Guards, Debts
<1>2. g.count \in 0..255 /\ g.until \in Nat /\ g.updated \in Nat /\ d.misses \in Nat /\ d.owed \in 0..Cooldown
  BY ZenonT(30), <1>1
<1>3. CASE g.until = 0
  <2>1. Admit(g, t) = [ok |-> TRUE, guard |-> g]
    BY ZenonT(30), <1>3 DEF Admit
  <2>2. ~(d.misses >= MismatchLimit)
    BY ZenonT(30), <1>3 DEF Fits
  <2>3. Settled(d) = d
    BY ZenonT(30), <2>2 DEF Settled
  <2>4. d.owed = 0
    BY <1>2, <1>3, GuardConstants DEF Fits
  <2>. QED  BY <2>1, <2>3, <2>4
<1>4. CASE g.until # 0 /\ t < g.updated
  <2> DEFINE again == [g EXCEPT !.until = t + Cooldown, !.updated = t]
  <2>1. Admit(g, t) = [ok |-> FALSE, guard |-> again]
    BY ZenonT(30), <1>4 DEF Admit
  <2>2. t + Cooldown \in Nat
    BY GuardConstants
  <2>3. /\ again \in Guards /\ again.count = g.count
        /\ again.until = t + Cooldown /\ again.updated = t
    BY ZenonT(30), <1>1, <2>2 DEF Guards
  <2> HIDE DEF again
  <2>4. Fits(again, d, t)
    BY <1>2, <1>4, <2>3, GuardConstants DEF Fits
  <2>. QED  BY <2>1, <2>4
<1>5. CASE g.until # 0 /\ ~(t < g.updated) /\ t < g.until
  <2>1. Admit(g, t) = [ok |-> FALSE, guard |-> g]
    BY ZenonT(30), <1>5 DEF Admit
  <2>. QED  BY <2>1
<1>6. CASE g.until # 0 /\ ~(t < g.updated) /\ ~(t < g.until)
  <2>1. Admit(g, t) = [ok |-> TRUE, guard |-> NewGuard(t)]
    BY ZenonT(30), <1>6 DEF Admit
  <2>2. d.owed = 0
    BY <1>2, <1>6, GuardConstants DEF Fits
  <2>3. d.misses >= MismatchLimit
    BY ZenonT(30), <1>6 DEF Fits
  <2>4. Settled(d) = NoDebt
    BY ZenonT(30), <2>2, <2>3 DEF Settled
  <2>. QED  BY <2>1, <2>2, <2>4, NewFits
<1>. QED  BY ZenonT(30), <1>3, <1>4, <1>5, <1>6

\* record_mismatch charges the guard with what the user owes.
LEMMA MismatchFits ==
  ASSUME NEW g, NEW d, NEW t \in Nat, Fits(g, d, t)
  PROVE  Fits(RecordMismatch(g, t), Charged(d), t)
<1>1. g \in [count : 0..255, until : Nat, updated : Nat] /\ d \in [misses : Nat, owed : 0..Cooldown]
  BY ZenonT(30) DEF Fits, Guards, Debts
<1>2. g.count \in 0..255 /\ g.until \in Nat /\ g.updated \in Nat /\ d.misses \in Nat /\ d.owed \in 0..Cooldown
  BY ZenonT(30), <1>1
<1> DEFINE n == IF g.count = 255 THEN 255 ELSE g.count + 1
           until == IF n >= MismatchLimit THEN t + Cooldown ELSE g.until
           owed == IF d.misses + 1 >= MismatchLimit THEN Cooldown ELSE d.owed
           m == [count |-> n, updated |-> t, until |-> until]
           c == [misses |-> d.misses + 1, owed |-> owed]
<1>3. RecordMismatch(g, t) = m /\ Charged(d) = c
  BY ZenonT(30) DEF RecordMismatch, Charged
<1>4. n \in 0..255 /\ n = IF d.misses + 1 > 255 THEN 255 ELSE d.misses + 1
  BY <1>2 DEF Fits
<1>5. until \in Nat /\ owed \in 0..Cooldown /\ d.misses + 1 \in Nat
  BY <1>2, GuardConstants
<1>6. n >= MismatchLimit <=> d.misses + 1 >= MismatchLimit
  BY <1>2, <1>4, GuardConstants
<1>7. until # 0 <=> d.misses + 1 >= MismatchLimit
  BY <1>2, <1>6, GuardConstants DEF Fits
<1>8. d.owed > 0 => d.misses >= MismatchLimit
  BY ZenonT(30) DEF Fits
<1>9. owed > 0 => until # 0 /\ t + owed <= until
  BY <1>2, <1>6, <1>7, <1>8, GuardConstants
<1>10. until <= t + Cooldown
  BY <1>2, <1>4, <1>6, <1>7, GuardConstants
<1> HIDE DEF n, until, owed
<1>11. m \in Guards /\ c \in Debts
  BY ZenonT(30), <1>4, <1>5 DEF Guards, Debts
<1>12. m.count = n /\ m.until = until /\ m.updated = t /\ c.misses = d.misses + 1 /\ c.owed = owed
  BY ZenonT(30)
<1> HIDE DEF m, c
<1>13. Fits(m, c, t)
  BY <1>4, <1>7, <1>9, <1>10, <1>11, <1>12 DEF Fits
<1>. QED  BY ZenonT(30), <1>3, <1>13

\* A tick of the clock pays one unit of what is owed; a clock set back none.
LEMMA ClockFits ==
  ASSUME NEW g, NEW d, NEW t \in Nat, Fits(g, d, t)
  PROVE  /\ Fits(g, Elapsed(d), t + 1)
         /\ \A s \in 1..(t - 1) : Fits(g, d, s)
<1>1. g \in [count : 0..255, until : Nat, updated : Nat] /\ d \in [misses : Nat, owed : 0..Cooldown]
  BY ZenonT(30) DEF Fits, Guards, Debts
<1>2. g.count \in 0..255 /\ g.until \in Nat /\ g.updated \in Nat /\ d.misses \in Nat /\ d.owed \in 0..Cooldown
  BY ZenonT(30), <1>1
<1> DEFINE e == Elapsed(d)
<1>3. (IF d.owed = 0 THEN 0 ELSE d.owed - 1) \in 0..Cooldown
  BY <1>2, GuardConstants
<1>4. /\ e \in Debts /\ e.misses = d.misses
      /\ e.owed = IF d.owed = 0 THEN 0 ELSE d.owed - 1
  BY ZenonT(30), <1>1, <1>3 DEF Elapsed, Debts
<1> HIDE DEF e
<1>5. Fits(g, e, t + 1)
  BY <1>2, <1>4, GuardConstants DEF Fits
<1>6. ASSUME NEW s \in 1..(t - 1) PROVE Fits(g, d, s)
  BY <1>2, GuardConstants DEF Fits
<1>. QED  BY <1>5, <1>6 DEF e

\* A new endpoint has a new guard in memory and on disk (initialize).
LEMMA CooldownStarts == CooldownInit => CooldownInv
<1>1. 1 \in Nat
  OBVIOUS
<1>. QED  BY ZenonT(30), <1>1, NewFits DEF CooldownInit, CooldownInv

\* persist_guard leaves a file that fits, whether it reports an error or not.
LEMMA PersistFits ==
  ASSUME CooldownInv, NEW g, NEW d, NEW ok, Fits(g, d, now), PersistGuard(g, d, ok) \/ Unwritten
  PROVE  Fits(onDisk', diskDebt', now)
<1>1. (onDisk' = g /\ diskDebt' = d) \/ (onDisk' = onDisk /\ diskDebt' = diskDebt)
  BY ZenonT(30) DEF PersistGuard, Unwritten
<1>. QED  BY ZenonT(30), <1>1 DEF CooldownInv

\* Every step keeps the invariant.
LEMMA CooldownSteps == CooldownInv /\ [CooldownNext]_cooldownVars => CooldownInv'
<1>. SUFFICES ASSUME CooldownInv, [CooldownNext]_cooldownVars PROVE CooldownInv'
  BY ZenonT(30)
<1>i. now \in Nat /\ Fits(guard, debt, now) /\ Fits(onDisk, diskDebt, now)
  BY ZenonT(30) DEF CooldownInv
<1>0. now' = now /\ Fits(guard', debt', now) /\ Fits(onDisk', diskDebt', now) => CooldownInv'
  BY ZenonT(30), <1>i DEF CooldownInv
<1>1. ASSUME NEW t \in Streams, EnsureGuardAdmits(t) PROVE CooldownInv'
  <2> DEFINE a == Admit(guard, now)
             d == IF a.ok THEN Settled(debt) ELSE debt
  <2>1. Fits(a.guard, d, now)
    BY ZenonT(30), <1>i, AdmitFits
  <2> HIDE DEF a, d
  <2>2. PICK ok \in BOOLEAN :
          /\ guard' = a.guard /\ debt' = d /\ now' = now
          /\ Unwritten \/ PersistGuard(a.guard, d, ok)
    BY ZenonT(30), <1>1 DEF EnsureGuardAdmits, a, d
  <2>. QED  BY ZenonT(30), <1>0, <2>1, <2>2, PersistFits
<1>2. ASSUME NEW t \in Streams, RecordsMismatch(t) PROVE CooldownInv'
  <2>1. PICK ok \in BOOLEAN :
          /\ guard' = RecordMismatch(guard, now) /\ debt' = Charged(debt) /\ now' = now
          /\ PersistGuard(guard', debt', ok)
    BY ZenonT(30), <1>2 DEF RecordsMismatch
  <2>2. Fits(guard', debt', now)
    BY ZenonT(30), <1>i, <2>1, MismatchFits
  <2>. QED  BY ZenonT(30), <1>0, <2>1, <2>2, PersistFits
<1>3. ASSUME NEW t \in Streams, MarkAuthenticated(t) PROVE CooldownInv'
  <2>1. PICK ok \in BOOLEAN :
          /\ guard' = NewGuard(now) /\ debt' = NoDebt /\ now' = now
          /\ PersistGuard(guard', debt', ok)
    BY ZenonT(30), <1>3 DEF MarkAuthenticated, Paired
  <2>2. Fits(guard', debt', now)
    BY ZenonT(30), <1>i, <2>1, NewFits
  <2>. QED  BY ZenonT(30), <1>0, <2>1, <2>2, PersistFits
<1>4. ASSUME NEW t \in Streams, BeginsSession(t) \/ Commits(t) \/ StreamCloses(t)
      PROVE  CooldownInv'
  BY ZenonT(30), <1>0, <1>4, <1>i DEF BeginsSession, Commits, StreamCloses
<1>5. CASE Dies \/ UNCHANGED cooldownVars
  BY ZenonT(30), <1>0, <1>5, <1>i DEF Dies, cooldownVars
<1>6. CASE Initialize
  <2> DEFINE a == Admit(onDisk, now)
             d == IF a.ok THEN Settled(diskDebt) ELSE diskDebt
  <2>1. Fits(a.guard, d, now)
    BY ZenonT(30), <1>i, AdmitFits
  <2> HIDE DEF a, d
  <2>2. PICK ok \in BOOLEAN :
          /\ guard' = onDisk' /\ debt' = diskDebt' /\ now' = now
          /\ Unwritten \/ PersistGuard(a.guard, d, ok)
    BY ZenonT(30), <1>6 DEF Initialize, a, d
  <2>3. Fits(onDisk', diskDebt', now)
    BY ZenonT(30), <2>1, <2>2, PersistFits
  <2>. QED  BY ZenonT(30), <1>0, <2>2, <2>3
<1>7. CASE Tick
  <2>1. /\ now' = now + 1 /\ guard' = guard /\ onDisk' = onDisk
        /\ debt' = Elapsed(debt) /\ diskDebt' = Elapsed(diskDebt)
    BY ZenonT(30), <1>7 DEF Tick
  <2>2. now + 1 \in Nat
    BY <1>i
  <2>3. Fits(guard, Elapsed(debt), now + 1) /\ Fits(onDisk, Elapsed(diskDebt), now + 1)
    BY ZenonT(30), <1>i, ClockFits
  <2>. QED  BY ZenonT(30), <2>1, <2>2, <2>3 DEF CooldownInv
<1>8. CASE SetBack
  <2>1. /\ now' \in 1..(now - 1) /\ guard' = guard /\ onDisk' = onDisk
        /\ debt' = debt /\ diskDebt' = diskDebt
    BY ZenonT(30), <1>8 DEF SetBack
  <2>2. now' \in Nat
    BY <1>i, <2>1
  <2>3. Fits(guard, debt, now') /\ Fits(onDisk, diskDebt, now')
    BY ZenonT(30), <1>i, <2>1, ClockFits
  <2>. QED  BY ZenonT(30), <2>1, <2>2, <2>3 DEF CooldownInv
<1>. QED  BY ZenonT(30), <1>1, <1>2, <1>3, <1>4, <1>5, <1>6, <1>7, <1>8 DEF CooldownNext

\* The invariant of the guard holds in every behaviour.
LEMMA CooldownInvariance == CooldownSpec => []CooldownInv
BY CooldownStarts, CooldownSteps, PTL DEF CooldownSpec

\* MismatchLimit mismatches are a cooldown, in memory and on disk
\* (record_mismatch and the guard file), for every limit a u8 holds and whatever
\* restarts, lost writes and clocks set back lie between them.
THEOREM MismatchesAlwaysAddUp == CooldownSpec => []MismatchesAddUp
<1>1. CooldownInv => MismatchesAddUp
  BY ZenonT(30) DEF CooldownInv, MismatchesAddUp, Fits
<1>. QED  BY <1>1, CooldownInvariance, PTL

\* No cooldown outlasts Cooldown from the guard's last update: admit lets an
\* endpoint in that asks later than that, however often its clock was set back.
THEOREM CooldownAlwaysEnds == CooldownSpec => []CooldownEnds
<1>1. CooldownInv => CooldownEnds
  <2>. SUFFICES ASSUME CooldownInv, guard.until # 0, now >= guard.updated + Cooldown
                PROVE  Admit(guard, now).ok
    BY ZenonT(30) DEF CooldownEnds
  <2>1. now \in Nat /\ guard.until \in Nat /\ guard.updated \in Nat /\ Cooldown \in Nat
        /\ guard.until <= guard.updated + Cooldown
    BY ZenonT(30), GuardConstants DEF CooldownInv, Fits, Guards
  <2>2. ~(now < guard.updated) /\ ~(now < guard.until)
    BY <2>1
  <2>. QED  BY ZenonT(30), <2>2 DEF Admit
<1>. QED  BY <1>1, CooldownInvariance, PTL

\* ensure_guard_admits lets in nobody who still owes a part of a cooldown, for
\* any number of streams, attempts, restarts, failed writes, authentications in
\* between and clocks set back: the time is real time, not what the clock shows.
THEOREM CooldownAlwaysServed == CooldownSpec => CooldownServed
<1> DEFINE Served == \A t \in Streams :
                       stream[t] = "idle" /\ stream'[t] = "admitted" => debt.owed = 0
<1>1. CooldownInv /\ [CooldownNext]_cooldownVars => [Served]_cooldownVars
  <2>. SUFFICES ASSUME CooldownInv, CooldownNext, NEW t \in Streams,
                       stream[t] = "idle", stream'[t] = "admitted"
                PROVE  debt.owed = 0
    BY ZenonT(30) DEF cooldownVars
  <2>1. ASSUME NEW s \in Streams, NEW place, stream' = [stream EXCEPT ![s] = place], place # "admitted"
        PROVE  FALSE
    BY <2>1
  <2>2. PICK s \in Streams : EnsureGuardAdmits(s)
    <3>1. ASSUME NEW s \in Streams, BeginsSession(s) PROVE FALSE
      BY <2>1, <3>1 DEF BeginsSession, GoesTo
    <3>2. ASSUME NEW s \in Streams, RecordsMismatch(s) \/ Commits(s) \/ StreamCloses(s) PROVE FALSE
      BY <2>1, <3>2 DEF RecordsMismatch, Commits, StreamCloses, GoesTo
    <3>3. ASSUME NEW s \in Streams, MarkAuthenticated(s) PROVE FALSE
      BY <2>1, <3>3 DEF MarkAuthenticated, GoesTo
    <3>4. CASE Dies
      BY <3>4 DEF Dies
    <3>5. CASE Initialize \/ Tick \/ SetBack
      BY <3>5 DEF Initialize, Tick, SetBack
    <3>. QED  BY ZenonT(30), <3>1, <3>2, <3>3, <3>4, <3>5 DEF CooldownNext
  <2>3. Admit(guard, now).ok
    <3>1. PICK ok \in BOOLEAN : GoesTo(s, IF ok /\ Admit(guard, now).ok THEN "admitted" ELSE "idle")
      BY ZenonT(30), <2>2 DEF EnsureGuardAdmits
    <3>2. SUFFICES ASSUME ~Admit(guard, now).ok PROVE FALSE
      OBVIOUS
    <3>3. stream' = [stream EXCEPT ![s] = "idle"]
      BY ZenonT(30), <3>1, <3>2 DEF GoesTo
    <3>. QED  BY <2>1, <3>3
  <2>4. now \in Nat /\ Fits(guard, debt, now)
    BY ZenonT(30) DEF CooldownInv
  <2>. QED  BY ZenonT(30), <2>3, <2>4, AdmitFits
<1>2. CooldownSpec => [][Served]_cooldownVars
  BY <1>1, CooldownInvariance, PTL DEF CooldownSpec
<1>. QED  BY ZenonT(30), <1>2 DEF CooldownServed

-----------------------------------------------------------------------------
(* The preference. *)

\* What the name config.json ever stands for, live or kept: content that was
\* synced before it took the name.
Contents == {On, Off, Bad, "none"}
Whole(f) == f.safe = TRUE /\ f.val \in Contents

DiskOK(d) == Whole(d.live[Config]) /\ Whole(d.kept[Config])

\* What the stage of a write says of its temporary file and of the name: the
\* temporary file is whole when it is renamed, the name stands for the value
\* after the rename, and the disk holds it when the write is done.
WriterOK ==
  /\ w.stage = "idle" <=> pref.op = "none"
  /\ w.stage \notin {"idle", "failed"} => w.name = Config /\ w.val = pref.op
  /\ w.stage \in {"sync", "rename"} => w.file.val = w.val
  /\ w.stage = "rename" => w.file.safe = TRUE
  /\ w.stage \in {"dirsync", "done"} => disk.live[Config].val = pref.op
  /\ w.stage = "done" => disk.kept[Config].val = pref.op

\* The controller between and during requests.
ControllerOK ==
  /\ ~pref.up => ~controller.enabled /\ pref.op = "none"
  /\ pref.up /\ pref.op # Off => (controller.enabled <=> pref.view.enabled = On)
  /\ pref.op = Off => ~controller.enabled

AckedOK == acked # "none" =>
  acked = disk.live[Config].val /\ acked = disk.kept[Config].val /\ pref.op = "none"

Stages == {"idle", "open", "write", "sync", "rename", "dirsync", "done", "failed"}
Values == {"none", "empty", Torn, On, Off, Bad}
Files == [val : Values, safe : BOOLEAN]
Disks == [live : [{Config} -> Files], kept : [{Config} -> Files]]
Writers == [stage : Stages, name : {"none", Config}, val : Values, file : Files]
Views == [enabled : {"none", On, Off}, persistence : {"none", "DEFAULT", "SAVED", "ERROR"}]
Prefs == [up : BOOLEAN, op : {"none", On, Off}, view : Views, invalid : BOOLEAN]
Controllers == [enabled : BOOLEAN, epoch : Nat]

Shapes == disk \in Disks /\ w \in Writers /\ pref \in Prefs /\ controller \in Controllers

\* The inductive invariant.
IInv == Shapes /\ DiskOK(disk) /\ WriterOK /\ ControllerOK /\ AckedOK

\* A crash of the machine leaves whole content under the name: what it stood
\* for or what the disk held, and the two agree from then on.
LEMMA CrashKeeps ==
  ASSUME NEW d \in Disks, DiskOK(d), NEW c \in Crashes(d)
  PROVE  /\ c \in Disks /\ DiskOK(c) /\ c.live[Config] = c.kept[Config]
         /\ c.live[Config] \in {d.live[Config], d.kept[Config]}
<1>1. DOMAIN d.live = {Config} /\ d.live[Config] \in Files /\ d.kept[Config] \in Files
  BY ZenonT(30) DEF Disks
<1>2. Survivors(d.live[Config]) = {d.live[Config]} /\ Survivors(d.kept[Config]) = {d.kept[Config]}
  BY ZenonT(30) DEF DiskOK, Whole, Survivors
<1>3. PICK f : /\ c = [live |-> f, kept |-> f] /\ DOMAIN f = {Config}
               /\ f \in [{Config} -> UNION {Survivors(d.live[n]) \cup Survivors(d.kept[n]) : n \in {Config}}]
               /\ f[Config] \in Survivors(d.live[Config]) \cup Survivors(d.kept[Config])
  BY ZenonT(30), <1>1 DEF Crashes
<1>4. c.live = f /\ c.kept = f /\ f[Config] \in {d.live[Config], d.kept[Config]}
  BY ZenonT(30), <1>2, <1>3
<1>5. f \in [{Config} -> Files]
  BY ZenonT(30), <1>1, <1>2, <1>3
<1>6. c \in Disks
  BY ZenonT(30), <1>3, <1>5 DEF Disks
<1>7. DiskOK(c)
  BY ZenonT(30), <1>4 DEF DiskOK
<1>. QED  BY ZenonT(30), <1>4, <1>6, <1>7

\* enable and disable (AutoUseController).
LEMMA EnableDisable ==
  ASSUME NEW c \in Controllers
  PROVE  /\ Enabled(c) \in Controllers /\ Enabled(c).enabled = TRUE
         /\ Disabled(c) \in Controllers /\ Disabled(c).enabled = FALSE
BY DEF Controllers, Enabled, Disabled


\* A writer whose stage alone changes.
LEMMA StageChanges ==
  ASSUME NEW v \in Writers, NEW st \in Stages
  PROVE  /\ [v EXCEPT !.stage = st] \in Writers /\ [v EXCEPT !.stage = st].stage = st
         /\ [v EXCEPT !.stage = st].name = v.name /\ [v EXCEPT !.stage = st].val = v.val
BY ZenonT(30) DEF Writers

\* One system call of a write that succeeds: the disk stays whole, and the
\* writer goes one stage on with what that stage promises.
LEMMA WriteStep ==
  ASSUME IInv, WriteGoes
  PROVE  disk' \in Disks /\ w' \in Writers /\ DiskOK(disk') /\ WriterOK'
<1> DEFINE o == Succeeds(disk, w, {Config})
<1>1. disk' = o.disk /\ w' = o.w /\ pref' = pref
  BY ZenonT(30) DEF WriteGoes
<1>2. /\ w \in Writers /\ w.file \in Files /\ disk \in Disks /\ DOMAIN disk.kept = {Config}
      /\ disk.live \in [{Config} -> Files] /\ disk.kept \in [{Config} -> Files]
      /\ WriterOK /\ DiskOK(disk) /\ pref.op \in {"none", On, Off}
  BY ZenonT(30) DEF IInv, Shapes, Writers, Disks, Prefs
<1>3. CASE w.stage \in {"open", "write", "sync"}
  <2>1. disk' = disk
    BY ZenonT(30), <1>1, <1>3 DEF Succeeds, Out
  <2>2. /\ w' \in Writers /\ w'.name = w.name /\ w'.val = w.val
    <3>1. CASE w.stage = "open"
      <4> DEFINE f == [val |-> "empty", safe |-> FALSE]
      <4>1. w' = [w EXCEPT !.stage = "write", !.file = f]
        BY ZenonT(30), <1>1, <3>1 DEF Succeeds, Out
      <4>2. f \in Files
        BY ZenonT(30) DEF Files, Values
      <4>3. "write" \in Stages
        BY ZenonT(30) DEF Stages
      <4> HIDE DEF f
      <4>. QED  BY <1>2, <4>1, <4>2, <4>3, ZenonT(30) DEF Writers
    <3>2. CASE w.stage = "write"
      <4> DEFINE f == [val |-> w.val, safe |-> FALSE]
      <4>1. w' = [w EXCEPT !.stage = "sync", !.file = f]
        BY ZenonT(30), <1>1, <3>2 DEF Succeeds, Out, AfterWrite
      <4>2. f \in Files
        BY ZenonT(30), <1>2 DEF Files, Writers
      <4>3. "sync" \in Stages
        BY ZenonT(30) DEF Stages
      <4> HIDE DEF f
      <4>. QED  BY <1>2, <4>1, <4>2, <4>3, ZenonT(30) DEF Writers
    <3>3. CASE w.stage = "sync"
      <4>1. w' = [w EXCEPT !.stage = "rename", !.file.safe = TRUE]
        BY ZenonT(30), <1>1, <3>3 DEF Succeeds, Out
      <4>3. "rename" \in Stages
        BY ZenonT(30) DEF Stages
      <4>4. w.file \in Files
        BY ZenonT(30), <1>2
      <4>5. [w.file EXCEPT !.safe = TRUE] \in Files
        BY <4>4, ZenonT(30) DEF Files
      <4>. QED  BY <1>2, <4>1, <4>3, <4>5, ZenonT(30) DEF Writers
    <3>. QED  BY ZenonT(30), <1>3, <3>1, <3>2, <3>3
  <2>3. /\ w.stage = "open" => w'.stage = "write"
        /\ w.stage = "write" => w'.stage = "sync" /\ w'.file.val = w.val
        /\ w.stage = "sync" => w'.stage = "rename" /\ w'.file.val = w.file.val /\ w'.file.safe = TRUE
    BY ZenonT(30), <1>1, <1>2 DEF Succeeds, Out, Writers, Files, AfterWrite
  <2>4. WriterOK'
    BY ZenonT(30), <1>1, <1>2, <1>3, <2>1, <2>2, <2>3 DEF WriterOK
  <2>. QED  BY ZenonT(30), <1>2, <2>1, <2>2, <2>4
<1>4. CASE w.stage = "rename"
  <2>1. disk' = [disk EXCEPT !.live[Config] = w.file] /\ w' = [w EXCEPT !.stage = "dirsync"]
    BY ZenonT(30), <1>1, <1>2, <1>4 DEF Succeeds, Out, AfterRename, WriterOK
  <2>2. /\ disk' \in Disks /\ disk'.live[Config] = w.file /\ disk'.kept = disk.kept
    BY ZenonT(30), <1>2, <2>1 DEF Disks
  <2>3. /\ w' \in Writers /\ w'.stage = "dirsync" /\ w'.name = w.name /\ w'.val = w.val
    <3>1. "dirsync" \in Stages
      BY ZenonT(30) DEF Stages
    <3>. QED  BY <1>2, <2>1, <3>1, StageChanges, ZenonT(30)
  <2>4. w.file.val = pref.op /\ w.file.safe = TRUE /\ pref.op # "none" /\ w.name = Config /\ w.val = pref.op
    BY ZenonT(30), <1>2, <1>4 DEF WriterOK
  <2>5. DiskOK(disk')
    BY ZenonT(30), <1>2, <2>2, <2>4 DEF DiskOK, Whole, Contents
  <2>6. WriterOK'
    BY ZenonT(30), <1>1, <1>2, <2>2, <2>3, <2>4 DEF WriterOK
  <2>. QED  BY ZenonT(30), <2>2, <2>3, <2>5, <2>6
<1>5. CASE w.stage = "dirsync"
  <2>1. /\ disk' = [disk EXCEPT !.kept = [n \in {Config} |-> IF n \in {Config} THEN disk.live[n] ELSE disk.kept[n]]]
        /\ w' = [w EXCEPT !.stage = "done"]
    BY ZenonT(30), <1>1, <1>2, <1>5 DEF Succeeds, Out
  <2>2. /\ disk' \in Disks /\ disk'.live = disk.live /\ disk'.kept[Config] = disk.live[Config]
    BY ZenonT(30), <1>2, <2>1 DEF Disks
  <2>3. /\ w' \in Writers /\ w'.stage = "done" /\ w'.name = w.name /\ w'.val = w.val
    <3>1. "done" \in Stages
      BY ZenonT(30) DEF Stages
    <3>. QED  BY <1>2, <2>1, <3>1, StageChanges, ZenonT(30)
  <2>4. disk.live[Config].val = pref.op /\ pref.op # "none" /\ w.name = Config /\ w.val = pref.op
    BY ZenonT(30), <1>2, <1>5 DEF WriterOK
  <2>5. DiskOK(disk')
    BY ZenonT(30), <1>2, <2>2 DEF DiskOK
  <2>6. WriterOK'
    BY ZenonT(30), <1>1, <1>2, <2>2, <2>3, <2>4 DEF WriterOK
  <2>. QED  BY ZenonT(30), <2>2, <2>3, <2>5, <2>6
<1>. QED  BY ZenonT(30), <1>3, <1>4, <1>5 DEF WriteGoes, Writing

\* The writer at rest, the writer that failed and the daemon that is down are well formed.
LEMMA IdleDown ==
  /\ Idle \in Writers /\ Idle.stage = "idle" /\ [Idle EXCEPT !.stage = "failed"] \in Writers
  /\ [Idle EXCEPT !.stage = "failed"].stage = "failed"
  /\ Down \in Prefs /\ Down.up = FALSE /\ Down.op = "none"
<1>1. Idle \in Writers /\ Idle.stage = "idle"
  BY ZenonT(30) DEF Idle, Writers, Stages, Files, Values, NoFile
<1>2. "failed" \in Stages
  BY ZenonT(30) DEF Stages
<1>3. [Idle EXCEPT !.stage = "failed"] \in Writers /\ [Idle EXCEPT !.stage = "failed"].stage = "failed"
  BY <1>1, <1>2, StageChanges, ZenonT(30)
<1>4. Down \in Prefs /\ Down.up = FALSE /\ Down.op = "none"
  BY ZenonT(30) DEF Down, Prefs, Views, View
<1>. QED  BY <1>1, <1>3, <1>4

\* The first start finds whatever file there is (from_state_home).
LEMMA InitInv == Init => IInv
<1>. SUFFICES ASSUME Init PROVE IInv
  OBVIOUS
<1>1. /\ w = Idle /\ pref = Down /\ controller = [enabled |-> FALSE, epoch |-> 0] /\ acked = "none"
  BY ZenonT(30) DEF Init
<1>2. PICK f \in [{Config} -> {NoFile} \cup [val : {On, Off, Bad}, safe : {TRUE}]] :
        disk = [live |-> f, kept |-> f]
  BY ZenonT(30) DEF Init
<1>3. f[Config] \in Files /\ Whole(f[Config]) /\ f \in [{Config} -> Files]
  <2>1. \A x \in {NoFile} \cup [val : {On, Off, Bad}, safe : {TRUE}] : x \in Files /\ Whole(x)
    <3>1. NoFile \in Files /\ Whole(NoFile)
      BY ZenonT(30) DEF Files, Values, Whole, Contents, NoFile
    <3>2. ASSUME NEW x \in [val : {On, Off, Bad}, safe : {TRUE}] PROVE x \in Files /\ Whole(x)
      BY ZenonT(30) DEF Files, Values, Whole, Contents
    <3>. QED  BY ZenonT(30), <3>1, <3>2
  <2>. QED  BY ZenonT(30), <2>1
<1>4. disk \in Disks /\ DiskOK(disk)
  BY ZenonT(30), <1>2, <1>3 DEF Disks, DiskOK
<1>5. controller \in Controllers /\ ~controller.enabled
  BY ZenonT(30), <1>1 DEF Controllers
<1>6. Shapes
  BY ZenonT(30), <1>1, <1>4, <1>5, IdleDown DEF Shapes
<1>7. WriterOK /\ ControllerOK /\ AckedOK
  BY ZenonT(30), <1>1, <1>5, IdleDown DEF WriterOK, ControllerOK, AckedOK, Off, On
<1>. QED  BY ZenonT(30), <1>4, <1>6, <1>7 DEF IInv

\* What a start makes of the file and the view it begins with (from_state_home).
LEMMA LoadedIs ==
  ASSUME NEW d \in Disks, DiskOK(d)
  PROVE  /\ Loaded(d) \in Prefs /\ Loaded(d).up = TRUE /\ Loaded(d).op = "none"
         /\ [Down EXCEPT !.up = TRUE, !.view = View(Off, "ERROR"), !.invalid = TRUE] \in Prefs
BY ZenonT(30) DEF Loaded, Down, View, Prefs, Views, DiskOK, Whole, Contents, Readable

\* set_with takes the request: OFF is applied before anything is written.
LEMMA SetTaken ==
  ASSUME IInv, NEW v \in {On, Off}, NEW inv \in BOOLEAN, pref.up, pref.op = "none",
         pref' = [pref EXCEPT !.op = v, !.invalid = inv], controller' = BeforeWrite(v),
         acked' = "none", disk' = disk, w' \in Writers, WriterOK'
  PROVE  IInv'
<1>1. /\ pref \in Prefs /\ controller \in Controllers /\ disk \in Disks /\ DiskOK(disk)
      /\ controller.enabled <=> pref.view.enabled = On
  BY ZenonT(30) DEF IInv, Shapes, ControllerOK, Off
<1>2. /\ pref' \in Prefs /\ pref'.op = v /\ pref'.up = pref.up /\ pref'.view = pref.view
  <2>1. v \in {"none", On, Off}
    BY ZenonT(30)
  <2>. QED  BY <1>1, <2>1, ZenonT(30) DEF Prefs
<1>3. /\ controller' \in Controllers
      /\ v = Off => ~controller'.enabled
      /\ v = On => controller' = controller
  BY ZenonT(30), <1>1, EnableDisable DEF BeforeWrite, On, Off
<1>4. Shapes'
  BY ZenonT(30), <1>1, <1>2, <1>3 DEF Shapes
<1>5. ControllerOK'
  BY ZenonT(30), <1>1, <1>2, <1>3 DEF ControllerOK, On, Off
<1>6. DiskOK(disk)' /\ AckedOK'
  BY ZenonT(30), <1>1 DEF AckedOK, DiskOK, Whole
<1>. QED  BY ZenonT(30), <1>4, <1>5, <1>6 DEF IInv

\* The daemon is down: nothing is enabled and no request is open.
LEMMA GoesDown ==
  ASSUME IInv, pref' = Down, w' = Idle, controller' = [controller EXCEPT !.enabled = FALSE],
         disk' \in Disks, DiskOK(disk'), acked' = acked,
         acked # "none" => disk'.live[Config].val = acked /\ disk'.kept[Config].val = acked
  PROVE  IInv'
<1>1. controller' \in Controllers /\ controller'.enabled = FALSE
  BY ZenonT(30) DEF IInv, Shapes, Controllers
<1>2. Shapes'
  BY ZenonT(30), <1>1, IdleDown DEF Shapes
<1>3. WriterOK' /\ ControllerOK'
  BY ZenonT(30), <1>1, IdleDown DEF WriterOK, ControllerOK, On, Off
<1>4. AckedOK' /\ DiskOK(disk)'
  BY ZenonT(30), IdleDown DEF AckedOK, DiskOK, Whole
<1>. QED  BY ZenonT(30), <1>2, <1>3, <1>4 DEF IInv

\* Every step keeps the invariant.
LEMMA NextInv == IInv /\ [Next]_vars => IInv'
<1>. SUFFICES ASSUME IInv, [Next]_vars PROVE IInv'
  OBVIOUS
<1>i. /\ disk \in Disks /\ w \in Writers /\ pref \in Prefs /\ controller \in Controllers
      /\ DiskOK(disk) /\ WriterOK /\ ControllerOK /\ AckedOK
  BY ZenonT(30) DEF IInv, Shapes
<1>1. CASE Start \/ StartUnread
  <2>1. /\ ~pref.up /\ disk' = disk /\ w' = w /\ acked' = acked
        /\ pref' \in {Loaded(disk), [Down EXCEPT !.up = TRUE, !.view = View(Off, "ERROR"), !.invalid = TRUE]}
        /\ controller' = IF pref'.view.enabled = On THEN Enabled(controller) ELSE Disabled(controller)
    <3>1. CASE Start
      BY ZenonT(30), <3>1 DEF Start
    <3>2. CASE StartUnread
      <4>1. [Down EXCEPT !.up = TRUE, !.view = View(Off, "ERROR"), !.invalid = TRUE].view.enabled = Off
        BY ZenonT(30) DEF Down, View
      <4>. QED  BY ZenonT(30), <3>2, <4>1 DEF StartUnread, On, Off
    <3>. QED  BY ZenonT(30), <1>1, <3>1, <3>2
  <2>2. pref' \in Prefs /\ pref'.up = TRUE /\ pref'.op = "none"
    BY ZenonT(30), <1>i, <2>1, LoadedIs DEF Down
  <2>3. controller' \in Controllers /\ (controller'.enabled <=> pref'.view.enabled = On)
    BY ZenonT(30), <1>i, <2>1, EnableDisable
  <2>4. Shapes'
    BY ZenonT(30), <1>i, <2>1, <2>2, <2>3 DEF Shapes
  <2>5. pref.op = "none"
    BY ZenonT(30), <1>i, <2>1 DEF ControllerOK
  <2>6. WriterOK' /\ AckedOK' /\ DiskOK(disk)'
    BY ZenonT(30), <1>i, <2>1, <2>2, <2>5 DEF WriterOK, AckedOK, DiskOK, Whole
  <2>7. ControllerOK'
    BY ZenonT(30), <2>2, <2>3 DEF ControllerOK, Off
  <2>. QED  BY ZenonT(30), <2>4, <2>6, <2>7 DEF IInv
<1>2. ASSUME NEW v \in {On, Off}, SetStarts(v) PROVE IInv'
  <2>1. /\ pref.up /\ pref.op = "none" /\ controller' = BeforeWrite(v) /\ acked' = "none"
        /\ pref' = [pref EXCEPT !.op = v, !.invalid = Refused] /\ disk' = disk
        /\ w' = IF Refused THEN [Idle EXCEPT !.stage = "failed"] ELSE StartWrite(Config, v)
    BY ZenonT(30), <1>2 DEF SetStarts
  <2>2. Refused \in BOOLEAN
    BY ZenonT(30), <1>i DEF Refused, Prefs
  <2>3. StartWrite(Config, v) \in Writers
    BY ZenonT(30) DEF StartWrite, Writers, Stages, Values, Files, NoFile
  <2>4. w' \in Writers
    BY ZenonT(30), <2>1, <2>3, IdleDown
  <2>5. pref'.op = v /\ v # "none"
    BY ZenonT(30), <1>i, <2>1 DEF Prefs, On, Off
  <2>6. WriterOK'
    BY ZenonT(30), <2>1, <2>5, IdleDown DEF WriterOK, StartWrite
  <2>. QED  BY ZenonT(30), <1>i, <2>1, <2>2, <2>4, <2>6, SetTaken
<1>3. ASSUME NEW v \in {On, Off}, SetUnread(v) PROVE IInv'
  <2>1. /\ pref.up /\ pref.op = "none" /\ controller' = BeforeWrite(v) /\ acked' = "none"
        /\ pref' = [pref EXCEPT !.op = v, !.invalid = TRUE] /\ disk' = disk
        /\ w' = [Idle EXCEPT !.stage = "failed"]
    BY ZenonT(30), <1>3 DEF SetUnread
  <2>2. w' \in Writers
    BY ZenonT(30), <2>1, IdleDown
  <2>3. pref'.op = v /\ v # "none"
    BY ZenonT(30), <1>i, <2>1 DEF Prefs, On, Off
  <2>4. WriterOK'
    BY ZenonT(30), <2>1, <2>3, IdleDown DEF WriterOK
  <2>. QED  BY ZenonT(30), <1>i, <2>1, <2>2, <2>4, SetTaken
<1>4. CASE WriteGoes
  <2>1. pref' = pref /\ controller' = controller /\ acked' = acked /\ w.stage # "idle"
    BY ZenonT(30), <1>4 DEF WriteGoes, Writing
  <2>2. disk' \in Disks /\ w' \in Writers /\ DiskOK(disk') /\ WriterOK'
    BY ZenonT(30), <1>4, WriteStep
  <2>3. acked = "none"
    BY ZenonT(30), <1>i, <2>1 DEF WriterOK, AckedOK
  <2>4. Shapes' /\ AckedOK' /\ DiskOK(disk)'
    BY ZenonT(30), <1>i, <2>1, <2>2, <2>3 DEF Shapes, AckedOK, DiskOK, Whole
  <2>5. ControllerOK'
    BY ZenonT(30), <1>i, <2>1 DEF ControllerOK
  <2>. QED  BY ZenonT(30), <2>2, <2>4, <2>5 DEF IInv
<1>5. CASE WriteFails
  <2>1. /\ pref' = pref /\ controller' = controller /\ acked' = acked /\ disk' = disk
        /\ w.stage # "idle" /\ w' = [w EXCEPT !.stage = "failed"]
    BY ZenonT(30), <1>5 DEF WriteFails, Writing, Fails, Out
  <2>2. "failed" \in Stages
    BY ZenonT(30) DEF Stages
  <2>3. w' \in Writers /\ w'.stage = "failed"
    BY <1>i, <2>1, <2>2, StageChanges, ZenonT(30)
  <2>4. WriterOK' /\ AckedOK' /\ DiskOK(disk)'
    BY ZenonT(30), <1>i, <2>1, <2>3 DEF WriterOK, AckedOK, DiskOK, Whole
  <2>5. ControllerOK' /\ Shapes'
    BY ZenonT(30), <1>i, <2>1, <2>3 DEF ControllerOK, Shapes
  <2>. QED  BY ZenonT(30), <2>4, <2>5 DEF IInv
<1>6. CASE SetFails
  <2> DEFINE failed == FailedView
  <2>1. /\ pref.up /\ controller' = Disabled(controller) /\ w' = Idle /\ disk' = disk /\ acked' = acked
        /\ pref' = [pref EXCEPT !.op = "none", !.view = failed] /\ w.stage = "failed"
    BY ZenonT(30), <1>6 DEF SetFails, AfterFailure
  <2>2. failed \in Views /\ failed.enabled = Off
    BY ZenonT(30) DEF FailedView, View, Views
  <2> HIDE DEF failed
  <2>3. pref' \in Prefs /\ pref'.op = "none" /\ pref'.up = pref.up /\ pref'.view = failed
    BY <1>i, <2>1, <2>2, ZenonT(30) DEF Prefs
  <2>4. controller' \in Controllers /\ controller'.enabled = FALSE
    BY ZenonT(30), <1>i, <2>1, EnableDisable
  <2>5. acked = "none"
    BY ZenonT(30), <1>i, <2>1 DEF WriterOK, AckedOK
  <2>6. Shapes'
    BY ZenonT(30), <1>i, <2>1, <2>3, <2>4, IdleDown DEF Shapes
  <2>7. ControllerOK'
    BY ZenonT(30), <2>1, <2>2, <2>3, <2>4 DEF ControllerOK, On, Off
  <2>8. WriterOK' /\ AckedOK' /\ DiskOK(disk)'
    BY ZenonT(30), <1>i, <2>1, <2>3, <2>5, IdleDown DEF WriterOK, AckedOK, DiskOK, Whole
  <2>. QED  BY ZenonT(30), <2>6, <2>7, <2>8 DEF IInv
<1>7. CASE SetDone
  <2> DEFINE saved == View(pref.op, "SAVED")
  <2>1. /\ pref.up /\ controller' = (IF pref.op = On THEN Enabled(controller) ELSE controller)
        /\ pref' = [pref EXCEPT !.op = "none", !.view = saved] /\ w.stage = "done"
        /\ acked' = pref.op /\ w' = Idle /\ disk' = disk
    BY ZenonT(30), <1>7 DEF SetDone
  <2>2. saved \in Views /\ saved.enabled = pref.op /\ pref.op \in {On, Off}
    BY ZenonT(30), <1>i, <2>1 DEF View, Views, Prefs, WriterOK
  <2> HIDE DEF saved
  <2>3. pref' \in Prefs /\ pref'.op = "none" /\ pref'.up = pref.up /\ pref'.view = saved
    BY <1>i, <2>1, <2>2, ZenonT(30) DEF Prefs
  <2>4. controller' \in Controllers /\ (controller'.enabled <=> pref.op = On)
    BY ZenonT(30), <1>i, <2>1, <2>2, EnableDisable DEF ControllerOK, On, Off
  <2>5. disk.live[Config].val = pref.op /\ disk.kept[Config].val = pref.op
    BY ZenonT(30), <1>i, <2>1 DEF WriterOK
  <2>6. Shapes'
    BY ZenonT(30), <1>i, <2>1, <2>3, <2>4, IdleDown DEF Shapes
  <2>7. ControllerOK'
    BY ZenonT(30), <2>1, <2>2, <2>3, <2>4 DEF ControllerOK, On, Off
  <2>8. WriterOK' /\ AckedOK' /\ DiskOK(disk)'
    BY ZenonT(30), <1>i, <2>1, <2>3, <2>5, IdleDown DEF WriterOK, AckedOK, DiskOK, Whole
  <2>. QED  BY <2>6, <2>7, <2>8 DEF IInv
<1>8. CASE Restart
  BY ZenonT(30), <1>i, <1>8, GoesDown DEF Restart, AckedOK
<1>9. CASE Crash
  <2>1. /\ disk' \in Crashes(disk) /\ pref' = Down /\ w' = Idle /\ acked' = acked
        /\ controller' = [controller EXCEPT !.enabled = FALSE]
    BY ZenonT(30), <1>9 DEF Crash
  <2>2. /\ disk' \in Disks /\ DiskOK(disk') /\ disk'.live[Config] = disk'.kept[Config]
        /\ disk'.live[Config] \in {disk.live[Config], disk.kept[Config]}
    BY ZenonT(30), <1>i, <2>1, CrashKeeps
  <2>3. acked # "none" => disk'.live[Config].val = acked /\ disk'.kept[Config].val = acked
    BY ZenonT(30), <1>i, <2>2 DEF AckedOK
  <2>. QED  BY ZenonT(30), <2>1, <2>2, <2>3, GoesDown
<1>10. CASE Overwritten
  <2> DEFINE f == [n \in {Config} |-> [val |-> Bad, safe |-> TRUE]]
  <2>1. /\ pref.op = "none" /\ disk' = [live |-> f, kept |-> f] /\ acked' = "none"
        /\ w' = w /\ pref' = pref /\ controller' = controller
    BY ZenonT(30), <1>10 DEF Overwritten
  <2>2. f \in [{Config} -> Files] /\ Whole(f[Config])
    BY ZenonT(30) DEF Files, Values, Whole, Contents
  <2> HIDE DEF f
  <2>3. disk' \in Disks /\ DiskOK(disk')
    BY ZenonT(30), <2>1, <2>2 DEF Disks, DiskOK
  <2>4. Shapes' /\ ControllerOK'
    BY ZenonT(30), <1>i, <2>1, <2>3 DEF Shapes, ControllerOK
  <2>5. WriterOK' /\ AckedOK' /\ DiskOK(disk)'
    BY ZenonT(30), <1>i, <2>1, <2>3 DEF WriterOK, AckedOK, DiskOK, Whole
  <2>. QED  BY ZenonT(30), <2>4, <2>5 DEF IInv
<1>11. CASE UNCHANGED vars
  BY ZenonT(30), <1>i, <1>11 DEF vars, IInv, Shapes, DiskOK, Whole, WriterOK, ControllerOK, AckedOK
<1>. QED  BY ZenonT(30), <1>1, <1>2, <1>3, <1>4, <1>5, <1>6, <1>7, <1>8, <1>9, <1>10, <1>11 DEF Next

\* The invariant of the preference holds in every behaviour.
LEMMA Invariance == Spec => []IInv
BY InitInv, NextInv, PTL DEF Spec

\* Between requests the controller does what the view says, after any sequence
\* of requests, failed system calls, restarts and crashes (set_with,
\* from_state_home).
THEOREM ViewAlwaysApplied == Spec => []ViewIsApplied
<1>1. IInv => ViewIsApplied
  BY ZenonT(30) DEF IInv, ViewIsApplied, Steady, ControllerOK, Off
<1>. QED  BY <1>1, Invariance, PTL

\* OFF acts before it is written, and ON only once it is committed (set_with).
THEOREM OffAlwaysFirst == Spec => []OffFirst
<1>1. IInv => OffFirst
  BY ZenonT(30) DEF IInv, OffFirst, ControllerOK, On, Off
<1>. QED  BY <1>1, Invariance, PTL

\* A set that returned Ok is what every later start finds, however the machine
\* stops (ConfigStore::write: sync, rename, sync of the directory).
THEOREM AcknowledgedAlwaysSurvives == Spec => []AcknowledgedSurvives
<1>1. IInv => AcknowledgedSurvives
  <2>. SUFFICES ASSUME IInv, acked # "none", NEW d \in Crashes(disk)
                PROVE  d.live[Config].val = acked
    BY ZenonT(30) DEF AcknowledgedSurvives
  <2>1. d.live[Config] \in {disk.live[Config], disk.kept[Config]}
    BY ZenonT(30), CrashKeeps DEF IInv, Shapes
  <2>. QED  BY ZenonT(30), <2>1 DEF IInv, AckedOK
<1>. QED  BY <1>1, Invariance, PTL

\* No crash leaves a file whose content was not synced (ConfigStore::write).
THEOREM FileNeverTorn == Spec => []NeverTorn
<1>1. IInv => NeverTorn
  <2>. SUFFICES ASSUME IInv, NEW d \in Crashes(disk)
                PROVE  d.live[Config].val \notin {Torn, "empty"}
    BY ZenonT(30) DEF NeverTorn
  <2>1. DiskOK(d)
    BY ZenonT(30), CrashKeeps DEF IInv, Shapes
  <2>. QED  BY ZenonT(30), <2>1 DEF DiskOK, Whole, Contents, Torn, On, Off, Bad
<1>. QED  BY <1>1, Invariance, PTL

\* The preference holds through every failed stage of a write, every restart and
\* every crash, for any number of them (set_with, from_state_home,
\* ConfigStore::write).
THEOREM PreferenceAlwaysKept == Spec => []PreferenceKept
<1>1. ViewIsApplied /\ OffFirst /\ AcknowledgedSurvives /\ NeverTorn => PreferenceKept
  BY DEF PreferenceKept
<1>. QED  BY <1>1, ViewAlwaysApplied, OffAlwaysFirst, AcknowledgedAlwaysSurvives, FileNeverTorn, PTL

\* A request that finds the file unreadable never begins to write it (set_with).
THEOREM UnreadableNeverRepaired == Spec => NeverRepaired
<1> DEFINE Untouched == disk.live[Config].val = Bad /\ w.stage = "idle" /\ pref'.op # "none"
                     => w'.stage \in {"idle", "failed"}
<1>1. [Next]_vars => [Untouched]_vars
  <2>. SUFFICES ASSUME Next, disk.live[Config].val = Bad, w.stage = "idle"
                PROVE  w'.stage \in {"idle", "failed"}
    BY ZenonT(30)
  <2>1. ~Writing(w) /\ ~WriteGoes /\ ~WriteFails
    BY ZenonT(30) DEF Writing, WriteGoes, WriteFails
  <2>2. ~SetFails /\ ~SetDone
    BY DEF SetFails, SetDone
  <2>3. CASE Start \/ StartUnread \/ Overwritten
    BY ZenonT(30), <2>3 DEF Start, StartUnread, Overwritten
  <2>4. CASE Restart \/ Crash
    BY ZenonT(30), <2>4, IdleDown DEF Restart, Crash
  <2>5. ASSUME NEW v \in {On, Off}, SetStarts(v) \/ SetUnread(v) PROVE w'.stage = "failed"
    <3>1. Refused
      BY ZenonT(30) DEF Refused, Readable, On, Off, Bad
    <3>2. w' = [Idle EXCEPT !.stage = "failed"]
      BY ZenonT(30), <2>5, <3>1 DEF SetStarts, SetUnread
    <3>. QED  BY ZenonT(30), <3>2, IdleDown
  <2>. QED  BY ZenonT(30), <2>1, <2>2, <2>3, <2>4, <2>5 DEF Next
<1>2. Spec => [][Untouched]_vars
  BY <1>1, PTL DEF Spec
<1>. QED  BY ZenonT(30), <1>2 DEF NeverRepaired

-----------------------------------------------------------------------------
(* Compute jobs: the inductive invariant.                                  *)
(*                                                                         *)
(* A job that can be looked up, of the lease and the session there are,    *)
(* has the entry of its request; an entry that names a job says of it what *)
(* the job is, its time included, so that both are forgotten together.     *)

JobStates == {"Unknown", "Dropped", "Running"} \cup EndStates

Absent == {"Unknown", "Dropped"}

JobRecords ==
  [state : JobStates, lease : Nat, session : Nat, req : ReqNos \cup {0}, res : ResIds \cup {NoRes}, at : Int]

EntryRecords ==
  [session : Nat, asked : ResIds \cup Jobs \cup {NoRes}, job : Jobs \cup {NoJob},
   answer : JobStates \cup {"None", "Refused"}, at : Int]

Numbers ==
  /\ clock \in Nat
  /\ jobLease \in Nat /\ jobLeases \in Nat /\ jobLease <= jobLeases /\ jobLeases <= LeaseBound
  /\ session \in Nat /\ sessions \in Nat /\ session <= sessions
  /\ res \in [ResIds -> [lease : Nat, state : {"Unused", "Committed", "Consumed", "Returned"}]]
  /\ running \in Jobs \cup {NoJob}

\* a job that is in the map is of a lease and a session there were
Placed(r) ==
  IF r.state \in Absent THEN r.lease = 0 /\ r.at = NoEnd
  ELSE /\ r.lease \in 1 .. jobLeases /\ r.session \in 1 .. sessions
       /\ r.req \in ReqNos /\ r.res \in ResIds

\* its reservation is spent, and on no other job
Spent(jbs) ==
  /\ \A j \in Jobs : jbs[j].res # NoRes => res[jbs[j].res].state \in {"Consumed", "Returned"}
  /\ \A j, k \in Jobs : jbs[j].res = jbs[k].res /\ jbs[j].res # NoRes => j = k

\* the job that runs has the mutex, and its lease and its session go on
Runs(jbs) ==
  /\ \A j \in Jobs : jbs[j].state = "Running" <=> running = j
  /\ running # NoJob => /\ jbs[running].lease = jobLease /\ jobLease # 0
                        /\ jbs[running].session = session /\ session # 0

JobsOK(jbs) ==
  /\ jbs \in [Jobs -> JobRecords]
  /\ \A j \in Jobs : Placed(jbs[j])
  /\ Spent(jbs)
  /\ Runs(jbs)

\* the entry a job has as long as it can be looked up
EntryOf(j, r) == [session |-> r.session, asked |-> r.res, job |-> j, answer |-> r.state, at |-> r.at]

Current(r) == r.lease = jobLease /\ jobLease # 0 /\ r.session = session

SubmitsOK(jbs, sub) ==
  /\ sub \in [Keys -> EntryRecords]
  /\ \A j \in Jobs : Current(jbs[j]) => sub[<<jobLease, jbs[j].req>>] = EntryOf(j, jbs[j])
  /\ \A k \in Keys : sub[k].job # NoJob => sub[k] = EntryOf(sub[k].job, jbs[sub[k].job])
                                           /\ jbs[sub[k].job].lease = k[1]
                                           /\ jbs[sub[k].job].req = k[2]

CancelsOK(jbs, can) ==
  /\ can \in [Keys -> EntryRecords]
  /\ \A k \in Keys : can[k].job # NoJob =>
       can[k].answer \in EndStates /\ jbs[can[k].job].state \in {can[k].answer, "Dropped"}

\* what is kept is of the lease and the session there are
OfNow(table) ==
  \A k \in Keys : table[k] # Vacant => k[1] = jobLease /\ table[k].session = session /\ session # 0

\* what counting the requests of a lease needs (proved last, from IsFiniteSet(ReqNos))
Counts ==
  /\ Cardinality({}) = 0
  /\ \A S \in SUBSET ReqNos : Cardinality(S) \in Nat
  /\ \A S \in SUBSET ReqNos : \A T \in SUBSET S : Cardinality(T) <= Cardinality(S)
  /\ \A S \in SUBSET ReqNos : \A q \in ReqNos : Cardinality(S \cup {q}) <= Cardinality(S) + 1

Roomy(sub) ==
  \A l \in 1 .. LeaseBound : Cardinality({q \in ReqNos : sub[<<l, q>>] # Vacant}) <= SubmitCapacity

JobsInv ==
  /\ Numbers
  /\ JobsOK(jobs)
  /\ SubmitsOK(jobs, submits) /\ OfNow(submits) /\ Roomy(submits)
  /\ CancelsOK(jobs, cancels) /\ OfNow(cancels)

-----------------------------------------------------------------------------
(* What forgetting does (purge). *)

\* A key of the lease in force.
LEMMA KeyOfLease ==
  ASSUME JobConstants, Numbers, jobLease # 0, NEW q \in ReqNos
  PROVE  <<jobLease, q>> \in Keys
<1>1. jobLease \in 1 .. LeaseBound
  BY DEF Numbers, JobConstants
<1>. QED  BY ZenonT(30), <1>1 DEF Keys

\* A job is left as it is, or dropped with its reservation remembered.
LEMMA PurgedJobIs ==
  ASSUME JobsOK(jobs), NEW j \in Jobs
  PROVE  /\ PurgedJobs[j] \in JobRecords /\ PurgedJobs[j].res = jobs[j].res
         /\ \/ PurgedJobs[j] = jobs[j] /\ StillKept(jobs[j].at)
            \/ /\ PurgedJobs[j].state = "Dropped" /\ PurgedJobs[j].lease = 0
               /\ PurgedJobs[j].at = NoEnd /\ ~StillKept(jobs[j].at)
<1>1. jobs[j] \in JobRecords /\ jobs[j].res \in ResIds \cup {NoRes}
  BY ZenonT(30) DEF JobsOK, JobRecords
<1>2. CASE StillKept(jobs[j].at)
  <2>1. PurgedJobs[j] = jobs[j]
    BY <1>2, ZenonT(30) DEF PurgedJobs
  <2>. QED  BY <1>1, <1>2, <2>1, ZenonT(30)
<1>3. CASE ~StillKept(jobs[j].at)
  <2>1. PurgedJobs[j] = [state |-> "Dropped", lease |-> 0, session |-> 0, req |-> 0,
                         res |-> jobs[j].res, at |-> NoEnd]
    <3>1. PurgedJobs[j] = [UnknownJob EXCEPT !.state = "Dropped", !.res = jobs[j].res]
      BY <1>3, ZenonT(30) DEF PurgedJobs
    <3>. QED  BY <3>1, ZenonT(30) DEF UnknownJob
  <2>2. NoEnd \in Int
    BY DEF NoEnd
  <2>. QED  BY <1>1, <1>3, <2>1, <2>2 DEF JobRecords, JobStates
<1>. QED  BY ZenonT(30), <1>2, <1>3

\* The map of jobs stays in order.
LEMMA PurgedJobsOK ==
  ASSUME JobConstants, Numbers, JobsOK(jobs), running = NoJob
  PROVE  JobsOK(PurgedJobs)
<1>1. PurgedJobs \in [Jobs -> JobRecords]
  <2>1. PurgedJobs = [j \in Jobs |-> PurgedJobs[j]]
    BY ZenonT(30) DEF PurgedJobs
  <2>2. \A j \in Jobs : PurgedJobs[j] \in JobRecords
    BY PurgedJobIs, ZenonT(30)
  <2>. QED  BY <2>1, <2>2, ZenonT(30)
<1>2. ASSUME NEW j \in Jobs PROVE Placed(PurgedJobs[j])
  <2>1. Placed(jobs[j])
    BY ZenonT(30) DEF JobsOK
  <2>. QED  BY ZenonT(30), <2>1, PurgedJobIs DEF Placed, Absent
<1>3. Spent(PurgedJobs)
  <2>1. Spent(jobs) /\ \A j \in Jobs : PurgedJobs[j].res = jobs[j].res
    BY PurgedJobIs, ZenonT(30) DEF JobsOK
  <2>. QED  BY ZenonT(30), <2>1 DEF Spent
<1>4. Runs(PurgedJobs)
  <2>1. Runs(jobs) /\ \A j \in Jobs : PurgedJobs[j] = jobs[j] \/ PurgedJobs[j].state = "Dropped"
    BY PurgedJobIs, ZenonT(30) DEF JobsOK
  <2>2. \A j \in Jobs : running # j
    BY ZenonT(30) DEF JobConstants
  <2>. QED  BY ZenonT(30), <2>1, <2>2 DEF Runs
<1>. QED  BY <1>1, <1>2, <1>3, <1>4, ZenonT(30) DEF JobsOK

\* An entry is left as it is, or cleared.
LEMMA PurgedEntryIs ==
  ASSUME NEW k \in Keys
  PROVE  /\ \/ PurgedSubmits[k] = submits[k] /\ StillKept(submits[k].at)
            \/ PurgedSubmits[k] = Vacant /\ ~StillKept(submits[k].at)
         /\ \/ PurgedCancels[k] = cancels[k] /\ StillKept(cancels[k].at)
            \/ PurgedCancels[k] = Vacant /\ ~StillKept(cancels[k].at)
  BY ZenonT(30) DEF PurgedSubmits, PurgedCancels

\* No entry, no job.
LEMMA VacantIs ==
  Vacant \in EntryRecords /\ Vacant.job = NoJob /\ Vacant.session = 0
<1>1. NoEnd \in Int
  BY DEF NoEnd
<1>. QED  BY ZenonT(30), <1>1 DEF Vacant, EntryRecords
\* An entry and the job it names are forgotten together (purge).
LEMMA PurgedSubmitsOK ==
  ASSUME JobConstants, Numbers, JobsOK(jobs), SubmitsOK(jobs, submits), running = NoJob
  PROVE  SubmitsOK(PurgedJobs, PurgedSubmits)
<1>1. PurgedSubmits \in [Keys -> EntryRecords]
  <2>1. PurgedSubmits = [k \in Keys |-> PurgedSubmits[k]]
    BY ZenonT(30) DEF PurgedSubmits
  <2>2. \A k \in Keys : PurgedSubmits[k] \in EntryRecords
    BY PurgedEntryIs, VacantIs, ZenonT(30) DEF SubmitsOK
  <2>. QED  BY <2>1, <2>2, ZenonT(30)
<1>2. ASSUME NEW j \in Jobs, Current(PurgedJobs[j])
      PROVE  PurgedSubmits[<<jobLease, PurgedJobs[j].req>>] = EntryOf(j, PurgedJobs[j])
  <2>1. PurgedJobs[j] = jobs[j] /\ StillKept(jobs[j].at)
    BY <1>2, PurgedJobIs, ZenonT(30) DEF Current
  <2>2. jobs[j].req \in ReqNos /\ jobLease # 0
    <3>1. Placed(jobs[j]) /\ jobs[j].lease = jobLease /\ jobLease # 0
      BY <1>2, <2>1, ZenonT(30) DEF JobsOK, Current
    <3>. QED  BY <3>1, ZenonT(30) DEF Placed
  <2>3. submits[<<jobLease, jobs[j].req>>] = EntryOf(j, jobs[j])
    BY <1>2, <2>1, ZenonT(30) DEF SubmitsOK
  <2>4. submits[<<jobLease, jobs[j].req>>].at = jobs[j].at
    BY <2>3 DEF EntryOf
  <2>5. <<jobLease, jobs[j].req>> \in Keys
    BY ZenonT(30), <2>2, KeyOfLease
  <2>. QED  BY <2>1, <2>3, <2>4, <2>5, PurgedEntryIs, ZenonT(30)
<1>3. ASSUME NEW k \in Keys, PurgedSubmits[k].job # NoJob
      PROVE  /\ PurgedSubmits[k] = EntryOf(PurgedSubmits[k].job, PurgedJobs[PurgedSubmits[k].job])
             /\ PurgedJobs[PurgedSubmits[k].job].lease = k[1]
             /\ PurgedJobs[PurgedSubmits[k].job].req = k[2]
  <2>1. PurgedSubmits[k] = submits[k] /\ StillKept(submits[k].at)
    BY <1>3, PurgedEntryIs, VacantIs, ZenonT(30)
  <2> DEFINE j == submits[k].job
  <2>2. /\ submits[k] = EntryOf(j, jobs[j]) /\ jobs[j].lease = k[1] /\ jobs[j].req = k[2]
        /\ j \in Jobs
    BY <1>3, <2>1, ZenonT(30) DEF SubmitsOK, EntryRecords
  <2>3. submits[k].at = jobs[j].at
    BY <2>2 DEF EntryOf
  <2> HIDE DEF j
  <2>4. PurgedJobs[j] = jobs[j]
    BY <2>1, <2>2, <2>3, PurgedJobIs, ZenonT(30)
  <2>. QED  BY <2>1, <2>2, <2>4, ZenonT(30) DEF j
<1>. QED  BY <1>1, <1>2, <1>3, ZenonT(30) DEF SubmitsOK

\* The same for the entries of cancellations.
LEMMA PurgedCancelsOK ==
  ASSUME JobsOK(jobs), CancelsOK(jobs, cancels)
  PROVE  CancelsOK(PurgedJobs, PurgedCancels)
<1>1. PurgedCancels \in [Keys -> EntryRecords]
  <2>1. PurgedCancels = [k \in Keys |-> PurgedCancels[k]]
    BY ZenonT(30) DEF PurgedCancels
  <2>2. \A k \in Keys : PurgedCancels[k] \in EntryRecords
    BY PurgedEntryIs, VacantIs, ZenonT(30) DEF CancelsOK
  <2>. QED  BY <2>1, <2>2, ZenonT(30)
<1>2. ASSUME NEW k \in Keys, PurgedCancels[k].job # NoJob
      PROVE  /\ PurgedCancels[k].answer \in EndStates
             /\ PurgedJobs[PurgedCancels[k].job].state \in {PurgedCancels[k].answer, "Dropped"}
  <2>1. PurgedCancels[k] = cancels[k]
    BY <1>2, PurgedEntryIs, VacantIs, ZenonT(30)
  <2>2. /\ cancels[k].answer \in EndStates /\ cancels[k].job \in Jobs
        /\ jobs[cancels[k].job].state \in {cancels[k].answer, "Dropped"}
    BY <1>2, <2>1, ZenonT(30) DEF CancelsOK, EntryRecords
  <2>. QED  BY <2>1, <2>2, PurgedJobIs, ZenonT(30)
<1>. QED  BY <1>1, <1>2, ZenonT(30) DEF CancelsOK

\* What is kept after forgetting was kept before.
LEMMA PurgedOfNow ==
  ASSUME OfNow(submits), OfNow(cancels)
  PROVE  OfNow(PurgedSubmits) /\ OfNow(PurgedCancels)
  BY PurgedEntryIs, ZenonT(30) DEF OfNow

\* A table with no entry that was not there before has room, too.
LEMMA FewerRoomy ==
  ASSUME JobConstants, Counts, NEW a, NEW b, Roomy(a),
         \A k \in Keys : b[k] # Vacant => a[k] # Vacant
  PROVE  Roomy(b)
<1> SUFFICES ASSUME NEW l \in 1 .. LeaseBound
             PROVE  Cardinality({q \in ReqNos : b[<<l, q>>] # Vacant}) <= SubmitCapacity
  BY ZenonT(30) DEF Roomy
<1> DEFINE A == {q \in ReqNos : a[<<l, q>>] # Vacant}
           B == {q \in ReqNos : b[<<l, q>>] # Vacant}
<1>1. \A q \in ReqNos : <<l, q>> \in Keys
  BY ZenonT(30) DEF Keys
<1>2. B \in SUBSET A
  BY <1>1, ZenonT(30)
<1>3. A \in SUBSET ReqNos /\ B \in SUBSET ReqNos
  BY ZenonT(30)
<1>4. Cardinality(A) <= SubmitCapacity
  BY ZenonT(30) DEF Roomy
<1> HIDE DEF A, B
<1>6. Cardinality(B) <= Cardinality(A) /\ Cardinality(A) \in Nat /\ Cardinality(B) \in Nat
  BY <1>2, <1>3, ZenonT(30) DEF Counts
<1>7. SubmitCapacity \in Nat
  BY ZenonT(30) DEF JobConstants
<1>8. Cardinality(B) <= SubmitCapacity
  BY <1>4, <1>6, <1>7
<1>. QED  BY ZenonT(30), <1>8 DEF B

\* The whole of purge.
LEMMA PurgeKeeps ==
  ASSUME JobConstants, Counts, JobsInv, running = NoJob
  PROVE  /\ JobsOK(PurgedJobs)
         /\ SubmitsOK(PurgedJobs, PurgedSubmits) /\ OfNow(PurgedSubmits) /\ Roomy(PurgedSubmits)
         /\ CancelsOK(PurgedJobs, PurgedCancels) /\ OfNow(PurgedCancels)
<1>1. Roomy(PurgedSubmits)
  <2>1. Roomy(submits)
    BY ZenonT(30) DEF JobsInv
  <2>2. \A k \in Keys : PurgedSubmits[k] # Vacant => submits[k] # Vacant
    BY PurgedEntryIs, ZenonT(30)
  <2>. QED  BY <2>1, <2>2, FewerRoomy, ZenonT(30)
<1>. QED  BY <1>1, PurgedJobsOK, PurgedSubmitsOK, PurgedCancelsOK, PurgedOfNow, ZenonT(30) DEF JobsInv

\* No entry of an earlier session is found (check_submit): they went with it.
LEMMA LookedIsPurged ==
  ASSUME JobConstants, Counts, JobsInv, running = NoJob, jobLease # 0, NEW q \in ReqNos
  PROVE  Looked(q) = PurgedSubmits
<1>1. OfNow(PurgedSubmits) /\ <<jobLease, q>> \in Keys
  BY PurgeKeeps, KeyOfLease, ZenonT(30) DEF JobsInv
<1>2. PurgedSubmits[<<jobLease, q>>].session \in {0, session}
  BY <1>1, VacantIs, ZenonT(30) DEF OfNow
<1>. QED  BY <1>2, ZenonT(30) DEF Looked

-----------------------------------------------------------------------------
(* Requests. *)

\* One more entry, where there is room.
LEMMA OneMoreRoomy ==
  ASSUME JobConstants, Counts, Numbers, NEW a \in [Keys -> EntryRecords], Roomy(a), jobLease # 0, NEW q \in ReqNos,
         NEW e, ~(Cardinality({r \in ReqNos : a[<<jobLease, r>>] # Vacant}) >= SubmitCapacity)
  PROVE  Roomy([a EXCEPT ![<<jobLease, q>>] = e])
<1> DEFINE b == [a EXCEPT ![<<jobLease, q>>] = e]
<1> SUFFICES ASSUME NEW l \in 1 .. LeaseBound
             PROVE  Cardinality({r \in ReqNos : b[<<l, r>>] # Vacant}) <= SubmitCapacity
  BY ZenonT(30) DEF Roomy
<1> DEFINE A == {r \in ReqNos : a[<<l, r>>] # Vacant}
           B == {r \in ReqNos : b[<<l, r>>] # Vacant}
<1>1. /\ \A r \in ReqNos : <<l, r>> \in Keys
      /\ \A k \in Keys : k # <<jobLease, q>> => b[k] = a[k]
  BY ZenonT(30) DEF Keys
<1>2. \A r \in ReqNos : l # jobLease \/ r # q => b[<<l, r>>] = a[<<l, r>>]
  BY ZenonT(30), <1>1
<1>3. A \in SUBSET ReqNos /\ A \cup {q} \in SUBSET ReqNos /\ B \in SUBSET ReqNos /\ SubmitCapacity \in Nat
  BY ZenonT(30) DEF JobConstants
<1>4. Cardinality(A) <= SubmitCapacity
  BY ZenonT(30) DEF Roomy
<1>5. l = jobLease => ~(Cardinality(A) >= SubmitCapacity)
  BY ZenonT(30)
<1>6. B \in SUBSET (A \cup {q}) /\ (l # jobLease => B \in SUBSET A)
  BY <1>2, ZenonT(30)
<1> HIDE DEF A, B
<1>7. Cardinality(A) \in Nat /\ Cardinality(A \cup {q}) \in Nat /\ Cardinality(B) \in Nat
  BY <1>3, ZenonT(30) DEF Counts
<1>8. Cardinality(A \cup {q}) <= Cardinality(A) + 1
  BY <1>3, ZenonT(30) DEF Counts
<1>9. CASE l = jobLease
  <2>1. Cardinality(B) <= Cardinality(A \cup {q}) /\ Cardinality(B) \in Nat
    BY <1>3, <1>6, <1>7, ZenonT(30) DEF Counts
  <2>2. Cardinality(B) <= SubmitCapacity
    BY <1>3, <1>5, <1>7, <1>8, <1>9, <2>1
  <2>. QED  BY ZenonT(30), <2>2 DEF B
<1>10. CASE l # jobLease
  <2>1. Cardinality(B) <= Cardinality(A) /\ Cardinality(B) \in Nat
    BY <1>3, <1>6, <1>7, <1>10, ZenonT(30) DEF Counts
  <2>2. Cardinality(B) <= SubmitCapacity
    BY <1>3, <1>4, <1>7, <2>1
  <2>. QED  BY <2>2 DEF B
<1>. QED  BY ZenonT(30), <1>9, <1>10

\* After a request the tables are those it left, under the same lease and session.
LEMMA AfterRequest ==
  ASSUME JobsInv, JobRequest, UNCHANGED <<res, running>>,
         JobsOK(jobs'), SubmitsOK(jobs', submits'), OfNow(submits'), Roomy(submits'),
         CancelsOK(jobs', cancels'), OfNow(cancels')
  PROVE  JobsInv'
<1>1. UNCHANGED <<clock, jobLease, jobLeases, session, sessions, res, running>>
  BY ZenonT(30) DEF JobRequest
<1>2. Numbers'
  BY <1>1, ZenonT(30) DEF JobsInv, Numbers
<1>3. JobsOK(jobs)'
  BY <1>1, ZenonT(30) DEF JobsOK, Placed, Spent, Runs
<1>4. SubmitsOK(jobs, submits)' /\ OfNow(submits)' /\ Roomy(submits)'
  BY <1>1, ZenonT(30) DEF SubmitsOK, OfNow, Roomy, Current, EntryOf
<1>5. CancelsOK(jobs, cancels)' /\ OfNow(cancels)'
  BY <1>1, ZenonT(30) DEF CancelsOK, OfNow
<1>. QED  BY <1>2, <1>3, <1>4, <1>5, ZenonT(30) DEF JobsInv

\* A request whose answer is known, or that finds no room, and STATUS only forget.
LEMMA LooksOnly ==
  ASSUME JobConstants, Counts, JobsInv, (\E q \in ReqNos : SubmitKnown(q)) \/ Status
  PROVE  JobsInv'
<1>1. JobRequest /\ UNCHANGED <<res, running>> /\ running = NoJob /\ jobLease # 0
  BY ZenonT(30) DEF SubmitKnown, Status, JobRequest
<1>2. jobs' = PurgedJobs /\ submits' = PurgedSubmits /\ cancels' = PurgedCancels
  BY <1>1, LookedIsPurged, ZenonT(30) DEF SubmitKnown, Status
<1>3. /\ JobsOK(PurgedJobs)
      /\ SubmitsOK(PurgedJobs, PurgedSubmits) /\ OfNow(PurgedSubmits) /\ Roomy(PurgedSubmits)
      /\ CancelsOK(PurgedJobs, PurgedCancels) /\ OfNow(PurgedCancels)
  BY <1>1, PurgeKeeps, ZenonT(30)
<1>. QED  BY <1>1, <1>2, <1>3, AfterRequest, ZenonT(30)

\* No job that can be looked up has a request number without an entry.
LEMMA VacantMeansNoJob ==
  ASSUME JobConstants, Counts, NEW jbs \in [Jobs -> JobRecords], NEW sub, SubmitsOK(jbs, sub), NEW q,
         sub[<<jobLease, q>>] = Vacant, NEW j \in Jobs, Current(jbs[j])
  PROVE  jbs[j].req # q
<1> SUFFICES ASSUME jbs[j].req = q PROVE FALSE
  BY ZenonT(30)
<1>1. Vacant = EntryOf(j, jbs[j])
  BY ZenonT(30) DEF SubmitsOK
<1>2. Vacant.job = j
  BY <1>1 DEF EntryOf
<1>. QED  BY <1>2, VacantIs, ZenonT(30) DEF JobConstants

\* A refusal is kept, and names no job (remember_submit).
LEMMA RefusedKeeps ==
  ASSUME JobConstants, Counts, JobsInv, NEW q \in ReqNos, NEW i \in ResIds, SubmitRefused(q, i)
  PROVE  JobsInv'
<1> DEFINE e == [session |-> session, asked |-> i, job |-> NoJob, answer |-> "Refused", at |-> clock]
           k1 == <<jobLease, q>>
           s2 == [PurgedSubmits EXCEPT ![k1] = e]
<1>1. JobRequest /\ UNCHANGED <<res, running>> /\ running = NoJob /\ jobLease # 0 /\ session # 0
  BY ZenonT(30) DEF SubmitRefused, JobRequest
<1>2. Looked(q) = PurgedSubmits
  BY <1>1, LookedIsPurged, ZenonT(30)
<1>3. /\ jobs' = PurgedJobs /\ submits' = s2 /\ cancels' = PurgedCancels
      /\ PurgedSubmits[k1] = Vacant /\ ~Full(q)
  BY <1>2, ZenonT(30) DEF SubmitRefused
<1>4. /\ JobsOK(PurgedJobs)
      /\ SubmitsOK(PurgedJobs, PurgedSubmits) /\ OfNow(PurgedSubmits) /\ Roomy(PurgedSubmits)
      /\ CancelsOK(PurgedJobs, PurgedCancels) /\ OfNow(PurgedCancels)
      /\ PurgedSubmits \in [Keys -> EntryRecords] /\ PurgedJobs \in [Jobs -> JobRecords]
  BY <1>1, PurgeKeeps, ZenonT(30) DEF SubmitsOK, JobsOK
<1>5. k1 \in Keys /\ Numbers
  BY <1>1, KeyOfLease, ZenonT(30) DEF JobsInv
<1>6. Roomy(s2)
  <2>1. ~(Cardinality({r \in ReqNos : PurgedSubmits[<<jobLease, r>>] # Vacant}) >= SubmitCapacity)
    BY <1>2, <1>3, ZenonT(30) DEF Full
  <2>. QED  BY <1>1, <1>4, <1>5, <2>1, OneMoreRoomy, ZenonT(30)
<1>7. e \in EntryRecords /\ e.job = NoJob /\ e.session = session
  <2>1. session \in Nat /\ clock \in Int
    BY <1>5 DEF Numbers
  <2>. QED  BY ZenonT(30), <2>1 DEF EntryRecords
<1> HIDE DEF e, k1
<1>8. /\ s2 \in [Keys -> EntryRecords] /\ s2[k1] = e
      /\ \A k \in Keys : k # k1 => s2[k] = PurgedSubmits[k]
  BY <1>4, <1>5, <1>7, ZenonT(30)
<1> HIDE DEF s2
<1>9. SubmitsOK(PurgedJobs, s2)
  <2>1. ASSUME NEW j \in Jobs, Current(PurgedJobs[j])
        PROVE  s2[<<jobLease, PurgedJobs[j].req>>] = EntryOf(j, PurgedJobs[j])
    <3>1. PurgedSubmits[<<jobLease, PurgedJobs[j].req>>] = EntryOf(j, PurgedJobs[j])
      BY <1>4, <2>1, ZenonT(30) DEF SubmitsOK
    <3>2. PurgedJobs[j].req # q
      BY <1>3, <1>4, <2>1, VacantMeansNoJob, ZenonT(30) DEF k1
    <3>3. <<jobLease, PurgedJobs[j].req>> # k1
      BY ZenonT(30), <3>2 DEF k1
    <3>4. Placed(PurgedJobs[j]) /\ PurgedJobs[j].lease # 0
      BY <1>4, <2>1, ZenonT(30) DEF JobsOK, Current
    <3>5. PurgedJobs[j].req \in ReqNos
      BY <3>4, ZenonT(30) DEF Placed
    <3>6. <<jobLease, PurgedJobs[j].req>> \in Keys
      BY <1>1, <1>5, <3>5, KeyOfLease, ZenonT(30)
    <3>. QED  BY <1>8, <3>1, <3>3, <3>6, ZenonT(30)
  <2>2. ASSUME NEW k \in Keys, s2[k].job # NoJob
        PROVE  s2[k] = PurgedSubmits[k]
    BY <1>7, <1>8, <2>2, ZenonT(30)
  <2>. QED  BY <1>4, <1>8, <2>1, <2>2, ZenonT(30) DEF SubmitsOK
<1>10. OfNow(s2)
  <2>1. k1[1] = jobLease
    BY ZenonT(30) DEF k1
  <2>. QED  BY <1>1, <1>4, <1>7, <1>8, <2>1, ZenonT(30) DEF OfNow
<1>. QED  BY <1>1, <1>3, <1>4, <1>6, <1>9, <1>10, AfterRequest, ZenonT(30)

\* A job that can be looked up is of the lease, and its key is one of the table's.
LEMMA CurrentKey ==
  ASSUME JobConstants, Counts, Numbers, NEW jbs, JobsOK(jbs), NEW j \in Jobs, Current(jbs[j])
  PROVE  /\ jbs[j].req \in ReqNos /\ jbs[j].res \in ResIds
         /\ <<jobLease, jbs[j].req>> \in Keys
         /\ jbs[j].session \in 1 .. sessions /\ jbs[j].lease \in 1 .. jobLeases
<1>1. Placed(jbs[j]) /\ jbs[j].lease # 0 /\ jobLease # 0
  BY ZenonT(30) DEF JobsOK, Current
<1>2. /\ jbs[j].req \in ReqNos /\ jbs[j].res \in ResIds
      /\ jbs[j].session \in 1 .. sessions /\ jbs[j].lease \in 1 .. jobLeases
  BY <1>1, ZenonT(30) DEF Placed
<1>. QED  BY <1>1, <1>2, KeyOfLease, ZenonT(30)

\* The job that begins takes a reservation that no job has, under a request
\* number that no job of the session has (apply_compute_submit).
LEMMA BeginKeeps ==
  ASSUME JobConstants, Counts, JobsInv, NEW q \in ReqNos, NEW i \in ResIds, NEW j \in Jobs, SubmitBegin(q, i, j)
  PROVE  JobsInv'
<1> DEFINE e == [session |-> session, asked |-> i, job |-> j, answer |-> "Running", at |-> NoEnd]
           n == [state |-> "Running", lease |-> jobLease, session |-> session,
                 req |-> q, res |-> i, at |-> NoEnd]
           k1 == <<jobLease, q>>
           s2 == [PurgedSubmits EXCEPT ![k1] = e]
           j2 == [PurgedJobs EXCEPT ![j] = n]
<1>1. JobRequest /\ running = NoJob /\ jobLease # 0 /\ session # 0
  BY ZenonT(30) DEF SubmitBegin, JobRequest
<1>2. Looked(q) = PurgedSubmits
  BY <1>1, LookedIsPurged, ZenonT(30)
<1>3. /\ jobs' = j2 /\ submits' = s2 /\ cancels' = PurgedCancels /\ running' = j
      /\ res' = [res EXCEPT ![i].state = "Consumed"] /\ res[i].state = "Committed"
      /\ PurgedSubmits[k1] = Vacant /\ ~Full(q) /\ jobs[j] = UnknownJob
  BY <1>2, ZenonT(30) DEF SubmitBegin, Usable
<1>4. /\ JobsOK(PurgedJobs)
      /\ SubmitsOK(PurgedJobs, PurgedSubmits) /\ OfNow(PurgedSubmits) /\ Roomy(PurgedSubmits)
      /\ CancelsOK(PurgedJobs, PurgedCancels) /\ OfNow(PurgedCancels)
      /\ PurgedSubmits \in [Keys -> EntryRecords] /\ PurgedJobs \in [Jobs -> JobRecords]
  BY <1>1, PurgeKeeps, ZenonT(30) DEF SubmitsOK, JobsOK
<1>5. k1 \in Keys /\ Numbers
  BY <1>1, KeyOfLease, ZenonT(30) DEF JobsInv
<1>6. Roomy(s2)
  <2>1. ~(Cardinality({r \in ReqNos : PurgedSubmits[<<jobLease, r>>] # Vacant}) >= SubmitCapacity)
    BY <1>2, <1>3, ZenonT(30) DEF Full
  <2>. QED  BY <1>1, <1>4, <1>5, <2>1, OneMoreRoomy, ZenonT(30)
<1>7. PurgedJobs[j] = UnknownJob
  <2>1. UnknownJob.at = NoEnd
    BY ZenonT(30) DEF UnknownJob
  <2>. QED  BY <1>3, <2>1, ZenonT(30) DEF PurgedJobs, StillKept
<1>8. UnknownJob.lease = 0 /\ UnknownJob.state = "Unknown" /\ UnknownJob.res = NoRes
  BY ZenonT(30) DEF UnknownJob
<1>9. e \in EntryRecords /\ e.session = session /\ e.job = j /\ e = EntryOf(j, n) /\ NoJob # j
  <2>1. session \in Nat /\ NoEnd \in Int
    BY <1>5 DEF Numbers, NoEnd
  <2>2. e \in EntryRecords /\ e.session = session /\ e.job = j /\ e = EntryOf(j, n)
    BY ZenonT(30), <2>1 DEF EntryRecords, JobStates, EntryOf
  <2>. QED  BY <2>2, ZenonT(30) DEF JobConstants
<1>10. /\ n \in JobRecords /\ n.state = "Running" /\ n.lease = jobLease /\ n.session = session
       /\ n.req = q /\ n.res = i
  <2>1. session \in Nat /\ jobLease \in Nat /\ NoEnd \in Int
    BY <1>5 DEF Numbers, NoEnd
  <2>. QED  BY ZenonT(30), <2>1 DEF JobRecords, JobStates
<1>11. k1[1] = jobLease /\ k1[2] = q
  BY ZenonT(30)
<1> HIDE DEF e, n, k1
<1>12. /\ s2 \in [Keys -> EntryRecords] /\ s2[k1] = e
       /\ \A k \in Keys : k # k1 => s2[k] = PurgedSubmits[k]
  BY <1>4, <1>5, <1>9, ZenonT(30)
<1>13. /\ j2 \in [Jobs -> JobRecords] /\ j2[j] = n
       /\ \A m \in Jobs : m # j => j2[m] = PurgedJobs[m]
  BY <1>4, <1>10, ZenonT(30)
<1> HIDE DEF s2, j2
<1>14. UNCHANGED <<clock, jobLease, jobLeases, session, sessions>>
  BY <1>1, ZenonT(30) DEF JobRequest
<1>15. /\ res' \in [ResIds -> [lease : Nat, state : {"Unused", "Committed", "Consumed", "Returned"}]]
       /\ res'[i].state = "Consumed" /\ \A m \in ResIds : m # i => res'[m] = res[m]
  BY ZenonT(30), <1>3, <1>5 DEF Numbers
<1>16. Numbers'
  BY <1>3, <1>5, <1>14, <1>15, ZenonT(30) DEF Numbers
<1>17. JobsOK(jobs)'
  <2>1. ASSUME NEW m \in Jobs PROVE Placed(j2[m])
    <3>1. Placed(n)
      <4>1. jobLease \in 1 .. jobLeases /\ session \in 1 .. sessions
        BY <1>1, <1>5 DEF Numbers
      <4>2. n.state \notin Absent
        BY ZenonT(30), <1>10 DEF Absent
      <4>. QED  BY <1>10, <4>1, <4>2, ZenonT(30) DEF Placed
    <3>2. Placed(PurgedJobs[m])
      BY <1>4, ZenonT(30) DEF JobsOK
    <3>. QED  BY <1>13, <3>1, <3>2, ZenonT(30)
  <2>2. \A m \in Jobs : m # j => PurgedJobs[m].res # i
    <3>1. \A m \in Jobs : PurgedJobs[m].res # NoRes => res[PurgedJobs[m].res].state \in {"Consumed", "Returned"}
      BY <1>4, ZenonT(30) DEF JobsOK, Spent
    <3>2. i # NoRes
      BY ZenonT(30) DEF JobConstants
    <3>. QED  BY ZenonT(30), <1>3, <3>1, <3>2
  <2>3. Spent(jobs)'
    <3>0. Spent(PurgedJobs) /\ \A m \in Jobs : PurgedJobs[m].res \in ResIds \cup {NoRes}
      BY <1>4, ZenonT(30) DEF JobsOK, JobRecords
    <3>1. \A m \in Jobs : j2[m].res # NoRes => res'[j2[m].res].state \in {"Consumed", "Returned"}
      BY <1>10, <1>13, <1>15, <2>2, <3>0 DEF Spent
    <3>2. ASSUME NEW m \in Jobs, NEW k \in Jobs, j2[m].res = j2[k].res, j2[m].res # NoRes
          PROVE  m = k
      <4>1. j2[j].res = i /\ \A o \in Jobs : o # j => j2[o].res = PurgedJobs[o].res /\ j2[o].res # i
        BY ZenonT(30), <1>10, <1>13, <2>2
      <4>2. m = j <=> k = j
        BY ZenonT(30), <3>2, <4>1
      <4>3. m # j => m = k
        BY ZenonT(30), <3>0, <3>2, <4>1, <4>2 DEF Spent
      <4>. QED  BY ZenonT(30), <4>2, <4>3
    <3>. QED  BY <1>3, <3>1, <3>2, ZenonT(30) DEF Spent
  <2>4. Runs(jobs)'
    <3>1. Runs(PurgedJobs)
      BY <1>4, ZenonT(30) DEF JobsOK
    <3>2. \A m \in Jobs : j2[m].state = "Running" <=> j = m
      BY <1>1, <1>10, <1>13, <3>1, ZenonT(30) DEF Runs, JobConstants
    <3>3. j2[j].lease = jobLease /\ j2[j].session = session
      BY <1>10, <1>13, ZenonT(30)
    <3>. QED  BY <1>1, <1>3, <1>14, <3>2, <3>3, ZenonT(30) DEF Runs
  <2>. QED  BY <1>3, <1>13, <1>14, <2>1, <2>3, <2>4, ZenonT(30) DEF JobsOK, Placed
<1>18. SubmitsOK(j2, s2)
  <2>1. ASSUME NEW m \in Jobs, Current(j2[m])
        PROVE  s2[<<jobLease, j2[m].req>>] = EntryOf(m, j2[m])
    <3>1. CASE m = j
      BY <1>9, <1>10, <1>12, <1>13, <3>1, ZenonT(30) DEF k1
    <3>2. CASE m # j
      <4>1. j2[m] = PurgedJobs[m] /\ Current(PurgedJobs[m])
        BY <1>13, <2>1, <3>2, ZenonT(30)
      <4>2. PurgedSubmits[<<jobLease, PurgedJobs[m].req>>] = EntryOf(m, PurgedJobs[m])
        BY <1>4, <4>1, ZenonT(30) DEF SubmitsOK
      <4>3. PurgedJobs[m].req # q
        BY <1>3, <1>4, <4>1, VacantMeansNoJob, ZenonT(30) DEF k1
      <4>4. <<jobLease, PurgedJobs[m].req>> # k1
        BY ZenonT(30), <4>3 DEF k1
      <4>5. <<jobLease, PurgedJobs[m].req>> \in Keys
        BY <1>4, <1>5, <4>1, CurrentKey, ZenonT(30)
      <4>. QED  BY <1>12, <4>1, <4>2, <4>4, <4>5, ZenonT(30)
    <3>. QED  BY ZenonT(30), <3>1, <3>2
  <2>2. ASSUME NEW k \in Keys, s2[k].job # NoJob
        PROVE  /\ s2[k] = EntryOf(s2[k].job, j2[s2[k].job])
               /\ j2[s2[k].job].lease = k[1] /\ j2[s2[k].job].req = k[2]
    <3>1. CASE k = k1
      BY <1>9, <1>10, <1>11, <1>12, <1>13, <3>1, ZenonT(30)
    <3>2. CASE k # k1
      <4>1. s2[k] = PurgedSubmits[k]
        BY <1>12, <3>2, ZenonT(30)
      <4>2. /\ s2[k] = EntryOf(s2[k].job, PurgedJobs[s2[k].job])
            /\ PurgedJobs[s2[k].job].lease = k[1] /\ PurgedJobs[s2[k].job].req = k[2]
        BY <1>4, <2>2, <4>1, ZenonT(30) DEF SubmitsOK
      <4>3. k[1] # 0
        BY DEF Keys
      <4>4. s2[k].job # j
        BY <1>7, <1>8, <4>2, <4>3, ZenonT(30)
      <4>5. s2[k].job \in Jobs
        BY <1>12, <2>2, ZenonT(30) DEF EntryRecords
      <4>. QED  BY <1>13, <4>2, <4>4, <4>5, ZenonT(30)
    <3>. QED  BY ZenonT(30), <3>1, <3>2
  <2>. QED  BY <1>12, <2>1, <2>2, ZenonT(30) DEF SubmitsOK
<1>19. OfNow(s2)
  BY <1>1, <1>4, <1>9, <1>11, <1>12, ZenonT(30) DEF OfNow
<1>20. CancelsOK(j2, PurgedCancels)
  <2>1. ASSUME NEW k \in Keys, PurgedCancels[k].job # NoJob
        PROVE  j2[PurgedCancels[k].job] = PurgedJobs[PurgedCancels[k].job]
    <3>1. /\ PurgedCancels[k].answer \in EndStates
          /\ PurgedJobs[PurgedCancels[k].job].state \in {PurgedCancels[k].answer, "Dropped"}
          /\ PurgedCancels[k].job \in Jobs
      BY <1>4, <2>1, ZenonT(30) DEF CancelsOK, EntryRecords
    <3>2. PurgedCancels[k].job # j
      BY ZenonT(30), <1>7, <1>8, <3>1 DEF EndStates
    <3>. QED  BY <1>13, <3>1, <3>2, ZenonT(30)
  <2>. QED  BY <1>4, <2>1, ZenonT(30) DEF CancelsOK
<1>21. SubmitsOK(jobs, submits)' /\ OfNow(submits)' /\ Roomy(submits)'
  BY <1>3, <1>6, <1>14, <1>18, <1>19, ZenonT(30) DEF SubmitsOK, OfNow, Roomy, Current, EntryOf
<1>22. CancelsOK(jobs, cancels)' /\ OfNow(cancels)'
  BY <1>3, <1>4, <1>14, <1>20, ZenonT(30) DEF CancelsOK, OfNow
<1>. QED  BY <1>16, <1>17, <1>21, <1>22, ZenonT(30) DEF JobsInv

\* The answer of the job that ends is kept under its request, with the time from
\* which both are kept.
LEMMA EndKeeps ==
  ASSUME JobConstants, Counts, JobsInv, NEW j \in Jobs, NEW outcome \in EndStates, SubmitEnd(j, outcome)
  PROVE  JobsInv'
<1> DEFINE n == [jobs[j] EXCEPT !.state = outcome, !.at = clock]
           k1 == <<jobs[j].lease, jobs[j].req>>
           e == [submits[k1] EXCEPT !.answer = outcome, !.at = clock]
<1>1. /\ running = j /\ running' = NoJob /\ jobs' = [jobs EXCEPT ![j] = n]
      /\ submits' = [submits EXCEPT ![k1] = e]
      /\ res' = [res EXCEPT ![jobs[j].res].state = "Returned"]
      /\ UNCHANGED <<clock, jobLease, jobLeases, session, sessions, cancels>>
  BY ZenonT(30) DEF SubmitEnd, Answered
<1>2. /\ Numbers /\ JobsOK(jobs) /\ SubmitsOK(jobs, submits) /\ OfNow(submits) /\ Roomy(submits)
      /\ CancelsOK(jobs, cancels) /\ OfNow(cancels)
      /\ jobs \in [Jobs -> JobRecords] /\ submits \in [Keys -> EntryRecords]
  BY ZenonT(30) DEF JobsInv, JobsOK, SubmitsOK
<1>3. Runs(jobs) /\ Spent(jobs) /\ Placed(jobs[j]) /\ j # NoJob
  BY <1>2, ZenonT(30) DEF JobsOK, JobConstants
<1>4. Current(jobs[j]) /\ jobs[j].state = "Running" /\ jobLease # 0 /\ session # 0
  BY <1>1, <1>3, ZenonT(30) DEF Runs, Current
<1>5. /\ k1 \in Keys /\ k1 = <<jobLease, jobs[j].req>> /\ submits[k1] = EntryOf(j, jobs[j])
      /\ jobs[j].res \in ResIds
  <2>1. jobs[j].lease = jobLease
    BY <1>4, ZenonT(30) DEF Current
  <2>2. <<jobLease, jobs[j].req>> \in Keys /\ jobs[j].res \in ResIds
    BY <1>2, <1>4, CurrentKey, ZenonT(30)
  <2>3. submits[<<jobLease, jobs[j].req>>] = EntryOf(j, jobs[j])
    BY <1>2, <1>4, ZenonT(30) DEF SubmitsOK
  <2>. QED  BY <2>1, <2>2, <2>3, ZenonT(30)
<1>6. /\ n \in JobRecords /\ n.state = outcome /\ n.lease = jobs[j].lease /\ n.session = jobs[j].session
      /\ n.req = jobs[j].req /\ n.res = jobs[j].res /\ n.at = clock
  <2>1. clock \in Int /\ jobs[j] \in JobRecords /\ outcome \in JobStates
    BY <1>2 DEF Numbers, JobStates
  <2>2. n = [state |-> outcome, lease |-> jobs[j].lease, session |-> jobs[j].session,
             req |-> jobs[j].req, res |-> jobs[j].res, at |-> clock]
    <3> DEFINE m == [jobs[j] EXCEPT !.state = outcome]
    <3>1. m = [state |-> outcome, lease |-> jobs[j].lease, session |-> jobs[j].session,
               req |-> jobs[j].req, res |-> jobs[j].res, at |-> jobs[j].at]
      BY <2>1 DEF JobRecords
    <3>2. n = [m EXCEPT !.at = clock]
      BY ZenonT(30)
    <3> HIDE DEF m, n
    <3>. QED  BY ZenonT(30), <3>1, <3>2
  <2>3. /\ jobs[j].lease \in Nat /\ jobs[j].session \in Nat /\ jobs[j].req \in ReqNos \cup {0}
        /\ jobs[j].res \in ResIds \cup {NoRes}
    BY <2>1, ZenonT(30) DEF JobRecords
  <2> HIDE DEF n
  <2>. QED  BY ZenonT(30), <2>1, <2>2, <2>3 DEF JobRecords
<1>7. e = EntryOf(j, n) /\ e \in EntryRecords /\ e.job = j /\ e.session = jobs[j].session
  <2>1. clock \in Int /\ jobs[j] \in JobRecords /\ outcome \in JobStates
    BY <1>2 DEF Numbers, JobStates
  <2>2. e = [session |-> jobs[j].session, asked |-> jobs[j].res, job |-> j, answer |-> outcome, at |-> clock]
    <3>1. submits[k1] = [session |-> jobs[j].session, asked |-> jobs[j].res, job |-> j,
                         answer |-> jobs[j].state, at |-> jobs[j].at]
      BY <1>5, ZenonT(30) DEF EntryOf
    <3> DEFINE x == submits[k1]
               m == [x EXCEPT !.answer = outcome]
    <3>2. e = [m EXCEPT !.at = clock]
      BY ZenonT(30)
    <3>3. x = [session |-> jobs[j].session, asked |-> jobs[j].res, job |-> j,
               answer |-> jobs[j].state, at |-> jobs[j].at]
      BY ZenonT(30), <3>1
    <3> HIDE DEF x
    <3>4. m = [session |-> jobs[j].session, asked |-> jobs[j].res, job |-> j,
               answer |-> outcome, at |-> jobs[j].at]
      BY <3>3
    <3> HIDE DEF m, e
    <3>. QED  BY ZenonT(30), <3>2, <3>4
  <2>3. e = EntryOf(j, n)
    BY <1>6, <2>2, ZenonT(30) DEF EntryOf
  <2>4. jobs[j].session \in Nat
    BY <2>1, ZenonT(30) DEF JobRecords
  <2> HIDE DEF e
  <2>5. e \in EntryRecords /\ e.job = j /\ e.session = jobs[j].session
    BY ZenonT(30), <1>5, <2>1, <2>2, <2>4 DEF EntryRecords
  <2>. QED  BY ZenonT(30), <2>3, <2>5
<1>8. k1[1] = jobs[j].lease /\ k1[2] = jobs[j].req
  BY ZenonT(30)
<1> HIDE DEF n, e, k1
<1>9. /\ submits' \in [Keys -> EntryRecords] /\ submits'[k1] = e
      /\ \A k \in Keys : k # k1 => submits'[k] = submits[k]
  BY <1>1, <1>2, <1>5, <1>7, ZenonT(30)
<1>10. /\ jobs' \in [Jobs -> JobRecords] /\ jobs'[j] = n
       /\ \A m \in Jobs : m # j => jobs'[m] = jobs[m]
  BY <1>1, <1>2, <1>6, ZenonT(30)
<1>11. /\ res' \in [ResIds -> [lease : Nat, state : {"Unused", "Committed", "Consumed", "Returned"}]]
       /\ res'[jobs[j].res].state = "Returned" /\ \A m \in ResIds : m # jobs[j].res => res'[m] = res[m]
  BY ZenonT(30), <1>1, <1>2, <1>5 DEF Numbers
<1>12. Numbers'
  BY <1>1, <1>2, <1>11, ZenonT(30) DEF Numbers
<1>13. \A m \in Jobs : jobs'[m].res = jobs[m].res /\ jobs[m].res \in ResIds \cup {NoRes}
  BY <1>2, <1>6, <1>10, ZenonT(30) DEF JobRecords
<1>14. JobsOK(jobs)'
  <2>1. ASSUME NEW m \in Jobs PROVE Placed(jobs'[m])
    <3>1. jobs[j].state \notin Absent /\ n.state \notin Absent
      BY ZenonT(30), <1>4, <1>6 DEF Absent, EndStates
    <3>2. Placed(n)
      BY <1>3, <1>6, <3>1, ZenonT(30) DEF Placed
    <3>3. Placed(jobs[m])
      BY <1>2, ZenonT(30) DEF JobsOK
    <3>. QED  BY <1>10, <3>2, <3>3, ZenonT(30)
  <2>2. Spent(jobs)'
    <3>1. \A m \in Jobs : jobs'[m].res # NoRes => res'[jobs'[m].res].state \in {"Consumed", "Returned"}
      BY ZenonT(30), <1>3, <1>11, <1>13 DEF Spent
    <3>2. \A m, k \in Jobs : jobs'[m].res = jobs'[k].res /\ jobs'[m].res # NoRes => m = k
      BY <1>3, <1>13, ZenonT(30) DEF Spent
    <3>. QED  BY <3>1, <3>2, ZenonT(30) DEF Spent
  <2>3. Runs(jobs)'
    <3>1. n.state # "Running"
      BY ZenonT(30), <1>6 DEF EndStates
    <3>2. \A m \in Jobs : jobs'[m].state # "Running" /\ m # NoJob
      BY <1>1, <1>3, <1>10, <3>1, ZenonT(30) DEF Runs, JobConstants
    <3>. QED  BY <1>1, <3>2, ZenonT(30) DEF Runs
  <2>. QED  BY <1>1, <1>10, <2>1, <2>2, <2>3, ZenonT(30) DEF JobsOK, Placed
<1>15. SubmitsOK(jobs', submits')
  <2>1. ASSUME NEW m \in Jobs, Current(jobs'[m])
        PROVE  submits'[<<jobLease, jobs'[m].req>>] = EntryOf(m, jobs'[m])
    <3>1. CASE m = j
      BY <1>5, <1>6, <1>7, <1>9, <1>10, <3>1, ZenonT(30)
    <3>2. CASE m # j
      <4>1. jobs'[m] = jobs[m] /\ Current(jobs[m])
        BY <1>10, <2>1, <3>2, ZenonT(30)
      <4>2. submits[<<jobLease, jobs[m].req>>] = EntryOf(m, jobs[m])
        BY <1>2, <4>1, ZenonT(30) DEF SubmitsOK
      <4>3. EntryOf(m, jobs[m]).job = m /\ EntryOf(j, jobs[j]).job = j
        BY ZenonT(30) DEF EntryOf
      <4>4. <<jobLease, jobs[m].req>> # k1
        BY <1>5, <3>2, <4>2, <4>3, ZenonT(30)
      <4>5. <<jobLease, jobs[m].req>> \in Keys
        BY <1>2, <4>1, CurrentKey, ZenonT(30)
      <4>. QED  BY <1>9, <4>1, <4>2, <4>4, <4>5, ZenonT(30)
    <3>. QED  BY ZenonT(30), <3>1, <3>2
  <2>2. ASSUME NEW k \in Keys, submits'[k].job # NoJob
        PROVE  /\ submits'[k] = EntryOf(submits'[k].job, jobs'[submits'[k].job])
               /\ jobs'[submits'[k].job].lease = k[1] /\ jobs'[submits'[k].job].req = k[2]
    <3>1. CASE k = k1
      BY <1>6, <1>7, <1>8, <1>9, <1>10, <3>1, ZenonT(30)
    <3>2. CASE k # k1
      <4>1. submits'[k] = submits[k]
        BY <1>9, <3>2, ZenonT(30)
      <4>2. /\ submits'[k] = EntryOf(submits'[k].job, jobs[submits'[k].job])
            /\ jobs[submits'[k].job].lease = k[1] /\ jobs[submits'[k].job].req = k[2]
        BY <1>2, <2>2, <4>1, ZenonT(30) DEF SubmitsOK
      <4>3. k = <<k[1], k[2]>>
        BY DEF Keys
      <4>4. submits'[k].job # j
        BY <3>2, <4>2, <4>3, ZenonT(30) DEF k1
      <4>5. submits'[k].job \in Jobs
        BY <1>9, <2>2, ZenonT(30) DEF EntryRecords
      <4>. QED  BY <1>10, <4>2, <4>4, <4>5, ZenonT(30)
    <3>. QED  BY ZenonT(30), <3>1, <3>2
  <2>. QED  BY <1>9, <2>1, <2>2, ZenonT(30) DEF SubmitsOK
<1>16. OfNow(submits') /\ Roomy(submits')
  <2>1. k1[1] = jobLease /\ e.session = session
    BY <1>4, <1>7, <1>8, ZenonT(30) DEF Current
  <2>2. submits[k1] # Vacant
    <3>1. EntryOf(j, jobs[j]).job = j
      BY ZenonT(30) DEF EntryOf
    <3>. QED  BY <1>3, <1>5, <3>1, VacantIs, ZenonT(30)
  <2>3. \A k \in Keys : submits'[k] # Vacant => submits[k] # Vacant
    BY <1>9, <2>2, ZenonT(30)
  <2>4. Roomy(submits')
    BY <1>2, <1>9, <2>3, FewerRoomy, ZenonT(30)
  <2>. QED  BY <1>2, <1>4, <1>9, <2>1, <2>4, ZenonT(30) DEF OfNow
<1>17. CancelsOK(jobs', cancels)
  <2>1. ASSUME NEW k \in Keys, cancels[k].job # NoJob
        PROVE  jobs'[cancels[k].job] = jobs[cancels[k].job]
    <3>1. /\ cancels[k].answer \in EndStates
          /\ jobs[cancels[k].job].state \in {cancels[k].answer, "Dropped"}
          /\ cancels[k].job \in Jobs
      BY <1>2, <2>1, ZenonT(30) DEF CancelsOK, EntryRecords
    <3>2. cancels[k].job # j
      BY ZenonT(30), <1>4, <3>1 DEF EndStates
    <3>. QED  BY <1>10, <3>1, <3>2, ZenonT(30)
  <2>. QED  BY <1>2, <2>1, ZenonT(30) DEF CancelsOK
<1>18. SubmitsOK(jobs, submits)' /\ OfNow(submits)' /\ Roomy(submits)'
  BY <1>1, <1>15, <1>16, ZenonT(30) DEF SubmitsOK, OfNow, Roomy, Current, EntryOf
<1>19. CancelsOK(jobs, cancels)' /\ OfNow(cancels)'
  BY <1>1, <1>2, <1>17, ZenonT(30) DEF CancelsOK, OfNow
<1>. QED  BY <1>12, <1>14, <1>18, <1>19, ZenonT(30) DEF JobsInv

\* A job that a CANCEL of its session finds has ended: the mutex is free.
LEMMA CancelKeeps ==
  ASSUME JobConstants, Counts, JobsInv, NEW q \in ReqNos, NEW j \in Jobs, Cancel(q, j)
  PROVE  JobsInv'
<1> DEFINE own == PurgedJobs[j].lease = jobLease /\ PurgedJobs[j].session = session
           job == IF own THEN j ELSE NoJob
           answer == IF own THEN PurgedJobs[j].state ELSE "Refused"
           e == [session |-> session, asked |-> j, job |-> job, answer |-> answer, at |-> clock]
           k1 == <<jobLease, q>>
           c2 == [PurgedCancels EXCEPT ![k1] = e]
<1>1. JobRequest /\ UNCHANGED <<res, running>> /\ running = NoJob /\ jobLease # 0 /\ session # 0
  BY ZenonT(30) DEF Cancel, JobRequest
<1>2. /\ jobs' = PurgedJobs /\ submits' = PurgedSubmits
      /\ cancels' = IF PurgedCancels[k1] # Vacant THEN PurgedCancels ELSE c2
  BY ZenonT(30) DEF Cancel
<1>3. /\ JobsOK(PurgedJobs)
      /\ SubmitsOK(PurgedJobs, PurgedSubmits) /\ OfNow(PurgedSubmits) /\ Roomy(PurgedSubmits)
      /\ CancelsOK(PurgedJobs, PurgedCancels) /\ OfNow(PurgedCancels)
      /\ PurgedCancels \in [Keys -> EntryRecords] /\ PurgedJobs \in [Jobs -> JobRecords]
  BY <1>1, PurgeKeeps, ZenonT(30) DEF CancelsOK, JobsOK
<1>4. k1 \in Keys /\ Numbers /\ NoJob # j
  BY <1>1, KeyOfLease, ZenonT(30) DEF JobsInv, JobConstants
<1>5. own => PurgedJobs[j].state \in EndStates
  <2>1. Placed(PurgedJobs[j]) /\ Runs(PurgedJobs) /\ PurgedJobs[j] \in JobRecords
    BY <1>3, ZenonT(30) DEF JobsOK
  <2>2. PurgedJobs[j].state \in JobStates /\ PurgedJobs[j].state # "Running"
    BY <1>1, <1>4, <2>1, ZenonT(30) DEF JobRecords, Runs
  <2>3. own => PurgedJobs[j].state \notin Absent
    BY <1>1, <2>1, ZenonT(30) DEF Placed
  <2>. QED  BY <2>2, <2>3, ZenonT(30) DEF JobStates, Absent
<1>6. /\ e \in EntryRecords /\ e.session = session
      /\ e.job # NoJob => e.job = j /\ own /\ e.answer = PurgedJobs[j].state
  <2>1. session \in Nat /\ clock \in Int
    BY <1>4 DEF Numbers
  <2>2. answer \in JobStates \cup {"None", "Refused"} /\ job \in Jobs \cup {NoJob}
    BY <1>5, ZenonT(30) DEF JobStates
  <2>3. job # NoJob => job = j /\ own /\ answer = PurgedJobs[j].state
    BY ZenonT(30)
  <2> HIDE DEF own, job, answer
  <2>4. e \in EntryRecords /\ e.session = session /\ e.job = job /\ e.answer = answer
    BY ZenonT(30), <2>1, <2>2 DEF EntryRecords
  <2>. QED  BY <2>3, <2>4, ZenonT(30)
<1>7. k1[1] = jobLease
  OBVIOUS
<1> HIDE DEF e, k1, own
<1>8. /\ c2 \in [Keys -> EntryRecords] /\ c2[k1] = e
      /\ \A k \in Keys : k # k1 => c2[k] = PurgedCancels[k]
  BY <1>3, <1>4, <1>6, ZenonT(30)
<1> HIDE DEF c2
<1>9. CancelsOK(PurgedJobs, c2) /\ OfNow(c2)
  <2>1. CancelsOK(PurgedJobs, c2)
    BY <1>3, <1>5, <1>6, <1>8, ZenonT(30) DEF CancelsOK
  <2>. QED  BY <1>1, <1>3, <1>6, <1>7, <1>8, <2>1, ZenonT(30) DEF OfNow
<1>10. CancelsOK(PurgedJobs, cancels') /\ OfNow(cancels')
  BY <1>2, <1>3, <1>9, ZenonT(30)
<1>. QED  BY <1>1, <1>2, <1>3, <1>10, AfterRequest, ZenonT(30)

-----------------------------------------------------------------------------
(* The ends of sessions and leases, and what begins. *)

\* The end of the session or of the lease clears both tables (close_session,
\* clear_lease), and a session or a lease that begins finds them clear.
LEMMA EmptiedKeeps ==
  ASSUME JobConstants, Counts, JobsInv, Numbers', UNCHANGED <<res, jobs, running>>, running = NoJob,
         jobLeases <= jobLeases', sessions <= sessions',
         submits' = [k \in Keys |-> Vacant], cancels' = [k \in Keys |-> Vacant],
         \A j \in Jobs : jobs[j].lease # 0 =>
           jobLease' # jobs[j].lease \/ session' # jobs[j].session
  PROVE  JobsInv'
<1>1. JobsOK(jobs) /\ Numbers
  BY ZenonT(30) DEF JobsInv
<1>2. JobsOK(jobs)'
  <2>1. ASSUME NEW j \in Jobs PROVE Placed(jobs[j])'
    <3>1. Placed(jobs[j])
      BY <1>1, ZenonT(30) DEF JobsOK
    <3>2. 1 .. jobLeases \subseteq 1 .. jobLeases' /\ 1 .. sessions \subseteq 1 .. sessions'
      BY <1>1 DEF Numbers
    <3>. QED  BY <3>1, <3>2, ZenonT(30) DEF Placed
  <2>. QED  BY <1>1, <2>1, ZenonT(30) DEF JobsOK, Spent, Runs
<1>3. \A j \in Jobs : ~Current(jobs[j])'
  BY ZenonT(30) DEF Current
<1>4. /\ SubmitsOK(jobs, submits)' /\ OfNow(submits)' /\ Roomy(submits)'
      /\ CancelsOK(jobs, cancels)' /\ OfNow(cancels)'
  <2>1. Vacant.job = NoJob /\ Vacant \in EntryRecords
    BY VacantIs, ZenonT(30)
  <2>2. /\ submits' \in [Keys -> EntryRecords] /\ \A k \in Keys : submits'[k] = Vacant
        /\ cancels' \in [Keys -> EntryRecords] /\ \A k \in Keys : cancels'[k] = Vacant
    BY <2>1, ZenonT(30)
  <2>3. SubmitsOK(jobs, submits)' /\ OfNow(submits)' /\ CancelsOK(jobs, cancels)' /\ OfNow(cancels)'
    BY <1>3, <2>1, <2>2, ZenonT(30) DEF SubmitsOK, OfNow, CancelsOK
  <2>4. Roomy(submits)'
    <3> SUFFICES ASSUME NEW l \in 1 .. LeaseBound
                 PROVE  Cardinality({q \in ReqNos : submits'[<<l, q>>] # Vacant}) <= SubmitCapacity
      BY ZenonT(30) DEF Roomy
    <3>1. \A q \in ReqNos : <<l, q>> \in Keys
      BY ZenonT(30) DEF Keys
    <3>2. {q \in ReqNos : submits'[<<l, q>>] # Vacant} = {}
      BY <2>2, <3>1, ZenonT(30)
    <3>3. SubmitCapacity \in Nat
      BY ZenonT(30) DEF JobConstants
    <3>4. Cardinality({q \in ReqNos : submits'[<<l, q>>] # Vacant}) = 0
      BY <3>2, ZenonT(30) DEF Counts
    <3>. QED  BY <3>3, <3>4
  <2>. QED  BY ZenonT(30), <2>3, <2>4
<1>. QED  BY <1>2, <1>4, ZenonT(30) DEF JobsInv

\* The session ends: what its requests left is forgotten.
LEMMA EndSessionKeeps ==
  ASSUME JobConstants, Counts, JobsInv, EndSession
  PROVE  JobsInv'
<1>1. /\ running = NoJob /\ session' = 0
      /\ submits' = [k \in Keys |-> IF submits[k].session = session THEN Vacant ELSE submits[k]]
      /\ cancels' = [k \in Keys |-> IF cancels[k].session = session THEN Vacant ELSE cancels[k]]
      /\ UNCHANGED <<clock, jobLease, jobLeases, sessions, res, jobs, running>>
  BY ZenonT(30) DEF EndSession, SessionLost
<1>2. Numbers /\ JobsOK(jobs) /\ OfNow(submits) /\ OfNow(cancels)
  BY ZenonT(30) DEF JobsInv
<1>3. submits' = [k \in Keys |-> Vacant] /\ cancels' = [k \in Keys |-> Vacant]
  BY <1>1, <1>2, ZenonT(30) DEF OfNow
<1>4. ASSUME NEW j \in Jobs, jobs[j].lease # 0 PROVE session' # jobs[j].session
  <2>1. Placed(jobs[j])
    BY <1>2, ZenonT(30) DEF JobsOK
  <2>2. jobs[j].session \in 1 .. sessions
    BY <1>4, <2>1, ZenonT(30) DEF Placed
  <2>. QED  BY <1>1, <1>2, <2>2 DEF Numbers
<1>5. Numbers' /\ jobLeases <= jobLeases' /\ sessions <= sessions'
  BY <1>1, <1>2 DEF Numbers
<1>. QED  BY <1>1, <1>3, <1>4, <1>5, EmptiedKeeps, ZenonT(30)

\* The lease ends: what its requests left is forgotten.
LEMMA EndLeaseKeeps ==
  ASSUME JobConstants, Counts, JobsInv, LoseLease
  PROVE  JobsInv'
<1>1. /\ running = NoJob /\ jobLease' = 0
      /\ submits' = [k \in Keys |-> IF k[1] = jobLease THEN Vacant ELSE submits[k]]
      /\ cancels' = [k \in Keys |-> IF k[1] = jobLease THEN Vacant ELSE cancels[k]]
      /\ UNCHANGED <<clock, jobLeases, session, sessions, res, jobs, running>>
  BY ZenonT(30) DEF LoseLease
<1>2. Numbers /\ OfNow(submits) /\ OfNow(cancels)
  BY ZenonT(30) DEF JobsInv
<1>3. submits' = [k \in Keys |-> Vacant] /\ cancels' = [k \in Keys |-> Vacant]
  BY <1>1, <1>2, ZenonT(30) DEF OfNow
<1>4. Numbers' /\ jobLeases <= jobLeases' /\ sessions <= sessions'
  BY <1>1, <1>2 DEF Numbers
<1>. QED  BY <1>1, <1>3, <1>4, EmptiedKeeps, ZenonT(30)

\* A session begins; what older ones left is not of it.
LEMMA NewSessionKeeps ==
  ASSUME JobConstants, Counts, JobsInv, NewSession
  PROVE  JobsInv'
<1>1. /\ session = 0 /\ session' = sessions + 1 /\ sessions' = sessions + 1
      /\ UNCHANGED <<clock, jobLease, jobLeases, res, jobs, submits, cancels, running>>
  BY ZenonT(30) DEF NewSession
<1>2. /\ Numbers /\ JobsOK(jobs) /\ OfNow(submits) /\ OfNow(cancels)
      /\ submits \in [Keys -> EntryRecords] /\ cancels \in [Keys -> EntryRecords]
  BY ZenonT(30) DEF JobsInv, SubmitsOK, CancelsOK
<1>3. running = NoJob
  BY <1>1, <1>2, ZenonT(30) DEF JobsOK, Runs
<1>4. \A k \in Keys : submits[k] = Vacant /\ cancels[k] = Vacant
  BY <1>1, <1>2, ZenonT(30) DEF OfNow
<1>5. submits' = [k \in Keys |-> Vacant] /\ cancels' = [k \in Keys |-> Vacant]
  BY <1>1, <1>2, <1>4, ZenonT(30)
<1>6. ASSUME NEW j \in Jobs, jobs[j].lease # 0 PROVE session' # jobs[j].session
  <2>1. Placed(jobs[j])
    BY <1>2, ZenonT(30) DEF JobsOK
  <2>2. jobs[j].session \in 1 .. sessions
    BY <1>6, <2>1, ZenonT(30) DEF Placed
  <2>. QED  BY <1>1, <1>2, <2>2 DEF Numbers
<1>7. Numbers' /\ jobLeases <= jobLeases' /\ sessions <= sessions'
  BY <1>1, <1>2 DEF Numbers
<1>. QED  BY <1>1, <1>3, <1>5, <1>6, <1>7, EmptiedKeeps, ZenonT(30)

\* A lease begins; what older ones left is not of it.
LEMMA NewLeaseKeeps ==
  ASSUME JobConstants, Counts, JobsInv, NewLease
  PROVE  JobsInv'
<1>1. /\ running = NoJob /\ jobLease = 0 /\ jobLease' = jobLeases + 1 /\ jobLeases' = jobLeases + 1
      /\ jobLeases < LeaseBound
      /\ UNCHANGED <<clock, session, sessions, res, jobs, submits, cancels, running>>
  BY ZenonT(30) DEF NewLease
<1>2. /\ Numbers /\ JobsOK(jobs) /\ OfNow(submits) /\ OfNow(cancels)
      /\ submits \in [Keys -> EntryRecords] /\ cancels \in [Keys -> EntryRecords]
  BY ZenonT(30) DEF JobsInv, SubmitsOK, CancelsOK
<1>3. \A k \in Keys : k[1] # 0
  BY DEF Keys
<1>4. \A k \in Keys : submits[k] = Vacant /\ cancels[k] = Vacant
  BY <1>1, <1>2, <1>3, ZenonT(30) DEF OfNow
<1>5. submits' = [k \in Keys |-> Vacant] /\ cancels' = [k \in Keys |-> Vacant]
  BY <1>1, <1>2, <1>4, ZenonT(30)
<1>6. ASSUME NEW j \in Jobs, jobs[j].lease # 0 PROVE jobLease' # jobs[j].lease
  <2>1. Placed(jobs[j])
    BY <1>2, ZenonT(30) DEF JobsOK
  <2>2. jobs[j].lease \in 1 .. jobLeases
    BY <1>6, <2>1, ZenonT(30) DEF Placed
  <2>. QED  BY <1>1, <1>2, <2>2 DEF Numbers
<1>7. Numbers' /\ jobLeases <= jobLeases' /\ sessions <= sessions'
  BY <1>1, <1>2 DEF Numbers, JobConstants
<1>. QED  BY <1>1, <1>5, <1>6, <1>7, EmptiedKeeps, ZenonT(30)

\* A reservation that is committed was no job's.
LEMMA CommitKeeps ==
  ASSUME JobConstants, Counts, JobsInv, NEW i \in ResIds, CommitScratch(i)
  PROVE  JobsInv'
<1>1. /\ res[i].state = "Unused" /\ res' = [res EXCEPT ![i] = [lease |-> jobLease, state |-> "Committed"]]
      /\ UNCHANGED <<clock, jobLease, jobLeases, session, sessions, jobs, submits, cancels, running>>
  BY ZenonT(30) DEF CommitScratch, JobRequest
<1>2. Numbers /\ JobsOK(jobs)
  BY ZenonT(30) DEF JobsInv
<1>3. /\ res' \in [ResIds -> [lease : Nat, state : {"Unused", "Committed", "Consumed", "Returned"}]]
      /\ \A m \in ResIds : m # i => res'[m] = res[m]
  BY ZenonT(30), <1>1, <1>2 DEF Numbers
<1>4. Numbers'
  BY <1>1, <1>2, <1>3, ZenonT(30) DEF Numbers
<1>5. Spent(jobs)'
  <2>1. Spent(jobs) /\ \A j \in Jobs : jobs[j].res \in ResIds \cup {NoRes}
    BY <1>2, ZenonT(30) DEF JobsOK, JobRecords
  <2>2. \A j \in Jobs : jobs[j].res # NoRes => res'[jobs[j].res].state \in {"Consumed", "Returned"}
    BY ZenonT(30), <1>1, <1>3, <2>1 DEF Spent
  <2>. QED  BY <1>1, <2>1, <2>2, ZenonT(30) DEF Spent
<1>6. JobsOK(jobs)'
  BY <1>1, <1>2, <1>5, ZenonT(30) DEF JobsOK, Placed, Runs
<1>7. SubmitsOK(jobs, submits)' /\ OfNow(submits)' /\ Roomy(submits)'
  BY <1>1, ZenonT(30) DEF JobsInv, SubmitsOK, OfNow, Roomy, Current, EntryOf
<1>8. CancelsOK(jobs, cancels)' /\ OfNow(cancels)'
  BY <1>1, ZenonT(30) DEF JobsInv, CancelsOK, OfNow
<1>. QED  BY <1>4, <1>6, <1>7, <1>8, ZenonT(30) DEF JobsInv

\* Nothing the invariant says is about the time.
LEMMA TimeKeeps ==
  ASSUME JobsInv, clock' \in Nat,
         UNCHANGED <<jobLease, jobLeases, session, sessions, res, jobs, submits, cancels, running>>
  PROVE  JobsInv'
<1>1. Numbers'
  BY ZenonT(30) DEF JobsInv, Numbers
<1>2. JobsOK(jobs)'
  BY ZenonT(30) DEF JobsInv, JobsOK, Placed, Spent, Runs
<1>3. SubmitsOK(jobs, submits)' /\ OfNow(submits)' /\ Roomy(submits)'
  BY ZenonT(30) DEF JobsInv, SubmitsOK, OfNow, Roomy, Current, EntryOf
<1>4. CancelsOK(jobs, cancels)' /\ OfNow(cancels)'
  BY ZenonT(30) DEF JobsInv, CancelsOK, OfNow
<1>. QED  BY <1>1, <1>2, <1>3, <1>4, ZenonT(30) DEF JobsInv

\* The invariant of the compute jobs.
LEMMA JobsInvariant ==
  JobConstants /\ Counts => (JobsSpec => []JobsInv)
<1> SUFFICES ASSUME JobConstants, Counts PROVE JobsSpec => []JobsInv
  BY ZenonT(30)
<1>1. JobsInit => JobsInv
  <2> SUFFICES ASSUME JobsInit PROVE JobsInv
    BY ZenonT(30)
  <2>1. /\ clock = 0 /\ jobLease = 0 /\ jobLeases = 0 /\ session = 0 /\ sessions = 0 /\ running = NoJob
        /\ res = [i \in ResIds |-> [lease |-> 0, state |-> "Unused"]]
        /\ jobs = [j \in Jobs |-> UnknownJob]
        /\ \A j \in Jobs : jobs[j] = UnknownJob
        /\ submits = [k \in Keys |-> Vacant] /\ cancels = [k \in Keys |-> Vacant]
    BY ZenonT(30) DEF JobsInit
  <2>2. Numbers
    BY <2>1 DEF Numbers, JobConstants
  <2>3. /\ UnknownJob \in JobRecords /\ UnknownJob.state = "Unknown" /\ UnknownJob.lease = 0
        /\ UnknownJob.at = NoEnd /\ UnknownJob.res = NoRes
    BY DEF UnknownJob, JobRecords, JobStates, NoEnd
  <2>4. "Unknown" \in Absent /\ "Unknown" # "Running"
    BY ZenonT(30) DEF Absent
  <2>5. JobsOK(jobs)
    <3>1. jobs \in [Jobs -> JobRecords]
      BY <2>1, <2>3, ZenonT(30)
    <3>2. \A j \in Jobs : Placed(jobs[j])
      BY <2>1, <2>3, <2>4, ZenonT(30) DEF Placed
    <3>3. Spent(jobs)
      BY <2>1, <2>3, ZenonT(30) DEF Spent
    <3>4. \A j \in Jobs : j # NoJob
      BY ZenonT(30) DEF JobConstants
    <3>5. Runs(jobs)
      BY <2>1, <2>3, <2>4, <3>4, ZenonT(30) DEF Runs
    <3>. QED  BY <3>1, <3>2, <3>3, <3>5, ZenonT(30) DEF JobsOK
  <2>6. Vacant.job = NoJob /\ Vacant \in EntryRecords
    BY VacantIs, ZenonT(30)
  <2>7. /\ submits \in [Keys -> EntryRecords] /\ \A k \in Keys : submits[k] = Vacant
        /\ cancels \in [Keys -> EntryRecords] /\ \A k \in Keys : cancels[k] = Vacant
    BY <2>1, <2>6, ZenonT(30)
  <2>8. SubmitsOK(jobs, submits) /\ OfNow(submits) /\ CancelsOK(jobs, cancels) /\ OfNow(cancels)
    BY <2>1, <2>6, <2>7, ZenonT(30) DEF SubmitsOK, OfNow, CancelsOK, Current
  <2>9. Roomy(submits)
    <3> SUFFICES ASSUME NEW l \in 1 .. LeaseBound
                 PROVE  Cardinality({q \in ReqNos : submits[<<l, q>>] # Vacant}) <= SubmitCapacity
      BY ZenonT(30) DEF Roomy
    <3>1. \A q \in ReqNos : <<l, q>> \in Keys
      BY ZenonT(30) DEF Keys
    <3>2. {q \in ReqNos : submits[<<l, q>>] # Vacant} = {}
      BY <2>7, <3>1, ZenonT(30)
    <3>3. SubmitCapacity \in Nat
      BY ZenonT(30) DEF JobConstants
    <3>4. Cardinality({q \in ReqNos : submits[<<l, q>>] # Vacant}) = 0
      BY <3>2, ZenonT(30) DEF Counts
    <3>. QED  BY <3>3, <3>4
  <2>. QED  BY <2>2, <2>5, <2>8, <2>9, ZenonT(30) DEF JobsInv
<1>2. JobsInv /\ [JobsNext]_jobVars => JobsInv'
  <2> SUFFICES ASSUME JobsInv, [JobsNext]_jobVars PROVE JobsInv'
    BY ZenonT(30)
  <2>1. clock \in Nat
    BY ZenonT(30) DEF JobsInv, Numbers
  <2>2. CASE \E q \in ReqNos : SubmitKnown(q)
    BY <2>2, LooksOnly, ZenonT(30)
  <2>3. CASE \E q \in ReqNos, i \in ResIds : SubmitRefused(q, i)
    BY <2>3, RefusedKeeps, ZenonT(30)
  <2>4. CASE \E q \in ReqNos, i \in ResIds, j \in Jobs : SubmitBegin(q, i, j)
    BY <2>4, BeginKeeps, ZenonT(30)
  <2>5. CASE \E q \in ReqNos, j \in Jobs : Cancel(q, j)
    BY <2>5, CancelKeeps, ZenonT(30)
  <2>6. CASE \E j \in Jobs, outcome \in EndStates : SubmitEnd(j, outcome)
    BY <2>6, EndKeeps, ZenonT(30)
  <2>7. CASE Status
    BY <2>7, LooksOnly, ZenonT(30)
  <2>8. CASE EndSession
    BY <2>8, EndSessionKeeps, ZenonT(30)
  <2>9. CASE LoseLease
    BY <2>9, EndLeaseKeeps, ZenonT(30)
  <2>10. CASE NewSession
    BY <2>10, NewSessionKeeps, ZenonT(30)
  <2>11. CASE NewLease
    BY <2>11, NewLeaseKeeps, ZenonT(30)
  <2>12. CASE \E i \in ResIds : CommitScratch(i)
    BY <2>12, CommitKeeps, ZenonT(30)
  <2>13. CASE ClockTick
    <3>1. clock' \in Nat
      BY <2>1, <2>13 DEF ClockTick
    <3>. QED  BY <2>13, <3>1, TimeKeeps, ZenonT(30) DEF ClockTick
  <2>14. CASE UNCHANGED jobVars
    BY <2>1, <2>14, TimeKeeps, ZenonT(30) DEF jobVars
  <2>. QED  BY <2>2, <2>3, <2>4, <2>5, <2>6, <2>7, <2>8, <2>9, <2>10, <2>11, <2>12, <2>13, <2>14,
               ZenonT(30) DEF JobsNext
<1>. QED  BY <1>1, <1>2, PTL DEF JobsSpec

-----------------------------------------------------------------------------
(* What is proved of the compute jobs. *)

LOCAL FST == INSTANCE FiniteSetTheorems

\* The requests of a lease can be counted: there are finitely many numbers.
LEMMA ReqCounts == JobConstants => Counts
<1> SUFFICES ASSUME JobConstants PROVE Counts
  BY ZenonT(30)
<1>0. ASSUME NEW S
      PROVE  IsFiniteSet(S) = FST!IsFiniteSet(S) /\ Cardinality(S) = FST!Cardinality(S)
  BY ZenonT(30) DEF IsFiniteSet, FST!IsFiniteSet, Cardinality, FST!Cardinality
<1>1. IsFiniteSet(ReqNos)
  BY ZenonT(30) DEF JobConstants
<1>2. \A S \in SUBSET ReqNos : IsFiniteSet(S)
  BY <1>0, <1>1, FST!FS_Subset, ZenonT(30)
<1>3. \A S \in SUBSET ReqNos : Cardinality(S) \in Nat
  BY <1>0, <1>2, FST!FS_CardinalityType, ZenonT(30)
<1>4. \A S \in SUBSET ReqNos : \A T \in SUBSET S : Cardinality(T) <= Cardinality(S)
  BY <1>0, <1>2, FST!FS_Subset, ZenonT(30)
<1>5. ASSUME NEW S \in SUBSET ReqNos, NEW q \in ReqNos
      PROVE  Cardinality(S \cup {q}) <= Cardinality(S) + 1
  <2>1. Cardinality(S \cup {q}) = IF q \in S THEN Cardinality(S) ELSE Cardinality(S) + 1
    <3>1. FST!IsFiniteSet(S)
      BY <1>0, <1>2, ZenonT(30)
    <3>2. FST!Cardinality(S \cup {q}) = IF q \in S THEN FST!Cardinality(S) ELSE FST!Cardinality(S) + 1
      BY <3>1, FST!FS_AddElement, ZenonT(30)
    <3>3. Cardinality(S) = FST!Cardinality(S) /\ Cardinality(S \cup {q}) = FST!Cardinality(S \cup {q})
      BY <1>0, ZenonT(30)
    <3>. QED  BY <3>2, <3>3, ZenonT(30)
  <2>2. Cardinality(S) \in Nat
    BY ZenonT(30), <1>3
  <2>. QED  BY <2>1, <2>2
<1>6. Cardinality({}) = 0
  BY <1>0, FST!FS_EmptySet, ZenonT(30)
<1>. QED  BY <1>3, <1>4, <1>5, <1>6, ZenonT(30) DEF Counts

\* No reservation is used by two jobs, and of one lease and session no two jobs
\* have one request number: a SUBMIT that is repeated, after the table was purged
\* too, computes nothing again (apply_compute_submit, consume_for_compute, check_submit).
THEOREM JobsRunOnce ==
  JobConstants => (JobsSpec => []RunsOnce)
<1> SUFFICES ASSUME JobConstants PROVE JobsSpec => []RunsOnce
  BY ZenonT(30)
<1>1. JobsInv => RunsOnce
  <2> SUFFICES ASSUME JobsInv PROVE RunsOnce
    BY ZenonT(30)
  <2>1. SpentOnce
    BY ZenonT(30) DEF JobsInv, JobsOK, Spent, SpentOnce
  <2>2. SubmitsOK(jobs, submits)
    BY ZenonT(30) DEF JobsInv
  <2>3. ASSUME NEW j \in Jobs, NEW k \in Jobs, Current(jobs[j]), Current(jobs[k]),
               jobs[j].req = jobs[k].req
        PROVE  j = k
    <3>1. EntryOf(j, jobs[j]) = EntryOf(k, jobs[k])
      BY <2>2, <2>3, ZenonT(30) DEF SubmitsOK
    <3>. QED  BY ZenonT(30), <3>1 DEF EntryOf
  <2>4. OneJobPerRequest
    BY <2>3, ZenonT(30) DEF OneJobPerRequest, Current
  <2>. QED  BY ZenonT(30), <2>1, <2>4 DEF RunsOnce
<1>. QED  BY <1>1, ReqCounts, JobsInvariant, PTL

\* What a SUBMIT or a CANCEL is answered again is what became of the job; nothing
\* kept outlives its lease or its session; and the table of a lease never holds
\* more than its capacity (terminalize, cancel, purge, session_lost, lease_ended).
THEOREM JobAnswersTrue ==
  JobConstants => (JobsSpec => []AnswersTrue)
<1> SUFFICES ASSUME JobConstants PROVE JobsSpec => []AnswersTrue
  BY ZenonT(30)
<1>1. JobsInv => AnswersTrue
  <2> SUFFICES ASSUME JobsInv PROVE AnswersTrue
    BY ZenonT(30)
  <2>1. /\ SubmitsOK(jobs, submits) /\ CancelsOK(jobs, cancels)
        /\ OfNow(submits) /\ OfNow(cancels) /\ Roomy(submits)
    BY ZenonT(30) DEF JobsInv
  <2>2. ASSUME NEW k \in Keys, submits[k].job # NoJob
        PROVE  jobs[submits[k].job].state = submits[k].answer
    <3>1. submits[k] = EntryOf(submits[k].job, jobs[submits[k].job])
      BY <2>1, <2>2, ZenonT(30) DEF SubmitsOK
    <3>2. EntryOf(submits[k].job, jobs[submits[k].job]).answer = jobs[submits[k].job].state
      BY ZenonT(30) DEF EntryOf
    <3>. QED  BY <3>1, <3>2, ZenonT(30)
  <2>3. AnswersRight
    BY <2>1, <2>2, ZenonT(30) DEF CancelsOK, AnswersRight
  <2>4. AnswersOfSession
    BY <2>1, ZenonT(30) DEF OfNow, AnswersOfSession
  <2>5. TableBounded
    BY <2>1, ZenonT(30) DEF Roomy, TableBounded
  <2>. QED  BY ZenonT(30), <2>3, <2>4, <2>5 DEF AnswersTrue
<1>. QED  BY <1>1, ReqCounts, JobsInvariant, PTL
=============================================================================
