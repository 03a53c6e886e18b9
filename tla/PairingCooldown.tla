-------------------------- MODULE PairingCooldown ---------------------------
(***************************************************************************)
(* The pairing guard over the life of an endpoint (pb-runtime-secure,        *)
(* runtime.rs): consulted before a pairing starts, charged with every        *)
(* mismatch the user reports, cleared by every authentication, that of a     *)
(* known peer included; kept in memory and on disk.  Two streams may serve a *)
(* connection each.  The process may die and start again, a write may fail,  *)
(* and the wall clock may be set back.  The clock never jumps forward: the   *)
(* code does not claim anything for a user who sets it ahead.                *)
(*                                                                         *)
(* This is the responder, which takes a pairing and a known peer at any time. *)
(* The initiator does less: it has one stream, and pairs only while no peer  *)
(* is committed.                                                             *)
(***************************************************************************)
EXTENDS PairingGuard

CONSTANTS Streams,       \* the threads that serve a connection
          Horizon,       \* bound: the wall clock stays below it
          MaxBack,       \* bound: times the clock is set back
          MaxAttempts    \* bound: pairing attempts admitted

VARIABLES
  now,        \* wall clock
  up,         \* the process runs
  guard,      \* the guard in memory
  onDisk,     \* the guard file
  peer,       \* a peer is committed
  stream,     \* of each stream: "idle", "admitted", "xx", "committed", "ik", "authenticated"
  back,       \* times the clock was set back
  attempts,   \* pairings admitted
  debt,       \* what the user owes by what the process did: [misses, owed]
  diskDebt    \* what they owe by what was written

cooldownVars == <<now, up, guard, onDisk, peer, stream, back, attempts, debt, diskDebt>>

-----------------------------------------------------------------------------
(* What is owed, told without the guard: the mismatches since the last       *)
(* authentication or served cooldown, and how much real time is still to pass *)
(* before the next attempt.                                                  *)
NoDebt == [misses |-> 0, owed |-> 0]
Charged(d) ==
  [misses |-> d.misses + 1, owed |-> IF d.misses + 1 >= MismatchLimit THEN Cooldown ELSE d.owed]
Settled(d) == IF d.misses >= MismatchLimit /\ d.owed = 0 THEN NoDebt ELSE d
Elapsed(d) == [d EXCEPT !.owed = IF @ = 0 THEN 0 ELSE @ - 1]

CooldownInit ==
  /\ now = 1 /\ up = TRUE
  /\ guard = NewGuard(1) /\ onDisk = NewGuard(1)
  /\ peer \in BOOLEAN /\ stream = [t \in Streams |-> "idle"]
  /\ back = 0 /\ attempts = 0
  /\ debt = NoDebt /\ diskDebt = NoDebt

\* persist_guard: a write that reports an error may have replaced the file.
Unwritten == UNCHANGED <<onDisk, diskDebt>>
PersistGuard(g, d, ok) ==
  \/ onDisk' = g /\ diskDebt' = d
  \/ ~ok /\ Unwritten

GoesTo(t, place) == stream' = [stream EXCEPT ![t] = place]
InSession(t) == stream[t] \in {"xx", "committed", "ik", "authenticated"}
SessionActive == \E t \in Streams : InSession(t)

\* ensure_guard_admits, from begin_pairing, run_initiator_session and the
\* responder.  A failed write is an error: no pairing, but memory has changed.
EnsureGuardAdmits(t) ==
  /\ up /\ stream[t] = "idle" /\ attempts < MaxAttempts
  /\ LET a == Admit(guard, now)
         d == IF a.ok THEN Settled(debt) ELSE debt
     IN  \E ok \in BOOLEAN :
           /\ guard' = a.guard /\ debt' = d
           /\ IF a.guard = guard THEN ok /\ Unwritten ELSE PersistGuard(a.guard, d, ok)
           /\ GoesTo(t, IF ok /\ a.ok THEN "admitted" ELSE "idle")
           /\ attempts' = attempts + (IF ok /\ a.ok THEN 1 ELSE 0)
  /\ UNCHANGED <<now, up, peer, back>>

\* begin_session, for a pairing that was admitted and for a known peer; a
\* second session is refused.
BeginsSession(t) ==
  /\ up
  /\ \/ stream[t] = "admitted" /\ GoesTo(t, IF SessionActive THEN "idle" ELSE "xx")
     \/ stream[t] = "idle" /\ peer /\ ~SessionActive /\ GoesTo(t, "ik")
  /\ UNCHANGED <<now, up, guard, onDisk, peer, back, attempts, debt, diskDebt>>

\* record_mismatch: the user says that the codes differ, also after the commit.
RecordsMismatch(t) ==
  /\ up /\ stream[t] \in {"xx", "committed"} /\ GoesTo(t, "idle")
  /\ guard' = RecordMismatch(guard, now) /\ debt' = Charged(debt)
  /\ \E ok \in BOOLEAN : PersistGuard(guard', debt', ok)
  /\ UNCHANGED <<now, up, peer, back, attempts>>

\* both users confirmed: commit_peer
Commits(t) ==
  /\ up /\ stream[t] = "xx" /\ GoesTo(t, "committed") /\ peer' = TRUE
  /\ UNCHANGED <<now, up, guard, onDisk, back, attempts, debt, diskDebt>>

\* mark_authenticated, after a pairing and for a known peer alike.  A failed
\* write ends the session, but memory has changed.
MarkAuthenticated(t) ==
  /\ up /\ stream[t] \in {"committed", "ik"}
  /\ guard' = Paired(guard, now) /\ debt' = NoDebt
  /\ \E ok \in BOOLEAN :
       PersistGuard(guard', debt', ok) /\ GoesTo(t, IF ok THEN "authenticated" ELSE "idle")
  /\ UNCHANGED <<now, up, peer, back, attempts>>

\* An admission not used, a cancelled or lost pairing, a session that ends:
\* none of them touches the guard.
StreamCloses(t) ==
  /\ up /\ stream[t] # "idle" /\ GoesTo(t, "idle")
  /\ UNCHANGED <<now, up, guard, onDisk, peer, back, attempts, debt, diskDebt>>

\* What the process had in memory is gone with it.
Dies ==
  /\ up /\ up' = FALSE /\ stream' = [t \in Streams |-> "idle"]
  /\ guard' = onDisk /\ debt' = diskDebt
  /\ UNCHANGED <<now, onDisk, peer, back, attempts, diskDebt>>

\* initialize: the guard is read, consulted, and written when that changed it;
\* a failed write fails the start.
Initialize ==
  /\ ~up
  /\ LET a == Admit(onDisk, now)
         d == IF a.ok THEN Settled(diskDebt) ELSE diskDebt
     IN  \E ok \in BOOLEAN :
           /\ IF a.guard = onDisk THEN ok /\ Unwritten ELSE PersistGuard(a.guard, d, ok)
           /\ up' = ok /\ guard' = onDisk' /\ debt' = diskDebt'
  /\ UNCHANGED <<now, peer, stream, back, attempts>>

Tick ==
  /\ now < Horizon /\ now' = now + 1
  /\ debt' = Elapsed(debt) /\ diskDebt' = Elapsed(diskDebt)
  /\ UNCHANGED <<up, guard, onDisk, peer, stream, back, attempts>>

SetBack ==
  /\ back < MaxBack /\ back' = back + 1
  /\ now' \in 1..(now - 1)
  /\ UNCHANGED <<up, guard, onDisk, peer, stream, attempts, debt, diskDebt>>

CooldownNext ==
  \/ \E t \in Streams :
       \/ EnsureGuardAdmits(t) \/ BeginsSession(t) \/ RecordsMismatch(t) \/ Commits(t)
       \/ MarkAuthenticated(t) \/ StreamCloses(t)
  \/ Dies \/ Initialize \/ Tick \/ SetBack

CooldownSpec == CooldownInit /\ [][CooldownNext]_cooldownVars

-----------------------------------------------------------------------------
(* MismatchLimit mismatches without an authentication in between are a        *)
(* cooldown, in memory at once and after a restart as far as the file was     *)
(* written, whatever restarts lie between them.                              *)
MismatchesAddUp ==
  /\ debt.misses >= MismatchLimit => guard.until # 0
  /\ diskDebt.misses >= MismatchLimit => onDisk.until # 0

(* ensure_guard_admits lets a pairing in only when nothing is owed: the whole *)
(* cooldown since the mismatch that began it has really gone by, or a session *)
(* was authenticated since.  Neither a clock set back nor a start of the      *)
(* process nor a failed write nor another stream gives an earlier attempt;    *)
(* after a crash what counts is what was written.                            *)
CooldownServed ==
  [][\A t \in Streams :
       stream[t] = "idle" /\ stream'[t] = "admitted" => debt.owed = 0]_cooldownVars

(* A cooldown is not for ever: no endpoint that keeps trying is refused once  *)
(* the clock has passed the longest cooldown counted from its last update.    *)
CooldownEnds ==
  up /\ guard.until # 0 /\ now >= guard.updated + Cooldown => Admit(guard, now).ok
=============================================================================
