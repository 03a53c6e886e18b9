---------------------------- MODULE PairingGuard ----------------------------
(***************************************************************************)
(* PairingGuard of pb-secure/src/pairing.rs: how often the two codes did not *)
(* match, and the cooldown that follows.  Wall-clock times are naturals; 0   *)
(* in until stands for "no cooldown".                                        *)
(***************************************************************************)
EXTENDS Integers

CONSTANTS MismatchLimit,   \* PAIRING_MISMATCH_LIMIT
          Cooldown         \* PAIRING_COOLDOWN_MS

\* the limit is a u8, as the count it is compared with
ASSUME GuardConstants == MismatchLimit \in 1..255 /\ Cooldown \in Nat \ {0}

\* PairingGuard::new
NewGuard(now) == [count |-> 0, until |-> 0, updated |-> now]

\* PairingGuard::admit: whether pairing may start, and the guard afterwards.
\* (mutant) a clock set back is not noticed
Admit_ClockTrusted(g, now) ==
  IF g.until = 0 THEN [ok |-> TRUE, guard |-> g]
  ELSE IF now < g.until /\ now >= g.updated THEN [ok |-> FALSE, guard |-> g]
  ELSE [ok |-> TRUE, guard |-> NewGuard(now)]

Admit(g, now) ==
  IF g.until = 0 THEN [ok |-> TRUE, guard |-> g]
  ELSE IF now < g.updated
    THEN [ok |-> FALSE, guard |-> [g EXCEPT !.until = now + Cooldown, !.updated = now]]
  ELSE IF now < g.until THEN [ok |-> FALSE, guard |-> g]
  ELSE [ok |-> TRUE, guard |-> NewGuard(now)]

RecordMismatch(g, now) ==
  LET n == IF g.count = 255 THEN 255 ELSE g.count + 1 IN
  [count |-> n, updated |-> now,
   until |-> IF n >= MismatchLimit THEN now + Cooldown ELSE g.until]

\* PairingGuard::paired
Paired(g, now) == NewGuard(now)
=============================================================================
