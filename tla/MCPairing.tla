------------------------------ MODULE MCPairing ------------------------------
(***************************************************************************)
(* Pairing, side by side: the cooldown after mismatches, the pairing of the *)
(* two endpoints, and the files that hold what came of it.  In a behaviour  *)
(* one of them moves and the others stay as they started.                   *)
(***************************************************************************)
EXTENDS PairingCooldown, Pairing, StateStore

VARIABLE part   \* the part that moves

ASSUME StoreConstants

-----------------------------------------------------------------------------
mcVars == <<part, cooldownVars, pairVars, vars>>

MCInit ==
  /\ part \in {"cooldown", "pairing", "store"}
  /\ CooldownInit /\ PairInit /\ Init

MCNext ==
  /\ UNCHANGED part
  /\ \/ part = "cooldown" /\ CooldownNext /\ UNCHANGED <<pairVars, vars>>
     \/ part = "pairing" /\ PairNext /\ UNCHANGED <<cooldownVars, vars>>
     \/ part = "store" /\ Next /\ UNCHANGED <<cooldownVars, pairVars>>

MCSpec == MCInit /\ [][MCNext]_mcVars
=============================================================================
