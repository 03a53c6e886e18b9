--------------------------- MODULE MCWorkerRequests ---------------------------
(***************************************************************************)
(* The two request tables of the worker, side by side: in a behaviour      *)
(* either the ResourceGuard moves or the compute jobs do, and the other    *)
(* stays as it started.                                                    *)
(***************************************************************************)
EXTENDS ResourceGuard, ComputeJobs, TLC

VARIABLE part   \* the part that moves

\* room for two reservations or for one; a worker without a fresh sample refuses
MCSamples == {[refused |-> FALSE, budget |-> 2], [refused |-> FALSE, budget |-> 1]}

ASSUME JobConstants

MCSymmetry ==
  Permutations(Ids) \cup Permutations(Reqs)
    \cup Permutations(ResIds) \cup Permutations(ReqNos) \cup Permutations(Jobs)

-----------------------------------------------------------------------------
mcVars == <<part, guardVars, jobVars>>

MCInit == part \in {"guard", "compute"} /\ GuardInit /\ JobsInit

MCNext ==
  /\ UNCHANGED part
  /\ \/ part = "guard" /\ GuardNext /\ UNCHANGED jobVars
     \/ part = "compute" /\ JobsNext /\ UNCHANGED guardVars

MCSpec == MCInit /\ [][MCNext]_mcVars
=============================================================================
