----------------------------- MODULE MCWorkerCore -----------------------------
(***************************************************************************)
(* Constants for model checking the worker.                                *)
(***************************************************************************)
EXTENDS WorkerCore, TLC

MCSymmetry == Permutations(Ids) \cup Permutations(Buffers) \cup Permutations(Peers)

\* all but `reply', which no step and no property of these runs reads
MCView == <<now, active, released, granted, storeVars, running, session, sessions>>
=============================================================================
