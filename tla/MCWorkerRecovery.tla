-------------------------- MODULE MCWorkerRecovery --------------------------
(* Small instances of WorkerRecovery for TLC.                              *)
EXTENDS WorkerRecovery, TLC

CONSTANTS d1, d2, r1, r2

AnyDocument == Permutations(Docs)

\* Bound: a behaviour has recycles or probes, not both.
ProbesOrRecycles == recycles = 0 \/ probeTotal = 0
=============================================================================
