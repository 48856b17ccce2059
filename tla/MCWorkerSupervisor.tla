------------------------- MODULE MCWorkerSupervisor -------------------------
(* Small instances of WorkerSupervisor for TLC.                            *)
EXTENDS WorkerSupervisor, TLC

CONSTANTS d1, d2, f1, f2, r1, r2, r3, r4, r5

\* Consistency: a detached reference and a serial read race edits and faults.
ConsistencyMethod == r1 :> "references" @@ r2 :> "hover"
ConsistencyTarget == r1 :> d1 @@ r2 :> d1
ConsistencyWeight == r1 :> 1 @@ r2 :> 1

\* Scheduling: every class that can pass another one, and a source limit.
SchedulingMethod == r1 :> "diagnose" @@ r2 :> "complete" @@ r3 :> "references"
                    @@ r4 :> "hover" @@ r5 :> "rename"
SchedulingTarget == r1 :> d1 @@ r2 :> d1 @@ r3 :> d2 @@ r4 :> d1 @@ r5 :> d2
SchedulingWeight == r1 :> 1 @@ r2 :> 1 @@ r3 :> 2 @@ r4 :> 1 @@ r5 :> 1

\* No readers.
EmptyMethod == <<>>
EmptyTarget == <<>>
EmptyWeight == <<>>
=============================================================================
