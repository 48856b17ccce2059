--------------------------- MODULE MCRequestServices ---------------------------
(***************************************************************************)
(* Small instances of the components a request waits for: the replacement  *)
(* of the worker, the routes of a reference search, its executor and its   *)
(* verification thread, and the deferred resolution of items.  A behaviour *)
(* is a behaviour of one part; the parts share the variables v1 to v24     *)
(* under the names the WITH clauses give them.                             *)
(***************************************************************************)
EXTENDS Integers, TLC

CONSTANT Parts   \* the parts a run looks at

VARIABLES part, v1, v2, v3, v4, v5, v6, v7, v8, v9, v10, v11, v12, v13, v14, v15, v16, v17, v18,
          v19, v20, v21, v22, v23, v24

from4 == <<v4, v5, v6, v7>>
from8 == <<v8, v9, v10>>
from11 == <<v11, v12, v13, v14, v15, v16, v17, v18, v19, v20, v21, v22, v23, v24>>
all == <<part, v1, v2, v3, from4, from8, from11>>
Unused == <<>>

-----------------------------------------------------------------------------

\* An explicit request, the opt-in recycle, and stops that fail; an instance of the
\* module with the theorems about it
Recovery == INSTANCE WorkerRecoveryProofs WITH
    docs <- v1, inputRevision <- v2, failure <- v3, blockedRevision <- v4, failedInputRevision <- v5,
    restarts <- v6, automaticRestarts <- v7, probing <- v8, pending <- v9, stage <- v10, flow <- v11,
    journal <- v12, changed <- v13, halted <- v14, recycles <- v15, worker <- v16, retirement <- v17,
    nextEpoch <- v18, alive <- v19, wdocs <- v20, inflight <- v21, req <- v22, automaticTotal <- v23,
    probeTotal <- v24,
    Docs <- {"d"}, Reqs <- {"r"}, Explicit <- {"r"}, MaxInputs <- 1, RateLimit <- 2,
    AutomaticLimit <- 1, MaxJournal <- 1, StopMayFail <- TRUE, RecycleEnabled <- TRUE, MaxRecycles <- 1

\* An explicit and a background request without the recycle
Callers == INSTANCE WorkerRecovery WITH
    docs <- v1, inputRevision <- v2, failure <- v3, blockedRevision <- v4, failedInputRevision <- v5,
    restarts <- v6, automaticRestarts <- v7, probing <- v8, pending <- v9, stage <- v10, flow <- v11,
    journal <- v12, changed <- v13, halted <- v14, recycles <- v15, worker <- v16, retirement <- v17,
    nextEpoch <- v18, alive <- v19, wdocs <- v20, inflight <- v21, req <- v22, automaticTotal <- v23,
    probeTotal <- v24,
    Docs <- {"d"}, Reqs <- {"b", "r"}, Explicit <- {"r"}, MaxInputs <- 1, RateLimit <- 2,
    AutomaticLimit <- 1, MaxJournal <- 1, StopMayFail <- FALSE, RecycleEnabled <- FALSE, MaxRecycles <- 0

\* A search for references in an open or in an unopened file
Routes == INSTANCE ReferenceRouting WITH
    changes <- v1, rev <- v2, index <- v3, service <- v4, fresh <- v5, cache <- v6, search <- v7,
    used <- v8,
    Searches <- {"s"}, Queries <- [disk : BOOLEAN, inc : {TRUE}], Sizes <- {1}, MaxEntries <- 1,
    MaxBytes <- 2, MaxAsks <- 1, MaxEvents <- 2

\* The same search again after a change
Repeats == INSTANCE ReferenceRouting WITH
    changes <- v1, rev <- v2, index <- v3, service <- v4, fresh <- v5, cache <- v6, search <- v7,
    used <- v8,
    Searches <- {"s"}, Queries <- [disk : BOOLEAN, inc : {TRUE}], Sizes <- {1}, MaxEntries <- 1,
    MaxBytes <- 2, MaxAsks <- 2, MaxEvents <- 1

\* Three files that import in a chain, in a cycle and in a fan, in three units
Chain == <<{2}, {3}, {}>>
Cycle == <<{2}, {3}, {1}>>
Fan == <<{}, {1}, {1, 2}>>
Executor == INSTANCE ReferenceSearch WITH
    query <- v1, disk <- v2, run <- v3,
    Files <- 1 .. 3, Overlays <- {}, Projects <- {Chain, Cycle, Fan},
    UnitOf <- <<1, 2, 3>>, Depends <- <<{}, {1}, {}>>, BatchLimit <- 1, MaxChanges <- 1

\* Two verifications on at most three threads
Verifier == INSTANCE VerifierClient WITH
    job <- v1, chain <- v2, thread <- v3, worker <- v4, stopping <- v5, retire <- v6, releases <- v7,
    Jobs <- {"i", "j"}, MaxThreads <- 3, MaxReleases <- 2

\* Two resolutions of items of one document
Items == INSTANCE ItemResolution WITH
    doc <- v1, issued <- v2, store <- v3, recordBytes <- v4, req <- v5, active <- v6, waiting <- v7,
    pending <- v8, closed <- v9, edits <- v10,
    Docs <- {"d"}, Requests <- {"q", "r"}, MaxRecords <- 1, MaxPending <- 2, MaxBytes <- 2,
    Sizes <- {1, 2}, MaxItems <- 2, MaxEdits <- 3

-----------------------------------------------------------------------------
(* A step of a part leaves the variables alone that the part does not use. *)

InRecovery(A) == part = "recovery" /\ A /\ UNCHANGED part
InCallers(A) == part = "callers" /\ A /\ UNCHANGED part
InRoutes(A) == part = "routes" /\ A /\ UNCHANGED <<part, v9, v10, from11>>
InRepeats(A) == part = "repeats" /\ A /\ UNCHANGED <<part, v9, v10, from11>>
InExecutor(A) == part = "executor" /\ A /\ UNCHANGED <<part, from4, from8, from11>>
InVerifier(A) == part = "verifier" /\ A /\ UNCHANGED <<part, from8, from11>>
InItems(A) == part = "items" /\ A /\ UNCHANGED <<part, from11>>

Unused11 ==
    /\ v11 = Unused /\ v12 = Unused /\ v13 = Unused /\ v14 = Unused /\ v15 = Unused /\ v16 = Unused
    /\ v17 = Unused /\ v18 = Unused /\ v19 = Unused /\ v20 = Unused /\ v21 = Unused /\ v22 = Unused
    /\ v23 = Unused /\ v24 = Unused

Init ==
    /\ part \in Parts
    /\ part \notin {"recovery", "callers"} => Unused11
    /\ part \in {"routes", "repeats", "executor", "verifier"} => v9 = Unused /\ v10 = Unused
    /\ part \in {"executor", "verifier"} => v8 = Unused
    /\ part = "executor" => v4 = Unused /\ v5 = Unused /\ v6 = Unused /\ v7 = Unused
    /\ \/ part = "recovery" /\ Recovery!Init
       \/ part = "callers" /\ Callers!Init
       \/ part = "routes" /\ Routes!Init
       \/ part = "repeats" /\ Repeats!Init
       \/ part = "executor" /\ Executor!Init
       \/ part = "verifier" /\ Verifier!Init
       \/ part = "items" /\ Items!Init

Next ==
    \/ InRecovery(Recovery!Next)
    \/ InCallers(Callers!Next)
    \/ InRoutes(Routes!Next)
    \/ InRepeats(Repeats!Next)
    \/ InExecutor(Executor!Next)
    \/ InVerifier(Verifier!Next)
    \/ InItems(Items!Next)

\* The fairness of the parts: as a behaviour stays in one part, it is fair to
\* a disjunction of their actions exactly if it is fair to each of them.
Fairness ==
    /\ WF_all(\/ InRecovery(Recovery!ThreadExit) \/ InCallers(Callers!ThreadExit)
              \/ InRoutes(Routes!Catalog) \/ InRepeats(Repeats!Catalog)
              \/ InExecutor(Executor!Execution) \/ InVerifier(Verifier!Client)
              \/ InItems(Items!Step("q")))
    /\ WF_all(\/ InRecovery(Recovery!StopEnds) \/ InCallers(Callers!StopEnds)
              \/ InRoutes(Routes!Freshness) \/ InRepeats(Repeats!Freshness)
              \/ InVerifier(Verifier!Thread(1)) \/ InItems(Items!Step("r")))
    /\ WF_all(\/ InRecovery(Recovery!TransactionStep) \/ InCallers(Callers!TransactionStep)
              \/ InRoutes(Routes!Step("s")) \/ InRepeats(Repeats!Step("s"))
              \/ InVerifier(Verifier!Thread(2)))
    /\ WF_all(\/ InRecovery(Recovery!WitnessArrives) \/ InCallers(Callers!RequestStep("b"))
              \/ InVerifier(Verifier!Thread(3)))
    /\ WF_all(\/ InRecovery(Recovery!DisposeStep) \/ InCallers(Callers!DisposeStep)
              \/ InVerifier(Verifier!Poll("i")))
    /\ WF_all(\/ InRecovery(Recovery!MutationEnds) \/ InCallers(Callers!MutationEnds)
              \/ InVerifier(Verifier!Poll("j")))
    /\ WF_all(InRecovery(Recovery!RequestStep("r")) \/ InCallers(Callers!RequestStep("r")))
    /\ WF_all(InRecovery(Recovery!RequestEnds("r")) \/ InCallers(Callers!RequestEnds("r")))
    /\ WF_all(InCallers(Callers!RequestEnds("b")))

Spec == Init /\ [][Next]_all /\ Fairness

-----------------------------------------------------------------------------

\* A reference answer reflects every change that was notified before it left,
\* a complete one names every reference and rests on nothing that changed, and
\* a job is answered by the only verification thread there is, for that job
\* (ReferenceRouting, ReferenceSearch, VerifierClient).
SearchAnswersAreExact ==
    /\ part = "routes" => Routes!AnswersSeeEveryChange
    /\ part = "repeats" => Repeats!AnswersSeeEveryChange
    /\ part = "executor" => Executor!CompleteAnswersAreExact
    /\ part = "verifier" => Verifier!VerifierIsExclusive

\* The counters that admit resolutions and code actions agree with what they
\* count, and details and edits are only given for the text the item was
\* listed for (ItemResolution).
ResolutionsAreExact ==
    /\ [](part = "items" => Items!CountersAreExact)
    /\ [][part = "items" => Items!DetailsFitTheirText]_all

\* Every search, every verification and every resolution ends, whatever the
\* sidecar, the threads and the worker do (ReferenceRouting, ReferenceSearch,
\* VerifierClient, ItemResolution).
RequestsEnd ==
    /\ []<>(/\ part = "routes" => Routes!RequestEnded("s")
            /\ part = "repeats" => Repeats!RequestEnded("s")
            /\ part = "executor" => Executor!SearchEnded
            /\ part = "verifier" => Verifier!JobSettled("i")
            /\ part = "items" => Items!ResolutionEnded("q"))
    /\ []<>(/\ part = "verifier" => Verifier!JobSettled("j")
            /\ part = "items" => Items!ResolutionEnded("r"))

\* Every request settles, every recovery and recycle ends, and so does every
\* disposal, also when a stop fails (WorkerRecovery).
RecoveryEnds ==
    /\ []<>(/\ part = "recovery" => Recovery!CallSettled("r")
            /\ part = "callers" => Callers!CallSettled("r"))
    /\ []<>(/\ part = "recovery" => Recovery!RecoveryEnded
            /\ part = "callers" => Callers!CallSettled("b"))
    /\ []<>(/\ part = "recovery" => Recovery!DisposeEnded
            /\ part = "callers" => Callers!DisposeEnded)
    /\ []<>(part = "callers" => Callers!RecoveryEnded)

\* A recycle that races failures, failing stops and disposal never leads to a
\* second worker, to recoveries without end, or to a worker started after the
\* disposal began (WorkerRecovery).
RecycleIsSafe ==
    /\ [](part = "recovery" => Recovery!SingleWorker /\ Recovery!RecoveriesBounded)
    /\ [][part = "recovery" => Recovery!AllocationIsTimely]_all
=============================================================================
