---------------------------- MODULE MCIndexServices ----------------------------
(***************************************************************************)
(* Small instances of what keeps the workspace index: a sidecar's catalog  *)
(* builds, the server's side of the sidecar, and the collection of caches. *)
(* A behaviour is a behaviour of one part; the parts share the variables   *)
(* v1 to v17 under the names the WITH clauses give them.                   *)
(***************************************************************************)
EXTENDS Integers, TLC

CONSTANTS
    Parts,     \* the parts a run looks at
    proc, w, s,   \* a sidecar process, a workspace, a language server
    Admin

VARIABLES part, v1, v2, v3, v4, v5, v6, v7, v8, v9, v10, v11, v12, v13, v14, v15, v16, v17

all == <<part, v1, v2, v3, v4, v5, v6, v7, v8, v9, v10, v11, v12, v13, v14, v15, v16, v17>>
Unused == <<>>

-----------------------------------------------------------------------------

\* One sidecar with a failing disk: catalogs, cancellations and refreshes
Builds == INSTANCE IndexCatalog WITH
    source <- v1, written <- v2, control <- v3, log <- v4, rt <- v5, build <- v6, updates <- v7,
    retiring <- v8, window <- v9, base <- v10, fence <- v11, faults <- v12, crashes <- v13,
    Procs <- {proc}, Docs <- 1 .. 2, Oversized <- {2}, MaxVersion <- 2, MaxGen <- 2, MaxDb <- 3,
    MaxFaults <- 1, MaxCrashes <- 0, Asked <- proc :> {"catalog", "cancel", "refresh"}

\* The server's side: a search or a fault
Searching == INSTANCE IndexClient WITH
    svc <- v1, session <- v2, run <- v3, side <- v4, inbox <- v5, outbox <- v6, settled <- v7,
    finished <- v8, aborted <- v9, disposed <- v10, search <- v11, changes <- v12, searches <- v13,
    faults <- v14,
    Workspaces <- {w}, MaxChanges <- 1, MaxSearches <- 1, MaxFaults <- 1, MaxEvents <- 1

\* The server's side: a change and a fault
Changing == INSTANCE IndexClient WITH
    svc <- v1, session <- v2, run <- v3, side <- v4, inbox <- v5, outbox <- v6, settled <- v7,
    finished <- v8, aborted <- v9, disposed <- v10, search <- v11, changes <- v12, searches <- v13,
    faults <- v14,
    Workspaces <- {w}, MaxChanges <- 1, MaxSearches <- 0, MaxFaults <- 1, MaxEvents <- 2

\* Two caches named in order, the second one not opened again, and one server with
\* automatic maintenance
Caches == INSTANCE CacheGC WITH
    source <- v1, cache <- v2, litter <- v3, used <- v4, seen <- v5, missing <- v6, user <- v7,
    old <- v8, trash <- v9, auto <- v10, gc <- v11, maint <- v12, writes <- v13, crashes <- v14,
    moves <- v15, judged <- v16, quiet <- v17,
    Keys <- {1, 2}, Servers <- {s}, OptIns <- {TRUE}, Anchors <- {"anchor"}, Unproved <- {},
    Idle <- 1, Grace <- 1, Interval <- 1, Limit <- 1, Budgeted <- TRUE, MaxBytes <- 0, MaxWrites <- 3, MaxCrashes <- 1,
    MaxMoves <- 2, MaxEvents <- 4, Settled <- {2}

\* One cache, whose workspace goes, comes back and goes again
Missing == INSTANCE CacheGC WITH
    source <- v1, cache <- v2, litter <- v3, used <- v4, seen <- v5, missing <- v6, user <- v7,
    old <- v8, trash <- v9, auto <- v10, gc <- v11, maint <- v12, writes <- v13, crashes <- v14,
    moves <- v15, judged <- v16, quiet <- v17,
    Keys <- {1}, Servers <- {s}, OptIns <- {TRUE}, Anchors <- {"anchor"},
    Unproved <- {"unavailable", "inaccessible"}, Idle <- 1, Grace <- 1, Interval <- 1, Limit <- 1, Budgeted <- TRUE, MaxBytes <- 0, MaxWrites <- 2, MaxCrashes <- 0,
    MaxMoves <- 3, MaxEvents <- 5, Settled <- {}

-----------------------------------------------------------------------------
(* A step of a part leaves the variables alone that the part does not use. *)

InBuilds(A) == part = "builds" /\ A /\ UNCHANGED <<part, v14, v15, v16, v17>>
InSearching(A) == part = "searching" /\ A /\ UNCHANGED <<part, v15, v16, v17>>
InChanging(A) == part = "changing" /\ A /\ UNCHANGED <<part, v15, v16, v17>>
InCaches(A) == part = "caches" /\ A /\ UNCHANGED part
InMissing(A) == part = "missing" /\ A /\ UNCHANGED part

Init ==
    /\ part \in Parts
    /\ part \notin {"caches", "missing"} => v15 = Unused /\ v16 = Unused /\ v17 = Unused
    /\ \/ part = "builds" /\ Builds!Init /\ v14 = Unused
       \/ part = "searching" /\ Searching!Init
       \/ part = "changing" /\ Changing!Init
       \/ part = "caches" /\ Caches!Init
       \/ part = "missing" /\ Missing!Init

Next ==
    \/ InBuilds(Builds!Next)
    \/ InSearching(Searching!Next)
    \/ InChanging(Changing!Next)
    \/ InCaches(Caches!Next)
    \/ InMissing(Missing!Next)

\* The fairness of the parts: as a behaviour stays in one part, it is fair to
\* a disjunction of their actions exactly if it is fair to each of them.
Fairness ==
    /\ WF_all(\/ InBuilds(Builds!CatalogThread(proc))
              \/ InSearching(Searching!Client(w)) \/ InChanging(Changing!Client(w))
              \/ InCaches(Caches!Tick) \/ InMissing(Missing!Tick))
    /\ WF_all(\/ InBuilds(Builds!ProtocolContinues(proc))
              \/ InSearching(Searching!ReadLine(w)) \/ InChanging(Changing!ReadLine(w))
              \/ InCaches(Caches!Collector) \/ InMissing(Missing!Collector))
    /\ SF_all(\/ InBuilds(Builds!HandleUpdate(proc))
              \/ InCaches(Caches!Maintenance(s)) \/ InMissing(Missing!Maintenance(s)))
    /\ WF_all(\/ InSearching(Searching!Timers(w)) \/ InChanging(Changing!Timers(w))
              \/ InCaches(Caches!AdminEnds) \/ InMissing(Missing!AdminEnds))
    /\ WF_all(InSearching(Searching!SidecarWorks(w)) \/ InChanging(Changing!SidecarWorks(w)))
    /\ WF_all(\/ InSearching(Searching!SidecarObeys(w)) \/ InChanging(Changing!SidecarObeys(w))
              \/ InCaches(Caches!Open(1)) \/ InMissing(Missing!Open(1)))

Spec == Init /\ [][Next]_all /\ Fairness

-----------------------------------------------------------------------------

\* A sidecar that keeps the protocol never has its session failed, "ready" is
\* not the last word before every reported change is covered, and a disposed
\* service leaves no process (IndexClient).
ClientSessionsAreSound ==
    /\ part = "searching" => /\ Searching!TypeOK /\ Searching!HealthySessionsSurvive
                             /\ Searching!ReadyCoversChanges /\ Searching!NothingLeftRunning
    /\ part = "changing" => /\ Changing!TypeOK /\ Changing!HealthySessionsSurvive
                            /\ Changing!ReadyCoversChanges /\ Changing!NothingLeftRunning

\* A cache in use stays, nothing is deleted but what a collector judged under
\* its locks, and the cache of a missing workspace is retired only after it
\* was quiet for the whole grace period (CacheGC).
CachesAreSafe ==
    /\ [](part = "caches" => Caches!TypeOK /\ Caches!LeasedCachesStay)
    /\ [](part = "missing" => Missing!TypeOK /\ Missing!LeasedCachesStay)
    /\ [][part = "caches" => Caches!OnlyJudgedContentIsDeleted /\ Caches!AbandonedCachesWereQuiet]_all
    /\ [][part = "missing" => Missing!OnlyJudgedContentIsDeleted /\ Missing!AbandonedCachesWereQuiet]_all

\* Every catalog ends in the sidecar and in the server, and so does dispose,
\* whatever the sidecar does (IndexCatalog, IndexClient).
IndexWorkEnds ==
    /\ []<>(/\ part = "builds" => Builds!CatalogEnded
            /\ part = "searching" => Searching!RunSettled(w)
            /\ part = "changing" => Changing!RunSettled(w))
    /\ []<>(/\ part = "searching" => Searching!DisposeEnded
            /\ part = "changing" => Changing!DisposeEnded)

\* Neither crashes nor limited scans, cooldowns and other collectors keep the
\* trash or the cache of a workspace that stays missing for ever, and a
\* disposed server ends up without a collector (CacheGC).
CachesAreCollected ==
    /\ []<>(part = "caches" => Caches!TrashIsEmpty)
    /\ []<>(part = "caches" => ~Caches!Lingers(2, "anchor"))
    /\ []<>(/\ part = "caches" => ~Caches!Lingers(1, "anchor")
            /\ part = "missing" => ~Missing!Lingers(1, "anchor"))
    /\ <>[](part = "caches" => Caches!MaintenanceStopped)
=============================================================================
