------------------------------ MODULE CacheGC ------------------------------
(***************************************************************************)
(* The garbage collection of workspace index caches (cache_gc/*.rs) and    *)
(* the child process of each language server that runs it                  *)
(* (cache-maintenance.ts).  Sidecars open a cache under a shared lease,    *)
(* programs of an older release open it without one, and collectors look   *)
(* for caches whose workspace is gone or idle.                             *)
(*                                                                         *)
(* Instants are kept as ages that stop growing where no comparison of the  *)
(* code can tell them apart, so that time itself has no bound.  The group  *)
(* of files of a cache is its version: every write gives it a fresh one,   *)
(* which is what a snapshot (name, size, time and object of each file)     *)
(* tells apart.  Every cache counts for one unit of size.  A preview (no   *)
(* --apply) changes nothing and is left out.                               *)
(***************************************************************************)
EXTENDS Naturals, FiniteSets, FiniteSetsExt

CONSTANTS
    Keys,        \* cache keys, numbered in the order of their names
    Servers,     \* language servers with automatic maintenance
    Admin,       \* whoever runs a collection from the command line,
    OptIns,      \* with --include-legacy or without: a subset of BOOLEAN
    Anchors,     \* identities the temporary root may have
    Unproved,    \* what else a missing workspace may be: "unavailable", "inaccessible"
    Idle,        \* --idle-ms
    Grace,       \* --orphan-grace-ms
    Interval,    \* --interval-ms
    Limit,       \* --limit
    Budgeted,    \* whether --max-bytes is given
    MaxBytes,    \* --max-bytes
    MaxWrites,   \* bound: versions written
    MaxCrashes,  \* bound: sidecars and collectors killed, other than by a disposal
    MaxMoves,    \* bound: changes to the workspaces' directories
    MaxEvents,   \* bound: writes, crashes and changes together
    Settled      \* bound: keys whose cache is closed from the start and not opened again;
                 \* their workspaces go and come back like the others


Versions == 0 .. MaxWrites
Sources == {"present"} \cup Unproved \cup Anchors
Unknown == Idle + 1
Ages == 0 .. Unknown
Older(age, cap) == IF age < cap THEN age + 1 ELSE age

VARIABLES
    source,      \* [Keys -> Sources]: what source::prove finds of the workspace
    cache,       \* [Keys -> version of the files, 0 for no directory]
    litter,      \* keys whose directory holds a temporary file of a use record
    used,        \* [Keys -> age of cache-use.json, Unknown without one]
    seen,        \* [Keys -> age of <key>.active.json, Unknown without one]
    missing,     \* [Keys -> <key>.json, the observation of a missing workspace]
    user,        \* [Keys -> "none", "access" or "open": the sidecar of the workspace]
    old,         \* keys whose database a program without leases has open
    trash,       \* the entries of .gc-trash
    auto,        \* .gc-auto.json
    gc,          \* the collector that holds .gc-run.lock
    maint,       \* [Servers -> IndexCacheMaintenance]
    writes, crashes, moves,
    judged,      \* history: versions found eligible under the collector's locks, not deleted yet
    quiet        \* history: [Keys -> age of the last write to the cache]

files == <<cache, litter, used>>
state == <<seen, missing, auto>>
others == <<user, old, maint>>
history == <<writes, crashes, moves, judged, quiet>>
vars == <<source, files, state, trash, gc, others, history>>

NoObservation == [on |-> FALSE, anchor |-> "none", version |-> 0, age |-> 0, current |-> TRUE,
                  legacy |-> FALSE]
NoCandidate == [key |-> 0, version |-> 0, source |-> "present"]
NoRun == [pc |-> "none", owner |-> Admin, legacy |-> FALSE, proofs |-> {}, after |-> 0,
          cursor |-> 0, names |-> {}, found |-> {}, whole |-> TRUE, bytes |-> 0,
          at |-> NoCandidate, entry |-> 0]

Init ==
    /\ source = [k \in Keys |-> "present"]
    /\ cache = [k \in Keys |-> IF k \in Settled THEN Cardinality({j \in Settled : j <= k}) ELSE 0]
    /\ used = [k \in Keys |-> IF k \in Settled THEN 0 ELSE Unknown] /\ litter = {}
    /\ seen = [k \in Keys |-> Unknown] /\ missing = [k \in Keys |-> NoObservation]
    /\ auto = [on |-> FALSE, cursor |-> 0, age |-> 0]
    /\ user = [k \in Keys |-> "none"] /\ old = {}
    /\ maint = [s \in Servers |-> [timer |-> TRUE, child |-> FALSE, disposed |-> FALSE]]
    /\ trash = {} /\ gc = NoRun
    /\ writes = Cardinality(Settled) /\ crashes = 0 /\ moves = 0 /\ judged = {} /\ quiet = [k \in Keys |-> 0]

----------------------------------------------------------------------------
(* Locks.  A collector holds .cache-access.lock and the lease of one key   *)
(* exclusively while it retires a cache or sweeps an entry of the trash;   *)
(* the range lock of SQLite is held with them up to the rename.  Unix      *)
(* keeps it over the rename, Windows cannot, because an open handle would  *)
(* refuse it: the model follows Windows, whose programs can do more.       *)

Opening == Cardinality({k \in Keys : user[k] = "access"})
Another == writes + Opening + crashes + moves < MaxEvents
Writable == writes + Opening < MaxWrites /\ Another
Holding == gc.pc \in {"proof", "rename", "delete", "unproof", "cleanup"}
Exclusive(k) == user[k] = "none" /\ \A j \in Keys : user[j] # "access"
Pinned(k) == gc.at.key = k /\ gc.pc = "proof"

Written(k) ==
    /\ writes' = writes + 1
    /\ cache' = [cache EXCEPT ![k] = writes + 1]
    /\ quiet' = [quiet EXCEPT ![k] = 0]

(***************************************************************************)
(* CacheLease::record_use replaces cache-use.json: its age is zero, and an *)
(* observation made at an earlier instant no longer postdates the use.     *)
(***************************************************************************)
Outdated(obs) == [obs EXCEPT !.current = @ /\ obs.age = 0]
Recorded(k) ==
    /\ used' = [used EXCEPT ![k] = 0]
    /\ missing' = [missing EXCEPT ![k] = Outdated(@)]

----------------------------------------------------------------------------
(* The users of a cache.                                                   *)

\* Mutant: the access lock is not taken.
BeginOpenUnlocked(k) ==
    /\ user[k] = "none" /\ source[k] = "present" /\ Writable
    /\ user' = [user EXCEPT ![k] = "access"]
    /\ UNCHANGED <<source, files, state, trash, gc, old, maint, history>>

\* CacheLease::acquire takes the shared access lock, the path having been canonicalized
\* from a workspace that is there.
BeginOpen(k) ==
    /\ user[k] = "none" /\ source[k] = "present" /\ ~Holding /\ Writable
    /\ user' = [user EXCEPT ![k] = "access"]
    /\ UNCHANGED <<source, files, state, trash, gc, old, maint, history>>

\* ... and the shared lease of the key, creates the directory, releases the access lock;
\* the store is opened and the use recorded.
Open(k) ==
    /\ user[k] = "access"
    /\ user' = [user EXCEPT ![k] = "open"]
    /\ Written(k) /\ Recorded(k)
    /\ UNCHANGED <<source, litter, seen, auto, trash, gc, old, maint, crashes, moves, judged>>

\* The sidecar writes its index: the files change, the use record does not.
Use(k) ==
    /\ user[k] = "open" /\ Writable /\ Written(k)
    /\ UNCHANGED <<source, litter, used, state, trash, gc, others, crashes, moves, judged>>

\* SQLite is closed first, then the lease is dropped: the use is recorded before the lock goes.
Close(k) ==
    /\ user[k] = "open" /\ Writable
    /\ user' = [user EXCEPT ![k] = "none"]
    /\ Written(k) /\ Recorded(k)
    /\ UNCHANGED <<source, litter, seen, auto, trash, gc, old, maint, crashes, moves, judged>>

\* A killed sidecar records nothing; one killed while it writes the record leaves the
\* temporary file of write_json behind.
Killed(k) ==
    /\ user[k] # "none" /\ crashes < MaxCrashes /\ Another
    /\ crashes' = crashes + 1
    /\ user' = [user EXCEPT ![k] = "none"]
    /\ \/ UNCHANGED litter
       \/ user[k] = "open" /\ litter' = litter \cup {k}
    /\ UNCHANGED <<source, cache, used, state, trash, gc, old, maint, writes, moves, judged, quiet>>

\* A program of a release without leases creates or opens the cache and writes to it.
OldOpen(k) ==
    /\ k \notin old /\ ~Pinned(k) /\ source[k] = "present" /\ Writable
    /\ old' = old \cup {k}
    /\ Written(k)
    /\ UNCHANGED <<source, litter, used, state, trash, gc, user, maint, crashes, moves, judged>>

OldClose(k) ==
    /\ k \in old
    /\ old' = old \ {k}
    /\ UNCHANGED <<source, files, state, trash, gc, user, maint, history>>

\* Workspaces are deleted, come back, become unreadable; the temporary root is replaced.
Move(k) ==
    /\ moves < MaxMoves /\ Another
    /\ moves' = moves + 1
    /\ \E s \in Sources \ {source[k]} : source' = [source EXCEPT ![k] = s]
    /\ UNCHANGED <<files, state, trash, gc, others, writes, crashes, judged, quiet>>

Tick ==
    /\ used' = [k \in Keys |-> Older(used[k], Idle)]
    /\ seen' = [k \in Keys |-> Older(seen[k], Idle)]
    /\ missing' = [k \in Keys |-> [missing[k] EXCEPT !.age = Older(@, IF missing[k].on THEN Grace ELSE 0)]]
    /\ auto' = [auto EXCEPT !.age = Older(@, IF auto.on THEN Interval ELSE 0)]
    /\ quiet' = [k \in Keys |-> Older(quiet[k], Grace)]
    /\ <<used', seen', missing', auto', quiet'>> # <<used, seen, missing, auto, quiet>>
    /\ UNCHANGED <<source, cache, litter, trash, gc, others, writes, crashes, moves, judged>>
----------------------------------------------------------------------------
(* One collection: collect in mod.rs.                                      *)

Stays == gc' = [gc EXCEPT !.at = NoCandidate, !.pc = "scan", !.found = @ \ {gc.at}]
Skipped(x) == gc' = [gc EXCEPT !.found = @ \ {x}]

\* automatic::run refuses to start again before the interval is over.
CoolingDown == auto.on /\ auto.cursor = 0 /\ auto.age < Interval

\* Mutant: what earlier runs left in the trash is forgotten.
CollectWithoutRetry(c, after, legacy) ==
    /\ gc.pc = "none" /\ writes > 0
    /\ gc' = [NoRun EXCEPT !.pc = "retry", !.owner = c, !.after = after, !.legacy = legacy]

\* collect takes .gc-run.lock and retries what earlier runs left in the trash.  There is no
\* cache directory before the first open.
Collect(c, after, legacy) ==
    /\ gc.pc = "none" /\ writes > 0
    /\ gc' = [NoRun EXCEPT !.pc = "retry", !.owner = c, !.after = after, !.legacy = legacy,
                           !.proofs = {e.id : e \in trash}]

\* retire::retry_one: the entry is left alone when the key is in use or the group changed;
\* otherwise what remains of the group goes first, its proof last.
RetryOne ==
    /\ gc.pc = "retry"
    /\ \E e \in trash :
         /\ e.id \in gc.proofs
         /\ \/ /\ ~(Exclusive(e.key) /\ e.version \in {0, e.proof})
               /\ gc' = [gc EXCEPT !.proofs = @ \ {e.id}]
               /\ UNCHANGED <<trash, judged>>
            \/ /\ Exclusive(e.key) /\ e.version \in {0, e.proof}
               /\ gc' = [gc EXCEPT !.proofs = @ \ {e.id}, !.pc = "unproof", !.entry = e.id]
               /\ trash' = (trash \ {e}) \cup {[e EXCEPT !.version = 0]}
               /\ judged' = judged \ {e.version}
    /\ UNCHANGED <<source, files, state, others, writes, crashes, moves, quiet>>

\* The names after the cursor, in order, up to the limit.
List ==
    /\ gc.pc = "retry" /\ gc.proofs = {}
    /\ LET pending == {k \in Keys : cache[k] # 0 /\ k > gc.after}
           taken == {k \in pending : Cardinality({j \in pending : j < k}) < Limit}
       IN gc' = [gc EXCEPT !.pc = "scan", !.names = taken,
                           !.cursor = IF taken = pending THEN 0 ELSE Max(taken),
                           !.whole = taken = pending /\ gc.after = 0]
    /\ UNCHANGED <<source, files, state, trash, others, history>>

\* decision::approved_legacy_grace: an earlier run with the opt-in observed this cache.
LegacyAllowed(k) == gc.legacy \/ (missing[k].on /\ missing[k].legacy)

\* inspect::candidate, of a group that can be listed
Inspectable(k) ==
    /\ k \notin litter
    /\ used[k] # Unknown \/ LegacyAllowed(k)
    /\ source[k] # "inaccessible"

\* The bytes of the group, unless it cannot be listed.
Bytes(k) == IF k \in litter THEN 0 ELSE 1

\* A name is probed for users and inspected; one in use is recorded as seen.
Inspect ==
    /\ gc.pc = "scan" /\ gc.names # {}
    /\ \E k \in {Min(gc.names)} :
         /\ gc' = [gc EXCEPT !.names = @ \ {k}, !.bytes = @ + Bytes(k),
                  !.whole = @ /\ k \notin litter,
                  !.found = IF Exclusive(k) /\ Inspectable(k)
                            THEN @ \cup {[key |-> k, version |-> cache[k], source |-> source[k]]}
                            ELSE @]
         /\ IF user[k] = "open" /\ (\A j \in Keys : user[j] # "access") /\ used[k] # Unknown
            THEN /\ seen' = [seen EXCEPT ![k] = 0]
                 /\ missing' = [missing EXCEPT ![k] = Outdated(@)]
            ELSE UNCHANGED <<seen, missing>>
    /\ UNCHANGED <<source, files, auto, trash, others, history>>

\* How long ago the cache was used, the longest first; one never recorded counts as oldest.
LastUsed(k) == IF used[k] = Unknown THEN Unknown ELSE Min({used[k], seen[k]})
Before(x, y) ==
    \/ x.source \in Anchors /\ y.source \notin Anchors
    \/ (x.source \in Anchors) = (y.source \in Anchors) /\ LastUsed(x.key) > LastUsed(y.key)

\* decision::evaluate on a workspace that is there
IdleAndOverBudget(x) ==
    /\ used[x.key] # Unknown
    /\ LastUsed(x.key) >= Idle
    /\ Budgeted => gc.whole /\ gc.bytes > MaxBytes

\* decision::evaluate on one that is missing: the observation that still stands
ObservedAnyVersion(x) ==
    /\ missing[x.key].on
    /\ missing[x.key].anchor = x.source
    /\ missing[x.key].current
Observed(x) ==
    /\ missing[x.key].on
    /\ missing[x.key].anchor = x.source
    /\ missing[x.key].version = x.version
    /\ missing[x.key].current
Observation(x) ==
    [on |-> TRUE, anchor |-> x.source, version |-> x.version, age |-> 0, current |-> TRUE,
     legacy |-> used[x.key] = Unknown /\ LegacyAllowed(x.key)]

Eligible(x) ==
    \/ x.source = "present" /\ IdleAndOverBudget(x)
    \/ x.source \in Anchors /\ Observed(x) /\ missing[x.key].age >= Grace

\* The locks of the candidate are free and its files are those the inspection saw.
Unchanged(x) ==
    Exclusive(x.key) /\ x.key \notin old /\ x.key \notin litter /\ cache[x.key] = x.version

\* Under its locks a candidate is evaluated; what is eligible and still as it was inspected
\* is retired with the locks held, everything else is kept for this run.
Judge ==
    /\ gc.pc = "scan" /\ gc.names = {}
    /\ \E x \in gc.found :
         /\ \A y \in gc.found : ~Before(y, x)
         /\ \/ /\ ~Unchanged(x)
               /\ Skipped(x) /\ UNCHANGED <<missing, judged>>
            \/ /\ Unchanged(x) /\ Eligible(x) /\ source[x.key] = x.source
               /\ gc' = [gc EXCEPT !.pc = "proof", !.at = x]
               /\ judged' = judged \cup {x.version}
               /\ missing' = IF x.source = "present"
                             THEN [missing EXCEPT ![x.key] = NoObservation] ELSE missing
            \/ /\ Unchanged(x) /\ ~(Eligible(x) /\ source[x.key] = x.source)
               /\ Skipped(x) /\ UNCHANGED judged
               /\ missing' = CASE x.source = "present" -> [missing EXCEPT ![x.key] = NoObservation]
                               [] x.source \in Anchors /\ ~Observed(x) ->
                                    [missing EXCEPT ![x.key] = Observation(x)]
                               [] OTHER -> missing
    /\ UNCHANGED <<source, files, seen, auto, trash, others, writes, crashes, moves, quiet>>

\* retire::retire: the proof is written before anything moves ...
WriteProof ==
    /\ gc.pc = "proof"
    /\ \E id \in {1 + Max({0} \cup {e.id : e \in trash})} :
         /\ trash' = trash \cup {[id |-> id, key |-> gc.at.key, proof |-> gc.at.version, version |-> 0]}
         /\ gc' = [gc EXCEPT !.pc = "rename", !.entry = id]
    /\ UNCHANGED <<source, files, state, others, history>>

\* ... then the directory moves into the trash; an open database refuses the move ...
Rename ==
    /\ gc.pc = "rename"
    /\ IF gc.at.key \in old
       THEN Stays /\ UNCHANGED <<trash, cache, used>>
       ELSE /\ gc' = [gc EXCEPT !.pc = "delete"]
            /\ trash' = {IF e.id = gc.entry THEN [e EXCEPT !.version = cache[gc.at.key]] ELSE e : e \in trash}
            /\ cache' = [cache EXCEPT ![gc.at.key] = 0]
            /\ used' = [used EXCEPT ![gc.at.key] = Unknown]
    /\ UNCHANGED <<source, litter, state, others, history>>

\* Mutant: what was moved is deleted whatever it became.
DeleteUnchecked ==
    /\ gc.pc = "delete"
    /\ trash' = {IF e.id = gc.entry THEN [e EXCEPT !.version = 0] ELSE e : e \in trash}
    /\ gc' = [gc EXCEPT !.pc = "unproof"]
    /\ UNCHANGED <<source, files, state, others, history>>

\* ... and is deleted if it is still the group the proof names; a changed one stays.
Delete ==
    /\ gc.pc = "delete"
    /\ IF \E e \in trash : e.id = gc.entry /\ e.version = e.proof
       THEN /\ trash' = {IF e.id = gc.entry THEN [e EXCEPT !.version = 0] ELSE e : e \in trash}
            /\ gc' = [gc EXCEPT !.pc = "unproof"]
            /\ judged' = judged \ {gc.at.version}
       ELSE Stays /\ UNCHANGED <<trash, judged>>
    /\ UNCHANGED <<source, files, state, others, writes, crashes, moves, quiet>>

RemoveProof ==
    /\ gc.pc = "unproof"
    /\ trash' = {e \in trash : e.id # gc.entry}
    /\ gc' = [gc EXCEPT !.pc = IF gc.at = NoCandidate THEN "retry" ELSE "cleanup", !.entry = 0]
    /\ UNCHANGED <<source, files, state, others, history>>

\* evaluate removes the observations of a cache that is gone.
Cleanup ==
    /\ gc.pc = "cleanup"
    /\ missing' = [missing EXCEPT ![gc.at.key] = NoObservation]
    /\ seen' = [seen EXCEPT ![gc.at.key] = Unknown]
    /\ gc' = [gc EXCEPT !.at = NoCandidate, !.pc = "scan", !.found = @ \ {gc.at}, !.bytes = @ - 1]
    /\ UNCHANGED <<source, files, auto, trash, others, history>>

Ended == gc.pc = "scan" /\ gc.names = {} /\ gc.found = {}
----------------------------------------------------------------------------
(* Who collects.                                                           *)

AdminCollects(legacy) ==
    /\ Collect(Admin, 0, legacy)
    /\ UNCHANGED <<source, files, state, trash, others, history>>

AdminEnds ==
    /\ gc.owner = Admin /\ Ended
    /\ gc' = NoRun
    /\ UNCHANGED <<source, files, state, trash, others, history>>

(***************************************************************************)
(* The timer of IndexCacheMaintenance fires and run() spawns the child,    *)
(* which collects.  When another collector runs or the interval is not     *)
(* over, automatic::run reports so and the child exits: the timer is armed *)
(* again and nothing has changed.  The sidecar is installed and the limits *)
(* in the environment are numbers: otherwise run() throws before it spawns *)
(* anything, and there is no maintenance until the server is restarted.    *)
(***************************************************************************)
Spawn(s) ==
    /\ maint[s].timer /\ ~CoolingDown
    /\ maint' = [maint EXCEPT ![s].timer = FALSE, ![s].child = TRUE]
    /\ Collect(s, IF auto.on THEN auto.cursor ELSE 0, FALSE)
    /\ UNCHANGED <<source, files, state, trash, user, old, history>>

\* Mutant: the timer is armed again without a look at the disposal.
ClosedRescheduling(m) == [m EXCEPT !.child = FALSE, !.timer = TRUE]
\* The close event of the child: schedule() arms the timer again unless disposed.
Closed(m) == [m EXCEPT !.child = FALSE, !.timer = ~m.disposed]

\* Mutant: a complete run leaves the cursor of the partial run before it.
ChildEndsKeepingCursor(s) ==
    /\ maint[s].child /\ Ended
    /\ auto' = [on |-> TRUE, cursor |-> IF gc.cursor = 0 THEN auto.cursor ELSE gc.cursor, age |-> 0]
    /\ gc' = NoRun
    /\ maint' = [maint EXCEPT ![s] = Closed(@)]
    /\ UNCHANGED <<source, files, seen, missing, trash, user, old, history>>

\* Mutant: a partial run does not say where it stopped.
ChildEndsWithoutCursor(s) ==
    /\ maint[s].child /\ Ended
    /\ auto' = [on |-> TRUE, cursor |-> 0, age |-> 0]
    /\ gc' = NoRun
    /\ maint' = [maint EXCEPT ![s] = Closed(@)]
    /\ UNCHANGED <<source, files, seen, missing, trash, user, old, history>>

\* The run is complete or partial: its state is written and the child exits.
ChildEnds(s) ==
    /\ maint[s].child /\ Ended
    /\ auto' = [on |-> TRUE, cursor |-> gc.cursor, age |-> 0]
    /\ gc' = NoRun
    /\ maint' = [maint EXCEPT ![s] = Closed(@)]
    /\ UNCHANGED <<source, files, seen, missing, trash, user, old, history>>

\* A collector is killed: its locks are released wherever it was.
CollectorDies ==
    /\ gc.pc # "none" /\ crashes < MaxCrashes /\ Another
    /\ crashes' = crashes + 1
    /\ gc' = NoRun
    /\ maint' = IF gc.owner = Admin THEN maint ELSE [maint EXCEPT ![gc.owner] = Closed(@)]
    /\ UNCHANGED <<source, files, state, trash, user, old, writes, moves, judged, quiet>>

\* dispose() clears the timer and signals a child that is still running ...
Dispose(s) ==
    /\ ~maint[s].disposed
    /\ maint' = [maint EXCEPT ![s].disposed = TRUE, ![s].timer = FALSE]
    /\ UNCHANGED <<source, files, state, trash, gc, user, old, history>>

\* ... which dies of it, or of the escalation, before or after what it does next.
ChildDies(s) ==
    /\ maint[s].disposed /\ maint[s].child
    /\ maint' = [maint EXCEPT ![s] = Closed(@)]
    /\ gc' = NoRun
    /\ UNCHANGED <<source, files, state, trash, user, old, history>>

Collector ==
    \/ RetryOne \/ List \/ Inspect \/ Judge \/ WriteProof \/ Rename \/ Delete
    \/ RemoveProof \/ Cleanup
Maintenance(s) == Spawn(s) \/ ChildEnds(s) \/ ChildDies(s)

Next ==
    \/ \E k \in Keys \ Settled :
        \/ BeginOpen(k) \/ Open(k) \/ Use(k) \/ Close(k) \/ Killed(k)
        \/ OldOpen(k) \/ OldClose(k)
    \/ \E k \in Keys : Move(k)
    \/ Tick \/ Collector \/ CollectorDies \/ AdminEnds
    \/ \E legacy \in OptIns : AdminCollects(legacy)
    \/ \E s \in Servers : Maintenance(s) \/ Dispose(s)

(***************************************************************************)
(* Processes run on: a collector that is not killed takes its steps, time  *)
(* passes, and a sidecar that is acquiring its lease gets it.  The timer   *)
(* of a server fires again and again, and not always while a collection of *)
(* the command line holds .gc-run.lock.  Nobody needs to close a cache or  *)
(* to run the command.                                                     *)
(***************************************************************************)
Fairness ==
    /\ WF_vars(Tick) /\ WF_vars(Collector) /\ WF_vars(AdminEnds)
    /\ \A s \in Servers : SF_vars(Maintenance(s))
    /\ \A k \in Keys : WF_vars(Open(k))

Spec == Init /\ [][Next]_vars /\ Fairness

----------------------------------------------------------------------------
TypeOK ==
    /\ source \in [Keys -> Sources]
    /\ cache \in [Keys -> Versions] /\ litter \subseteq Keys
    /\ used \in [Keys -> Ages] /\ seen \in [Keys -> Ages] /\ quiet \in [Keys -> 0 .. Grace]
    /\ user \in [Keys -> {"none", "access", "open"}] /\ old \subseteq Keys
    /\ gc.found \subseteq [key : Keys, version : Versions, source : Sources]
    /\ gc.names \subseteq Keys /\ gc.bytes \in 0 .. Limit
    /\ \A e \in trash : e.key \in Keys /\ e.proof \in Versions \ {0} /\ e.version \in Versions
    /\ judged \subseteq Versions

\* The directory a sidecar has open under its lease is never moved or deleted, whatever
\* collectors, their crashes and their retries do (lease.rs, retire.rs).
LeasedCachesStay == \A k \in Keys : user[k] = "open" => cache[k] # 0

\* A step deletes nothing but a group of files some collector found eligible under its locks:
\* neither a group changed since nor the cache created afresh under the same key.
OnlyJudgedContentIsDeleted ==
    \A e \in trash : (e.version # 0 /\ ~\E f \in trash' : f.id = e.id /\ f.version = e.version)
                        => e.version \in judged

\* A step retires the cache of a missing workspace only if nobody wrote to it for the whole grace
\* period, recorded use or not.
AbandonedCachesWereQuiet ==
    \A k \in Keys : (gc.pc # "proof" /\ gc'.pc = "proof" /\ gc'.at.key = k /\ gc'.at.source \in Anchors)
                        => quiet[k] >= Grace

\* Again and again: no server runs its maintenance any more, or the trash is free of entries
\* that could be finished, of unchanged groups whose key nobody has opened again.
TrashIsEmpty ==
    \/ \A s \in Servers : maint[s].disposed
    \/ \A e \in trash : e.version \notin {0, e.proof} \/ user[e.key] # "none"

\* Never for ever: a workspace is missing and its recorded cache stays, although some server
\* runs its maintenance.
Lingers(k, a) ==
    /\ cache[k] # 0 /\ used[k] # Unknown /\ k \notin litter
    /\ source[k] = a /\ user[k] = "none" /\ k \notin old
    /\ \E s \in Servers : ~maint[s].disposed

\* From some time on: a disposed server has no collector, its child was killed or has ended,
\* and none is started again.
MaintenanceStopped == \A s \in Servers : maint[s].disposed => ~maint[s].child
=============================================================================
