---------------------------- MODULE IndexCatalog ----------------------------
(* The native symbol index: sidecar processes that share one cache         *)
(* directory, the catalog builds they run in a background thread and the   *)
(* SQLite files they build, publish, read and delete.                      *)
(*                                                                         *)
(* A file is the sequence of states its connections committed since the    *)
(* last one known to be on disk; <<>> is a file that does not exist.  A    *)
(* process that dies leaves the files as they are, a power failure keeps a *)
(* prefix of each.  File 0 is symbols-v2.sqlite3, the others are the       *)
(* private catalog-*.sqlite3 files.  Rows are abstracted to the version of *)
(* the document they were parsed from, a digest to that version.           *)
EXTENDS Integers, Sequences, FiniteSets

CONSTANTS
    Procs,        \* the sidecar processes that use the cache directory
    Docs,         \* the documents of the workspace, a range of integers in URI order
    Oversized,    \* the versions above MAX_SOURCE_BYTES
    MaxVersion,   \* bound: versions written to documents
    MaxGen,       \* bound: generations
    MaxDb,        \* bound: private databases ever allocated
    MaxFaults,    \* bound: failed reads, parses and storage operations
    MaxCrashes,   \* bound: process ends and power failures
    Asked         \* Asked[p]: what the client of process p asks for, of Requests

Requests == {"read", "refresh", "catalog", "force", "cancel"}

ASSUME CatalogAssumption ==
    /\ Asked \in [Procs -> SUBSET Requests]
    /\ Docs \subseteq Nat /\ Oversized \subseteq Nat \ {0}
    /\ MaxVersion \in Nat \ {0} /\ MaxGen \in Nat \ {0} /\ MaxDb \in Nat \ {0}
    /\ MaxFaults \in Nat /\ MaxCrashes \in Nat

Dbs == 0..MaxDb
NoDb == -1
Versions == 0..MaxVersion       \* 0: no such file, no row
Rows == [Docs -> Versions]
NoRows == [d \in Docs |-> 0]
Content == [gen : 0..MaxGen, rows : Rows, rejected : SUBSET Docs]
Empty == [gen |-> 0, rows |-> NoRows, rejected |-> {}]

(* A database file that carries no index schema (yet). *)
NoSchema == [gen |-> -1, rows |-> NoRows, rejected |-> {}]
NoBase == NoSchema
NoFingerprint == [d \in Docs |-> -1]

VARIABLES
    source,     \* source[d]: the version on disk
    written,    \* the last version number used
    control,    \* catalog-state.sqlite3
    log,        \* log[db]: the unsynced and current states of a database file
    rt,         \* rt[p]: the Runtime of a sidecar's protocol thread
    build,      \* build[p]: its catalog thread
    updates,    \* updates[p]: the channel from the catalog thread to the protocol thread
    retiring,   \* retiring[p]: the databases whose old connections a thread is closing
    window,     \* history: the states the index has had since p's read began
    base,       \* history: the state of the index p's build session began from
    fence,      \* history: the documents on disk when p's build checked its sources
    faults, crashes

vars == <<source, written, control, log, rt, build, updates, retiring,
          window, base, fence, faults, crashes>>

-----------------------------------------------------------------------------
(* Runtime: what the protocol thread remembers. *)
Down == [pc |-> "down", db |-> NoDb, next |-> 1, catalog |-> 0, phase |-> "idle",
         doc |-> 0, gen |-> 0]

(* The catalog thread, CatalogBuildSession, Planner and Producer. *)
NoBuild == [pc |-> "none", force |-> FALSE, gen |-> 0, flag |-> "running",
            parent |-> [db |-> NoDb, gen |-> 0], expected |-> 0, fp |-> NoFingerprint,
            old |-> NoDb, db |-> NoDb, hashFirst |-> FALSE, todo |-> {}, jobs |-> {},
            stamps |-> NoRows, rows |-> NoRows, rejected |-> {}, complete |-> TRUE,
            errors |-> FALSE, skipped |-> FALSE, changed |-> FALSE, reuse |-> FALSE,
            outcome |-> "none"]

Current(db) == log[db][Len(log[db])]

(* The publication control database names the active file, once it has its row. *)
Publication == [db |-> control.db, gen |-> control.gen]

(* open_published: the file exists, carries the schema and is not older than published. *)
Openable == /\ control.state = "row"
            /\ log[control.db] # <<>>
            /\ Current(control.db).gen >= control.gen
            /\ Current(control.db).gen >= 0

(* catalog-publication.lock.  A shared holder whose section is one step here is not listed. *)
ExclusiveHeld == \E p \in Procs : rt[p].pc \in {"table", "row"} \/ build[p].pc = "publish"
SharedHeld == \E p \in Procs : rt[p].pc = "refresh"
SharedFree == ~ExclusiveHeld
ExclusiveFree == ~ExclusiveHeld /\ ~SharedHeld

(* The reader leases: connections, sessions, closing connections and reservations. *)
PinnedBy(p) == {rt[p].db, build[p].old, build[p].db} \cup retiring[p]
Pinned == UNION {PinnedBy(p) : p \in Procs}

(* The index as its users see it: the committed states of the active file. *)
Published ==
    IF control.state # "row" \/ log[control.db] = <<>> THEN <<Empty>>
    ELSE IF log[control.db] = <<NoSchema>> THEN <<Empty>>
    ELSE IF log[control.db][1] = NoSchema THEN Tail(log[control.db])
    ELSE log[control.db]

(* Every state the index reaches is added to the windows of the reads in flight. *)
Witness(logs, ctl) ==
    window' = [p \in Procs |-> IF window[p] = {} THEN {}
                               ELSE window[p] \cup {logs[ctl.db][Len(logs[ctl.db])]}]

-----------------------------------------------------------------------------
TypeOK ==
    /\ source \in Rows /\ written \in Versions
    /\ control \in [state : {"absent", "table", "row"}, db : Dbs, gen : 0..MaxGen,
                    fp : Rows \cup {NoFingerprint}]
    /\ \A db \in Dbs : \A i \in 1..Len(log[db]) : log[db][i] \in Content \cup {NoSchema}
    /\ \A p \in Procs :
         /\ rt[p].pc \in {"down", "new", "table", "row", "open", "failed", "idle", "read", "refresh"}
         /\ rt[p].db \in Dbs \cup {NoDb} /\ rt[p].catalog \in 0..MaxGen
         /\ rt[p].phase \in {"idle", "discovering", "activating", "cancelling", "cancelled",
                             "ready", "partial", "degraded"}
         /\ build[p].pc \in {"none", "begin", "scan", "route", "reuse", "write", "seal",
                             "check", "lock", "publish", "drop"}
         /\ build[p].flag \in {"running", "cancelled", "activating", "publishing"}
         /\ build[p].rows \in Rows /\ build[p].stamps \in Rows
         /\ retiring[p] \subseteq Dbs
         /\ \A i \in 1..Len(updates[p]) :
              updates[p][i].kind \in {"Activating", "Complete", "Cancelled", "Failed"}
    /\ faults \in 0..MaxFaults /\ crashes \in 0..MaxCrashes

Init ==
    /\ source = [d \in Docs |-> 1] /\ written = 1
    /\ control = [state |-> "absent", db |-> 0, gen |-> 0, fp |-> NoFingerprint]
    /\ log = [db \in Dbs |-> <<>>]
    /\ rt = [p \in Procs |-> Down]
    /\ build = [p \in Procs |-> NoBuild]
    /\ updates = [p \in Procs |-> <<>>]
    /\ retiring = [p \in Procs |-> {}]
    /\ window = [p \in Procs |-> {}]
    /\ base = [p \in Procs |-> NoBase]
    /\ fence = [p \in Procs |-> NoRows]
    /\ faults = 0 /\ crashes = 0

history == <<window, base, fence>>
budget == <<faults, crashes>>
disk == <<source, written>>
-----------------------------------------------------------------------------
(* The workspace, edited by others at any time: a new version, or deletion. *)
EditSource(d) ==
    /\ written < MaxVersion /\ written' = written + 1
    /\ \/ source' = [source EXCEPT ![d] = written']
       \/ source[d] # 0 /\ source' = [source EXCEPT ![d] = 0]
    /\ UNCHANGED <<control, log, rt, build, updates, retiring, history, budget>>

-----------------------------------------------------------------------------
(* The protocol thread. *)

Start(p) ==
    /\ rt[p].pc = "down"
    /\ rt' = [rt EXCEPT ![p].pc = "new"]
    /\ UNCHANGED <<disk, control, log, build, updates, retiring, history, budget>>

(* initialize, Control::open: the first process creates the control table, ... *)
CreateControl(p) ==
    /\ rt[p].pc = "new" /\ ExclusiveFree /\ control.state = "absent"
    /\ rt' = [rt EXCEPT ![p].pc = "table"] /\ control' = [control EXCEPT !.state = "table"]
    /\ UNCHANGED <<disk, log, build, updates, retiring, history, budget>>

(* ... then its row in a second transaction, ... *)
InsertControl(p) ==
    /\ rt[p].pc = "table"
    /\ rt' = [rt EXCEPT ![p].pc = "row"]
    /\ control' = [control EXCEPT !.state = "row"]
    /\ UNCHANGED <<disk, log, build, updates, retiring, history, budget>>

(* ... then the first database, whose schema is not synced, and unlocks. *)
CreateBase(p) ==
    /\ rt[p].pc = "row"
    /\ log' = [log EXCEPT ![0] = IF @ = <<>> THEN <<NoSchema, Empty>> ELSE @]
    /\ rt' = [rt EXCEPT ![p].pc = "open", ![p].db = 0]
    /\ UNCHANGED <<disk, control, build, updates, retiring, history, budget>>

(* initialize with an existing control database; CatalogStore::open pins the active file. *)
OpenStore(p) ==
    /\ rt[p].pc \in {"new", "open"} /\ control.state # "absent"
    /\ IF rt[p].pc = "new" THEN ExclusiveFree ELSE SharedFree
    /\ rt' = [rt EXCEPT ![p] =
           IF Openable
           THEN [Down EXCEPT !.pc = "idle", !.db = control.db, !.next = Current(control.db).gen + 1]
           ELSE [Down EXCEPT !.pc = "failed"]]
    /\ UNCHANGED <<disk, control, log, build, updates, retiring, history, budget>>

\* Mutant of Resolved: the connection stays on the file it was opened for.
ResolvedOnce(p) == rt[p].db

(* CatalogStore::access resolves the active file under the shared lock and, when another *)
(* process published, moves the connection there; a thread closes the old one.           *)
Resolved(p) == IF Openable THEN control.db ELSE rt[p].db
Retired(p) == IF Resolved(p) = rt[p].db THEN retiring[p] ELSE retiring[p] \cup {rt[p].db}

(* search, exports/search, references/candidates, class-bindings/resolve and metadata: *)
(* the lock is released before the query runs, in one deferred transaction.            *)
BeginRead(p) ==
    /\ rt[p].pc = "idle" /\ SharedFree
    /\ "read" \in Asked[p] /\ Openable
    /\ rt' = [rt EXCEPT ![p].pc = "read", ![p].db = Resolved(p)]
    /\ window' = [window EXCEPT ![p] = {Current(control.db)}]
    /\ retiring' = [retiring EXCEPT ![p] = Retired(p)]
    /\ UNCHANGED <<disk, control, log, build, updates, base, fence, budget>>

Answer(p) == Current(rt[p].db)

EndRead(p) ==
    /\ rt[p].pc = "read"
    /\ rt' = [rt EXCEPT ![p].pc = "idle"]
    /\ window' = [window EXCEPT ![p] = {}]
    /\ UNCHANGED <<disk, control, log, build, updates, retiring, base, fence, budget>>

\* Mutant of BeginRefresh: the fingerprint survives an incremental write.
BeginRefreshKeepingFingerprint(p, d, g) ==
    /\ rt[p].pc = "idle" /\ rt[p].catalog = 0 /\ SharedFree /\ Openable
    /\ "refresh" \in Asked[p] /\ g > Current(control.db).gen
    /\ rt' = [rt EXCEPT ![p].pc = "refresh", ![p].db = Resolved(p), ![p].doc = d, ![p].gen = g]
    /\ retiring' = [retiring EXCEPT ![p] = Retired(p)]
    /\ UNCHANGED <<disk, control, log, build, updates, history, budget>>

(* refresh: refused while the own catalog is active; drops the fingerprint, then writes, *)
(* all under the shared lock.  The caller chooses a generation newer than it knows of.   *)
BeginRefresh(p, d, g) ==
    /\ rt[p].pc = "idle" /\ rt[p].catalog = 0 /\ SharedFree /\ Openable
    /\ "refresh" \in Asked[p] /\ g > Current(control.db).gen
    /\ rt' = [rt EXCEPT ![p].pc = "refresh", ![p].db = Resolved(p), ![p].doc = d, ![p].gen = g]
    /\ retiring' = [retiring EXCEPT ![p] = Retired(p)]
    /\ control' = [control EXCEPT !.fp = NoFingerprint]
    /\ UNCHANGED <<disk, log, build, updates, history, budget>>

(* apply_batch: one immediate transaction, checked against the generation inside it.  The *)
(* text is the document's, which is removed when it is gone; a parse may fail.            *)
ApplyRefresh(p) ==
    LET d == rt[p].doc
        old == Current(rt[p].db)
        idle == [rt[p] EXCEPT !.pc = "idle", !.doc = 0, !.gen = 0]
    IN
    /\ rt[p].pc = "refresh"
    /\ IF rt[p].gen <= old.gen
       THEN /\ rt' = [rt EXCEPT ![p] = idle]
            /\ UNCHANGED <<log, window, faults>>
       ELSE \E failed \in BOOLEAN :
            /\ failed => faults < MaxFaults /\ source[d] # 0
            /\ faults' = faults + (IF failed THEN 1 ELSE 0)
            /\ LET new == [gen |-> rt[p].gen,
                          rows |-> [old.rows EXCEPT ![d] = IF failed THEN 0 ELSE source[d]],
                          rejected |-> IF failed THEN old.rejected \cup {d} ELSE old.rejected \ {d}]
               IN /\ log' = [log EXCEPT ![rt[p].db] = Append(@, new)]
                  /\ rt' = [rt EXCEPT ![p] =
                        [idle EXCEPT !.next = IF @ > rt[p].gen THEN @ ELSE rt[p].gen + 1]]
            /\ Witness(log', control)
    /\ UNCHANGED <<disk, control, build, updates, retiring, base, fence, crashes>>

(* catalog/start: an active catalog is reported instead; otherwise a new generation. *)
StartCatalog(p, force) ==
    LET gen == IF rt[p].next > Current(control.db).gen THEN rt[p].next
               ELSE Current(control.db).gen + 1
    IN
    /\ rt[p].pc = "idle" /\ rt[p].catalog = 0 /\ build[p].pc = "none"
    /\ SharedFree /\ Openable /\ gen <= MaxGen
    /\ (IF force THEN "force" ELSE "catalog") \in Asked[p]
    /\ rt' = [rt EXCEPT ![p].db = Resolved(p), ![p].next = gen + 1, ![p].catalog = gen,
                        ![p].phase = "discovering"]
    /\ retiring' = [retiring EXCEPT ![p] = Retired(p)]
    /\ build' = [build EXCEPT ![p] = [NoBuild EXCEPT !.pc = IF force THEN "scan" ELSE "begin",
                                       !.force = force, !.gen = gen, !.todo = Docs]]
    /\ UNCHANGED <<disk, control, log, updates, history, budget>>

(* catalog/cancel and CatalogControl::cancel: from running or activating, never later. *)
CancelCatalog(p) ==
    /\ rt[p].pc = "idle" /\ rt[p].catalog # 0 /\ "cancel" \in Asked[p]
    /\ build[p].gen = rt[p].catalog /\ build[p].flag \in {"running", "activating"}
    /\ build' = [build EXCEPT ![p].flag = "cancelled"]
    /\ rt' = [rt EXCEPT ![p].phase = "cancelling"]
    /\ UNCHANGED <<disk, control, log, updates, retiring, history, budget>>

(* handle_catalog_update, for updates of the active catalog. *)
HandleUpdate(p) ==
    /\ rt[p].pc = "idle" /\ updates[p] # <<>>
    /\ updates' = [updates EXCEPT ![p] = Tail(@)]
    /\ LET u == Head(updates[p])
           done == [rt[p] EXCEPT !.catalog = 0]
       IN rt' = [rt EXCEPT ![p] =
            IF u.gen # rt[p].catalog THEN rt[p]
            ELSE CASE u.kind = "Activating" ->
                        [rt[p] EXCEPT !.phase = IF @ = "cancelling" THEN @ ELSE "activating"]
                   [] u.kind = "Cancelled" -> [done EXCEPT !.phase = "cancelled"]
                   [] u.kind = "Failed" ->
                        [done EXCEPT !.phase = "degraded"]
                   [] u.kind = "Complete" ->
                        [done EXCEPT !.phase = IF u.errors THEN "degraded"
                                               ELSE IF u.skipped THEN "partial" ELSE "ready"]]
    /\ UNCHANGED <<disk, control, log, build, retiring, history, budget>>

(* shutdown, the end of the input, a kill or a crash: threads, locks and leases end too. *)
Exit(p) ==
    /\ rt[p].pc # "down" /\ crashes < MaxCrashes
    /\ crashes' = crashes + 1
    /\ rt' = [rt EXCEPT ![p] = Down]
    /\ build' = [build EXCEPT ![p] = NoBuild]
    /\ updates' = [updates EXCEPT ![p] = <<>>]
    /\ retiring' = [retiring EXCEPT ![p] = {}]
    /\ window' = [window EXCEPT ![p] = {}]
    /\ base' = [base EXCEPT ![p] = NoBase]
    /\ fence' = [fence EXCEPT ![p] = NoRows]
    /\ UNCHANGED <<disk, control, log, faults>>

(* The machine stops: of what was not synced, each file keeps a prefix of its own. *)
PowerLoss ==
    /\ crashes < MaxCrashes
    /\ crashes' = crashes + 1
    /\ \E lost \in [Dbs -> 0..MaxGen] :
         /\ \A db \in Dbs : lost[db] = 0 \/ lost[db] < Len(log[db])
         /\ log' = [db \in Dbs |-> IF log[db] = <<>> THEN <<>> ELSE <<log[db][Len(log[db]) - lost[db]]>>]
    /\ rt' = [p \in Procs |-> Down]
    /\ build' = [p \in Procs |-> NoBuild]
    /\ updates' = [p \in Procs |-> <<>>]
    /\ retiring' = [p \in Procs |-> {}]
    /\ window' = [p \in Procs |-> {}]
    /\ base' = [p \in Procs |-> NoBase]
    /\ fence' = [p \in Procs |-> NoRows]
    /\ UNCHANGED <<disk, control, faults>>
-----------------------------------------------------------------------------
(* The catalog thread: scan_workspace, Planner, Producer, CatalogBuildSession::run. *)

Send(p, kind, b) ==
    updates' = [updates EXCEPT ![p] = Append(@, [kind |-> kind, gen |-> b.gen,
                                                 errors |-> b.errors, skipped |-> b.skipped])]

(* CatalogBuildSession::begin_for pins the parent: before the scan, or after it when forced. *)
BeginSession(p) ==
    LET b == build[p]
        expected == Current(control.db).gen
        fp == IF b.force \/ expected = 0 THEN NoFingerprint ELSE control.fp
    IN
    /\ b.pc = "begin" /\ ExclusiveFree
    /\ IF ~Openable \/ b.gen <= expected
       THEN /\ Send(p, "Failed", b)
            /\ build' = [build EXCEPT ![p] = NoBuild]
            /\ retiring' = [retiring EXCEPT ![p] = IF Openable THEN @ \cup {control.db} ELSE @]
            /\ UNCHANGED base
       ELSE /\ build' = [build EXCEPT ![p] = [b EXCEPT
                   !.pc = IF b.force THEN "route" ELSE "scan",
                   !.parent = Publication, !.expected = expected, !.old = control.db, !.fp = fp,
                   !.hashFirst = fp # NoFingerprint /\ Current(control.db).rejected = {}]]
            /\ base' = [base EXCEPT ![p] = Current(control.db)]
            /\ UNCHANGED <<updates, retiring>>
    /\ UNCHANGED <<disk, control, log, rt, window, fence, budget>>

(* One entry of the directory scan and Planner::admit.  An unreadable directory hides a    *)
(* document, an unreadable file is rejected; both disqualify the fingerprint.              *)
Scanned(b, d, result) ==
    LET rest == [b EXCEPT !.todo = @ \ {d},
                          !.pc = IF b.todo # {d} THEN "scan" ELSE IF b.force THEN "begin" ELSE "route"]
    IN CASE result = "hidden" -> [rest EXCEPT !.errors = TRUE, !.complete = FALSE]
         [] result = "unreadable" ->
              [rest EXCEPT !.errors = TRUE, !.complete = FALSE, !.rejected = @ \cup {d}]
         [] result = "ok" /\ source[d] = 0 -> rest
         [] result = "ok" /\ source[d] \in Oversized -> [rest EXCEPT !.skipped = TRUE]
         [] OTHER -> [rest EXCEPT !.jobs = @ \cup {d},
                                  !.stamps[d] = IF b.hashFirst THEN source[d] ELSE 0]

ScanDoc(p) ==
    LET b == build[p] IN
    /\ b.pc = "scan" /\ b.flag # "cancelled"
    /\ \E d \in b.todo, result \in {"ok", "hidden", "unreadable"} :
         /\ \A e \in b.todo : d <= e
         /\ result # "ok" => faults < MaxFaults /\ source[d] # 0
         /\ faults' = faults + (IF result = "ok" THEN 0 ELSE 1)
         /\ build' = [build EXCEPT ![p] = Scanned(b, d, result)]
    /\ UNCHANGED <<disk, control, log, rt, updates, retiring, history, crashes>>

\* Mutant of StopScan: the scan that stops reports nothing.
StopScanSilently(p) ==
    /\ build[p].pc = "scan" /\ build[p].flag = "cancelled"
    /\ build' = [build EXCEPT ![p] = NoBuild]
    /\ retiring' = [retiring EXCEPT ![p] = @ \cup ({build[p].old} \ {NoDb})]
    /\ base' = [base EXCEPT ![p] = NoBase]
    /\ UNCHANGED <<disk, control, log, rt, updates, window, fence, budget>>

(* The scan finds the cancellation, or the root directory, which it reads first, cannot *)
(* be read: the build fails.                                                            *)
StopScan(p) ==
    LET b == build[p] IN
    /\ b.pc = "scan"
    /\ \/ b.flag = "cancelled" /\ Send(p, "Cancelled", b) /\ UNCHANGED faults
       \/ /\ b.flag # "cancelled" /\ b.todo = Docs
          /\ faults < MaxFaults /\ faults' = faults + 1
          /\ Send(p, "Failed", b)
    /\ build' = [build EXCEPT ![p] = NoBuild]
    /\ retiring' = [retiring EXCEPT ![p] = @ \cup ({b.old} \ {NoDb})]
    /\ base' = [base EXCEPT ![p] = NoBase]
    /\ UNCHANGED <<disk, control, log, rt, window, fence, crashes>>

(* build_stream and run: reuse the parent when the complete scan has its fingerprint, *)
(* otherwise allocate and reserve a private database under the shared lock.           *)
CanReuse(b) == /\ b.hashFirst /\ b.complete
               /\ b.stamps = b.fp
               /\ Current(b.old).rejected = {}

FreeDbs == {db \in Dbs \ {0} : log[db] = <<>>}

ChooseRoute(p) ==
    LET b == build[p] IN
    /\ b.pc = "route" /\ SharedFree
    /\ IF CanReuse(b)
       THEN build' = [build EXCEPT ![p].pc = "reuse", ![p].reuse = TRUE] /\ UNCHANGED log
       ELSE \E db \in FreeDbs :
              /\ \A other \in FreeDbs : db <= other
              /\ build' = [build EXCEPT ![p].pc = "write", ![p].db = db]
              /\ log' = [log EXCEPT ![db] = <<NoSchema>>]
    /\ UNCHANGED <<disk, control, rt, updates, retiring, history, budget>>

(* A parser worker reads one job, in any order.  What was hashed must not have changed, *)
(* nor have become unreadable; what was not hashed is stamped when it is read.          *)
Parsed(b, d, result) ==
    LET rest == [b EXCEPT !.jobs = @ \ {d}]
        failed == result = "unparsable" IN
    IF b.hashFirst /\ (result = "unreadable" \/ source[d] # b.stamps[d])
    THEN [rest EXCEPT !.changed = TRUE]
    ELSE IF result = "unreadable" \/ source[d] = 0
    THEN [rest EXCEPT !.rejected = @ \cup {d}, !.errors = TRUE]
    ELSE IF source[d] \in Oversized THEN [rest EXCEPT !.skipped = TRUE]
    ELSE [rest EXCEPT !.stamps[d] = source[d],
                      !.rows[d] = IF failed THEN 0 ELSE source[d],
                      !.rejected = IF failed THEN @ \cup {d} ELSE @,
                      !.errors = @ \/ failed]

Parse(p, d) ==
    LET b == build[p] IN
    /\ d \in b.jobs /\ b.flag # "cancelled" /\ ~b.changed
    /\ b.pc = "write" \/ (b.force /\ b.pc \in {"begin", "route"})
    /\ \E result \in {"ok", "unreadable", "unparsable"} :
         /\ result # "ok" => faults < MaxFaults
         /\ faults' = faults + (IF result = "ok" THEN 0 ELSE 1)
         /\ build' = [build EXCEPT ![p] = Parsed(b, d, result)]
    /\ UNCHANGED <<disk, control, log, rt, updates, retiring, history, crashes>>

(* begin_activation: after the last parser was joined, or at once for a reused catalog. *)
Activate(p) ==
    LET b == build[p] IN
    /\ \/ b.pc = "reuse"
       \/ b.pc = "write" /\ b.jobs = {} /\ ~b.changed
    /\ b.flag = "running"
    /\ Send(p, "Activating", b)
    /\ build' = [build EXCEPT ![p].flag = "activating",
                              ![p].pc = IF b.reuse THEN "check" ELSE "seal"]
    /\ UNCHANGED <<disk, control, log, rt, retiring, history, budget>>

\* Mutant of Seal: the last metadata is committed but not synced.
SealUnsynced(p) ==
    LET b == build[p] IN
    /\ b.pc = "seal" /\ b.flag # "cancelled"
    /\ log' = [log EXCEPT ![b.db] =
                  Append(@, [gen |-> b.gen, rows |-> b.rows, rejected |-> b.rejected])]
    /\ build' = [build EXCEPT ![p].pc = "check"]
    /\ UNCHANGED <<disk, control, rt, updates, retiring, history, budget>>

(* The last rows, validate, finish_metadata with FULL, TRUNCATE checkpoint, sync_parent. *)
Seal(p) ==
    LET b == build[p] IN
    /\ b.pc = "seal" /\ b.flag # "cancelled"
    /\ log' = [log EXCEPT ![b.db] = <<[gen |-> b.gen, rows |-> b.rows, rejected |-> b.rejected]>>]
    /\ build' = [build EXCEPT ![p].pc = "check"]
    /\ UNCHANGED <<disk, control, rt, updates, retiring, history, budget>>

\* Mutant of AllCurrent: reused rows are not checked again.
AllParsedCurrent(b) == b.reuse \/ \A d \in Docs : b.stamps[d] # 0 => source[d] = b.stamps[d]

(* Stage Checking: every document read is still the one on disk. *)
AllCurrent(b) == \A d \in Docs : b.stamps[d] # 0 => source[d] = b.stamps[d]

CheckSources(p) ==
    /\ build[p].pc = "check" /\ build[p].flag # "cancelled"
    /\ fence' = [fence EXCEPT ![p] = source]
    /\ build' = [build EXCEPT ![p].pc = IF AllCurrent(build[p]) THEN "lock" ELSE "drop",
                              ![p].outcome = IF AllCurrent(build[p]) THEN "none" ELSE "error"]
    /\ UNCHANGED <<disk, control, log, rt, updates, retiring, window, base, budget>>

\* Mutant of BaseUnchanged: only the name of the active database is compared.
BaseSameFile(b) == Publication = b.parent

(* The exclusive lock is taken, the parent compared and cancellation closed. *)
BaseUnchanged(b) == Publication = b.parent /\ Current(b.old).gen = b.expected

\* Mutant of LockPublication: cancellation is not looked at again under the lock.
LockPublicationBlindly(p) ==
    /\ build[p].pc = "lock" /\ ExclusiveFree
    /\ build' = [build EXCEPT ![p] =
          IF BaseUnchanged(@) THEN [@ EXCEPT !.pc = "publish", !.flag = "publishing"]
                              ELSE [@ EXCEPT !.pc = "drop", !.outcome = "error"]]
    /\ UNCHANGED <<disk, control, log, rt, updates, retiring, history, budget>>

LockPublication(p) ==
    /\ build[p].pc = "lock" /\ build[p].flag = "activating" /\ ExclusiveFree
    /\ build' = [build EXCEPT ![p] =
          IF BaseUnchanged(@) THEN [@ EXCEPT !.pc = "publish", !.flag = "publishing"]
                              ELSE [@ EXCEPT !.pc = "drop", !.outcome = "error"]]
    /\ UNCHANGED <<disk, control, log, rt, updates, retiring, history, budget>>

(* Control::publish, or the parent's metadata when its rows are reused. *)
CompleteFingerprint(b) ==
    IF b.force \/ ~b.complete \/ b.rejected # {} THEN NoFingerprint ELSE b.stamps

Publish(p) ==
    LET b == build[p] IN
    /\ b.pc = "publish"
    /\ IF b.reuse
       THEN /\ log' = [log EXCEPT ![b.old] = <<[Current(b.old) EXCEPT !.gen = b.gen]>>]
            /\ UNCHANGED control
       ELSE /\ control' = [control EXCEPT !.db = b.db, !.gen = b.gen, !.fp = CompleteFingerprint(b)]
            /\ UNCHANGED log
    /\ build' = [build EXCEPT ![p].pc = "drop", ![p].outcome = "receipt"]
    /\ Witness(log', control')
    /\ UNCHANGED <<disk, rt, updates, retiring, base, fence, budget>>

(* A stage boundary finds the cancellation, a parser found a changed source, or a storage *)
(* operation fails: the unpublished result is dropped.                                     *)
Discard(p) ==
    LET b == build[p] IN
    /\ \/ b.pc \in {"reuse", "write", "seal", "check", "lock"} /\ b.flag = "cancelled"
          /\ UNCHANGED faults
       \/ b.pc = "write" /\ b.changed /\ UNCHANGED faults
       \/ b.pc \in {"write", "seal", "publish"} /\ faults < MaxFaults /\ faults' = faults + 1
    /\ build' = [build EXCEPT ![p].pc = "drop", ![p].outcome = "error"]
    /\ UNCHANGED <<disk, control, log, rt, updates, retiring, history, crashes>>

\* Mutant of Prunable: leases are ignored.
PrunableUnleased(pinned) == {db \in Dbs : log[db] # <<>> /\ db # control.db}

(* catalog_files::prune, under the exclusive lock: never the active database, never one *)
(* with a lease; any single removal may fail and is left for the next prune.            *)
Prunable(pinned) == {db \in Dbs : log[db] # <<>> /\ db # control.db /\ db \notin pinned}

Prune(pinned) ==
    \E gone \in SUBSET Prunable(pinned) :
        /\ gone # Prunable(pinned) => faults < MaxFaults
        /\ faults' = faults + (IF gone = Prunable(pinned) THEN 0 ELSE 1)
        /\ log' = [db \in Dbs |-> IF db \in gone THEN <<>> ELSE log[db]]

(* The session ends: its connection is handed to a closing thread, files are pruned and *)
(* StorageObserver::finish reports.                                                     *)
EndSession(p) ==
    LET b == build[p]
        others == UNION {PinnedBy(q) : q \in Procs \ {p}}
    IN
    /\ b.pc = "drop" /\ ExclusiveFree
    /\ retiring' = [retiring EXCEPT ![p] = @ \cup {b.old}]
    /\ Prune(others \cup {rt[p].db} \cup retiring'[p])
    /\ Send(p, IF b.outcome = "receipt" THEN "Complete"
               ELSE IF b.flag = "cancelled" THEN "Cancelled" ELSE "Failed", b)
    /\ build' = [build EXCEPT ![p] = NoBuild]
    /\ base' = [base EXCEPT ![p] = NoBase]
    /\ fence' = [fence EXCEPT ![p] = NoRows]
    /\ UNCHANGED <<disk, control, rt, window, crashes>>

(* catalog_files::retire: close the old connection, then prune. *)
Retire(p, db) ==
    /\ db \in retiring[p] /\ ExclusiveFree
    /\ retiring' = [retiring EXCEPT ![p] = @ \ {db}]
    /\ LET others == UNION {PinnedBy(q) : q \in Procs \ {p}}
       IN Prune(others \cup {rt[p].db, build[p].old, build[p].db} \cup retiring'[p])
    /\ UNCHANGED <<disk, control, rt, build, updates, history, crashes>>

-----------------------------------------------------------------------------
CatalogThread(p) ==
    \/ BeginSession(p) \/ ScanDoc(p) \/ StopScan(p) \/ ChooseRoute(p)
    \/ \E d \in Docs : Parse(p, d)
    \/ Activate(p) \/ Seal(p) \/ CheckSources(p) \/ LockPublication(p) \/ Publish(p)
    \/ Discard(p) \/ EndSession(p)

ProtocolThread(p) ==
    \/ CreateControl(p) \/ InsertControl(p) \/ CreateBase(p) \/ OpenStore(p)
    \/ BeginRead(p) \/ EndRead(p)
    \/ \E d \in Docs, g \in 1..MaxGen : BeginRefresh(p, d, g)
    \/ ApplyRefresh(p)
    \/ \E force \in BOOLEAN : StartCatalog(p, force)
    \/ CancelCatalog(p) \/ HandleUpdate(p)

Next ==
    \/ \E p \in Procs : \/ Start(p) \/ ProtocolThread(p) \/ CatalogThread(p) \/ Exit(p)
                         \/ \E db \in Dbs : Retire(p, db)
    \/ \E d \in Docs : EditSource(d)
    \/ PowerLoss

(* A thread that can run does; each turn of the protocol loop drains the updates first. *)
ProtocolContinues(p) == InsertControl(p) \/ CreateBase(p) \/ EndRead(p) \/ ApplyRefresh(p)

Fairness == \A p \in Procs :
    /\ WF_vars(CatalogThread(p)) /\ WF_vars(ProtocolContinues(p))
    /\ SF_vars(HandleUpdate(p))

Spec == Init /\ [][Next]_vars /\ Fairness

-----------------------------------------------------------------------------
(* The index implements its abstract specification: whatever processes build, cancel,     *)
(* refresh, publish, prune and die, the active file moves through atomic commits, none is *)
(* undone by a catalog begun before it, and a power failure costs refreshes only.         *)
Abstract == INSTANCE PublishedIndex WITH log <- Published, base <- base, NoBase <- NoBase
ImplementsPublishedIndex == Abstract!Spec

(* A stored fingerprint, which lets a later catalog skip all parsing, describes exactly    *)
(* the rows of the active file (Control::invalidate_fingerprint, has_qualified_reuse_...). *)
FingerprintIsSound ==
    control.fp # NoFingerprint =>
        Published[Len(Published)].rows = control.fp /\ Published[Len(Published)].rejected = {}

(* Once a catalog was published the cache can be opened for ever after, and after any      *)
(* power failure: open_published never meets a missing, empty or older file.               *)
PublishedStaysOpenable ==
    control.gen > 0 => /\ log[control.db] # <<>>
                       /\ \A i \in 1..Len(log[control.db]) : log[control.db][i].gen >= control.gen

(* prune never deletes a database some connection, session or reservation still uses. *)
PinnedFilesExist == \A db \in Pinned \ {NoDb} : log[db] # <<>>

(* Both together, of a well-typed state: no file that is or may be needed goes.       *)
CacheFilesStay == TypeOK /\ PublishedStaysOpenable /\ PinnedFilesExist

(* What a query returns is a state the index had between the query's start and its end,    *)
(* although the lock is released before the query runs.                                    *)
ReadsAreCommitted == \A p \in Procs : rt[p].pc = "read" => Answer(p) \in window[p]

(* After catalog/cancel answered cancelled: true, that generation is never committed by    *)
(* this process: the cancel flag and the publication race on one atomic cell.              *)
CancelledNeverCommits ==
    \A p \in Procs : rt[p].phase = "cancelling" =>
        /\ build[p].pc # "publish" /\ build[p].outcome # "receipt"
        /\ \A i \in 1..Len(updates[p]) : updates[p][i].kind # "Complete"

(* In every step, a catalog is committed only with rows of the versions that were on disk when its        *)
(* sources were checked, parsed or reused.                                                 *)
CommitsCheckedSources ==
    \A p \in Procs : build[p].outcome = "none" /\ build'[p].outcome = "receipt" =>
        LET new == (Published')[Len(Published')] IN
        \A d \in Docs : new.rows[d] # 0 => new.rows[d] = fence[p][d]

(* A stored fingerprint describes the rows of the active file, a cancelled catalog is     *)
(* never committed, and a committed one has the rows of the sources that were on disk      *)
(* when they were checked (Control::publish, CatalogControl, stage Checking).              *)
CatalogCommitsAreSound ==
    /\ [](FingerprintIsSound /\ CancelledNeverCommits)
    /\ [][CommitsCheckedSources]_vars

(* Again and again: no catalog is under way, because its terminal update has reached the   *)
(* protocol thread or the process has ended.                                               *)
CatalogEnded == \A p \in Procs : rt[p].catalog = 0
=============================================================================
