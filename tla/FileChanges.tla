----------------------------- MODULE FileChanges -----------------------------
(***************************************************************************)
(* How changes on disk reach the server: the client's watcher reports them *)
(* in notifications of several events, WorkspaceFileChangeCoordinator      *)
(* condenses a notification into at most one batch per root, and the       *)
(* handler hands the batches to the semantic engine, whose document store  *)
(* keeps the membership of each project, and to the diagnostics scheduler. *)
(* Roots are disjoint; a file belongs to one root and one domain.          *)
(***************************************************************************)
EXTENDS Naturals, Sequences, FiniteSets

CONSTANTS
    Sources,           \* [source file -> its root]
    Resources,         \* [string resource -> its root]
    Configurations,    \* [project configuration file -> its root]
    Roots,
    MaxPendingPaths,
    MaxEvents          \* bound: changes on disk

VARIABLES
    onDisk,        \* source files that exist
    reported,      \* events of the client that are not yet accepted
    pending,       \* the coordinator's map: path -> [kind]
    dirty,         \* [source, resource, configuration: sets of roots]
    members,       \* [Roots -> the store's list of source files]
    outdated,      \* roots and domains whose documents rest on older files
    events,
    merged         \* history: sources on disk that the store does not list and whose
                   \* pending creation or deletion a later write replaced

fileVars == <<onDisk, reported, pending, dirty, members, outdated, events, merged>>

Domains == {"source", "resource"}
Files == DOMAIN Sources \cup DOMAIN Resources
Root(f) == IF f \in DOMAIN Sources THEN Sources[f]
           ELSE IF f \in DOMAIN Resources THEN Resources[f] ELSE Configurations[f]
\* workspaceFileDomain: a configuration file counts as a source.
Domain(f) == IF f \in DOMAIN Resources THEN "resource" ELSE "source"
OfRoot(r) == {f \in DOMAIN Sources : Sources[f] = r}
Clean == [source |-> {}, resource |-> {}, configuration |-> {}]

Init ==
    /\ onDisk \in SUBSET DOMAIN Sources
    /\ members = [r \in Roots |-> onDisk \cap OfRoot(r)]
    /\ reported = <<>> /\ pending = <<>>
    /\ dirty = Clean
    /\ outdated = {}
    /\ events = 0
    /\ merged = {}

TypeOK ==
    /\ DOMAIN pending \subseteq Files
    /\ Cardinality(DOMAIN pending) <= MaxPendingPaths
    /\ members \in [Roots -> SUBSET DOMAIN Sources]
    /\ outdated \subseteq Domains \X Roots

(* ------------------------------ The client ----------------------------- *)

Happens(f, kind) ==
    /\ events < MaxEvents
    /\ events' = events + 1
    /\ reported' = Append(reported, <<f, kind>>)
    /\ outdated' = outdated \cup {<<Domain(f), Root(f)>>}

FileCreated(f) ==
    /\ f \notin onDisk
    /\ onDisk' = onDisk \cup {f}
    /\ Happens(f, "created")
    /\ UNCHANGED <<pending, dirty, members, merged>>

FileDeleted(f) ==
    /\ f \in onDisk
    /\ onDisk' = onDisk \ {f}
    /\ Happens(f, "deleted")
    /\ UNCHANGED <<pending, dirty, members, merged>>

FileWritten(f) ==
    /\ f \in onDisk \/ f \notin DOMAIN Sources
    /\ Happens(f, "changed")
    /\ UNCHANGED <<onDisk, pending, dirty, members, merged>>

(* ---------------------------- The coordinator -------------------------- *)

\* Mutant: an overflow leaves the root as it is and drops the event.
MarkRootDirtyM(root, domain) == UNCHANGED <<dirty, pending, merged>>

\* markRootDirty: the changes of that root and domain are no longer listed.
MarkRootDirty(root, domain) ==
    /\ dirty' = [dirty EXCEPT ![domain] = @ \cup {root}]
    /\ pending' = [f \in {g \in DOMAIN pending : Root(g) # root \/ Domain(g) # domain} |-> pending[f]]
    /\ UNCHANGED merged

Configured(root) ==
    /\ dirty' = [dirty EXCEPT !.source = @ \cup {root}, !.configuration = @ \cup {root}]
    /\ pending' = [f \in {g \in DOMAIN pending : Root(g) # root \/ Domain(g) # "source"} |-> pending[f]]
    /\ UNCHANGED merged

\* Mutant: the first kind of a path is kept.
RecordM(f, kind) ==
    /\ pending' = [g \in DOMAIN pending \cup {f} |-> IF g \in DOMAIN pending THEN pending[g] ELSE kind]
    /\ UNCHANGED <<dirty, merged>>

\* A write replaces an entry that says whether the file exists.
Replaces(f, kind) == kind = "changed" /\ f \in DOMAIN pending /\ pending[f] # "changed"

\* The last kind of a path wins, also when it is a write of a file that was just created.
Record(f, kind) ==
    /\ pending' = [g \in DOMAIN pending \cup {f} |-> IF g = f THEN kind ELSE pending[g]]
    /\ merged' = IF Replaces(f, kind) THEN merged \cup {f} ELSE merged
    /\ UNCHANGED dirty

AcceptOne ==
    /\ reported # <<>>
    /\ reported' = Tail(reported)
    /\ LET f == Head(reported)[1]
           kind == Head(reported)[2]
       IN  CASE f \in DOMAIN Configurations -> Configured(Root(f))
             [] f \in Files /\ Root(f) \in dirty[Domain(f)] -> UNCHANGED <<pending, dirty, merged>>
             [] f \in Files /\ Root(f) \notin dirty[Domain(f)] /\ f \notin DOMAIN pending
                  /\ Cardinality(DOMAIN pending) >= MaxPendingPaths -> MarkRootDirty(Root(f), Domain(f))
             [] OTHER -> Record(f, kind)
    /\ UNCHANGED <<onDisk, members, outdated, events>>

(* ------------------------------ The handler ---------------------------- *)

\* The batch of a root, and whether it has one.
Changes(r) == {f \in DOMAIN pending : Root(f) = r}
HasBatch(r) == r \in dirty.source \cup dirty.resource \/ Changes(r) # {}

\* DocumentStore.workspaceFilesChanged: a dirty root, and a report about a
\* source that is not there, make the store enumerate the project again.
\* A source that changed stays what it was; only a created one is admitted.
Enumerated(r) == onDisk \cap OfRoot(r)
Rejected(r) == {f \in Changes(r) \cap DOMAIN Sources : pending[f] # "deleted" /\ f \notin onDisk}
Membership(r) ==
    IF r \in dirty.source \/ Rejected(r) # {} THEN Enumerated(r)
    ELSE {f \in members[r] : f \in Changes(r) => pending[f] # "deleted"}
         \cup {f \in Changes(r) \cap DOMAIN Sources : pending[f] = "created"}

\* Diagnostics: the documents of a workspace with changed sources, and those
\* that mention resources in one with changed resources, are scheduled.
Scheduled(r) ==
    (IF r \in dirty.source \/ Changes(r) \cap DOMAIN Sources # {}
     THEN {<<"source", r>>, <<"resource", r>>} ELSE {})
    \cup (IF r \in dirty.resource \/ Changes(r) \cap DOMAIN Resources # {}
          THEN {<<"resource", r>>} ELSE {})

\* onDidChangeWatchedFiles after accept: drain and deliver.
Drain ==
    /\ pending # <<>> \/ dirty # Clean
    /\ members' = [r \in Roots |-> IF HasBatch(r) THEN Membership(r) ELSE members[r]]
    /\ outdated' = outdated \ UNION {Scheduled(r) : r \in Roots}
    /\ pending' = <<>> /\ dirty' = Clean
    /\ merged' = merged \cap (onDisk \ UNION {members'[r] : r \in Roots})
    /\ UNCHANGED <<onDisk, reported, events>>

Next ==
    \/ \E f \in DOMAIN Sources : FileCreated(f) \/ FileDeleted(f)
    \/ \E f \in Files \cup DOMAIN Configurations : FileWritten(f)
    \/ AcceptOne
    \/ Drain

Spec == Init /\ [][Next]_fileVars

-----------------------------------------------------------------------------

Delivered == reported = <<>> /\ pending = <<>> /\ dirty = Clean

\* Once every notification is handled, the store's projects list no source that is
\* gone and lack none that is on disk, however the events were split into
\* notifications, merged or replaced by a dirty root, except one whose creation was
\* merged with a later write of the same file: it stays out until its project is
\* enumerated, or it is deleted and created anew (acceptOne,
\* DocumentStore.workspaceFilesChanged).
MembersFollowDisk ==
    Delivered => \A r \in Roots : /\ members[r] \subseteq Enumerated(r)
                                   /\ Enumerated(r) \ members[r] \subseteq merged

\* ... and every document whose sources, resources or configuration changed
\* has been scheduled for diagnosis (onDidChangeWatchedFiles).
ChangesAreDiagnosed == Delivered => outdated = {}
=============================================================================
