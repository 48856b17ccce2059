--------------------------- MODULE LanguageSession ---------------------------
(***************************************************************************)
(* The LSP session on the main thread: which answers and diagnostics reach *)
(* the client (runLanguageServer, SemanticRequestRunner.run,               *)
(* RequestFreshness, InFlightRequestCoalescer and                          *)
(* createDocumentDiagnostics).                                             *)
(*                                                                         *)
(* Handlers run to completion; they interleave where they await the        *)
(* semantic engine or a timer.  The engine is only assumed to settle every *)
(* call, with a result for the inputs it had when it was called: all       *)
(* freshness is up to the session.                                         *)
(*                                                                         *)
(* Texts are numbers: `source` and `resource` count what changed in a      *)
(* workspace, and a document's text is the count at its last change.       *)
(***************************************************************************)
EXTENDS Integers, FiniteSets

CONSTANTS
    Docs,            \* documents that the client may open
    Workspaces,
    WorkspaceOf,     \* [Docs -> Workspaces]
    Reqs,            \* requests, each issued once
    Methods,         \* the kinds of requests that the client sends
    Position,        \* [Reqs -> positions]: requests that may share their work
    Ops,             \* operations that may be under way at a time
    MaxChanges,      \* bound on changes of a workspace in a behaviour
    None

Kinds == {"hover", "rename", "definition", "references"}
WorkspaceScoped == {"rename", "definition", "references"}
Coalesced == {"definition", "references"}

ASSUME ConstantsAssumption ==
    /\ WorkspaceOf \in [Docs -> Workspaces]
    /\ Methods \subseteq Kinds /\ DOMAIN Position = Reqs
    /\ MaxChanges \in Nat /\ IsFiniteSet(Ops)
    /\ None \notin Docs \cup Workspaces \cup Reqs \cup Ops

VARIABLES
    doc,       \* the client's documents; does the text mention resources ($r)?
    source,    \* [Workspaces -> Nat]: changes of sources and configuration
    resource,  \* [Workspaces -> Nat]: changes of ArkUI resources
    running,   \* no shutdown yet
    req,       \* requests
    op,        \* operations of the coalescer, and of requests that share none
    diag,      \* the diagnostics scheduler
    shown      \* what the client was last told about each document

inputs == <<doc, source, resource>>
vars == <<inputs, running, req, op, diag, shown>>

\* Everything that an answer about the workspace depends on; of it, what the
\* diagnosis of a document depends on.
Stamp(w) == <<source[w], resource[w]>>
Inputs(d, stamp) == IF doc[d].resources THEN stamp ELSE <<stamp[1], 0>>

Closed == [open |-> FALSE, version |-> 0, resources |-> FALSE, text |-> 0]
In(w) == {d \in Docs : WorkspaceOf[d] = w}
OpenDocs(docs) == {d \in Docs : docs[d].open}

-----------------------------------------------------------------------------
(* DocumentDiagnostics.  Its operations map a scheduler state to the next. *)

\* A task that update schedules: it owns a snapshot of the document and is
\* fenced by the workspace epoch; `seen` is what the engine saw when called.
Task(g, d, docs) ==
    [started |-> FALSE, epoch |-> g.epoch[WorkspaceOf[d]], version |-> docs[d].version,
     text |-> docs[d].text, seen |-> <<0, 0>>]

\* Mutant of Update: a suspended scheduler forgets the documents.
UpdateForgetting(g, D, docs) ==
    [g EXCEPT !.task = [d \in Docs |-> IF d \notin D THEN @[d]
                                       ELSE IF g.disposed \/ g.leases > 0 THEN None
                                       ELSE Task(g, d, docs)]]

\* update, of every document of D: the previous task of each is superseded.
Update(g, D, docs) ==
    [g EXCEPT !.task = [d \in Docs |-> IF d \notin D THEN @[d]
                                       ELSE IF g.disposed \/ g.leases > 0 THEN None
                                       ELSE Task(g, d, docs)],
              !.deferred = IF g.leases > 0 /\ ~g.disposed THEN @ \cup D ELSE @]

\* refreshWorkspace: what runs is fenced at once, the debounce starts again.
Refresh(g, W) ==
    IF g.disposed THEN g
    ELSE [g EXCEPT !.epoch = [w \in Workspaces |-> IF w \in W THEN @[w] + 1 ELSE @[w]],
                   !.dirty = @ \cup W]

\* suspend, up to its await: tasks that started are awaited, all are deferred.
Suspend(g) ==
    LET pending == {d \in Docs : g.task[d] # None}
    IN  [g EXCEPT !.leases = @ + 1, !.deferred = @ \cup pending,
                  !.settling = @ \cup {d \in pending : g.task[d].started},
                  !.task = [d \in Docs |-> None]]

\* The function that suspend returns; the last lease reschedules what was
\* deferred, unless a refresh of the whole workspace is due anyway.
Resume(g, docs) ==
    LET released == [g EXCEPT !.leases = @ - 1]
        again == {d \in g.deferred : docs[d].open /\ WorkspaceOf[d] \notin g.dirty}
    IN  IF g.disposed \/ released.leases > 0 THEN released
        ELSE Update([released EXCEPT !.deferred = {}], again, docs)

\* The timer of a task fires: it ends at once if its workspace moved on.
DiagnosisStarts(d) ==
    /\ diag.task[d] # None /\ ~diag.task[d].started
    /\ diag' = [diag EXCEPT !.task[d] =
                   IF @.epoch # diag.epoch[WorkspaceOf[d]] THEN None
                   ELSE [@ EXCEPT !.started = TRUE, !.seen = Stamp(WorkspaceOf[d])]]
    /\ UNCHANGED <<inputs, running, req, op, shown>>

\* Mutant of Publishes: the workspace fence is left out.
PublishesUnfenced(d) == doc[d].open /\ doc[d].version = diag.task[d].version

Publishes(d) ==
    /\ diag.epoch[WorkspaceOf[d]] = diag.task[d].epoch
    /\ doc[d].open /\ doc[d].version = diag.task[d].version

\* semantic.diagnose settles for the task that is still pending; the engine
\* reports content-modified only after some input of the workspace changed.
DiagnosisEnds(d, result) ==
    LET t == diag.task[d]
        done == [diag EXCEPT !.task[d] = None]
        current == diag.epoch[WorkspaceOf[d]] = t.epoch
    IN  /\ t # None /\ t.started
        /\ result = "content-modified" => t.seen # Stamp(WorkspaceOf[d])
        /\ diag' = IF result = "content-modified" /\ current /\ doc[d].open
                   THEN Update(done, {d}, doc) ELSE done
        /\ shown' = IF result = "ok" /\ Publishes(d)
                    THEN [shown EXCEPT ![d] = [state |-> "published", seen |-> t.seen]]
                    ELSE IF result = "error"
                    THEN [shown EXCEPT ![d] = [state |-> "failed", seen |-> t.seen]]
                    ELSE shown
        /\ UNCHANGED <<inputs, running, req, op>>

\* Mutant of DiagnosisSettles: only the task that is still pending reports it.
DiagnosisSettlesPending(d) ==
    /\ d \in diag.settling /\ diag.task[d] # None
    /\ diag' = [diag EXCEPT !.settling = @ \ {d}]
    /\ UNCHANGED <<inputs, running, req, op, shown>>

\* ... or for one that a suspension cancelled.
DiagnosisSettles(d) ==
    /\ d \in diag.settling
    /\ diag' = [diag EXCEPT !.settling = @ \ {d}]
    /\ UNCHANGED <<inputs, running, req, op, shown>>

\* The refresh timer: the workspaces W are due.
RefreshFires(W) ==
    /\ diag.leases = 0 /\ W # {} /\ W \subseteq diag.dirty
    /\ diag' = Update([diag EXCEPT !.dirty = @ \ W],
                      {d \in OpenDocs(doc) : WorkspaceOf[d] \in W}, doc)
    /\ UNCHANGED <<inputs, running, req, op, shown>>

-----------------------------------------------------------------------------
(* Requests and operations.                                                *)

Free == [phase |-> "free", kind |-> "hover", key |-> None, doc |-> None, version |-> 0,
         text |-> 0, stamp |-> <<0, 0>>, shared |-> FALSE, aborted |-> FALSE, awaits |-> {}]

\* A request ends with the operation's value, or without one: with the
\* method's fallback, as cancelled or with the error.
Ended(value) == [state |-> "done", kind |-> "hover", doc |-> None, version |-> 0, reason |-> "none",
                 op |-> None, value |-> value]

Waiters(o) == {r \in Reqs : req[r].state = "waiting" /\ req[r].op = o}

\* Mutant of Abandoned: the first waiter that leaves aborts the operation.
AbandonedByOne(o, left) == Waiters(o) \cap left # {}

\* #release: the last waiter to leave aborts the operation.
Abandoned(o, left) == Waiters(o) # {} /\ Waiters(o) \subseteq left

\* abortOnce for every request of S.  A waiter of a shared operation leaves it
\* at once, any other request waits for the engine to notice.
AbortAll(S, reason) ==
    LET hit == {r \in S : req[r].state = "waiting" /\ req[r].reason = "none"}
        left == {r \in hit : req[r].kind \in Coalesced}
        aborted == {o \in Ops : \/ op[o].shared /\ Abandoned(o, left)
                                \/ ~op[o].shared /\ Waiters(o) \cap hit # {}}
    IN  /\ req' = [r \in Reqs |->
              IF r \in left THEN Ended(FALSE)
              ELSE IF r \in hit THEN [req[r] EXCEPT !.reason = reason] ELSE req[r]]
        /\ op' = [o \in Ops |-> IF o \in aborted
                                THEN [op[o] EXCEPT !.shared = FALSE, !.aborted = TRUE]
                                ELSE op[o]]

\* Mutant of Stale: only requests about the changed document are aborted.
StaleByDocument(D, W) ==
    {r \in Reqs : req[r].doc # None /\ req[r].kind \notin WorkspaceScoped /\ req[r].doc \in D}

\* cancelDocument and cancelWorkspace, for the documents D and the workspaces W.
Stale(D, W) ==
    {r \in Reqs : req[r].doc # None /\ IF req[r].kind \in WorkspaceScoped
                                       THEN WorkspaceOf[req[r].doc] \in W
                                       ELSE req[r].doc \in D}

\* The operation that a coalesced request finds under its key.
Joins(r, d, k) ==
    {o \in Ops : /\ op[o].shared /\ op[o].kind = k /\ op[o].key = Position[r]
                 /\ op[o].doc = d /\ op[o].version = doc[d].version}

Created(r, d, k) ==
    [phase |-> IF k = "references" THEN "cache" ELSE "executing",
     kind |-> k, key |-> Position[r], doc |-> d,
     version |-> doc[d].version, text |-> doc[d].text, stamp |-> Stamp(WorkspaceOf[d]),
     shared |-> k \in Coalesced, aborted |-> FALSE, awaits |-> {}]

Waiting(d, k, o) == [state |-> "waiting", kind |-> k, doc |-> d, version |-> doc[d].version,
                     reason |-> "none", op |-> o, value |-> FALSE]

\* run: join the operation under way or start one.
Start(r, d, k) ==
    LET free == {o \in Ops : op[o] = Free}
        joined == IF k \in Coalesced THEN Joins(r, d, k) ELSE {}
        o == CHOOSE x \in IF joined # {} THEN joined ELSE free : TRUE
    IN  /\ running /\ req[r].state = "idle" /\ doc[d].open
        /\ joined # {} \/ free # {}
        /\ op' = IF joined # {} THEN op ELSE [op EXCEPT ![o] = Created(r, d, k)]
        /\ req' = [req EXCEPT ![r] = Waiting(d, k, o)]
        /\ UNCHANGED <<inputs, running, diag, shown>>

\* The client cancels a request.
Cancel(r) ==
    /\ req[r].state = "waiting" /\ req[r].reason = "none"
    /\ AbortAll({r}, "client-cancelled")
    /\ UNCHANGED <<inputs, running, diag, shown>>

\* What run makes of the operation's result for one waiter: clientCancelled,
\* isCurrent and the version are checked in turn.
Returned(r, result) ==
    /\ result = "ok" /\ req[r].reason = "none"
    /\ doc[req[r].doc].open /\ doc[req[r].doc].version = req[r].version

\* An operation settles: its waiters continue.
Settle(o, result) ==
    /\ req' = [r \in Reqs |-> IF r \in Waiters(o) THEN Ended(Returned(r, result)) ELSE req[r]]
    /\ op' = [op EXCEPT ![o] = Free]
    /\ UNCHANGED <<inputs, running, shown>>

\* semantic.cachedReferences answers or fails.
CacheSettles(o, result) ==
    /\ op[o].phase = "cache"
    /\ Settle(o, result)
    /\ UNCHANGED diag

\* A miss suspends the diagnostics.
CacheMiss(o) ==
    /\ op[o].phase = "cache"
    /\ diag' = Suspend(diag)
    /\ op' = [op EXCEPT ![o].phase = "suspending", ![o].awaits = Suspend(diag).settling]
    /\ UNCHANGED <<inputs, running, req, shown>>

\* Mutant of Quiesced: an aborted operation keeps the lease.
QuiescedKeepingLease(o) ==
    /\ op[o].phase = "suspending" /\ op[o].awaits \cap diag.settling = {}
    /\ IF op[o].aborted
       THEN Settle(o, "error") /\ UNCHANGED diag
       ELSE /\ op' = [op EXCEPT ![o].phase = "executing", ![o].awaits = {},
                                ![o].stamp = Stamp(WorkspaceOf[op[o].doc])]
            /\ UNCHANGED <<inputs, running, req, diag, shown>>

\* The diagnostics are quiet: search, unless the operation was aborted.
Quiesced(o) ==
    /\ op[o].phase = "suspending" /\ op[o].awaits \cap diag.settling = {}
    /\ IF op[o].aborted
       THEN Settle(o, "error") /\ diag' = Resume(diag, doc)
       ELSE /\ op' = [op EXCEPT ![o].phase = "executing", ![o].awaits = {},
                                ![o].stamp = Stamp(WorkspaceOf[op[o].doc])]
            /\ UNCHANGED <<inputs, running, req, diag, shown>>

\* The engine settles the call.
Answer(o, result) ==
    /\ op[o].phase = "executing"
    /\ Settle(o, result)
    /\ diag' = IF op[o].kind = "references" THEN Resume(diag, doc) ELSE diag

-----------------------------------------------------------------------------
(* Notifications.                                                          *)

Changes(w) == source[w] + resource[w]

\* A document's text changes: it is opened, edited or closed.
ChangeDocument(d, changed, g, told) ==
    LET w == WorkspaceOf[d]
    IN  /\ running /\ Changes(w) < MaxChanges
        /\ doc' = [doc EXCEPT ![d] = changed]
        /\ source' = [source EXCEPT ![w] = @ + 1]
        /\ AbortAll(Stale({d}, {w}), "content-modified")
        /\ diag' = Refresh(g, {w})
        /\ shown' = told
        /\ UNCHANGED <<resource, running>>

\* onDidOpen, and the onDidChangeContent that follows it: the client numbers
\* versions from the start again.
Open(d) ==
    /\ ~doc[d].open
    /\ \E uses \in BOOLEAN :
          ChangeDocument(d, [open |-> TRUE, version |-> 1, resources |-> uses,
                             text |-> source[WorkspaceOf[d]] + 1], diag, shown)

\* onDidChangeContent.
Edit(d) ==
    /\ doc[d].open
    /\ \E uses \in BOOLEAN :
          ChangeDocument(d, [open |-> TRUE, version |-> doc[d].version + 1, resources |-> uses,
                             text |-> source[WorkspaceOf[d]] + 1], diag, shown)

\* onDidClose; the diagnostics are cleared.
Close(d) ==
    /\ doc[d].open
    /\ ChangeDocument(d, Closed,
                      [diag EXCEPT !.task[d] = None, !.deferred = @ \ {d}],
                      [shown EXCEPT ![d] = [state |-> "none", seen |-> <<0, 0>>]])

\* onDidChangeWatchedFiles with sources or a dirty root, and
\* onDidChangeConfiguration for all workspaces.
ChangeSources(W) ==
    /\ running /\ \A w \in W : Changes(w) < MaxChanges
    /\ source' = [w \in Workspaces |-> IF w \in W THEN source[w] + 1 ELSE source[w]]
    /\ AbortAll(Stale({}, W), "content-modified")
    /\ diag' = Refresh(diag, W)
    /\ UNCHANGED <<doc, resource, running, shown>>

\* onDidChangeWatchedFiles with ArkUI resources only.
ChangeResources(w) ==
    /\ running /\ Changes(w) < MaxChanges
    /\ resource' = [resource EXCEPT ![w] = @ + 1]
    /\ AbortAll(Stale({}, {w}), "content-modified")
    /\ diag' = Update(diag, {d \in OpenDocs(doc) \cap In(w) : doc[d].resources}, doc)
    /\ UNCHANGED <<doc, source, running, shown>>

\* onShutdown: cancelAll and the diagnostics' dispose.
Shutdown ==
    /\ running /\ running' = FALSE
    /\ AbortAll(Reqs, "shutdown")
    /\ diag' = [diag EXCEPT !.disposed = TRUE, !.deferred = {}, !.dirty = {},
                            !.epoch = [w \in Workspaces |-> 0],
                            !.task = [d \in Docs |-> None]]
    /\ UNCHANGED <<inputs, shown>>

-----------------------------------------------------------------------------
\* The session as it starts, or later, when it is at rest with some documents
\* open and diagnosed: only differences of texts, counts and epochs matter, so
\* they may be numbered from there.
Init ==
    /\ doc \in [Docs -> {Closed} \cup [open : {TRUE}, version : {1}, resources : BOOLEAN,
                                      text : {0}]]
    /\ shown = [d \in Docs |-> [state |-> IF doc[d].open THEN "published" ELSE "none",
                                seen |-> <<0, 0>>]]
    /\ source = [w \in Workspaces |-> 0] /\ resource = [w \in Workspaces |-> 0]
    /\ running = TRUE
    /\ req = [r \in Reqs |-> [Ended(FALSE) EXCEPT !.state = "idle"]]
    /\ op = [o \in Ops |-> Free]
    /\ diag = [task |-> [d \in Docs |-> None], settling |-> {}, deferred |-> {},
               epoch |-> [w \in Workspaces |-> 0], dirty |-> {}, leases |-> 0,
               disposed |-> FALSE]

OpStep(o) == CacheMiss(o) \/ Quiesced(o)
             \/ \E x \in {"ok", "error"} : CacheSettles(o, x) \/ Answer(o, x)
DiagnosisStep(d) == DiagnosisStarts(d)
                    \/ \E x \in {"ok", "content-modified", "error"} : DiagnosisEnds(d, x)

Next ==
    \/ \E r \in Reqs, d \in Docs, k \in Methods : Start(r, d, k)
    \/ \E r \in Reqs : Cancel(r)
    \/ \E o \in Ops : OpStep(o)
    \/ \E d \in Docs : DiagnosisStep(d) \/ DiagnosisSettles(d)
    \/ \E W \in SUBSET Workspaces : RefreshFires(W)
    \/ \E d \in Docs : Open(d) \/ Edit(d) \/ Close(d)
    \/ \E W \in (SUBSET Workspaces) \ {{}} : ChangeSources(W)
    \/ \E w \in Workspaces : ChangeResources(w)
    \/ Shutdown

Spec == Init /\ [][Next]_vars

\* Timers fire and the engine settles every call.
Fairness ==
    /\ \A o \in Ops : WF_vars(OpStep(o))
    /\ \A d \in Docs : WF_vars(DiagnosisStep(d)) /\ WF_vars(DiagnosisSettles(d))
    /\ \A w \in Workspaces : WF_vars(\E W \in SUBSET Workspaces : w \in W /\ RefreshFires(W))

FairSpec == Spec /\ Fairness

-----------------------------------------------------------------------------
(* Properties.                                                             *)

Stamps == Nat \X Nat

DocType == [open : BOOLEAN, version : Nat, resources : BOOLEAN, text : Nat]
ReqType == [state : {"idle", "waiting", "done"}, kind : Kinds, doc : Docs \cup {None},
            version : Nat, op : Ops \cup {None},
            reason : {"none", "client-cancelled", "content-modified", "shutdown"},
            value : BOOLEAN]
OpType == [phase : {"free", "cache", "suspending", "executing"},
           kind : Kinds, key : {Position[r] : r \in Reqs} \cup {None},
           doc : Docs \cup {None}, version : Nat, text : Nat, stamp : Stamps,
           shared : BOOLEAN, aborted : BOOLEAN, awaits : SUBSET Docs]
TaskType == [started : BOOLEAN, epoch : Nat, version : Nat, text : Nat, seen : Stamps]
DiagType == [task : [Docs -> {None} \cup TaskType], settling : SUBSET Docs,
             deferred : SUBSET Docs, epoch : [Workspaces -> Nat],
             dirty : SUBSET Workspaces, leases : Nat, disposed : BOOLEAN]
ShownType == [state : {"none", "published", "failed"}, seen : Stamps]

\* The reference searches that suspended the diagnostics.
Searches == {o \in Ops : op[o].kind = "references" /\ op[o].phase \in {"suspending", "executing"}}

\* Every variable keeps its shape, and a lease on the diagnostics belongs to
\* exactly one reference search (suspensionCount).
TypeOK ==
    /\ doc \in [Docs -> DocType]
    /\ source \in [Workspaces -> Nat] /\ resource \in [Workspaces -> Nat]
    /\ running \in BOOLEAN
    /\ req \in [Reqs -> ReqType]
    /\ op \in [Ops -> OpType]
    /\ diag \in DiagType
    /\ shown \in [Docs -> ShownType]
    /\ diag.leases = Cardinality(Searches)

\* The step returns values of fresh operations only.
ReturnsFresh ==
    \A r \in Reqs : (req[r].state = "waiting" /\ req'[r].value) =>
        LET o == op[req[r].op] IN
        /\ o.text = doc[o.doc].text /\ doc[o.doc].open
        /\ o.kind \in WorkspaceScoped => o.stamp = Stamp(WorkspaceOf[o.doc])

\* A value that a request returns is one for the inputs of this moment: for the
\* document's text, also when a closed document was reopened under the same
\* version number, and with workspace scope for everything in the workspace,
\* also when the operation was started by another request (run, #coalescer).
AnswersAreFresh == [][ReturnsFresh]_vars

\* The step publishes diagnostics of the present inputs only.
PublishesCurrent ==
    \A d \in Docs : (shown'[d] # shown[d] /\ shown'[d].state = "published") =>
        /\ running /\ doc[d].open /\ diag.task[d].text = doc[d].text
        /\ Inputs(d, shown'[d].seen) = Inputs(d, Stamp(WorkspaceOf[d]))

\* Diagnostics that are published are those of the inputs of this moment, for an
\* open document of a session that runs.
PublicationsAreCurrent == [][PublishesCurrent]_vars

\* A shared operation is under way for as long as somebody waits for it and no
\* longer: it is aborted exactly when its last waiter left, no two share a key.
OperationsAreOwned ==
    /\ \A o \in Ops : op[o].shared <=> op[o].kind \in Coalesced /\ Waiters(o) # {}
    /\ \A o, p \in Ops :
          (op[o].shared /\ op[p].shared /\ op[o].kind = op[p].kind /\ op[o].key = op[p].key
             /\ op[o].doc = op[p].doc /\ op[o].version = op[p].version) => o = p

\* Every request settles.
EveryRequestSettles == \A r \in Reqs : (req[r].state = "waiting") ~> (req[r].state = "done")

Outdated(d) ==
    running /\ doc[d].open /\ (shown[d].state = "none"
       \/ Inputs(d, shown[d].seen) # Inputs(d, Stamp(WorkspaceOf[d])))

\* Whatever was superseded, suspended, deferred or invalidated on the way, an
\* open document is diagnosed for its last inputs, or the failure is logged.
DiagnosticsCatchUp == \A d \in Docs : Outdated(d) ~> ~Outdated(d)
=============================================================================
