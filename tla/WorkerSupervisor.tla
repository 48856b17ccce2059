-------------------------- MODULE WorkerSupervisor --------------------------
(***************************************************************************)
(* One RootSemanticWorkerSupervisor (the parent-thread owner of one root   *)
(* epoch), the two message channels to the worker thread, and the worker's *)
(* serial command loop.                                                    *)
(*                                                                         *)
(* The supervisor sends at most one command at a time on the serial lane   *)
(* (queue.active) and at most one `references` request on the detached     *)
(* lane.  Mutations go first and coalesce while they wait; a mutation      *)
(* revokes every read that was admitted before it.  A read is cancelled    *)
(* through a shared compare-and-swap cell that both threads see.           *)
(***************************************************************************)
EXTENDS Integers, Sequences, FiniteSets, SequencesExt, FiniteSetsExt

CONSTANTS
    Docs,               \* documents a client may open
    Files,              \* workspace files with change notifications
    Reqs,               \* concurrent request slots of the client
    Method,             \* [Reqs -> Methods]: what each slot asks for
    Target,             \* [Reqs -> Docs]: the document it asks about
    Weight,             \* [Reqs -> Nat]: bytes of the request's input
    TextSizes,          \* sizes of document texts
    DirtyFlags,         \* values of the rootDirty/configuration/resource flags
    Faults,             \* which of "hung", "quarantined", "dead" may happen
    SendMayFail,        \* may endpoint.send throw?
    MaxEdits,           \* bound on client mutations in a behaviour
    MaxQueuedMutationRecords,   \* 32 in the code
    MaxQueuedMutationDocuments, \* 32 in the code
    MaxTextBytes,       \* MAX_SEMANTIC_WORKER_TEXT_BYTES
    MaxFileChanges,     \* MAX_SEMANTIC_WORKER_FILE_CHANGES
    MaxSources,         \* SemanticWorkerPendingReads.maxSources
    MaxInputBytes,      \* SemanticWorkerPendingReads.maxInputBytes
    None

VARIABLES
    queue,      \* pending mutations and reads, the two lanes and their counters
    life,       \* disposal, failure and termination of the supervisor
    req,        \* the record, cancellation cell and outcome of every request
    edit,       \* what became of the promise of every client mutation
    inbox,      \* messages posted to the worker and not yet dispatched
    outbox,     \* messages posted by the worker and not yet received
    worker,     \* the worker thread: revision, documents, running requests
    client      \* the documents and files the editor really has

vars == <<queue, life, req, edit, inbox, outbox, worker, client>>

Methods == {"complete", "hover", "documentSymbols", "diagnose", "rename",
            "references", "semanticReadiness"}

\* REQUEST_CLASS and PRIORITY: completion 3 ... global -1.
Priority(m) ==
    CASE m = "complete" -> 3
      [] m = "hover" -> 2
      [] m = "documentSymbols" -> 1
      [] m = "diagnose" -> 0
      [] OTHER -> -1

Rank(r) == Priority(Method[r])
EditIds == 1 .. MaxEdits
ChangeKinds == {"created", "changed", "deleted"}

Changes == UNION {[S -> ChangeKinds] : S \in SUBSET Files}

Mutations ==
    [kind : {"open", "change", "close", "files"}, doc : Docs \cup {None},
     bytes : Nat, changes : Changes, dirty : BOOLEAN, edits : SUBSET EditIds]

ASSUME ConstantsAssumption ==
    /\ Method \in [Reqs -> Methods]
    /\ Target \in [Reqs -> Docs]
    /\ Weight \in [Reqs -> Nat]
    /\ TextSizes \subseteq Nat /\ DirtyFlags \subseteq BOOLEAN
    /\ Faults \subseteq {"hung", "quarantined", "dead"}
    /\ SendMayFail \in BOOLEAN
    /\ {MaxEdits, MaxQueuedMutationRecords, MaxQueuedMutationDocuments,
        MaxTextBytes, MaxFileChanges, MaxSources, MaxInputBytes} \subseteq Nat
    /\ None \notin Reqs \cup Docs
    /\ \A x \in Reqs \cup {None} : x \notin Mutations   \* records have identities

-----------------------------------------------------------------------------
(* Mutations.  `edits` are the client calls whose promise this record      *)
(* settles; the document version is the newest of them.                    *)

DocMutation(kind, d, bytes, e) ==
    [kind |-> kind, doc |-> d, bytes |-> bytes, changes |-> <<>>,
     dirty |-> FALSE, edits |-> {e}]

FilesMutation(changes, dirty, e) ==
    [kind |-> "files", doc |-> None, bytes |-> 0, changes |-> changes,
     dirty |-> dirty, edits |-> {e}]

Version(m) == Max(m.edits)
IsMutation(x) == x # None /\ x \notin Reqs

\* Mutant of CoalescingIndex: the URI of the tail record is not compared.
CoalescingIndexAnyDocument(pending, m) ==
    IF \/ pending = <<>> \/ m.kind = "close"
       \/ Last(pending).kind = "close" \/ (Last(pending).kind = "files") # (m.kind = "files")
    THEN 0 ELSE Len(pending)

\* findCoalescingMutation: the index of the record that absorbs m, or 0.
CoalescingIndex(pending, m) ==
    IF m.kind = "files"
    THEN IF pending # <<>> /\ Last(pending).kind = "files" THEN Len(pending) ELSE 0
    ELSE LET stops == {i \in DOMAIN pending : pending[i].kind = "files" \/ pending[i].doc = m.doc}
             stop == Max(stops \cup {0})
         IN  IF \/ stop = 0
                \/ pending[stop].kind \in {"files", "close"}
                \/ m.kind = "close"
             THEN 0 ELSE stop

\* mergeWorkspaceFileChange, with a previous kind present.
MergeChangeKind(previous, next) ==
    IF previous = "created" THEN IF next = "changed" THEN "created" ELSE next
    ELSE IF next = "created" THEN "changed" ELSE next

\* mergeWorkspaceInvalidations: flags are disjoined, kinds merged per file.
MergeChanges(previous, next) ==
    [f \in DOMAIN previous \cup DOMAIN next |->
        IF f \notin DOMAIN next THEN previous[f]
        ELSE IF f \notin DOMAIN previous THEN next[f]
        ELSE MergeChangeKind(previous[f], next[f])]

\* mergeDocumentMutations for documents, mergeWorkspaceInvalidations for files.
MergeMutations(p, m) ==
    IF m.kind = "files"
    THEN [m EXCEPT !.changes = MergeChanges(p.changes, m.changes),
                   !.dirty = p.dirty \/ m.dirty,
                   !.edits = p.edits \cup m.edits]
    ELSE [m EXCEPT !.kind = IF p.kind = "open" /\ m.kind = "change" THEN "open" ELSE m.kind,
                   !.edits = p.edits \cup m.edits]

\* mutationExceedsTransportBounds.
ExceedsTransport(m) ==
    m.bytes > MaxTextBytes \/ Cardinality(DOMAIN m.changes) > MaxFileChanges

-----------------------------------------------------------------------------
(* Pending reads: admission weights and the lane policy.                   *)

NoSources == [d \in Docs |-> 0]

\* SemanticWorkerPendingReads.add refuses a new source owner over the source
\* limit and any input over the byte limit.
Admits(q, r) ==
    /\ q.sources[Target[r]] = 0
         => Cardinality({d \in Docs : q.sources[d] > 0}) < MaxSources
    /\ q.readBytes + Weight[r] <= MaxInputBytes

AddRead(q, r) ==
    [q EXCEPT !.reads = Append(@, r), !.sources[Target[r]] = @ + 1,
              !.readBytes = @ + Weight[r]]

\* indexOf, of a read that is queued.
IndexOf(reads, r) == CHOOSE i \in DOMAIN reads : reads[i] = r

\* Mutant of ReleaseRead: the admission weight is not given back.
ReleaseReadKeepingWeight(q, r) ==
    [q EXCEPT !.reads = RemoveAt(@, IndexOf(@, r)), !.bypassed = IF @ = r THEN None ELSE @]

\* splice and #release.  The bypass mark names a record: once the record has
\* left the queue no later head is identical to it.
ReleaseRead(q, r) ==
    [q EXCEPT !.reads = RemoveAt(@, IndexOf(@, r)), !.sources[Target[r]] = @ - 1,
              !.readBytes = @ - Weight[r],
              !.bypassed = IF @ = r THEN None ELSE @]

\* SemanticWorkerPendingReads.drain.
DrainReads(q) ==
    [q EXCEPT !.reads = <<>>, !.sources = NoSources, !.readBytes = 0, !.bypassed = None]

\* The index of the first read of one of the classes S, 0 without one.
FirstOf(reads, S) ==
    LET found == {i \in DOMAIN reads : Rank(reads[i]) \in S}
    IN  IF found = {} THEN 0 ELSE Min(found)

\* The highest-class read ahead of the first queued global; ties go to the oldest.
BestAheadOfGlobal(reads) ==
    LET global == FirstOf(reads, {-1})
        end == IF global = 0 THEN Len(reads) ELSE global - 1
    IN  CHOOSE i \in 1 .. end :
            \A j \in 1 .. end : Rank(reads[j]) < Rank(reads[i])
                                \/ (Rank(reads[j]) = Rank(reads[i]) /\ i <= j)

\* Mutant of TakeNext: the bypassed head is not remembered.
TakeNextUnmarked(reads, detached, bypassed) ==
    LET i == FirstOf(reads, 1 .. 3)
    IN  [request |-> IF detached THEN IF i = 0 THEN None ELSE reads[i]
                     ELSE IF Rank(reads[1]) < 0 THEN reads[1]
                     ELSE reads[BestAheadOfGlobal(reads)],
         bypassed |-> None]

\* takeNextSemanticWorkerRequest: the read to run (or None) and the head that
\* it bypassed (or None).
TakeNext(reads, detached, bypassed) ==
    LET oldest == reads[1]
    IN  IF detached
        THEN LET i == FirstOf(reads, 1 .. 3)
             IN  [request |-> IF i = 0 THEN None ELSE reads[i],
                  bypassed |-> IF oldest = bypassed THEN bypassed ELSE None]
        ELSE IF Rank(oldest) < 0 \/ oldest = bypassed
        THEN [request |-> oldest, bypassed |-> None]
        ELSE LET best == reads[BestAheadOfGlobal(reads)]
             IN  [request |-> best, bypassed |-> IF best = oldest THEN None ELSE oldest]

\* Mutant of PumpOnce: a mutation does not wait for the active command.
PumpOnceOverlapping(q) ==
    IF q.mutations # <<>>
    THEN [q EXCEPT !.active = Head(q.mutations), !.mutations = Tail(@),
                   !.bytes = @ - Head(q.mutations).bytes]
    ELSE IF q.active # None \/ q.reads = <<>> THEN q
    ELSE LET next == TakeNext(q.reads, q.detached # None, q.bypassed)
         IN  IF next.request = None THEN q
             ELSE IF Method[next.request] = "references"
             THEN [ReleaseRead(q, next.request) EXCEPT !.detached = next.request]
             ELSE [ReleaseRead(q, next.request) EXCEPT !.active = next.request]

\* One iteration of #pump up to endpoint.send.  An empty read queue clears the
\* bypass mark, as take() returns {} for it.
PumpOnce(q) ==
    IF q.active # None THEN q
    ELSE IF q.mutations # <<>>
    THEN [q EXCEPT !.active = Head(q.mutations), !.mutations = Tail(@),
                   !.bytes = @ - Head(q.mutations).bytes]
    ELSE IF q.reads = <<>> THEN [q EXCEPT !.bypassed = None]
    ELSE LET next == TakeNext(q.reads, q.detached # None, q.bypassed)
             marked == [q EXCEPT !.bypassed = next.bypassed]
         IN  IF next.request = None THEN marked
             ELSE IF Method[next.request] = "references"
             THEN [ReleaseRead(marked, next.request) EXCEPT !.detached = next.request]
             ELSE [ReleaseRead(marked, next.request) EXCEPT !.active = next.request]

\* #pump: after a detached reference is sent the serial lane is filled too.
Pump(q) ==
    LET p == PumpOnce(q)
    IN  IF p.detached # q.detached THEN PumpOnce(p) ELSE p

\* What the pump sent, in order: a detached reference precedes a serial command.
Commands(q, p) ==
    (IF p.detached # q.detached THEN <<p.detached>> ELSE <<>>)
    \o (IF p.active # q.active THEN <<p.active>> ELSE <<>>)

\* wireMutation and wireRequest.
Wire(q, rq, c) ==
    IF c \in Reqs
    THEN [type |-> "request", id |-> c, required |-> q.applied, version |-> rq[c].version]
    ELSE [type |-> "mutation", revision |-> q.applied + 1, mutation |-> c]

Wires(q, rq, cmds) == [i \in DOMAIN cmds |-> Wire(q, rq, cmds[i])]

MarkSent(q, rq, cmds) ==
    [r \in Reqs |-> IF r \in ToSet(cmds)
                    THEN [rq[r] EXCEPT !.state = "sent", !.required = q.applied]
                    ELSE rq[r]]

-----------------------------------------------------------------------------
(* Cancellation cells and settlement.                                      *)

\* cancelSemanticWorkerRequest: compare-and-swap, the first reason wins.
Cancel(rq, S, reason) ==
    [r \in Reqs |-> IF r \in S /\ rq[r].cell = "active"
                    THEN [rq[r] EXCEPT !.cell = reason] ELSE rq[r]]

\* cancellationError.
CancellationError(cell) ==
    IF cell \in {"client-cancelled", "content-modified"} THEN cell ELSE "worker-unavailable"

\* completion.resolve / completion.reject.
Settle(rq, S, Outcome(_)) ==
    [r \in Reqs |-> IF r \in S THEN [rq[r] EXCEPT !.state = "settled", !.outcome = Outcome(r)]
                    ELSE rq[r]]

\* #settleActiveFailure and #settleDetachedFailure: a client or content
\* cancellation that won the cell is reported instead of the failure.
SettleFailure(rq, S, failure) ==
    Settle(rq, S, LAMBDA r: IF rq[r].cell \in {"client-cancelled", "content-modified"}
                            THEN CancellationError(rq[r].cell) ELSE failure)

\* The requests that occupy a lane.
Running(q) == {q.active, q.detached} \cap Reqs
PendingEdits(q) == UNION {m.edits : m \in ToSet(q.mutations)}
ActiveEdits(q) == IF IsMutation(q.active) THEN q.active.edits ELSE {}

SettleEdits(ed, S, status) == [e \in EditIds |-> IF e \in S THEN status ELSE ed[e]]

\* Both lanes are emptied together; the mutant leaves the detached one.
ClearSerialLane(q) == [q EXCEPT !.active = None]
ClearLanes(q) == [q EXCEPT !.active = None, !.detached = None]
DrainAll(q) == [DrainReads(q) EXCEPT !.mutations = <<>>, !.bytes = 0]

\* #terminate (unlisten is synchronous) and #disposeDeadline, each started once.
Terminating(l) == [l EXCEPT !.listening = FALSE,
                            !.term = IF @ = "no" THEN "asked" ELSE @]
NeverArmed(l) == l   \* mutant of Armed
Armed(l) == [l EXCEPT !.deadline = IF @ = "no" THEN "armed" ELSE @]

ShutLife(failure, cause, terminal) ==
    [Armed(Terminating(life)) EXCEPT !.disposed = TRUE, !.failure = failure,
                                     !.cause = cause, !.failWait = ~terminal]

\* The body shared by #fail and #beginFatalShutdown: revoke, drain, terminate.
\* An endpoint that is already gone settles the lanes at once; otherwise they
\* settle when termination or the deadline ends (SettleAfterTermination).
ShutDown(q, rq, ed, failure, cause, terminal) ==
    LET cancelled == Cancel(rq, Running(q) \cup ToSet(q.reads), "supervisor-disposing")
        drained == Settle(cancelled, ToSet(q.reads), LAMBDA r: failure)
    IN  /\ life' = ShutLife(failure, cause, terminal)
        /\ IF terminal
           THEN /\ req' = SettleFailure(drained, Running(q), failure)
                /\ edit' = SettleEdits(ed, PendingEdits(q) \cup ActiveEdits(q), "rejected")
                /\ queue' = ClearLanes(DrainAll(q))
           ELSE /\ req' = drained
                /\ edit' = SettleEdits(ed, PendingEdits(q), "rejected")
                /\ queue' = DrainAll(q)

\* #pump as the last step of a handler that left queue q and records rq, ed.
\* A throwing endpoint.send turns into #fail with the command already in its lane.
PumpAfter(q, rq, ed) ==
    \/ \E p \in {IF life.disposed THEN q ELSE Pump(q)} : \E cmds \in {Commands(q, p)} :
           /\ queue' = p
           /\ req' = MarkSent(q, rq, cmds)
           /\ inbox' = inbox \o Wires(q, rq, cmds)
           /\ edit' = ed
           /\ UNCHANGED life
    \/ /\ SendMayFail /\ ~life.disposed
       /\ \E p \in {PumpOnce(q), Pump(q)} : \E cmds \in {Commands(q, p)} :
            /\ cmds # <<>>
            /\ inbox' = inbox \o Wires(q, rq, Front(cmds))
            /\ ShutDown(p, MarkSent(q, rq, cmds), ed, "worker-unavailable", "send", FALSE)

-----------------------------------------------------------------------------
(* The supervisor's operations.                                            *)

Available == life.failure = "none" /\ ~life.disposed

NextEdit == Cardinality({e \in EditIds : edit[e] # "none"}) + 1

\* mutate, from admission to the trailing #pump.
Mutate(m) ==
    LET e == Max(m.edits)
        index == CoalescingIndex(queue.mutations, m)
        next == IF index = 0 THEN m ELSE MergeMutations(queue.mutations[index], m)
        bytes == queue.bytes + next.bytes
                 - (IF index = 0 THEN 0 ELSE queue.mutations[index].bytes)
        documents == Cardinality({i \in DOMAIN queue.mutations :
                                     queue.mutations[i].kind # "files"})
                     + (IF m.kind # "files" /\ index = 0 THEN 1 ELSE 0)
        records == Len(queue.mutations) + (IF index = 0 THEN 1 ELSE 0)
        refused == \/ ExceedsTransport(m)
                   \/ ExceedsTransport(next)
                   \/ documents > MaxQueuedMutationDocuments
                   \/ records > MaxQueuedMutationRecords
                   \/ bytes > MaxTextBytes
    IN  /\ Available
        /\ IF refused
           THEN /\ ShutDown(queue, req, [edit EXCEPT ![e] = "rejected"],
                            "restart-required", "overflow", FALSE)
                /\ UNCHANGED inbox
           ELSE LET revoked == Running(queue) \cup ToSet(queue.reads)
                    cancelled == Cancel(req, revoked, "content-modified")
                    settled == Settle(cancelled, ToSet(queue.reads),
                                      LAMBDA r: "content-modified")
                    q == [DrainReads(queue) EXCEPT
                            !.generation = @ + 1,
                            !.bytes = bytes,
                            !.mutations = IF index = 0 THEN Append(@, next)
                                          ELSE [@ EXCEPT ![index] = next]]
                IN  PumpAfter(q, settled, [edit EXCEPT ![e] = "pending"])
        /\ UNCHANGED <<outbox, worker>>

\* The editor opens, changes or closes a document; the proxy mutates the worker.
EditDocument(d) ==
    /\ NextEdit \in EditIds
    /\ \E bytes \in TextSizes, kind \in {"open", "change", "close"} :
         /\ (kind = "open") <=> (client.docs[d] = 0)
         /\ Mutate(DocMutation(kind, d, IF kind = "close" THEN 0 ELSE bytes, NextEdit))
         /\ client' = [client EXCEPT !.docs[d] = IF kind = "close" THEN 0 ELSE NextEdit]

\* Watched files change on disk and one batch of them is reported.
ChangeFiles(S) ==
    /\ NextEdit \in EditIds
    /\ \E kinds \in [S -> ChangeKinds], dirty \in DirtyFlags :
         /\ \A f \in S : (kinds[f] = "created") <=> ~client.files[f]
         /\ S # {} \/ dirty
         /\ Mutate(FilesMutation(kinds, dirty, NextEdit))
         /\ client' = [client EXCEPT
                !.files = [f \in Files |-> IF f \in S THEN kinds[f] # "deleted" ELSE @[f]],
                !.dirty = @ \/ dirty]

\* request: a refused admission rejects at once, an admitted one pumps.
Request(r) ==
    /\ Available
    /\ req[r].state \in {"idle", "settled"}
    /\ LET fresh == [req EXCEPT ![r] =
                        [state |-> "queued", version |-> client.docs[Target[r]],
                         generation |-> queue.generation, cell |-> "active",
                         required |-> 0, outcome |-> "none"]]
       IN  IF Admits(queue, r)
           THEN PumpAfter(AddRead(queue, r), fresh, edit)
           ELSE /\ req' = Settle(fresh, {r}, LAMBDA x: "queue-overflow")
                /\ UNCHANGED <<queue, life, edit, inbox>>
    /\ UNCHANGED <<outbox, worker, client>>

\* #cancelRequest by the client: a queued read settles now, a sent one when
\* its response arrives.
CancelRequest(r) ==
    /\ req[r].state \in {"queued", "sent"}
    /\ LET cancelled == Cancel(req, {r}, "client-cancelled")
       IN  IF r \in ToSet(queue.reads)
           THEN /\ queue' = ReleaseRead(queue, r)
                /\ req' = Settle(cancelled, {r}, LAMBDA x: CancellationError(cancelled[x].cell))
           ELSE /\ req' = cancelled
                /\ UNCHANGED queue
    /\ UNCHANGED <<life, edit, inbox, outbox, worker, client>>

\* Mutant of ReceiveResponse: the cell is not looked at again.
ReceiveResponseUnchecked(m, r) ==
    LET q == IF r = queue.detached THEN [queue EXCEPT !.detached = None]
             ELSE [queue EXCEPT !.active = None]
    IN  PumpAfter(q, Settle(req, {r}, LAMBDA x: IF m.ok THEN "ok" ELSE m.code), edit)

\* #settleRequest with a matching response m for request r.
ReceiveResponse(m, r) ==
    LET q == IF r = queue.detached THEN [queue EXCEPT !.detached = None]
             ELSE [queue EXCEPT !.active = None]
        outcome == IF req[r].cell # "active" THEN CancellationError(req[r].cell)
                   ELSE IF m.ok THEN "ok" ELSE m.code
    IN  PumpAfter(q, Settle(req, {r}, LAMBDA x: outcome), edit)

\* Mutant of ReceiveAck: everything queued is reported as applied.
ReceiveAckForAll(m) ==
    PumpAfter([queue EXCEPT !.active = None, !.applied = m.revision],
              req, SettleEdits(edit, ActiveEdits(queue) \cup PendingEdits(queue), "resolved"))

\* A mutation acknowledgement for the active mutation.
ReceiveAck(m) ==
    PumpAfter([queue EXCEPT !.active = None, !.applied = m.revision],
              req, SettleEdits(edit, ActiveEdits(queue), "resolved"))

\* The command that message m answers, or None: #receive and #settleRequest
\* compare identities, revisions and document versions.
AnsweredBy(m) ==
    IF m.type = "ack"
    THEN IF IsMutation(queue.active) /\ m.revision = queue.applied + 1
         THEN queue.active ELSE None
    ELSE IF /\ m.id \in Running(queue)
            /\ m.required = req[m.id].required /\ m.version = req[m.id].version
         THEN m.id ELSE None

\* #receive: a message that answers no lane is a protocol failure.
Receive ==
    /\ outbox # <<>> /\ life.listening
    /\ LET m == Head(outbox)
       IN  IF AnsweredBy(m) = None
           THEN /\ ShutDown(queue, req, edit, "worker-unavailable", "protocol", FALSE)
                /\ UNCHANGED inbox
           ELSE IF m.type = "ack" THEN ReceiveAck(m) ELSE ReceiveResponse(m, m.id)
    /\ outbox' = Tail(outbox)
    /\ UNCHANGED <<worker, client>>

\* The endpoint reports the worker's error or exit.
EndpointExit ==
    /\ worker.mode \in {"dead", "fatal"} /\ life.listening
    /\ ShutDown(queue, req, edit, "worker-unavailable", "exit", TRUE)
    /\ UNCHANGED <<inbox, outbox, worker, client>>

\* The rejected lanes of a non-terminal failure, once termination or the
\* shared deadline is over.
SettleAfterTermination ==
    /\ life.failWait
    /\ life.term = "done" \/ life.deadline = "fired"
    /\ req' = SettleFailure(req, Running(queue), life.failure)
    /\ edit' = SettleEdits(edit, ActiveEdits(queue), "rejected")
    /\ queue' = ClearLanes(queue)
    /\ life' = [life EXCEPT !.failWait = FALSE]
    /\ UNCHANGED <<inbox, outbox, worker, client>>

TerminateDone ==
    /\ life.term = "asked"
    /\ life' = [life EXCEPT !.term = "done"]
    /\ UNCHANGED <<queue, req, edit, inbox, outbox, worker, client>>

DeadlineFires ==
    /\ life.deadline = "armed"
    /\ life' = [life EXCEPT !.deadline = "fired"]
    /\ UNCHANGED <<queue, req, edit, inbox, outbox, worker, client>>

Busy == queue.active # None \/ queue.detached # None

DisposeLife == [Armed(IF Busy THEN life ELSE Terminating(life)) EXCEPT
                    !.disposed = TRUE,
                    !.dispose = IF Busy THEN "draining" ELSE "terminating"]

\* dispose: revoke and drain, then wait for the lanes that were busy.
Dispose ==
    /\ life.dispose = "no"
    /\ LET cancelled == Cancel(req, Running(queue) \cup ToSet(queue.reads),
                               "supervisor-disposing")
       IN  req' = Settle(cancelled, ToSet(queue.reads), LAMBDA r: "worker-unavailable")
    /\ edit' = SettleEdits(edit, PendingEdits(queue), "rejected")
    /\ queue' = DrainAll(queue)
    /\ life' = DisposeLife
    /\ UNCHANGED <<inbox, outbox, worker, client>>

\* #disposeActive after both lane terminals resolved.
DisposeDrained ==
    /\ life.dispose = "draining"
    /\ ~Busy
    /\ life' = [Terminating(life) EXCEPT !.dispose = "terminating"]
    /\ UNCHANGED <<queue, req, edit, inbox, outbox, worker, client>>

\* #disposeActive when the deadline wins while a lane is still busy.
DisposeDeadline ==
    /\ life.dispose = "draining" /\ life.deadline = "fired"
    /\ Busy
    /\ req' = SettleFailure(req, Running(queue), "worker-unavailable")
    /\ edit' = SettleEdits(edit, ActiveEdits(queue), "rejected")
    /\ queue' = ClearLanes(queue)
    /\ life' = [Terminating(life) EXCEPT !.dispose = "done"]
    /\ UNCHANGED <<inbox, outbox, worker, client>>

\* #terminateWithinDeadline at the end of dispose.
DisposeDone ==
    /\ life.dispose = "terminating"
    /\ life.term = "done" \/ life.deadline = "fired"
    /\ life' = [life EXCEPT !.dispose = "done"]
    /\ UNCHANGED <<queue, req, edit, inbox, outbox, worker, client>>

-----------------------------------------------------------------------------
(* The worker thread.                                                      *)

View(w) == [docs |-> w.docs, files |-> w.files, dirty |-> w.dirty]

\* A terminal message of request j, computed from the inputs it saw.
Response(j, ok, code) ==
    [type |-> "response", id |-> j.id, required |-> j.required, version |-> j.version,
     ok |-> ok, code |-> code, from |-> j.from, to |-> View(worker)]

\* The worker's project members after a batch: a dirty root is enumerated anew
\* from disk; otherwise only `created` admits a file and only `deleted` drops one.
MembersAfter(files, m) ==
    IF m.dirty THEN client.files
    ELSE [f \in Files |->
            IF f \notin DOMAIN m.changes \/ m.changes[f] = "changed" THEN files[f]
            ELSE m.changes[f] = "created"]

\* applyMutation on the worker's documents and project members.
Applied(w, m) ==
    [w EXCEPT !.revision = @ + 1,
              !.applied = @ \cup m.edits,
              !.dirty = @ \/ m.dirty,
              !.files = MembersAfter(@, m),
              !.docs = [d \in Docs |-> IF d = m.doc
                                       THEN IF m.kind = "close" THEN 0 ELSE Version(m)
                                       ELSE @[d]]]

\* dispatch of a mutation: a revision that is not contiguous is fatal, a
\* quarantined runtime drops it without an acknowledgement.
DispatchMutation ==
    /\ worker.mode \in {"up", "quarantined"} /\ worker.run = None
    /\ inbox # <<>> /\ Head(inbox).type = "mutation"
    /\ LET m == Head(inbox)
       IN  IF worker.mode = "quarantined" THEN UNCHANGED <<worker, outbox>>
           ELSE IF m.revision # worker.revision + 1
           THEN worker' = [worker EXCEPT !.mode = "fatal"] /\ UNCHANGED outbox
           ELSE /\ worker' = Applied(worker, m.mutation)
                /\ outbox' = Append(outbox, [type |-> "ack", revision |-> m.revision])
    /\ inbox' = Tail(inbox)
    /\ UNCHANGED <<queue, life, req, edit, client>>

\* dispatch of a request up to the point where the engine runs it: a wrong
\* revision or document version is refused, `references` leaves the serial queue.
DispatchRequest ==
    /\ worker.mode \in {"up", "quarantined"} /\ worker.run = None
    /\ inbox # <<>> /\ Head(inbox).type = "request"
    /\ LET m == Head(inbox)
           job == [id |-> m.id, required |-> m.required, version |-> m.version,
                   from |-> View(worker)]
           refusal == IF worker.mode = "quarantined" \/ m.required # worker.revision
                      THEN "restart-required"
                      ELSE IF /\ Method[m.id] # "semanticReadiness"
                              /\ worker.docs[Target[m.id]] # m.version
                      THEN "content-modified" ELSE "none"
       IN  IF refusal # "none"
           THEN outbox' = Append(outbox, Response(job, FALSE, refusal)) /\ UNCHANGED worker
           ELSE /\ worker' = IF Method[m.id] = "references"
                             THEN [worker EXCEPT !.ref = job] ELSE [worker EXCEPT !.run = job]
                /\ UNCHANGED outbox
    /\ inbox' = Tail(inbox)
    /\ UNCHANGED <<queue, life, req, edit, client>>

\* answerRequest ends: the last checkpoint lets a result out only while the cell
\* is active; an engine error is classified by the cell (workerRequestErrorCode).
Answer(job, rest) ==
    /\ worker.mode \in {"up", "quarantined"} /\ job # None
    /\ \/ req[job.id].cell = "active" /\ outbox' = Append(outbox, Response(job, TRUE, "none"))
       \/ outbox' = Append(outbox, Response(job, FALSE,
                        IF req[job.id].cell = "active" THEN "internal-error"
                        ELSE CancellationError(req[job.id].cell)))
    /\ worker' = rest
    /\ UNCHANGED <<queue, life, req, edit, inbox, client>>

AnswerSerial == Answer(worker.run, [worker EXCEPT !.run = None])
AnswerDetached == Answer(worker.ref, [worker EXCEPT !.ref = None])

\* The thread stops answering, quarantines its compiler, or exits.
WorkerFault(f) ==
    /\ worker.mode = "up"
    /\ worker' = [worker EXCEPT !.mode = f]
    /\ UNCHANGED <<queue, life, req, edit, inbox, outbox, client>>

-----------------------------------------------------------------------------
Init ==
    /\ queue = [mutations |-> <<>>, bytes |-> 0, reads |-> <<>>, sources |-> NoSources,
                readBytes |-> 0, bypassed |-> None, active |-> None, detached |-> None,
                applied |-> 0, generation |-> 0]
    /\ life = [disposed |-> FALSE, failure |-> "none", cause |-> "none", listening |-> TRUE,
               term |-> "no", deadline |-> "no", failWait |-> FALSE, dispose |-> "no"]
    /\ req = [r \in Reqs |-> [state |-> "idle", version |-> 0, generation |-> 0,
                              cell |-> "active", required |-> 0, outcome |-> "none"]]
    /\ edit = [e \in EditIds |-> "none"]
    /\ inbox = <<>> /\ outbox = <<>>
    /\ client = [docs |-> [d \in Docs |-> 0], files |-> [f \in Files |-> TRUE], dirty |-> FALSE]
    /\ worker = [mode |-> "up", revision |-> 0, docs |-> client.docs, files |-> client.files,
                 dirty |-> FALSE, applied |-> {}, run |-> None, ref |-> None]

SupervisorStep ==
    \/ Receive \/ EndpointExit \/ SettleAfterTermination
    \/ TerminateDone \/ DeadlineFires
    \/ DisposeDrained \/ DisposeDeadline \/ DisposeDone

\* The worker's promise queue; a detached reference runs beside it.
SerialStep == DispatchMutation \/ DispatchRequest \/ AnswerSerial

Next ==
    \/ \E d \in Docs : EditDocument(d)
    \/ \E S \in SUBSET Files : ChangeFiles(S)
    \/ \E r \in Reqs : Request(r)
    \/ \E r \in Reqs : CancelRequest(r)
    \/ Dispose
    \/ SupervisorStep
    \/ SerialStep
    \/ AnswerDetached
    \/ \E f \in Faults : WorkerFault(f)

\* The event loop delivers messages and timers and the worker's loop answers.
\* A worker that stopped is disposed: its watchdog or fault event reaches the
\* host's onFailure, which retires every supervisor of that worker.
\* Each condition names an action by the variable only that action changes so.
Fairness ==
    /\ WF_outbox(outbox # <<>> /\ life.listening /\ outbox' = Tail(outbox))
    /\ WF_life(\/ /\ worker.mode \in {"dead", "fatal"} /\ life.listening
                  /\ life' = ShutLife("worker-unavailable", "exit", TRUE)
               \/ /\ life.failWait /\ (life.term = "done" \/ life.deadline = "fired")
                  /\ life' = [life EXCEPT !.failWait = FALSE]
               \/ TerminateDone \/ DeadlineFires \/ DisposeDrained \/ DisposeDone
               \/ /\ life.dispose = "draining" /\ life.deadline = "fired" /\ Busy
                  /\ life' = [Terminating(life) EXCEPT !.dispose = "done"])
    /\ WF_inbox(/\ worker.mode \in {"up", "quarantined"} /\ worker.run = None
                /\ inbox # <<>> /\ inbox' = Tail(inbox))
    /\ WF_worker(/\ worker.mode \in {"up", "quarantined"} /\ worker.run # None
                 /\ worker' = [worker EXCEPT !.run = None])
    /\ WF_worker(/\ worker.mode \in {"up", "quarantined"} /\ worker.ref # None
                 /\ worker' = [worker EXCEPT !.ref = None])
    /\ WF_life(worker.mode # "up" /\ life.dispose = "no" /\ life' = DisposeLife)

Spec == Init /\ [][Next]_vars
FairSpec == Spec /\ Fairness

-----------------------------------------------------------------------------
(* Properties.                                                             *)

Cells == {"active", "client-cancelled", "content-modified", "supervisor-disposing"}
Codes == {"none", "content-modified", "client-cancelled", "worker-unavailable",
          "restart-required", "internal-error", "queue-overflow"}

Jobs == [id : Reqs, required : 0 .. MaxEdits, version : 0 .. MaxEdits,
         from : [docs : [Docs -> 0 .. MaxEdits], files : [Files -> BOOLEAN], dirty : BOOLEAN]]

\* Every part of the state keeps its shape: queue and lane contents, the
\* supervisor's life cycle, the request records, and both ends of the channel.
TypeOK ==
    /\ queue.mutations \in Seq(Mutations) /\ queue.bytes \in Nat
    /\ queue.reads \in Seq(Reqs) /\ queue.sources \in [Docs -> Nat]
    /\ queue.readBytes \in Nat /\ queue.bypassed \in Reqs \cup {None}
    /\ queue.active \in Reqs \cup Mutations \cup {None}
    /\ queue.detached \in {r \in Reqs : Method[r] = "references"} \cup {None}
    /\ queue.applied \in 0 .. MaxEdits /\ queue.generation \in 0 .. MaxEdits
    /\ life \in [disposed : BOOLEAN,
                 failure : {"none", "worker-unavailable", "restart-required"},
                 cause : {"none", "overflow", "send", "exit", "protocol"},
                 listening : BOOLEAN, term : {"no", "asked", "done"},
                 deadline : {"no", "armed", "fired"}, failWait : BOOLEAN,
                 dispose : {"no", "draining", "terminating", "done"}]
    /\ req \in [Reqs -> [state : {"idle", "queued", "sent", "settled"},
                         version : 0 .. MaxEdits, generation : 0 .. MaxEdits, cell : Cells,
                         required : 0 .. MaxEdits, outcome : Codes \cup {"ok"}]]
    /\ edit \in [EditIds -> {"none", "pending", "resolved", "rejected"}]
    /\ client \in [docs : [Docs -> 0 .. MaxEdits], files : [Files -> BOOLEAN],
                   dirty : BOOLEAN]
    /\ worker.mode \in {"up", "hung", "quarantined", "dead", "fatal"}
    /\ worker.revision \in 0 .. MaxEdits
    /\ worker.run \in Jobs \cup {None} /\ worker.ref \in Jobs \cup {None}

\* A request that resolves in this step was computed from one input state, the
\* editor's own at this moment.
PublishesFresh ==
    \A r \in Reqs :
        (req[r].state = "sent" /\ req'[r].state = "settled" /\ req'[r].outcome = "ok")
            => LET m == Head(outbox)
               IN  m.from = m.to /\ m.to.docs = client.docs /\ m.to.dirty = client.dirty

\* A request that resolves was computed from one input state, and that state is
\* what the editor has at the moment the result is published: no document and no
\* dirty flag changed under it, on either lane (#invalidateRequests, #settleRequest).
\* The files the worker knew did not change either, but the disk may be ahead of them.
FreshResults == [][PublishesFresh]_vars

Quiet == Available /\ queue.mutations = <<>> /\ ~IsMutation(queue.active)

\* When the supervisor is usable and has no mutation left to send or receive,
\* the worker's documents and dirty flags equal the editor's and it knows no
\* file that is gone, whatever was coalesced on the way (mutate,
\* findCoalescingMutation, mergeDocumentMutations, mergeWorkspaceInvalidations).
Converged ==
    Quiet => /\ worker.docs = client.docs /\ worker.dirty = client.dirty
             /\ \A f \in Files : worker.files[f] => client.files[f]

\* Coalescing loses no file change: a quiet worker also knows every file that
\* exists (mergeWorkspaceFileChange; the store admits members on `created` only).
MembersConverged == Quiet => worker.files = client.files

\* A healthy worker and its supervisor never accuse each other: no message
\* arrives that answers nothing, and no mutation arrives out of sequence.
NoProtocolFault == life.cause # "protocol" /\ worker.mode # "fatal"

\* A promise that is not settled is owned by exactly the queue or lane that
\* will settle it, and a finished dispose leaves none behind.
NothingOrphaned ==
    /\ \A r \in Reqs :
        /\ req[r].state = "queued" <=> r \in ToSet(queue.reads)
        /\ req[r].state = "sent" <=> r \in Running(queue)
    /\ {e \in EditIds : edit[e] = "pending"} = PendingEdits(queue) \cup ActiveEdits(queue)
    /\ life.dispose = "done" => /\ queue = ClearLanes(DrainAll(queue))
                                /\ ~life.listening

\* The sum of a sequence of numbers.
Total(s) ==
    LET sum[n \in 0 .. Len(s)] == IF n = 0 THEN 0 ELSE sum[n - 1] + s[n]
    IN  sum[Len(s)]

\* The incremental counters of the two queues equal what they count, so the
\* byte and source limits cannot drift (#queuedMutationTextBytes, #sources, #bytes).
QueueAccounting ==
    /\ queue.bytes = Total([i \in DOMAIN queue.mutations |-> queue.mutations[i].bytes])
    /\ queue.readBytes = Total([i \in DOMAIN queue.reads |-> Weight[queue.reads[i]]])
    /\ \A d \in Docs : queue.sources[d] =
            Cardinality({i \in DOMAIN queue.reads : Target[queue.reads[i]] = d})

\* A read waiting in the queue was admitted after the last mutation: the
\* stale-generation branch of #pump is never taken.
QueuedReadsAreCurrent ==
    \A r \in ToSet(queue.reads) : req[r].generation = queue.generation

\* The state keeps its shape, the counters that limit the queues are exact, and
\* what waits in them is current (#pump, #enqueueRequest, #enqueueMutation).
QueuesAreSound == TypeOK /\ QueueAccounting /\ QueuedReadsAreCurrent

\* A mutation promise resolves only after the worker applied it.
ResolvedEditsAreApplied ==
    \A e \in EditIds : edit[e] = "resolved" => e \in worker.applied

\* Every request settles: no class of reads starves another, and no worker
\* fault, failed send or disposal leaves a request pending.
EveryRequestSettles ==
    \A r \in Reqs : (req[r].state \in {"queued", "sent"}) ~> (req[r].state = "settled")

\* Every accepted mutation's promise settles.
EveryEditSettles ==
    \A e \in EditIds : (edit[e] = "pending") ~> (edit[e] \in {"resolved", "rejected"})

\* dispose() always completes, also against a hung worker.
DisposeEnds == (life.dispose # "no") ~> (life.dispose = "done")
=============================================================================
