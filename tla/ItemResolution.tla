--------------------------- MODULE ItemResolution ---------------------------
(***************************************************************************)
(* Completion items and quick fixes are listed without their details and   *)
(* resolved later, when the document may have changed, or have been closed *)
(* and opened again under the same version number.  The handles live in    *)
(* bounded stores; resolutions of completions wait in a queue per          *)
(* workspace so that one at a time reaches the worker.                     *)
(*                                                                         *)
(* All documents belong to one workspace.  Contents are numbers; every     *)
(* edit, every write of the disk and every opening gives a new one.        *)
(* Coalescing of equal requests is modelled in LanguageSession.            *)
(***************************************************************************)
EXTENDS Integers, Sequences, FiniteSets, SequencesExt

CONSTANTS
    Docs,
    Requests,        \* completionItem/resolve and codeAction/resolve requests
    MaxRecords,      \* MAX_COMPLETION_RESOLUTIONS of the store, MAX_CODE_ACTION_RESOLUTIONS
    MaxPending,      \* MAX_COMPLETION_RESOLUTIONS of the queue
    MaxBytes,        \* MAX_CODE_ACTION_RESOLUTION_BYTES
    Sizes,           \* sizes of code-action records
    MaxItems,        \* bound: handles issued
    MaxEdits         \* bound: changes of documents

VARIABLES
    doc,         \* [Docs -> [open, version, content]]
    issued,      \* the handles issued, oldest first
    store,       \* [completions, actions: handles in their stores, oldest first]
    recordBytes, \* bytes of the active code-action records
    req,
    active,      \* the resolution that owns the worker, or NoRequest
    waiting,
    pending,     \* #pending
    closed,      \* the server is shut down
    edits

itemVars == <<doc, issued, store, recordBytes, req, active, waiting, pending, closed, edits>>

NoRequest == "none"
Handles == 1 .. Len(issued)
Content(d) == doc[d].content
Idle == [pc |-> "idle", handle |-> 0, version |-> 0, content |-> 0, aborted |-> FALSE, value |-> 0]

Init ==
    /\ doc = [d \in Docs |-> [open |-> FALSE, version |-> 0, content |-> 1]]
    /\ issued = <<>>
    /\ store = [completions |-> <<>>, actions |-> <<>>]
    /\ recordBytes = 0
    /\ req = [r \in Requests |-> Idle]
    /\ active = NoRequest /\ waiting = <<>> /\ pending = 0
    /\ closed = FALSE
    /\ edits = 0

\* The bytes of the code actions among the handles that still hold a record,
\* each byte a pair of its handle and its place in the record.
RecordBytes(handles) ==
    {b \in handles \X (1 .. MaxBytes) : issued[b[1]].record /\ b[2] <= issued[b[1]].size}
ActiveBytes(handles) == Cardinality(RecordBytes(handles))

Elements(s) == {s[i] : i \in DOMAIN s}

(* ----------------------------- The documents --------------------------- *)

\* Mutant: only the code-action store is told of a change.
OfM(d) == {h \in Handles : issued[h].doc = d /\ issued[h].kind = "action"}

\* The handles a change of the document makes useless, in both stores.
Of(d) == {h \in Handles : issued[h].doc = d}

\* forgetDocument of both stores: a completion loses its record, a code
\* action leaves a stale entry and gives back its bytes.
Forget(handles) ==
    /\ issued' = [h \in Handles |-> [issued[h] EXCEPT !.record = @ /\ h \notin handles]]
    /\ recordBytes' = recordBytes - ActiveBytes(handles \cap Elements(store.actions))

Running == {r \in Requests : req[r].pc \notin {"idle", "settled"}}
Settled(r) == [req[r] EXCEPT !.pc = "settled"]

\* What an abort makes of a request: one that waits in the queue leaves it.
Aborted(r) == IF req[r].pc = "waiting" THEN Settled(r) ELSE [req[r] EXCEPT !.aborted = TRUE]

\* What is left of the queue without the requests of S, in its order.
Remaining(S) ==
    {rest \in BoundedSeq(Elements(waiting), Len(waiting)) :
        /\ Elements(rest) = Elements(waiting) \ S
        /\ \A i, j \in DOMAIN rest : i < j =>
              \E k, l \in DOMAIN waiting : k < l /\ waiting[k] = rest[i] /\ waiting[l] = rest[j]}

\* Requests in flight are aborted, and those of them that wait leave the queue.
Abort(S) ==
    /\ req' = [r \in Requests |-> IF r \in S THEN Aborted(r) ELSE req[r]]
    /\ waiting' \in Remaining(S)
    /\ pending' = pending - (Len(waiting) - Len(waiting'))

\* freshness.cancelDocument and cancelWorkspace: the requests in flight for the document,
\* and those for files, whose scope is the workspace.
Outdated(d) == {r \in Running : issued[req[r].handle].doc = d \/ issued[req[r].handle].disk}

Edited(d, open, version) ==
    /\ ~closed
    /\ edits < MaxEdits
    /\ edits' = edits + 1
    /\ doc' = [doc EXCEPT ![d] = [open |-> open, version |-> version, content |-> edits + 2]]

\* onDidOpen, which is followed by onDidChangeContent, and onDidChangeContent.
DidChange(d) ==
    /\ Edited(d, TRUE, doc[d].version + 1)
    /\ Forget(Of(d))
    /\ Abort(Outdated(d))
    /\ UNCHANGED <<store, active, closed>>

\* onDidClose: the numbering of versions starts again.
DidClose(d) ==
    /\ doc[d].open
    /\ Edited(d, FALSE, 0)
    /\ Forget(Of(d))
    /\ Abort(Outdated(d))
    /\ UNCHANGED <<store, active, closed>>

\* A file that is not open changes on disk, and the watcher says nothing yet.
DiskWritten(d) ==
    /\ ~doc[d].open
    /\ Edited(d, FALSE, 0)
    /\ UNCHANGED <<issued, recordBytes, store, req, active, waiting, pending, closed>>

(* ------------------------------ The handles ---------------------------- *)

Handle(d, kind, size) ==
    [doc |-> d, kind |-> kind, version |-> doc[d].version, content |-> Content(d),
     disk |-> ~doc[d].open, size |-> size, record |-> TRUE]

\* CompletionResolutionStore.remember: the oldest handle beyond the limit goes.
Expired(kept) == IF Len(kept) > MaxRecords THEN {Head(kept)} ELSE {}

\* onCompletion, for the document as it is when the list is returned; a handle
\* that goes loses its record.
OnCompletion(d) ==
    /\ ~closed
    /\ Len(issued) < MaxItems
    /\ LET kept == Append(store.completions, Len(issued) + 1)
           expired == Expired(kept)
       IN  /\ store' = [store EXCEPT !.completions = IF expired = {} THEN kept ELSE Tail(kept)]
           /\ issued' = Append([h \in Handles |-> [issued[h] EXCEPT !.record = @ /\ h \notin expired]],
                               Handle(d, "completion", 0))
    /\ UNCHANGED <<doc, recordBytes, req, active, waiting, pending, closed, edits>>

\* Mutant: a stale entry gives its bytes back again when it is deleted.
DeletedBytesM(handles) ==
    Cardinality({b \in handles \X (1 .. MaxBytes) : b[2] <= issued[b[1]].size})

\* deleteEntry: a stale entry has given its bytes back before.
DeletedBytes(handles) == ActiveBytes(handles)

\* CodeActionResolutionStore.remember: oldest entries go, stale ones too,
\* until both limits are kept.
OnCodeAction(d, size) ==
    /\ ~closed
    /\ doc[d].open
    /\ Len(issued) < MaxItems
    /\ size <= MaxBytes
    /\ LET old == store.actions
           Left(n) == recordBytes + size - DeletedBytes(Elements(SubSeq(old, 1, n)))
           n == Min({k \in 0 .. Len(old) : Len(old) - k < MaxRecords /\ Left(k) <= MaxBytes}
                    \cup {Len(old)})
       IN  /\ store' = [store EXCEPT !.actions = Append(SubSeq(old, n + 1, Len(old)), Len(issued) + 1)]
           /\ recordBytes' = Left(n)
    /\ issued' = Append(issued, Handle(d, "action", size))
    /\ UNCHANGED <<doc, req, active, waiting, pending, closed, edits>>

(* --------------------------- The resolution queue ---------------------- *)

\* CompletionResolutionQueue.run: refused when full, otherwise started when
\* nothing is active, as the item r now is.
Admitted(r, item) ==
    IF pending >= MaxPending
    THEN /\ req' = [req EXCEPT ![r] = [item EXCEPT !.pc = "settled"]]
         /\ UNCHANGED <<active, waiting, pending>>
    ELSE /\ pending' = pending + 1
         /\ IF active = NoRequest
            THEN /\ active' = r
                 /\ req' = [req EXCEPT ![r] = [item EXCEPT !.pc = "starting"]]
                 /\ UNCHANGED waiting
            ELSE /\ waiting' = Append(waiting, r)
                 /\ req' = [req EXCEPT ![r] = [item EXCEPT !.pc = "waiting"]]
                 /\ UNCHANGED active

\* Mutant: the next resolution is not started.
FinishedM(r, item) ==
    /\ pending' = pending - 1
    /\ active' = NoRequest
    /\ req' = [req EXCEPT ![r] = item]
    /\ UNCHANGED waiting

\* The active resolution ends, with what becomes of it; #next.
Finished(r, item) ==
    /\ pending' = pending - 1
    /\ IF waiting = <<>> \/ closed
       THEN /\ active' = NoRequest
            /\ req' = [req EXCEPT ![r] = item]
            /\ UNCHANGED waiting
       ELSE /\ active' = Head(waiting)
            /\ waiting' = Tail(waiting)
            /\ req' = [req EXCEPT ![r] = item, ![Head(waiting)].pc = "starting"]

(* ------------------------------ The requests --------------------------- *)

\* The handle still stands for its document as it is now.
Holds(h) ==
    LET d == issued[h].doc
    IN  IF issued[h].disk THEN ~doc[d].open
        ELSE doc[d].open /\ doc[d].version = issued[h].version

\* find and lookup: what the stores still know of a handle.
Find(h) == h \in Elements(store.completions) /\ issued[h].record
Lookup(h) == h \in Elements(store.actions) /\ issued[h].record

\* onCompletionResolve.  A handle without a record, or one that is no longer
\* in the store, stands for the item as it was listed.
ResolveCompletion(r, h) ==
    /\ ~closed /\ req[r].pc = "idle"
    /\ issued[h].kind = "completion"
    /\ LET d == issued[h].doc
           item == [Idle EXCEPT !.handle = h, !.version = doc[d].version, !.content = Content(d)]
       IN  IF ~Find(h) \/ ~Holds(h)
           THEN /\ issued' = [issued EXCEPT ![h].record = FALSE]
                /\ req' = [req EXCEPT ![r] = [item EXCEPT !.pc = "settled"]]
                /\ UNCHANGED <<active, waiting, pending>>
           ELSE IF issued[h].disk
           THEN /\ req' = [req EXCEPT ![r] = [item EXCEPT !.pc = "reading"]]
                /\ UNCHANGED <<issued, active, waiting, pending>>
           ELSE Admitted(r, item) /\ UNCHANGED issued
    /\ UNCHANGED <<doc, store, recordBytes, closed, edits>>

\* diskSourceValue: the file is read inside the request.
ReadDisk(r) ==
    /\ req[r].pc = "reading"
    /\ LET d == issued[req[r].handle].doc
       IN  IF req[r].aborted \/ doc[d].open
           THEN /\ req' = [req EXCEPT ![r] = Settled(r)]
                /\ UNCHANGED <<active, waiting, pending>>
           ELSE Admitted(r, [req[r] EXCEPT !.content = Content(d)])
    /\ UNCHANGED <<doc, issued, store, recordBytes, closed, edits>>

\* The job starts; a handle of a file binds the bytes it was listed for.
Start(r) ==
    /\ req[r].pc = "starting"
    /\ LET h == req[r].handle
           moved == issued[h].disk /\ req[r].content # issued[h].content
       IN  IF req[r].aborted \/ ~issued[h].record \/ moved
           THEN /\ Finished(r, Settled(r))
                /\ issued' = [issued EXCEPT ![h].record = @ /\ (~moved \/ req[r].aborted)]
           ELSE /\ req' = [req EXCEPT ![r].pc = "working"]
                /\ UNCHANGED <<issued, active, waiting, pending>>
    /\ UNCHANGED <<doc, store, recordBytes, closed, edits>>

\* The worker answers, from the snapshot it was given; an aborted job owns
\* its place until then.  The runner's checks, and the check of the record.
Answer(r) ==
    /\ req[r].pc = "working"
    /\ LET h == req[r].handle
           d == issued[h].doc
           current == ~req[r].aborted /\ issued[h].record /\ doc[d].version = req[r].version
       IN  Finished(r, IF issued[h].disk THEN [req[r] EXCEPT !.pc = "checking"]
                       ELSE [Settled(r) EXCEPT !.value = IF current THEN req[r].content ELSE 0])
    /\ UNCHANGED <<doc, issued, store, recordBytes, closed, edits>>

\* sources.isCurrent for a file, then the check of the record.
CheckDisk(r) ==
    /\ req[r].pc = "checking"
    /\ LET h == req[r].handle
           d == issued[h].doc
           current == ~req[r].aborted /\ issued[h].record /\ ~doc[d].open /\ Content(d) = req[r].content
       IN  req' = [req EXCEPT ![r] = [Settled(r) EXCEPT !.value = IF current THEN req[r].content ELSE 0]]
    /\ UNCHANGED <<doc, issued, store, recordBytes, active, waiting, pending, closed, edits>>

\* onCodeActionResolve: an unknown or stale handle is an error, and one of
\* another version makes all handles of the document stale.
ResolveCodeAction(r, h) ==
    /\ ~closed /\ req[r].pc = "idle"
    /\ issued[h].kind = "action"
    /\ LET d == issued[h].doc
           item == [Idle EXCEPT !.handle = h, !.version = doc[d].version, !.content = Content(d)]
           known == Lookup(h)
       IN  IF known /\ Holds(h)
           THEN /\ req' = [req EXCEPT ![r] = [item EXCEPT !.pc = "fixing"]]
                /\ UNCHANGED <<issued, recordBytes>>
           ELSE /\ req' = [req EXCEPT ![r] = [item EXCEPT !.pc = "settled"]]
                /\ IF known THEN Forget(Of(d) \cap Elements(store.actions))
                   ELSE UNCHANGED <<issued, recordBytes>>
    /\ UNCHANGED <<doc, store, active, waiting, pending, closed, edits>>

\* The edits must be for the version the quick fix was listed for.
AnswerCodeAction(r) ==
    /\ req[r].pc = "fixing"
    /\ LET h == req[r].handle
           d == issued[h].doc
           current == ~req[r].aborted /\ doc[d].version = req[r].version
                      /\ req[r].version = issued[h].version
       IN  req' = [req EXCEPT ![r] = [Settled(r) EXCEPT !.value = IF current THEN req[r].content ELSE 0]]
    /\ UNCHANGED <<doc, issued, store, recordBytes, active, waiting, pending, closed, edits>>

\* The client cancels a request; cancel of a job that waits.
Cancel(r) ==
    /\ r \in Running /\ ~req[r].aborted
    /\ req' = [req EXCEPT ![r] = Aborted(r)]
    /\ IF req[r].pc = "waiting"
       THEN /\ \E i \in DOMAIN waiting : waiting[i] = r /\ waiting' = RemoveAt(waiting, i)
            /\ pending' = pending - 1
       ELSE UNCHANGED <<waiting, pending>>
    /\ UNCHANGED <<doc, issued, store, recordBytes, active, closed, edits>>

\* clear of both stores.
Cleared ==
    /\ issued' = [h \in Handles |-> [issued[h] EXCEPT !.record = FALSE]]
    /\ store' = [completions |-> <<>>, actions |-> <<>>]
    /\ recordBytes' = 0

\* onShutdown: both stores and the queue are cleared.
Shutdown ==
    /\ ~closed
    /\ closed' = TRUE
    /\ Abort(Running)
    /\ Cleared
    /\ UNCHANGED <<doc, active, edits>>

Step(r) == ReadDisk(r) \/ Start(r) \/ Answer(r) \/ CheckDisk(r) \/ AnswerCodeAction(r)

Next ==
    \/ \E d \in Docs : DidChange(d) \/ DidClose(d) \/ DiskWritten(d) \/ OnCompletion(d)
    \/ \E d \in Docs, size \in Sizes : OnCodeAction(d, size)
    \/ \E r \in Requests : Step(r) \/ Cancel(r)
    \/ \E r \in Requests : \E h \in Handles : ResolveCompletion(r, h) \/ ResolveCodeAction(r, h)
    \/ Shutdown

\* Continuations run, and the worker answers or is replaced (WorkerRecovery).
Spec == Init /\ [][Next]_itemVars /\ \A r \in Requests : WF_itemVars(Step(r))

-----------------------------------------------------------------------------

\* In every step, details and edits are only given for the text the item was listed for,
\* and while the document still has that text: not after a change, nor after
\* closing and opening it again under the same version (onCompletionResolve,
\* onCodeActionResolve).
DetailsFitTheirText ==
    \A r \in Requests :
        req'[r].pc = "settled" /\ req[r].pc # "settled" /\ req'[r].value # 0 =>
            LET handle == issued'[req'[r].handle]
            IN  req'[r].value = handle.content /\ req'[r].value = doc'[handle.doc].content

\* The counters that admit work agree with what they count, whatever was
\* evicted, forgotten, cancelled or cleared: otherwise the limits would shut
\* out later requests for good (#pending, recordBytes).
CountersAreExact ==
    /\ pending = Len(waiting) + Cardinality({active} \ {NoRequest})
    /\ active = NoRequest => waiting = <<>>
    /\ recordBytes = ActiveBytes(Elements(store.actions))

\* Again and again, for each request: it is answered.
ResolutionEnded(r) == req[r].pc \in {"idle", "settled"}
=============================================================================
