--------------------------- MODULE WorkerRecovery ---------------------------
(***************************************************************************)
(* The life of the one semantic worker thread as the parent manages it:    *)
(* the restart policy (SemanticWorkerFailureRecovery), the replacement     *)
(* transactions (SemanticWorkerRecycle.recover and .run), the physical     *)
(* handle (SemanticWorkerHost, SemanticWorkerRetirement) and the admission *)
(* of requests through them (WorkerProjectPreparation, recycle.request).   *)
(*                                                                         *)
(* The channel to the worker is abstract here: `wdocs` is what the worker  *)
(* holds once everything sent to it is applied (WorkerSupervisor shows     *)
(* that the supervisor delivers mutations in order), `inflight` whether    *)
(* the last mutation is still unacknowledged.  A text is a version, counted *)
(* from 1 in every opening, and the input revision that wrote it.          *)
(***************************************************************************)
EXTENDS Integers, Sequences, FiniteSets

CONSTANTS
    Docs,            \* documents a client may open
    Reqs,            \* concurrent requests of the client
    Explicit,        \* the requests that are not background diagnostics
    MaxInputs,       \* bound on input revisions in a behaviour
    RateLimit,       \* recoveries per rate window (3 in the code)
    AutomaticLimit,  \* automatic recoveries per proven input (3 in the code)
    MaxJournal,      \* deferred mutation records (32 in the code)
    StopMayFail,     \* may worker.terminate() or a root's disposal reject?
    RecycleEnabled,  \* is the opt-in recycle (ARKTS_L01/L03) switched on?
    MaxRecycles      \* bound on recycles in a behaviour

VARIABLES
    docs, inputRevision,                        \* the parent's authoritative inputs
    failure, blockedRevision, failedInputRevision,  \* the circuit and what opened it
    restarts, automaticRestarts, probing, pending,  \* the budget and the recovery task
    stage,                                      \* RootSemanticEngineProxy.dispose
    flow, journal, changed, halted, recycles,   \* SemanticWorkerRecycle
    worker, retirement, nextEpoch,              \* SemanticWorkerHost
    alive,                                      \* threads the runtime has not reaped
    wdocs, inflight,                            \* the worker behind the channel
    req,                                        \* where each request is
    automaticTotal, probeTotal                  \* history: recoveries ever granted

inputs == <<docs, inputRevision>>
circuit == <<failure, blockedRevision>>
budget == <<restarts, automaticRestarts, automaticTotal, probeTotal>>
transaction == <<flow, journal, changed, halted, recycles>>
host == <<worker, retirement, nextEpoch>>
thread == <<wdocs, inflight>>
vars == <<inputs, circuit, failedInputRevision, budget, probing, pending, stage,
          transaction, host, alive, thread, req>>

ASSUME ConstantsAssumption ==
    /\ MaxInputs \in Nat /\ RateLimit \in Nat /\ AutomaticLimit \in Nat
    /\ MaxJournal \in Nat /\ MaxRecycles \in Nat
    /\ Explicit \subseteq Reqs
    /\ StopMayFail \in BOOLEAN /\ RecycleEnabled \in BOOLEAN

\* The snapshot of a document; content 0 is a document that is not open.
Texts == [version : Nat, content : Nat]
NoText == [version |-> 0, content |-> 0]
Closed == [d \in Docs |-> NoText]
Open(texts) == {d \in Docs : texts[d] # NoText}
NoFlow == [kind |-> "none", phase |-> "idle", restart |-> FALSE, left |-> {},
           text |-> Closed, batch |-> <<>>]
Settled == {"idle", "ok", "rejected"}

active == flow.kind # "none"
accepts == ~failure /\ stage = "open"

-----------------------------------------------------------------------------
(* SemanticWorkerHost and SemanticWorkerRetirement.                        *)

\* Mutant of Abandoned: the requests of a retired worker keep waiting for it.
AbandonedNever(rq) == rq

\* Disposing the supervisors of a retired worker rejects what it was asked.
Abandoned(rq) == [r \in Reqs |-> IF rq[r] = "sent" THEN "rejected" ELSE rq[r]]

\* replaceWorker: take the current worker out of service and stop it, or join
\* the stop under way.  A stop that failed is only tried again on `retry`, or
\* when the thread has exited by itself meanwhile.
ReplaceWorker(retry, rq) ==
    \/ /\ retirement.state # "none"
       /\ retirement' = IF /\ retirement.state = "failed"
                           /\ retry \/ retirement.epoch \notin alive
                        THEN [retirement EXCEPT !.state = "stopping"] ELSE retirement
       /\ req' = rq
       /\ UNCHANGED <<worker, inflight>>
    \/ /\ retirement.state = "none" /\ worker = 0
       /\ req' = rq
       /\ UNCHANGED <<retirement, worker, inflight>>
    \/ /\ retirement.state = "none" /\ worker # 0
       /\ retirement' = [epoch |-> worker, state |-> "stopping"]
       /\ worker' = 0 /\ inflight' = "none"
       /\ req' = Abandoned(rq)

\* #ensureWorker refuses to allocate while the previous thread has not exited.
CanHost == retirement.state = "none"

\* supervisor(rootUri): the current worker, or a new one without documents.
EnsureWorker ==
    /\ worker' = IF worker = 0 THEN nextEpoch ELSE worker
    /\ nextEpoch' = IF worker = 0 THEN nextEpoch + 1 ELSE nextEpoch
    /\ alive' = IF worker = 0 THEN alive \cup {nextEpoch} ELSE alive
    /\ UNCHANGED retirement

Held == IF worker = 0 THEN Closed ELSE wdocs

\* DocumentStore.sync throws on an older version than the one it holds, and on
\* another content of the same version.
Stale(text, held) ==
    \/ text.version < held.version
    \/ text.version = held.version /\ text.content # held.content

\* supervisor.mutate of one document; an error of the store is fatal to the worker.
Mutate(d, text) ==
    /\ wdocs' = [Held EXCEPT ![d] = text]
    /\ inflight' = IF text # NoText /\ Stale(text, Held[d]) THEN "stale" ELSE "sent"

\* The runtime reaps a retired thread.
ThreadExit ==
    /\ \E e \in alive \ {worker} : alive' = alive \ {e}
    /\ UNCHANGED <<inputs, circuit, failedInputRevision, budget, probing, pending,
                   stage, transaction, host, thread, req>>

\* Mutant of Exited: a resolved stop is taken for an exit.
ExitedUnproven == TRUE
Exited == retirement.epoch \notin alive

\* SemanticWorkerRetirement.stop ends: with the exit confirmed the handle is
\* released; a rejected stop keeps the handle, because it is no proof of exit.
\* The exit event ends a witness wait before it ends the stop.
StopEnds ==
    /\ retirement.state = "stopping"
    /\ \/ Exited /\ flow.phase # "witness" /\ retirement' = [epoch |-> 0, state |-> "none"]
       \/ StopMayFail /\ ~Exited /\ retirement' = [retirement EXCEPT !.state = "failed"]
    /\ UNCHANGED <<inputs, circuit, failedInputRevision, budget, probing, pending,
                   stage, transaction, worker, nextEpoch, alive, thread, req>>

-----------------------------------------------------------------------------
(* SemanticWorkerFailureRecovery.                                          *)

\* fail: the first failure records the revision that a probe must exceed.
Fail(revision) ==
    /\ failure' = TRUE
    /\ blockedRevision' = IF failure THEN blockedRevision ELSE revision

\* SemanticWorkerRecycle.retire.
Retire(retry, rq) ==
    /\ halted' = TRUE /\ changed' = TRUE
    /\ ReplaceWorker(retry, rq)

\* recover of the policy and of the transaction, up to the first await.  A
\* recycle under way is waited for instead.
Recover(restart, rq) ==
    /\ pending' = TRUE
    /\ IF active
       THEN req' = rq /\ UNCHANGED <<flow, halted, worker, retirement, inflight>>
       ELSE /\ flow' = [NoFlow EXCEPT !.kind = "recover", !.phase = "retiring",
                                      !.restart = restart]
            /\ halted' = FALSE
            /\ ReplaceWorker(TRUE, rq)

\* Mutant of MayRestart: probing and the automatic budget are not consulted.
MayRestartByRate == restarts < RateLimit

MayRestart == ~probing /\ restarts < RateLimit /\ automaticRestarts < AutomaticLimit

\* workerFailed: a failure inside a replacement stops it; any other one spends
\* the budget or opens the circuit, and retires the worker either way.
WorkerFailed(revision) ==
    /\ failedInputRevision' = revision
    /\ \/ /\ pending \/ active
          /\ Fail(revision)
          /\ Retire(FALSE, req)
          /\ UNCHANGED <<pending, flow, budget>>
       \/ /\ ~pending /\ ~active /\ MayRestart
          /\ restarts' = restarts + 1
          /\ automaticRestarts' = automaticRestarts + 1
          /\ automaticTotal' = automaticTotal + 1
          /\ Recover(TRUE, req)
          /\ UNCHANGED <<circuit, probeTotal, changed>>
       \/ /\ ~pending /\ ~active /\ ~MayRestart
          /\ Fail(revision)
          /\ Recover(FALSE, req)
          /\ UNCHANGED <<budget, changed>>
    /\ UNCHANGED <<probing, stage, journal, recycles, nextEpoch, wdocs>>

\* The watchdog, an ownership fault, an endpoint failure or the thread's error
\* and exit events reach onFailure while the worker is still the current one.
WorkerFails ==
    /\ worker # 0 /\ stage = "open"
    /\ alive' \in {alive, alive \ {worker}}
    /\ WorkerFailed(inputRevision)
    /\ UNCHANGED inputs

\* Mutant of ResetsBudget: any successful operation replenishes the budget.
ResetsBudgetAlways == TRUE

\* Only a success on inputs newer than the failed ones replenishes it.
ResetsBudget == inputRevision > failedInputRevision

\* healthy: an explicit operation completed on the current worker.
Healthy ==
    \/ failure /\ UNCHANGED <<automaticRestarts, probing>>
    \/ /\ ~failure
       /\ automaticRestarts' = IF ResetsBudget THEN 0 ELSE automaticRestarts
       /\ probing' = FALSE

\* expireRateWindow drops the recoveries that are older than the window.
WindowExpires ==
    /\ restarts > 0
    /\ restarts' = restarts - 1
    /\ UNCHANGED <<inputs, circuit, failedInputRevision, automaticRestarts, automaticTotal,
                   probeTotal, probing, pending, stage, transaction, host, alive, thread, req>>

-----------------------------------------------------------------------------
(* Inputs: sync, close, configureProject and configureSdk.                 *)

\* SemanticWorkerRecycle.defer: consecutive changes of one document share a record.
Deferred(d, text) ==
    LET last == Len(journal)
    IN  IF /\ journal # <<>> /\ text # NoText /\ docs[d] # NoText
           /\ journal[last].doc = d /\ journal[last].text # NoText
        THEN [journal EXCEPT ![last] = [doc |-> d, text |-> text]]
        ELSE Append(journal, [doc |-> d, text |-> text])

\* A replacement is under way: the mutation joins the journal, and a journal
\* over its bound is a worker failure.  A document opened during a recycle is
\* appended to the map that the recycle iterates.
DeferMutation(d, text) ==
    \/ /\ Len(Deferred(d, text)) > MaxJournal
       /\ WorkerFailed(inputRevision + 1)
       /\ UNCHANGED alive
    \/ /\ Len(Deferred(d, text)) <= MaxJournal
       /\ journal' = Deferred(d, text)
       /\ changed' = TRUE
       /\ flow' = IF flow.kind = "recycle" /\ docs[d] = NoText
                  THEN [flow EXCEPT !.left = @ \cup {d}] ELSE flow
       /\ UNCHANGED <<circuit, failedInputRevision, budget, probing, pending, stage,
                      halted, recycles, host, alive, thread, req>>

\* No replacement is under way: the supervisor takes it, or a retirement that
\* has not ended makes mutate throw and opens the circuit.
SendMutation(d, text) ==
    \/ /\ CanHost
       /\ EnsureWorker
       /\ Mutate(d, text)
       /\ UNCHANGED <<circuit, failedInputRevision, budget, probing, pending, stage,
                      transaction, req>>
    \/ /\ ~CanHost
       /\ Fail(inputRevision + 1)
       /\ UNCHANGED <<failedInputRevision, budget, probing, pending, stage, transaction,
                      host, alive, thread, req>>

\* sync and close, through SemanticWorkerMutationTracker.mutate.  While the
\* circuit is open only the parent's own map changes.
Edit(d, text) ==
    /\ inputRevision < MaxInputs
    /\ docs' = [docs EXCEPT ![d] = text]
    /\ inputRevision' = inputRevision + 1
    /\ \/ accepts /\ active /\ DeferMutation(d, text)
       \/ accepts /\ ~active /\ SendMutation(d, text)
       \/ ~accepts /\ UNCHANGED <<circuit, failedInputRevision, budget, probing, pending,
                                  stage, transaction, host, alive, thread, req>>

Sync(d) == Edit(d, [version |-> docs[d].version + 1, content |-> inputRevision + 1])
Close(d) == docs[d] # NoText /\ Edit(d, NoText)

\* configureProject and configureSdk with a value that differs from the last.
Configure ==
    /\ inputRevision < MaxInputs
    /\ inputRevision' = inputRevision + 1
    /\ changed' = (changed \/ active)
    /\ UNCHANGED <<docs, circuit, failedInputRevision, budget, probing, pending, stage,
                   flow, journal, halted, recycles, host, alive, thread, req>>

-----------------------------------------------------------------------------
(* Requests.                                                               *)

Goto(r, state) == [req EXCEPT ![r] = state]

\* A request that only moves.
Move(r, state) ==
    /\ req' = Goto(r, state)
    /\ UNCHANGED <<inputs, circuit, failedInputRevision, budget, probing, pending,
                   stage, transaction, host, alive, thread>>

MayProbe ==
    /\ failure /\ stage = "open"
    /\ inputRevision > blockedRevision /\ restarts < RateLimit

\* The half-open circuit: changed inputs and explicit work buy one recovery.
Probe(r) ==
    /\ MayProbe
    /\ probing' = TRUE
    /\ blockedRevision' = inputRevision
    /\ failure' = FALSE
    /\ restarts' = restarts + 1
    /\ probeTotal' = probeTotal + 1
    /\ Recover(TRUE, Goto(r, "recovering"))
    /\ UNCHANGED <<inputs, failedInputRevision, automaticRestarts, automaticTotal, stage,
                   journal, changed, recycles, nextEpoch, alive, wdocs>>

\* admit, up to its first await.
Call(r) ==
    /\ req[r] \in Settled
    /\ \/ probing /\ r \notin Explicit /\ Move(r, "rejected")
       \/ ~(probing /\ r \notin Explicit) /\ (~failure \/ r \notin Explicit) /\ Move(r, "ready")
       \/ failure /\ r \in Explicit /\ pending /\ Move(r, "admitting")
       \/ failure /\ r \in Explicit /\ ~pending /\ Probe(r)
       \/ failure /\ r \in Explicit /\ ~pending /\ ~MayProbe /\ Move(r, "ready")

\* admit after the recovery that was under way.
Resume(r) ==
    /\ req[r] = "admitting" /\ ~pending
    /\ Probe(r) \/ (~MayProbe /\ Move(r, "ready"))

\* admit after the recovery it asked for.
Recovered(r) == req[r] = "recovering" /\ ~pending /\ Move(r, "ready")

\* recycle.request: wait for a replacement, check, then use the worker.
MayDispatch(r) ==
    /\ accepts /\ CanHost
    /\ ~(probing /\ r \notin Explicit)

Dispatch(r) ==
    /\ ~active /\ req[r] \in {"ready", "waiting"}
    /\ \/ /\ MayDispatch(r)
          /\ EnsureWorker
          /\ wdocs' = Held
          /\ req' = Goto(r, "sent")
          /\ UNCHANGED <<inputs, circuit, failedInputRevision, budget, probing, pending,
                         stage, transaction, inflight>>
       \/ ~MayDispatch(r) /\ Move(r, "rejected")

Wait(r) == active /\ req[r] = "ready" /\ Move(r, "waiting")

\* A caller stops waiting; the shared recovery goes on.
Cancel(r) == req[r] \in {"admitting", "recovering", "waiting"} /\ Move(r, "rejected")

\* The worker answers behind the mutations it was sent; an answer that proves a
\* synchronized program reports the worker healthy.
Answer(r) ==
    /\ req[r] = "sent" /\ worker # 0 /\ inflight = "none"
    /\ \/ /\ req' = Goto(r, "ok")
          /\ Healthy
       \/ req' = Goto(r, "rejected") /\ UNCHANGED <<automaticRestarts, probing>>
    /\ UNCHANGED <<inputs, circuit, failedInputRevision, restarts, automaticTotal, probeTotal,
                   pending, stage, transaction, host, alive, thread>>

\* The worker acknowledges a mutation.
Ack ==
    /\ worker # 0 /\ inflight = "sent"
    /\ inflight' = "none"
    /\ UNCHANGED <<inputs, circuit, failedInputRevision, budget, probing, pending, stage,
                   transaction, host, alive, wdocs, req>>

-----------------------------------------------------------------------------
(* The replacement transactions.                                           *)

\* Mutant of Finish: the recovery task is not cleared.
FinishKeepingPending ==
    /\ flow' = NoFlow
    /\ journal' = IF flow.kind = "recover" THEN <<>> ELSE journal
    /\ UNCHANGED pending

\* The finally block; only recover() empties the journal.
Finish ==
    /\ flow' = NoFlow
    /\ pending' = FALSE
    /\ journal' = IF flow.kind = "recover" THEN <<>> ELSE journal

\* The catch block of recover() while the old or new worker is still there,
\* and of run() once it has begun to replace the worker.
FlowFails ==
    /\ Fail(inputRevision)
    /\ \/ /\ flow.kind = "recover"
          /\ flow' = [flow EXCEPT !.phase = "failing"]
          /\ Retire(FALSE, req)
          /\ UNCHANGED <<pending, journal>>
       \/ /\ flow.kind = "recycle"
          /\ Finish
          /\ UNCHANGED <<changed, halted, worker, retirement, inflight, req>>
    /\ UNCHANGED <<recycles, nextEpoch, alive, wdocs>>

\* The end of recover()'s catch block: the retirement ended or was refused.
FailingEnds ==
    /\ flow.phase = "failing" /\ retirement.state # "stopping"
    /\ Finish
    /\ UNCHANGED <<circuit, changed, halted, recycles, host, alive, thread, req>>

\* replaceWorker ended inside a transaction.  recover(false) only retires.
Replaced ==
    /\ flow.phase = "retiring"
    /\ \/ /\ CanHost /\ flow.kind = "recover" /\ flow.restart
          /\ flow' = [flow EXCEPT !.phase = "backoff"]
          /\ UNCHANGED <<circuit, pending, journal, changed, halted, recycles, host, alive,
                         thread, req>>
       \/ /\ CanHost /\ flow.kind = "recover" /\ ~flow.restart
          /\ Finish
          /\ UNCHANGED <<circuit, changed, halted, recycles, host, alive, thread, req>>
       \/ CanHost /\ flow.kind = "recycle" /\ halted /\ FlowFails
       \/ /\ CanHost /\ flow.kind = "recycle" /\ ~halted
          /\ EnsureWorker
          /\ wdocs' = Held
          /\ flow' = [flow EXCEPT !.phase = "replay", !.left = Open(docs)]
          /\ UNCHANGED <<circuit, pending, journal, changed, halted, recycles, inflight, req>>
       \/ retirement.state = "failed" /\ FlowFails

\* Mutant of BackoffEnds: the health check after the backoff is missing.
BackoffEndsUnchecked ==
    /\ flow.phase = "backoff" /\ CanHost
    /\ EnsureWorker
    /\ wdocs' = Held
    /\ flow' = [flow EXCEPT !.phase = "replay", !.text = docs, !.left = Open(docs)]
    /\ UNCHANGED <<circuit, pending, journal, changed, halted, recycles, inflight, req>>

\* The backoff ends, or dispose aborts it; recover() then captures the documents
\* and starts the replacement.
BackoffEnds ==
    /\ flow.phase = "backoff"
    /\ \/ (halted \/ stage # "open") /\ FlowFails
       \/ /\ ~halted /\ stage = "open" /\ CanHost
          /\ EnsureWorker
          /\ wdocs' = Held
          /\ flow' = [flow EXCEPT !.phase = "replay", !.text = docs,
                                  !.left = Open(docs)]
          /\ UNCHANGED <<circuit, pending, journal, changed, halted, recycles, inflight, req>>

\* One awaited `open` of the replay.  recover() replays what it captured, run()
\* reads the live map: a document closed meanwhile is not visited.
ReplayText == IF flow.kind = "recover" THEN flow.text ELSE docs

ReplayStep ==
    /\ flow.phase = "replay" /\ inflight = "none"
    /\ LET open == flow.left \cap Open(ReplayText)
       IN  \/ worker = 0 /\ FlowFails
           \/ /\ worker # 0
              /\ \E d \in open : /\ Mutate(d, ReplayText[d])
                                 /\ flow' = [flow EXCEPT !.left = @ \ {d}]
              /\ UNCHANGED <<circuit, pending, journal, changed, halted, recycles, host,
                             alive, req>>
           \/ /\ worker # 0 /\ open = {}
              /\ flow' = [flow EXCEPT !.phase = "flush", !.left = {}]
              /\ UNCHANGED <<circuit, pending, journal, changed, halted, recycles, host,
                             alive, thread, req>>

\* Mutant of TakeBatch: what was deferred during the flush is dropped with it.
TakeBatchOnce ==
    /\ flow' = [flow EXCEPT !.batch = Tail(journal)]
    /\ journal' = <<>>

\* flushMutations takes the whole journal and sends it record by record.
TakeBatch ==
    /\ flow' = [flow EXCEPT !.batch = journal]
    /\ journal' = <<>>

Flushed == flow.batch = <<>> /\ journal = <<>>

FlushStep ==
    /\ flow.phase \in {"flush", "abandon"} /\ inflight = "none"
    /\ \/ /\ flow.batch # <<>> /\ worker # 0
          /\ Mutate(Head(flow.batch).doc, Head(flow.batch).text)
          /\ flow' = [flow EXCEPT !.batch = Tail(@)]
          /\ UNCHANGED <<circuit, pending, journal, changed, halted, recycles, host, alive, req>>
       \/ /\ flow.batch = <<>> /\ journal # <<>>
          /\ TakeBatch
          /\ UNCHANGED <<circuit, pending, changed, halted, recycles, host, alive, thread, req>>
       \/ flow.batch # <<>> /\ worker = 0 /\ FlowFails
       \/ /\ flow.phase = "flush" /\ Flushed /\ ~accepts   \* checkHealth
          /\ FlowFails
       \/ /\ Flushed /\ (flow.phase = "flush" => accepts)
          /\ Finish
          /\ UNCHANGED <<circuit, changed, halted, recycles, host, alive, thread, req>>

TransactionStep ==
    /\ FailingEnds \/ Replaced \/ BackoffEnds \/ ReplayStep \/ FlushStep
    /\ UNCHANGED <<inputs, failedInputRevision, budget, probing, stage>>

\* run(): the opt-in recycle of a quiescent worker, up to the witness.
Recycle ==
    /\ RecycleEnabled /\ recycles < MaxRecycles
    /\ accepts /\ ~active /\ nextEpoch > 1
    /\ inflight = "none" /\ \A r \in Reqs : req[r] # "sent"
    /\ flow' = [NoFlow EXCEPT !.kind = "recycle", !.phase = "witness"]
    /\ changed' = FALSE
    /\ recycles' = recycles + 1
    /\ UNCHANGED <<inputs, circuit, failedInputRevision, budget, probing, pending, stage,
                   journal, halted, host, alive, thread, req>>

\* The witness arrives, times out or is lost with its worker: the worker is
\* replaced when it is eligible and nothing changed; otherwise the deferred edits
\* go to the worker that stays, and fail if none does.
WitnessArrives ==
    /\ flow.phase = "witness"
    /\ \/ /\ worker # 0 /\ ~changed /\ accepts
          /\ flow' = [flow EXCEPT !.phase = "retiring"]
          /\ ReplaceWorker(FALSE, req)
          /\ UNCHANGED <<circuit, pending, journal>>
       \/ /\ worker # 0
          /\ flow' = [flow EXCEPT !.phase = "abandon"]
          /\ UNCHANGED <<circuit, pending, journal, worker, retirement, inflight, req>>
       \/ /\ worker = 0
          /\ flow' = NoFlow /\ pending' = FALSE /\ journal' = <<>>
          /\ IF journal = <<>> THEN UNCHANGED circuit ELSE Fail(inputRevision)
          /\ UNCHANGED <<worker, retirement, inflight, req>>
    /\ UNCHANGED <<inputs, failedInputRevision, budget, probing, stage,
                   changed, halted, recycles, nextEpoch, alive, wdocs>>

-----------------------------------------------------------------------------
(* RootSemanticEngineProxy.dispose.                                        *)

\* Up to the first await of settle: stop the policy, retire the worker.
Dispose ==
    /\ stage = "open"
    /\ stage' = "retiring"
    /\ Retire(TRUE, req)
    /\ UNCHANGED <<inputs, circuit, failedInputRevision, budget, probing, pending,
                   flow, journal, recycles, nextEpoch, alive, wdocs>>

\* settle waits for the retirement, then for the recovery; host.dispose follows.
DisposeStep ==
    /\ \/ /\ stage \in {"retiring", "closing"} /\ retirement.state = "failed"
          /\ stage' = "failed"
          /\ UNCHANGED <<worker, retirement, inflight, req>>
       \/ /\ stage = "retiring" /\ retirement.state = "none"
          /\ stage' = "settling"
          /\ UNCHANGED <<worker, retirement, inflight, req>>
       \/ /\ stage = "settling" /\ ~pending
          /\ stage' = "closing"
          /\ ReplaceWorker(TRUE, req)
       \/ /\ stage = "closing" /\ retirement.state = "none"
          /\ stage' = "closed"
          /\ UNCHANGED <<worker, retirement, inflight, req>>
    /\ UNCHANGED <<inputs, circuit, failedInputRevision, budget, probing, pending,
                   transaction, nextEpoch, alive, wdocs>>

-----------------------------------------------------------------------------
Init ==
    /\ docs = Closed /\ inputRevision = 0
    /\ failure = FALSE /\ blockedRevision = 0 /\ failedInputRevision = 0
    /\ restarts = 0 /\ automaticRestarts = 0 /\ automaticTotal = 0 /\ probeTotal = 0
    /\ probing = FALSE /\ pending = FALSE /\ stage = "open"
    /\ flow = NoFlow /\ journal = <<>> /\ changed = FALSE /\ halted = FALSE /\ recycles = 0
    /\ worker = 0 /\ retirement = [epoch |-> 0, state |-> "none"] /\ nextEpoch = 1
    /\ alive = {}
    /\ wdocs = Closed /\ inflight = "none"
    /\ req = [r \in Reqs |-> "idle"]

RequestStep(r) == Resume(r) \/ Recovered(r) \/ Dispatch(r) \/ Wait(r)

Next ==
    \/ \E d \in Docs : Sync(d) \/ Close(d)
    \/ Configure
    \/ \E r \in Reqs : Call(r) \/ RequestStep(r) \/ Cancel(r) \/ Answer(r)
    \/ Ack \/ WorkerFails \/ ThreadExit \/ StopEnds \/ WindowExpires
    \/ TransactionStep \/ Recycle \/ WitnessArrives
    \/ Dispose \/ DisposeStep

Spec == Init /\ [][Next]_vars

\* Timers, promise continuations and the exit of a terminated thread happen.  A
\* command that the worker does not answer is answered for by the watchdog.
MutationEnds == inflight # "none" /\ (Ack \/ WorkerFails)
RequestEnds(r) == req[r] = "sent" /\ inflight = "none" /\ (Answer(r) \/ WorkerFails)
Fairness ==
    /\ WF_vars(ThreadExit) /\ WF_vars(StopEnds)
    /\ WF_vars(TransactionStep) /\ WF_vars(WitnessArrives) /\ WF_vars(DisposeStep)
    /\ WF_vars(MutationEnds)
    /\ \A r \in Reqs : WF_vars(RequestStep(r)) /\ WF_vars(RequestEnds(r))

FairSpec == Spec /\ Fairness

-----------------------------------------------------------------------------
(* Properties.                                                             *)

Mutations == [doc : Docs, text : Texts]
Phases == {"idle", "witness", "retiring", "backoff", "replay", "flush", "failing", "abandon"}

\* Every variable keeps its shape: the inputs, the circuit and its budget, the
\* transaction under way, the handles of the host and the requests.
TypeOK ==
    /\ docs \in [Docs -> Texts] /\ inputRevision \in Nat
    /\ failure \in BOOLEAN /\ blockedRevision \in Nat /\ failedInputRevision \in Nat
    /\ restarts \in Nat /\ automaticRestarts \in Nat
    /\ automaticTotal \in Nat /\ probeTotal \in Nat
    /\ probing \in BOOLEAN /\ pending \in BOOLEAN
    /\ stage \in {"open", "retiring", "settling", "closing", "closed", "failed"}
    /\ flow \in [kind : {"none", "recover", "recycle"}, phase : Phases, restart : BOOLEAN,
                  left : SUBSET Docs, text : [Docs -> Texts], batch : Seq(Mutations)]
    /\ journal \in Seq(Mutations)
    /\ changed \in BOOLEAN /\ halted \in BOOLEAN /\ recycles \in Nat
    /\ worker \in Nat /\ nextEpoch \in Nat
    /\ retirement \in [epoch : Nat, state : {"none", "stopping", "failed"}]
    /\ alive \subseteq Nat
    /\ wdocs \in [Docs -> Texts] /\ inflight \in {"none", "sent", "stale"}
    /\ req \in [Reqs -> Settled \cup {"admitting", "recovering", "ready", "waiting", "sent"}]

\* At most one semantic worker thread exists, counting a retired one until it has
\* really exited (replaceWorker, #ensureWorker, SemanticWorkerRetirement).
SingleWorker == \A a, b \in alive : a = b

\* Nobody waits for what is gone: while callers wait for a recovery, a replacement
\* is under way that will end it, and a request that was sent waits for the worker
\* that is there now, whichever failure, replacement or disposal came in between
\* (#pending, admit, the supervisors' disposal in replaceWorker).
AwaitedWorkIsAlive ==
    /\ pending => active
    /\ \A r \in Reqs : req[r] = "sent" => worker # 0

\* A crash loop cannot feed itself: however failures, successes and expiring
\* rate windows interleave, the recoveries ever granted are bounded by how
\* often the inputs changed (workerFailed, healthy, admit).
RecoveriesBounded ==
    automaticTotal + probeTotal <= (AutomaticLimit + 1) * inputRevision + AutomaticLimit

\* The rate window and the automatic budget are never overdrawn, also when a
\* probe and an automatic restart compete for the last place.
WithinBudget == restarts <= RateLimit /\ automaticRestarts <= AutomaticLimit

\* Whenever requests may be dispatched to a worker that was once started, there
\* is one, and it holds or has been sent exactly the parent's open documents:
\* no interleaving of edits, failures and replacements loses or revives one.  A
\* probe granted while a recycle waits for its witness is the one exception.
Replayed ==
    (/\ nextEpoch > 1 /\ accepts /\ ~active
     /\ recycles = 0 \/ probeTotal = 0) => worker # 0 /\ wdocs = docs

\* A replacement is never sent a document version older than the one it holds.
ReplayIsCurrent == inflight # "stale"

\* No thread is allocated once disposal began (stopping, abort, checkHealth),
\* and a completed disposal leaves no thread behind.
AllocationIsTimely ==
    (stage # "open" => nextEpoch' = nextEpoch) /\ (stage' = "closed" => alive' = {})
NoLateWorker ==
    [][AllocationIsTimely]_vars

\* A recycle that races failures, failing stops and disposal never leads to a
\* second worker, to recoveries without end, or to a late worker.
RecycleIsSafe == [](SingleWorker /\ RecoveriesBounded) /\ NoLateWorker

\* Again and again, for each request: it is settled if it was made, whatever it
\* waited for, a recovery, a recycle, the worker or the probe of another caller.
CallSettled(r) == req[r] \in Settled

\* Again and again: no recovery and no recycle is under way (recover, run).
RecoveryEnded == ~(active \/ pending)

\* Again and again: a disposal has ended, or reported a stop that failed
\* (settle, host.dispose).
DisposeEnded == stage # "open" => stage \in {"closed", "failed"}
=============================================================================
