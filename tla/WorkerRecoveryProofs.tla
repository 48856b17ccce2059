------------------------ MODULE WorkerRecoveryProofs ------------------------
(***************************************************************************)
(* Proofs about WorkerRecovery for every number of documents, requests,    *)
(* input revisions, every budget and every bound of the journal: types,    *)
(* one worker, bounded recoveries, no edit lost by a replacement, and no   *)
(* worker started after disposal began.                                    *)
(***************************************************************************)
EXTENDS WorkerRecovery, TLAPS

RequestStates == Settled \cup {"admitting", "recovering", "ready", "waiting", "sent"}

-----------------------------------------------------------------------------
(* Type correctness, one lemma per building block of the actions.          *)

\* Replacing the worker keeps the host's handles and the requests well typed.
LEMMA ReplaceWorkerType ==
    ASSUME TypeOK, NEW retry \in BOOLEAN, NEW rq \in [Reqs -> RequestStates],
           ReplaceWorker(retry, rq)
    PROVE  /\ worker' \in Nat /\ inflight' \in {"none", "sent", "stale"}
           /\ retirement' \in [epoch : Nat, state : {"none", "stopping", "failed"}]
           /\ req' \in [Reqs -> RequestStates]
BY DEF ReplaceWorker, TypeOK, Abandoned, RequestStates, Settled

\* So does starting a recovery, which also opens a transaction.
LEMMA RecoverType ==
    ASSUME TypeOK, NEW restart \in BOOLEAN, NEW rq \in [Reqs -> RequestStates],
           Recover(restart, rq)
    PROVE  /\ worker' \in Nat /\ inflight' \in {"none", "sent", "stale"}
           /\ retirement' \in [epoch : Nat, state : {"none", "stopping", "failed"}]
           /\ req' \in [Reqs -> RequestStates]
           /\ pending' \in BOOLEAN /\ halted' \in BOOLEAN
           /\ flow' \in [kind : {"none", "recover", "recycle"}, phase : Phases,
                         restart : BOOLEAN, left : SUBSET Docs, text : [Docs -> Texts],
                         batch : Seq(Mutations)]
<1>1. NoFlow \in [kind : {"none", "recover", "recycle"}, phase : Phases,
                  restart : BOOLEAN, left : SUBSET Docs, text : [Docs -> Texts],
                  batch : Seq(Mutations)]
  BY DEF NoFlow, Phases, Closed, NoText, Texts
<1>2. CASE active
  BY <1>2 DEF Recover, TypeOK, RequestStates
<1>3. CASE ~active
  <2>1. ReplaceWorker(TRUE, rq)
    BY <1>3 DEF Recover
  <2>2. QED
    BY <1>1, <1>3, <2>1, ReplaceWorkerType, ZenonT(60) DEF Recover, NoFlow, Phases
<1>4. QED
  BY <1>2, <1>3

FlowType == [kind : {"none", "recover", "recycle"}, phase : Phases, restart : BOOLEAN,
             left : SUBSET Docs, text : [Docs -> Texts], batch : Seq(Mutations)]

\* The empty transaction, and so the end of any transaction, is well typed.
LEMMA NoFlowType == NoFlow \in FlowType
BY DEF NoFlow, FlowType, Phases, Closed, NoText, Texts

\* A failing transaction keeps its own variables and the host's well typed.
LEMMA FlowFailsType ==
    ASSUME TypeOK, FlowFails
    PROVE  /\ failure' \in BOOLEAN /\ blockedRevision' \in Nat
           /\ flow' \in FlowType /\ pending' \in BOOLEAN /\ journal' \in Seq(Mutations)
           /\ changed' \in BOOLEAN /\ halted' \in BOOLEAN
           /\ worker' \in Nat /\ inflight' \in {"none", "sent", "stale"}
           /\ retirement' \in [epoch : Nat, state : {"none", "stopping", "failed"}]
           /\ req' \in [Reqs -> RequestStates]
           /\ recycles' \in Nat /\ nextEpoch' \in Nat /\ alive' \subseteq Nat
           /\ wdocs' \in [Docs -> Texts]
<1>1. failure' \in BOOLEAN /\ blockedRevision' \in Nat
  BY DEF FlowFails, Fail, TypeOK
<1>2. CASE flow.kind = "recover" /\ Retire(FALSE, req)
  <2>1. ReplaceWorker(FALSE, req) /\ req \in [Reqs -> RequestStates]
    BY <1>2 DEF Retire, TypeOK, RequestStates
  <2>2. flow' \in FlowType
    BY <1>2 DEF FlowFails, FlowType, TypeOK, Phases
  <2>3. QED
    BY <1>1, <1>2, <2>1, <2>2, ReplaceWorkerType DEF FlowFails, Retire, TypeOK
<1>3. CASE flow.kind = "recycle" /\ Finish
  BY <1>1, <1>3, NoFlowType DEF FlowFails, Finish, TypeOK, RequestStates
<1>4. QED
  BY <1>2, <1>3 DEF FlowFails

\* workerFailed keeps everything it touches well typed.
LEMMA WorkerFailedType ==
    ASSUME TypeOK, NEW revision \in Nat, WorkerFailed(revision)
    PROVE  /\ failure' \in BOOLEAN /\ blockedRevision' \in Nat
           /\ failedInputRevision' \in Nat
           /\ restarts' \in Nat /\ automaticRestarts' \in Nat
           /\ automaticTotal' \in Nat /\ probeTotal' \in Nat
           /\ probing' \in BOOLEAN /\ pending' \in BOOLEAN /\ stage' = stage
           /\ flow' \in FlowType /\ journal' \in Seq(Mutations)
           /\ changed' \in BOOLEAN /\ halted' \in BOOLEAN /\ recycles' \in Nat
           /\ worker' \in Nat /\ nextEpoch' \in Nat
           /\ retirement' \in [epoch : Nat, state : {"none", "stopping", "failed"}]
           /\ wdocs' \in [Docs -> Texts] /\ inflight' \in {"none", "sent", "stale"}
           /\ req' \in [Reqs -> RequestStates]
<1>0. req \in [Reqs -> RequestStates] /\ flow \in FlowType
  BY DEF TypeOK, RequestStates, FlowType
<1>1. CASE pending \/ active
  <2>1. ReplaceWorker(FALSE, req) /\ UNCHANGED budget /\ Fail(revision)
    BY <1>1 DEF WorkerFailed, Retire
  <2>2. QED
    BY <1>0, <1>1, <2>1, ReplaceWorkerType
    DEF WorkerFailed, Retire, Fail, budget, TypeOK
<1>2. CASE ~pending /\ ~active /\ MayRestart
  <2>1. Recover(TRUE, req) /\ UNCHANGED <<failure, blockedRevision, changed>>
    BY <1>2 DEF WorkerFailed, circuit
  <2>2. /\ restarts' = restarts + 1 /\ automaticRestarts' = automaticRestarts + 1
        /\ automaticTotal' = automaticTotal + 1 /\ probeTotal' = probeTotal
    BY <1>2 DEF WorkerFailed
  <2>3. restarts' \in Nat /\ automaticRestarts' \in Nat /\ automaticTotal' \in Nat
        /\ probeTotal' \in Nat
    BY <2>2 DEF TypeOK
  <2>4. /\ failedInputRevision' = revision
        /\ UNCHANGED <<probing, stage, journal, recycles, nextEpoch, wdocs>>
    BY DEF WorkerFailed
  <2>5. /\ worker' \in Nat /\ inflight' \in {"none", "sent", "stale"}
        /\ retirement' \in [epoch : Nat, state : {"none", "stopping", "failed"}]
        /\ req' \in [Reqs -> RequestStates]
        /\ pending' \in BOOLEAN /\ halted' \in BOOLEAN /\ flow' \in FlowType
    BY <1>0, <2>1, RecoverType DEF FlowType
  <2>6. QED
    BY <2>1, <2>3, <2>4, <2>5 DEF TypeOK
<1>3. CASE ~pending /\ ~active /\ ~MayRestart
  <2>1. Recover(FALSE, req) /\ UNCHANGED budget /\ Fail(revision)
    BY <1>3 DEF WorkerFailed
  <2>2. QED
    BY <1>0, <1>3, <2>1, RecoverType DEF WorkerFailed, Fail, budget, TypeOK, FlowType
<1>4. QED
  BY <1>1, <1>2, <1>3

\* The supervisor of a root keeps the host's handles well typed.
LEMMA EnsureWorkerType ==
    ASSUME TypeOK, EnsureWorker
    PROVE  /\ worker' \in Nat /\ nextEpoch' \in Nat /\ alive' \subseteq Nat
           /\ retirement' \in [epoch : Nat, state : {"none", "stopping", "failed"}]
           /\ Held \in [Docs -> Texts]
BY DEF EnsureWorker, TypeOK, Held, Closed, NoText, Texts

\* A mutation sent to the worker keeps its documents well typed.
LEMMA MutateType ==
    ASSUME TypeOK, NEW d \in Docs, NEW text \in Texts, Mutate(d, text)
    PROVE  wdocs' \in [Docs -> Texts] /\ inflight' \in {"none", "sent", "stale"}
<1>1. Held \in [Docs -> Texts]
  BY DEF TypeOK, Held, Closed, NoText, Texts
<1>2. QED
  BY <1>1 DEF Mutate

\* A deferred mutation keeps the journal a sequence of mutations.
LEMMA DeferredType ==
    ASSUME TypeOK, NEW d \in Docs, NEW text \in Texts
    PROVE  Deferred(d, text) \in Seq(Mutations)
<1>1. [doc |-> d, text |-> text] \in Mutations
  BY DEF Mutations
<1>2. journal \in Seq(Mutations)
  BY DEF TypeOK
<1>3. Append(journal, [doc |-> d, text |-> text]) \in Seq(Mutations)
  BY <1>1, <1>2
<1>4. ASSUME journal # <<>>
      PROVE  [journal EXCEPT ![Len(journal)] = [doc |-> d, text |-> text]] \in Seq(Mutations)
  BY <1>1, <1>2, <1>4
<1>5. QED
  BY <1>3, <1>4 DEF Deferred

\* Edits keep the state well typed, whether they are sent, deferred or kept back.
LEMMA EditType ==
    ASSUME TypeOK, NEW d \in Docs, NEW text \in Texts, Edit(d, text)
    PROVE  TypeOK'
<1>0. req \in [Reqs -> RequestStates] /\ flow \in FlowType
  BY DEF TypeOK, RequestStates, FlowType
<1>1. docs' \in [Docs -> Texts] /\ inputRevision' \in Nat /\ inputRevision + 1 \in Nat
  BY DEF Edit, TypeOK
<1>2. CASE accepts /\ active /\ DeferMutation(d, text)
  <2>1. CASE WorkerFailed(inputRevision + 1) /\ UNCHANGED alive
    BY <1>1, <2>1, WorkerFailedType DEF TypeOK, RequestStates, FlowType
  <2>2. CASE /\ journal' = Deferred(d, text)
             /\ changed' = TRUE
             /\ flow' = IF flow.kind = "recycle" /\ docs[d] = NoText
                        THEN [flow EXCEPT !.left = @ \cup {d}] ELSE flow
             /\ UNCHANGED <<circuit, failedInputRevision, budget, probing, pending, stage,
                            halted, recycles, host, alive, thread, req>>
    <3>1. journal' \in Seq(Mutations)
      BY <2>2, DeferredType
    <3>2. flow' \in FlowType
      BY <1>0, <2>2 DEF FlowType
    <3>3. QED
      BY <1>1, <2>2, <3>1, <3>2 DEF TypeOK, circuit, budget, host, thread, FlowType
  <2>3. QED
    BY <1>2, <2>1, <2>2 DEF DeferMutation
<1>3. CASE accepts /\ ~active /\ SendMutation(d, text)
  <2>1. CASE CanHost
    <3>1. EnsureWorker /\ Mutate(d, text)
      BY <1>3, <2>1 DEF SendMutation
    <3>2. UNCHANGED <<circuit, failedInputRevision, budget, probing, pending, stage,
                      transaction, req>>
      BY <1>3, <2>1 DEF SendMutation
    <3>3. QED
      BY <1>1, <3>1, <3>2, EnsureWorkerType, MutateType
      DEF TypeOK, circuit, budget, transaction
  <2>2. CASE ~CanHost
    BY <1>1, <1>3, <2>2 DEF SendMutation, Fail, TypeOK, budget, transaction, host, thread
  <2>3. QED
    BY <2>1, <2>2
<1>4. CASE ~accepts /\ UNCHANGED <<circuit, failedInputRevision, budget, probing, pending,
                                   stage, transaction, host, alive, thread, req>>
  BY <1>1, <1>4 DEF TypeOK, circuit, budget, transaction, host, thread
<1>5. QED
  BY <1>2, <1>3, <1>4 DEF Edit

\* A request that only moves keeps the state well typed.
LEMMA MoveType ==
    ASSUME TypeOK, NEW r \in Reqs, NEW state \in RequestStates, Move(r, state)
    PROVE  TypeOK'
BY DEF Move, Goto, TypeOK, RequestStates, inputs, circuit, budget, transaction, host, thread

\* The half-open probe of an explicit request keeps the state well typed.
LEMMA ProbeType ==
    ASSUME TypeOK, NEW r \in Reqs, Probe(r)
    PROVE  TypeOK'
<1>1. Goto(r, "recovering") \in [Reqs -> RequestStates]
  BY DEF Goto, TypeOK, RequestStates
<1>2. Recover(TRUE, Goto(r, "recovering"))
  BY DEF Probe
<1>3. restarts' \in Nat /\ probeTotal' \in Nat /\ blockedRevision' \in Nat
  BY DEF Probe, TypeOK
<1>4. QED
  BY <1>1, <1>2, <1>3, RecoverType DEF Probe, TypeOK, inputs, RequestStates

\* Every step of a request keeps the state well typed.
LEMMA RequestType ==
    ASSUME TypeOK, NEW r \in Reqs,
           Call(r) \/ RequestStep(r) \/ Cancel(r) \/ Answer(r)
    PROVE  TypeOK'
<1>1. {"rejected", "ready", "admitting", "waiting"} \subseteq RequestStates
  BY DEF RequestStates, Settled
<1>2. CASE Call(r)
  BY <1>1, <1>2, MoveType, ProbeType DEF Call
<1>3. CASE Resume(r) \/ Recovered(r) \/ Wait(r) \/ Cancel(r)
  BY <1>1, <1>3, MoveType, ProbeType DEF Resume, Recovered, Wait, Cancel
<1>4. CASE Dispatch(r)
  <2>1. CASE MayDispatch(r)
    <3>1. EnsureWorker /\ wdocs' = Held /\ req' = Goto(r, "sent")
      BY <1>4, <2>1 DEF Dispatch
    <3>2. UNCHANGED <<inputs, circuit, failedInputRevision, budget, probing, pending,
                      stage, transaction, inflight>>
      BY <1>4, <2>1 DEF Dispatch
    <3>3. req' \in [Reqs -> Settled \cup {"admitting", "recovering", "ready", "waiting", "sent"}]
      BY <3>1 DEF Goto, TypeOK
    <3>4. QED
      BY <3>1, <3>2, <3>3, EnsureWorkerType
      DEF TypeOK, inputs, circuit, budget, transaction
  <2>2. CASE ~MayDispatch(r)
    BY <1>1, <1>4, <2>2, MoveType DEF Dispatch
  <2>3. QED
    BY <2>1, <2>2
<1>5. CASE Answer(r)
  <2>1. req' \in [Reqs -> Settled \cup {"admitting", "recovering", "ready", "waiting", "sent"}]
    BY <1>5 DEF Answer, Goto, TypeOK, Settled
  <2>2. automaticRestarts' \in Nat /\ probing' \in BOOLEAN
    <3>1. CASE Healthy
      <4>1. CASE failure
        BY <3>1, <4>1 DEF Healthy, TypeOK
      <4>2. CASE ~failure
        <5>1. probing' = FALSE /\ automaticRestarts' \in {0, automaticRestarts}
          BY <3>1, <4>2 DEF Healthy
        <5>2. 0 \in Nat /\ automaticRestarts \in Nat
          BY DEF TypeOK
        <5>3. automaticRestarts' \in Nat
          BY <5>1, <5>2
        <5>4. QED
          BY <5>1, <5>3
      <4>3. QED
        BY <4>1, <4>2
    <3>2. CASE UNCHANGED <<automaticRestarts, probing>>
      BY <3>2 DEF TypeOK
    <3>3. QED
      BY <1>5, <3>1, <3>2 DEF Answer
  <2>3. QED
    BY <1>5, <2>1, <2>2
    DEF Answer, TypeOK, inputs, circuit, transaction, host, thread
<1>6. QED
  BY <1>2, <1>3, <1>4, <1>5 DEF RequestStep

\* A transaction step's effect on the variables it may change.
LEMMA TransactionType ==
    ASSUME TypeOK, TransactionStep
    PROVE  TypeOK'
<1>0. req \in [Reqs -> RequestStates] /\ flow \in FlowType /\ NoFlow \in FlowType
  BY NoFlowType DEF TypeOK, RequestStates, FlowType
<1>1. UNCHANGED <<inputs, failedInputRevision, budget, probing, stage>>
  BY DEF TransactionStep
<1>2. ASSUME FlowFails PROVE TypeOK'
  BY <1>1, <1>2, FlowFailsType DEF TypeOK, inputs, budget, FlowType, RequestStates
<1>3. ASSUME Finish,
             UNCHANGED <<circuit, changed, halted, recycles, host, alive, thread, req>>
      PROVE  TypeOK'
  <2>1. <<>> \in Seq(Mutations) /\ journal \in Seq(Mutations)
    BY DEF TypeOK
  <2>2. flow' = NoFlow /\ pending' = FALSE /\ journal' \in Seq(Mutations)
    BY <1>3, <2>1 DEF Finish
  <2>3. flow' \in FlowType /\ pending' \in BOOLEAN
    BY <1>0, <2>2
  <2>4. QED
    BY <1>1, <1>3, <2>2, <2>3 DEF TypeOK, inputs, budget, circuit, host, thread, FlowType
<1>4. ASSUME flow' \in FlowType,
             UNCHANGED <<circuit, pending, journal, changed, halted, recycles, host, alive,
                         thread, req>>
      PROVE  TypeOK'
  BY <1>1, <1>4 DEF TypeOK, inputs, budget, circuit, host, thread, FlowType
<1>5. ASSUME flow' \in FlowType, EnsureWorker, wdocs' = Held,
             UNCHANGED <<circuit, pending, journal, changed, halted, recycles, inflight, req>>
      PROVE  TypeOK'
  BY <1>1, <1>5, EnsureWorkerType DEF TypeOK, inputs, budget, circuit, FlowType
<1>6. ASSUME flow' \in FlowType, NEW d \in Docs, NEW text \in Texts, Mutate(d, text),
             UNCHANGED <<circuit, pending, journal, changed, halted, recycles, host, alive, req>>
      PROVE  TypeOK'
  BY <1>1, <1>6, MutateType DEF TypeOK, inputs, budget, circuit, host, FlowType
<1>7. CASE FailingEnds
  BY <1>3, <1>7 DEF FailingEnds
<1>8. CASE Replaced
  <2>1. [flow EXCEPT !.phase = "backoff"] \in FlowType
    BY <1>0 DEF FlowType, Phases
  <2>2. [flow EXCEPT !.phase = "replay", !.left = Open(docs)] \in FlowType
    BY <1>0 DEF FlowType, Phases, Open
  <2>3. QED
    BY <1>2, <1>3, <1>4, <1>5, <1>8, <2>1, <2>2 DEF Replaced
<1>9. CASE BackoffEnds
  <2>1. [flow EXCEPT !.phase = "replay", !.text = docs, !.left = Open(docs)] \in FlowType
    BY <1>0 DEF FlowType, Phases, Open, TypeOK
  <2>2. QED
    BY <1>2, <1>5, <1>9, <2>1 DEF BackoffEnds
<1>10. CASE ReplayStep
  <2>1. ReplayText \in [Docs -> Texts]
    BY <1>0 DEF ReplayText, FlowType, TypeOK
  <2>2. ASSUME NEW d \in flow.left \cap Open(ReplayText)
        PROVE  d \in Docs /\ ReplayText[d] \in Texts
               /\ [flow EXCEPT !.left = @ \ {d}] \in FlowType
    BY <1>0, <2>1 DEF FlowType, Open
  <2>3. [flow EXCEPT !.phase = "flush", !.left = {}] \in FlowType
    BY <1>0 DEF FlowType, Phases
  <2>4. QED
    BY <1>2, <1>4, <1>6, <1>10, <2>2, <2>3 DEF ReplayStep
<1>11. CASE FlushStep
  <2>0. journal \in Seq(Mutations) /\ flow.batch \in Seq(Mutations)
    BY <1>0 DEF FlowType, TypeOK
  <2>1. CASE /\ flow.batch # <<>> /\ worker # 0
             /\ Mutate(Head(flow.batch).doc, Head(flow.batch).text)
             /\ flow' = [flow EXCEPT !.batch = Tail(@)]
             /\ UNCHANGED <<circuit, pending, journal, changed, halted, recycles, host,
                            alive, req>>
    <3>1. Head(flow.batch) \in Mutations /\ Tail(flow.batch) \in Seq(Mutations)
      BY <2>0, <2>1
    <3>2. Head(flow.batch).doc \in Docs /\ Head(flow.batch).text \in Texts
      BY <3>1 DEF Mutations
    <3>3. flow' \in FlowType
      BY <1>0, <2>1, <3>1 DEF FlowType
    <3>4. QED
      BY <1>6, <2>1, <3>2, <3>3
  <2>2. CASE TakeBatch /\ UNCHANGED <<circuit, pending, changed, halted, recycles, host,
                                      alive, thread, req>>
    <3>1. flow' = [flow EXCEPT !.batch = journal] /\ journal' = <<>>
      BY <2>2 DEF TakeBatch
    <3>3. flow' \in FlowType
      BY <1>0, <2>0, <3>1 DEF FlowType
    <3>4. journal' \in Seq(Mutations)
      BY <3>1
    <3>5. QED
      BY <1>1, <2>2, <3>3, <3>4 DEF TypeOK, inputs, budget, circuit, host, thread, FlowType
  <2>3. QED
    BY <1>2, <1>3, <1>11, <2>1, <2>2 DEF FlushStep
<1>12. QED
  BY <1>7, <1>8, <1>9, <1>10, <1>11 DEF TransactionStep

\* Every step keeps the state well typed.
LEMMA TypeStep ==
    ASSUME TypeOK, [Next]_vars
    PROVE  TypeOK'
<1>0. req \in [Reqs -> RequestStates] /\ flow \in FlowType /\ NoFlow \in FlowType
  BY NoFlowType DEF TypeOK, RequestStates, FlowType
<1>1. ASSUME NEW d \in Docs, Sync(d) \/ Close(d)
      PROVE  TypeOK'
  <2>1. NoText \in Texts
    BY DEF NoText, Texts
  <2>2. [version |-> docs[d].version + 1, content |-> inputRevision + 1] \in Texts
    <3>1. docs[d] \in Texts /\ inputRevision \in Nat
      BY DEF TypeOK
    <3>2. docs[d].version + 1 \in Nat /\ inputRevision + 1 \in Nat
      BY <3>1 DEF Texts
    <3>3. QED
      BY <3>2 DEF Texts
  <2>3. QED
    BY <1>1, <2>1, <2>2, EditType DEF Sync, Close
<1>2. CASE Configure
  BY <1>2 DEF Configure, TypeOK, circuit, budget, host, thread, active
<1>3. ASSUME NEW r \in Reqs, Call(r) \/ RequestStep(r) \/ Cancel(r) \/ Answer(r)
      PROVE  TypeOK'
  BY <1>3, RequestType
<1>4. CASE Ack
  BY <1>4 DEF Ack, TypeOK, inputs, circuit, budget, transaction, host
<1>5. CASE WorkerFails
  <2>1. /\ inputRevision \in Nat /\ WorkerFailed(inputRevision)
        /\ UNCHANGED <<docs, inputRevision>> /\ alive' \subseteq alive
    BY <1>5 DEF WorkerFails, TypeOK, inputs
  <2>2. QED
    BY <2>1, WorkerFailedType DEF TypeOK, FlowType, RequestStates
<1>6. CASE ThreadExit
  BY <1>6 DEF ThreadExit, TypeOK, inputs, circuit, budget, transaction, host, thread
<1>7. CASE StopEnds
  <2>1. retirement' \in [epoch : Nat, state : {"none", "stopping", "failed"}]
    BY <1>7, SMTT(60) DEF StopEnds, TypeOK
  <2>2. QED
    BY <1>7, <2>1 DEF StopEnds, TypeOK, inputs, circuit, budget, transaction, thread
<1>8. CASE WindowExpires
  <2>1. restarts' \in Nat
    BY <1>8 DEF WindowExpires, TypeOK
  <2>2. QED
    BY <1>8, <2>1 DEF WindowExpires, TypeOK, inputs, circuit, transaction, host, thread
<1>9. CASE TransactionStep
  BY <1>9, TransactionType
<1>10. CASE Recycle
  <2>1. recycles' \in Nat /\ changed' \in BOOLEAN
    <3>1. recycles' = recycles + 1 /\ changed' = FALSE
      BY <1>10 DEF Recycle
    <3>2. recycles' \in Nat
      BY <3>1 DEF TypeOK
    <3>3. QED
      BY <3>1, <3>2
  <2>2. flow' \in FlowType
    BY <1>0, <1>10 DEF Recycle, NoFlow, FlowType, Phases
  <2>3. QED
    BY <1>10, <2>1, <2>2
    DEF Recycle, TypeOK, inputs, circuit, budget, host, thread, FlowType
<1>11. CASE WitnessArrives
  <2>0. UNCHANGED <<inputs, failedInputRevision, budget, probing, stage,
                    changed, halted, recycles, nextEpoch, alive, wdocs>>
    BY <1>11 DEF WitnessArrives
  <2>1. CASE /\ flow' = [flow EXCEPT !.phase = "retiring"]
             /\ ReplaceWorker(FALSE, req)
             /\ UNCHANGED <<circuit, pending, journal>>
    <3>1. flow' \in FlowType
      BY <1>0, <2>1 DEF FlowType, Phases
    <3>2. QED
      BY <1>0, <2>0, <2>1, <3>1, ReplaceWorkerType
      DEF TypeOK, inputs, circuit, budget, FlowType, RequestStates
  <2>2. CASE /\ flow' = [flow EXCEPT !.phase = "abandon"]
             /\ UNCHANGED <<circuit, pending, journal, worker, retirement, inflight, req>>
    <3>1. flow' \in FlowType
      BY <1>0, <2>2 DEF FlowType, Phases
    <3>2. QED
      BY <2>0, <2>2, <3>1, ZenonT(60) DEF TypeOK, inputs, circuit, budget, FlowType
  <2>3. CASE /\ flow' = NoFlow /\ pending' = FALSE /\ journal' = <<>>
             /\ IF journal = <<>> THEN UNCHANGED circuit ELSE Fail(inputRevision)
             /\ UNCHANGED <<worker, retirement, inflight, req>>
    <3>1. flow' \in FlowType /\ pending' \in BOOLEAN
      BY <1>0, <2>3
    <3>4. journal' \in Seq(Mutations)
      BY <2>3
    <3>2. failure' \in BOOLEAN /\ blockedRevision' \in Nat
      <4>1. CASE UNCHANGED circuit
        BY <4>1 DEF circuit, TypeOK
      <4>2. CASE Fail(inputRevision)
        BY <4>2 DEF Fail, TypeOK
      <4>3. QED
        BY <2>3, <4>1, <4>2
    <3>3. QED
      BY <2>0, <2>3, <3>1, <3>2, <3>4 DEF TypeOK, inputs, budget, FlowType
  <2>4. QED
    BY <1>11, <2>1, <2>2, <2>3 DEF WitnessArrives
<1>12. CASE Dispose
  <2>1. ReplaceWorker(TRUE, req) /\ halted' = TRUE /\ changed' = TRUE /\ stage' = "retiring"
    BY <1>12 DEF Dispose, Retire
  <2>2. QED
    BY <1>0, <1>12, <2>1, ReplaceWorkerType
    DEF Dispose, TypeOK, inputs, circuit, budget, RequestStates
<1>13. CASE DisposeStep
  <2>0. UNCHANGED <<inputs, circuit, failedInputRevision, budget, probing, pending,
                    transaction, nextEpoch, alive, wdocs>>
    BY <1>13 DEF DisposeStep
  <2>1. stage' \in {"failed", "settling", "closing", "closed"}
    BY <1>13 DEF DisposeStep
  <2>2. CASE UNCHANGED <<worker, retirement, inflight, req>>
    BY <2>0, <2>1, <2>2 DEF TypeOK, inputs, circuit, budget, transaction
  <2>3. CASE ReplaceWorker(TRUE, req)
    BY <1>0, <2>0, <2>1, <2>3, ReplaceWorkerType, ZenonT(60)
    DEF TypeOK, inputs, circuit, budget, transaction, RequestStates
  <2>4. QED
    BY <1>13, <2>2, <2>3 DEF DisposeStep
<1>14. CASE UNCHANGED vars
  BY <1>14 DEF vars, TypeOK, inputs, circuit, budget, transaction, host, thread
<1>15. QED
  BY <1>1, <1>2, <1>3, <1>4, <1>5, <1>6, <1>7, <1>8, <1>9, <1>10, <1>11, <1>12, <1>13,
     <1>14 DEF Next

\* Every behaviour of the recovery machinery is well typed, for any number of
\* documents, requests and inputs and any budget.
THEOREM TypeCorrect == Spec => []TypeOK
<1>1. Init => TypeOK
  <2>1. Closed \in [Docs -> Texts] /\ <<>> \in Seq(Mutations)
    BY DEF Closed, NoText, Texts
  <2>2. NoFlow \in [kind : {"none", "recover", "recycle"}, phase : Phases, restart : BOOLEAN,
                     left : SUBSET Docs, text : [Docs -> Texts], batch : Seq(Mutations)]
    BY NoFlowType DEF FlowType
  <2>3. SUFFICES ASSUME Init PROVE TypeOK
    OBVIOUS
  <2>4. /\ retirement \in [epoch : Nat, state : {"none", "stopping", "failed"}]
        /\ req \in [Reqs -> Settled \cup {"admitting", "recovering", "ready", "waiting", "sent"}]
    BY <2>3 DEF Init, Settled
  <2>5. QED
    BY <2>1, <2>2, <2>3, <2>4 DEF Init, TypeOK
<1>2. TypeOK /\ [Next]_vars => TypeOK'
  BY TypeStep
<1>3. QED
  BY <1>1, <1>2, PTL DEF Spec
-----------------------------------------------------------------------------
(* One thread at a time.                                                   *)

\* The threads that may still run are the current worker and the one being
\* retired, and the host never has both.
HandleInv ==
    /\ alive \subseteq {worker, retirement.epoch} \ {0}
    /\ worker # 0 => retirement.state = "none"
    /\ retirement.state = "none" <=> retirement.epoch = 0
    /\ nextEpoch # 0

\* The four ways a step may treat the host's handles: keep them (a failed stop
\* may be tried again), retire the worker, allocate one, release a stopped one.
KeepsHandles ==
    /\ UNCHANGED <<worker, nextEpoch>>
    /\ retirement'.epoch = retirement.epoch
    /\ retirement'.state = "none" <=> retirement.state = "none"
    /\ alive' \subseteq alive
Retires ==
    /\ worker # 0 /\ worker' = 0
    /\ retirement.state = "none"
    /\ retirement' = [epoch |-> worker, state |-> "stopping"]
    /\ nextEpoch' = nextEpoch /\ alive' \subseteq alive
Allocates == retirement.state = "none" /\ EnsureWorker
Releases ==
    /\ retirement.epoch \notin alive
    /\ retirement' = [epoch |-> 0, state |-> "none"]
    /\ UNCHANGED <<worker, nextEpoch, alive>>

\* Each of the four keeps the invariant: in particular a worker is allocated only
\* when the previous one has exited.
LEMMA HandleInvStep ==
    ASSUME TypeOK, HandleInv, KeepsHandles \/ Retires \/ Allocates \/ Releases
    PROVE  HandleInv'
<1>1. CASE KeepsHandles
  BY <1>1 DEF KeepsHandles, HandleInv
<1>2. CASE Retires
  BY <1>2 DEF Retires, HandleInv
<1>3. CASE Allocates
  <2>1. retirement' = retirement /\ retirement.state = "none" /\ retirement.epoch = 0
    BY <1>3 DEF Allocates, EnsureWorker, HandleInv
  <2>2. CASE worker = 0
    <3>1. worker' = nextEpoch /\ nextEpoch' = nextEpoch + 1 /\ alive' = alive \cup {nextEpoch}
      BY <1>3, <2>2 DEF Allocates, EnsureWorker
    <3>2. nextEpoch' # 0
      BY <3>1 DEF TypeOK
    <3>3. QED
      BY <2>1, <2>2, <3>1, <3>2 DEF HandleInv
  <2>3. CASE worker # 0
    BY <1>3, <2>1, <2>3 DEF Allocates, EnsureWorker, HandleInv
  <2>4. QED
    BY <2>2, <2>3
<1>4. CASE Releases
  BY <1>4 DEF Releases, HandleInv
<1>5. QED
  BY <1>1, <1>2, <1>3, <1>4

\* replaceWorker keeps the handles or retires the worker.
LEMMA ReplaceWorkerHandles ==
    ASSUME TypeOK, NEW retry \in BOOLEAN, NEW rq, ReplaceWorker(retry, rq),
           nextEpoch' = nextEpoch, alive' \subseteq alive
    PROVE  KeepsHandles \/ Retires
<1>1. CASE retirement.state # "none"
  <2>1. worker' = worker /\ retirement'.epoch = retirement.epoch
        /\ retirement'.state # "none"
    BY <1>1 DEF ReplaceWorker, TypeOK
  <2>2. QED
    BY <1>1, <2>1 DEF KeepsHandles
<1>2. CASE retirement.state = "none" /\ worker = 0
  BY <1>2 DEF ReplaceWorker, KeepsHandles
<1>3. CASE retirement.state = "none" /\ worker # 0
  BY <1>3 DEF ReplaceWorker, Retires
<1>4. QED
  BY <1>1, <1>2, <1>3

\* So do recover and workerFailed.
LEMMA RecoverHandles ==
    ASSUME TypeOK, NEW restart \in BOOLEAN, NEW rq, Recover(restart, rq),
           nextEpoch' = nextEpoch, alive' \subseteq alive
    PROVE  KeepsHandles \/ Retires
<1>1. CASE active
  BY <1>1 DEF Recover, KeepsHandles
<1>2. CASE ~active
  BY <1>2, ReplaceWorkerHandles DEF Recover
<1>3. QED
  BY <1>1, <1>2

\* A worker failure keeps the handles or retires the worker.
LEMMA WorkerFailedHandles ==
    ASSUME TypeOK, NEW revision, WorkerFailed(revision), alive' \subseteq alive
    PROVE  KeepsHandles \/ Retires
<1>1. nextEpoch' = nextEpoch
  BY DEF WorkerFailed
<1>2. CASE Retire(FALSE, req)
  BY <1>1, <1>2, ReplaceWorkerHandles DEF Retire
<1>3. CASE Recover(TRUE, req) \/ Recover(FALSE, req)
  BY <1>1, <1>3, RecoverHandles
<1>4. QED
  BY <1>2, <1>3 DEF WorkerFailed

\* Every step treats the handles in one of the four ways.
LEMMA HandleStep ==
    ASSUME TypeOK, [Next]_vars
    PROVE  KeepsHandles \/ Retires \/ Allocates \/ Releases
<1>0. ASSUME UNCHANGED <<worker, retirement, nextEpoch, alive>>
      PROVE  KeepsHandles
  BY <1>0 DEF KeepsHandles
<1>1. ASSUME NEW d \in Docs, NEW text, Edit(d, text)
      PROVE  KeepsHandles \/ Retires \/ Allocates
  <2>1. CASE accepts /\ active /\ DeferMutation(d, text)
    <3>1. CASE WorkerFailed(inputRevision + 1) /\ UNCHANGED alive
      BY <3>1, WorkerFailedHandles
    <3>2. CASE UNCHANGED <<host, alive>>
      BY <1>0, <3>2 DEF host
    <3>3. QED
      BY <2>1, <3>1, <3>2 DEF DeferMutation
  <2>2. CASE accepts /\ ~active /\ SendMutation(d, text)
    BY <1>0, <2>2 DEF SendMutation, Allocates, CanHost, host
  <2>3. CASE UNCHANGED <<host, alive>>
    BY <1>0, <2>3 DEF host
  <2>4. QED
    BY <1>1, <2>1, <2>2, <2>3 DEF Edit
<1>2. ASSUME NEW r \in Reqs, Call(r) \/ RequestStep(r) \/ Cancel(r) \/ Answer(r)
      PROVE  KeepsHandles \/ Retires \/ Allocates
  <2>1. ASSUME NEW state, Move(r, state) PROVE KeepsHandles
    BY <1>0, <2>1 DEF Move, host
  <2>2. ASSUME Probe(r) PROVE KeepsHandles \/ Retires
    BY <2>2, RecoverHandles DEF Probe
  <2>3. CASE Answer(r)
    BY <1>0, <2>3 DEF Answer, host
  <2>4. CASE Dispatch(r)
    BY <2>1, <2>4 DEF Dispatch, MayDispatch, Allocates, CanHost
  <2>5. QED
    BY <1>2, <2>1, <2>2, <2>3, <2>4 DEF Call, RequestStep, Resume, Recovered, Wait, Cancel
<1>3. CASE TransactionStep
  <2>1. ASSUME FlowFails PROVE KeepsHandles \/ Retires
    <3>1. nextEpoch' = nextEpoch /\ alive' = alive
      BY <2>1 DEF FlowFails
    <3>2. CASE Retire(FALSE, req)
      BY <3>1, <3>2, ReplaceWorkerHandles DEF Retire
    <3>3. CASE UNCHANGED <<worker, retirement>>
      BY <1>0, <3>1, <3>3
    <3>4. QED
      BY <2>1, <3>2, <3>3 DEF FlowFails
  <2>2. CASE FailingEnds
    BY <1>0, <2>2 DEF FailingEnds, host
  <2>3. CASE Replaced
    BY <1>0, <2>1, <2>3 DEF Replaced, Allocates, CanHost, host
  <2>4. CASE BackoffEnds
    BY <2>1, <2>4 DEF BackoffEnds, Allocates, CanHost
  <2>5. CASE ReplayStep
    BY <1>0, <2>1, <2>5 DEF ReplayStep, host
  <2>6. CASE FlushStep
    BY <1>0, <2>1, <2>6 DEF FlushStep, host
  <2>7. QED
    BY <1>3, <2>2, <2>3, <2>4, <2>5, <2>6 DEF TransactionStep
<1>4. CASE Configure \/ Ack \/ WindowExpires \/ Recycle \/ UNCHANGED vars
  BY <1>0, <1>4 DEF Configure, Ack, WindowExpires, Recycle, vars, host
<1>5. CASE WorkerFails
  BY <1>5, WorkerFailedHandles DEF WorkerFails
<1>6. CASE ThreadExit
  BY <1>6 DEF ThreadExit, KeepsHandles, host
<1>7. CASE StopEnds
  BY <1>7 DEF StopEnds, Exited, KeepsHandles, Releases, TypeOK
<1>8. CASE WitnessArrives
  <2>1. nextEpoch' = nextEpoch /\ alive' = alive
    BY <1>8 DEF WitnessArrives
  <2>2. ReplaceWorker(FALSE, req) \/ UNCHANGED <<worker, retirement>>
    BY <1>8 DEF WitnessArrives
  <2>3. QED
    BY <1>0, <2>1, <2>2, ReplaceWorkerHandles
<1>9. CASE Dispose
  BY <1>9, ReplaceWorkerHandles DEF Dispose, Retire
<1>10. CASE DisposeStep
  <2>1. nextEpoch' = nextEpoch /\ alive' = alive
    BY <1>10 DEF DisposeStep
  <2>2. ReplaceWorker(TRUE, req) \/ UNCHANGED <<worker, retirement>>
    BY <1>10 DEF DisposeStep
  <2>3. QED
    BY <1>0, <2>1, <2>2, ReplaceWorkerHandles
<1>11. QED
  BY <1>1, <1>2, <1>3, <1>4, <1>5, <1>6, <1>7, <1>8, <1>9, <1>10 DEF Next, Sync, Close

\* At most one semantic worker thread exists, for every number of documents and
\* requests, whatever fails, is replaced, recycled or disposed.
THEOREM OneWorker == Spec => []SingleWorker
<1>1. Init => HandleInv
  BY DEF Init, HandleInv
<1>2. TypeOK /\ HandleInv /\ [Next]_vars => HandleInv'
  BY HandleStep, HandleInvStep
<1>3. HandleInv => SingleWorker
  BY DEF HandleInv, SingleWorker
<1>4. QED
  BY <1>1, <1>2, <1>3, TypeCorrect, PTL DEF Spec
-----------------------------------------------------------------------------
(* Recoveries are bounded by the inputs.                                   *)

\* What each recovery is paid with.  A probe needs a revision above the blocked
\* one and moves the block there.  The automatic count returns to zero only
\* when the inputs have moved past the failed ones, so the recoveries granted
\* before the current streak were paid for by the revisions up to the failure.
BudgetInv ==
    /\ blockedRevision <= inputRevision /\ failedInputRevision <= inputRevision
    /\ restarts <= RateLimit /\ automaticRestarts <= AutomaticLimit
    /\ probeTotal <= blockedRevision
    /\ automaticRestarts > 0 =>
         automaticTotal - automaticRestarts <= AutomaticLimit * failedInputRevision
    /\ automaticRestarts = 0 => automaticTotal <= AutomaticLimit * inputRevision
\* The four ways a step may treat the budget: leave it (the revisions may grow),
\* spend an automatic recovery, spend a probe, replenish the automatic count.
KeepsBudget ==
    /\ UNCHANGED <<automaticRestarts, automaticTotal, probeTotal>>
    /\ restarts' <= restarts /\ inputRevision <= inputRevision'
    /\ failedInputRevision <= failedInputRevision' /\ failedInputRevision' <= inputRevision'
    /\ blockedRevision <= blockedRevision' /\ blockedRevision' <= inputRevision'
SpendsAutomatic ==
    /\ restarts < RateLimit /\ automaticRestarts < AutomaticLimit
    /\ restarts' = restarts + 1 /\ automaticRestarts' = automaticRestarts + 1
    /\ automaticTotal' = automaticTotal + 1
    /\ UNCHANGED <<probeTotal, blockedRevision>>
    /\ inputRevision <= inputRevision' /\ failedInputRevision' = inputRevision'
SpendsProbe ==
    /\ restarts < RateLimit /\ blockedRevision < inputRevision
    /\ restarts' = restarts + 1 /\ probeTotal' = probeTotal + 1
    /\ blockedRevision' = inputRevision
    /\ UNCHANGED <<automaticRestarts, automaticTotal, failedInputRevision, inputRevision>>
Replenishes ==
    /\ failedInputRevision < inputRevision /\ automaticRestarts' = 0
    /\ UNCHANGED <<restarts, automaticTotal, probeTotal, failedInputRevision, inputRevision,
                   blockedRevision>>

\* Multiplication by a natural number is monotonic, and distributes over + 1.
LEMMA TimesMonotonic ==
    ASSUME NEW k \in Nat, NEW m \in Nat, NEW n \in Nat, m <= n
    PROVE  k * m \in Nat /\ k * n \in Nat /\ k * m <= k * n /\ k * (m + 1) = k * m + k
<1>1. PICK e \in Nat : n = m + e
  <2>1. n - m \in Nat /\ n = m + (n - m)
    OBVIOUS
  <2>2. QED
    BY <2>1
<1>2. k * m \in Nat /\ k * n \in Nat /\ k * e \in Nat
  OBVIOUS
<1>3. k * n = k * m + k * e
  BY <1>1
<1>4. QED
  BY <1>2, <1>3

\* Each of the four keeps the invariant.
LEMMA BudgetInvStep ==
    ASSUME TypeOK, TypeOK', BudgetInv,
           KeepsBudget \/ SpendsAutomatic \/ SpendsProbe \/ Replenishes
    PROVE  BudgetInv'
<1>0. /\ AutomaticLimit \in Nat /\ RateLimit \in Nat
      /\ inputRevision \in Nat /\ failedInputRevision \in Nat /\ blockedRevision \in Nat
      /\ restarts \in Nat /\ automaticRestarts \in Nat /\ automaticTotal \in Nat
      /\ probeTotal \in Nat
      /\ inputRevision' \in Nat /\ failedInputRevision' \in Nat /\ blockedRevision' \in Nat
      /\ restarts' \in Nat /\ automaticRestarts' \in Nat /\ automaticTotal' \in Nat
      /\ probeTotal' \in Nat
  BY ConstantsAssumption DEF TypeOK
<1> DEFINE Paid(n) == AutomaticLimit * n
<1>p. ASSUME NEW m \in Nat, NEW n \in Nat, m <= n
      PROVE  Paid(m) \in Nat /\ Paid(n) \in Nat /\ Paid(m) <= Paid(n)
  BY <1>0, <1>p, TimesMonotonic
<1>q. /\ automaticRestarts > 0 => automaticTotal - automaticRestarts <= Paid(failedInputRevision)
      /\ automaticRestarts = 0 => automaticTotal <= Paid(inputRevision)
  BY DEF BudgetInv
<1>s. /\ blockedRevision <= inputRevision /\ failedInputRevision <= inputRevision
      /\ restarts <= RateLimit /\ automaticRestarts <= AutomaticLimit
      /\ probeTotal <= blockedRevision
  BY DEF BudgetInv
<1>r. ASSUME blockedRevision' <= inputRevision', failedInputRevision' <= inputRevision',
             restarts' <= RateLimit, automaticRestarts' <= AutomaticLimit,
             probeTotal' <= blockedRevision',
             automaticRestarts' > 0 =>
               automaticTotal' - automaticRestarts' <= Paid(failedInputRevision'),
             automaticRestarts' = 0 => automaticTotal' <= Paid(inputRevision')
      PROVE  BudgetInv'
  BY <1>r DEF BudgetInv
<1> HIDE DEF Paid
<1>1. CASE KeepsBudget
  <2>1. failedInputRevision <= failedInputRevision' /\ inputRevision <= inputRevision'
    BY <1>1 DEF KeepsBudget
  <2>2. /\ Paid(failedInputRevision) \in Nat /\ Paid(failedInputRevision') \in Nat
        /\ Paid(failedInputRevision) <= Paid(failedInputRevision')
    BY <1>0, <1>p, <2>1
  <2>3. /\ Paid(inputRevision) \in Nat /\ Paid(inputRevision') \in Nat
        /\ Paid(inputRevision) <= Paid(inputRevision')
    BY <1>0, <1>p, <2>1
  <2>4. /\ automaticRestarts' > 0 =>
             automaticTotal' - automaticRestarts' <= Paid(failedInputRevision')
        /\ automaticRestarts' = 0 => automaticTotal' <= Paid(inputRevision')
    BY <1>0, <1>1, <1>q, <2>2, <2>3 DEF KeepsBudget
  <2>5. /\ blockedRevision' <= inputRevision' /\ failedInputRevision' <= inputRevision'
        /\ restarts' <= RateLimit /\ automaticRestarts' <= AutomaticLimit
        /\ probeTotal' <= blockedRevision'
    BY <1>0, <1>1, <1>s DEF KeepsBudget
  <2>6. QED
    BY <1>r, <2>4, <2>5
<1>2. CASE SpendsAutomatic
  <2>1. failedInputRevision <= failedInputRevision' /\ inputRevision <= failedInputRevision'
    BY <1>0, <1>2 DEF SpendsAutomatic, BudgetInv
  <2>2. /\ Paid(failedInputRevision) \in Nat /\ Paid(failedInputRevision') \in Nat
        /\ Paid(failedInputRevision) <= Paid(failedInputRevision')
    BY <1>0, <1>p, <2>1
  <2>3. Paid(inputRevision) \in Nat /\ Paid(inputRevision) <= Paid(failedInputRevision')
    BY <1>0, <1>p, <2>1
  <2>4. automaticTotal' - automaticRestarts' <= Paid(failedInputRevision')
    BY <1>0, <1>2, <1>q, <2>2, <2>3 DEF SpendsAutomatic
  <2>5. /\ blockedRevision' <= inputRevision' /\ failedInputRevision' <= inputRevision'
        /\ restarts' <= RateLimit /\ automaticRestarts' <= AutomaticLimit
        /\ probeTotal' <= blockedRevision' /\ automaticRestarts' # 0
    BY <1>0, <1>2, <1>s DEF SpendsAutomatic
  <2>6. QED
    BY <1>r, <2>4, <2>5
<1>3. CASE SpendsProbe
  BY <1>0, <1>3, <1>q, <1>r DEF SpendsProbe, BudgetInv
<1>4. CASE Replenishes
  <2>1. failedInputRevision + 1 \in Nat /\ failedInputRevision + 1 <= inputRevision
    BY <1>0, <1>4 DEF Replenishes
  <2>2. /\ Paid(failedInputRevision + 1) \in Nat /\ Paid(inputRevision) \in Nat
        /\ Paid(failedInputRevision + 1) <= Paid(inputRevision)
    BY <1>0, <1>p, <2>1
  <2>3. Paid(failedInputRevision + 1) = Paid(failedInputRevision) + AutomaticLimit
        /\ Paid(failedInputRevision) \in Nat
    BY <1>0, TimesMonotonic DEF Paid
  <2>4. automaticTotal <= Paid(inputRevision)
    BY <1>0, <1>q, <2>2, <2>3 DEF BudgetInv
  <2>5. QED
    BY <1>0, <1>4, <1>r, <2>4 DEF Replenishes, BudgetInv
<1>5. QED
  BY <1>1, <1>2, <1>3, <1>4

\* workerFailed leaves the budget or spends an automatic recovery.
LEMMA WorkerFailedBudget ==
    ASSUME TypeOK, BudgetInv, NEW revision \in Nat, WorkerFailed(revision),
           inputRevision <= revision, inputRevision' = revision
    PROVE  KeepsBudget \/ SpendsAutomatic
<1>1. failedInputRevision' = revision
  BY DEF WorkerFailed
<1>2. ASSUME Fail(revision), UNCHANGED budget
      PROVE  KeepsBudget
  <2>1. blockedRevision' \in {blockedRevision, revision}
    BY <1>2 DEF Fail
  <2>2. QED
    BY <1>1, <1>2, <2>1 DEF budget, KeepsBudget, BudgetInv, TypeOK
<1>3. CASE ~pending /\ ~active /\ MayRestart
  <2>1. /\ restarts' = restarts + 1 /\ automaticRestarts' = automaticRestarts + 1
        /\ automaticTotal' = automaticTotal + 1
        /\ UNCHANGED <<probeTotal, blockedRevision>>
    BY <1>3 DEF WorkerFailed, circuit
  <2>2. restarts < RateLimit /\ automaticRestarts < AutomaticLimit
    BY <1>3 DEF MayRestart
  <2>3. QED
    BY <1>1, <2>1, <2>2 DEF SpendsAutomatic
<1>4. QED
  BY <1>2, <1>3 DEF WorkerFailed
\* Every step treats the budget in one of the four ways.
LEMMA BudgetStep ==
    ASSUME TypeOK, BudgetInv, [Next]_vars
    PROVE  KeepsBudget \/ SpendsAutomatic \/ SpendsProbe \/ Replenishes
<1>0. /\ inputRevision \in Nat /\ blockedRevision \in Nat /\ failedInputRevision \in Nat
      /\ restarts \in Nat /\ blockedRevision <= inputRevision
      /\ failedInputRevision <= inputRevision
  BY DEF TypeOK, BudgetInv
<1>1. ASSUME UNCHANGED <<budget, failedInputRevision>>,
             inputRevision' \in {inputRevision, inputRevision + 1},
             blockedRevision' \in {blockedRevision, inputRevision, inputRevision'}
      PROVE  KeepsBudget
  BY <1>0, <1>1 DEF budget, KeepsBudget
<1>2. ASSUME UNCHANGED <<circuit, budget, failedInputRevision, inputRevision>>
      PROVE  KeepsBudget
  BY <1>1, <1>2 DEF circuit
<1>3. ASSUME NEW d \in Docs, NEW text, Edit(d, text)
      PROVE  KeepsBudget \/ SpendsAutomatic
  <2>1. inputRevision' = inputRevision + 1 /\ inputRevision + 1 \in Nat
        /\ inputRevision <= inputRevision + 1
    BY <1>0, <1>3 DEF Edit
  <2>2. CASE DeferMutation(d, text)
    <3>1. CASE WorkerFailed(inputRevision + 1)
      BY <2>1, <3>1, WorkerFailedBudget
    <3>2. CASE UNCHANGED <<circuit, budget, failedInputRevision>>
      BY <1>1, <2>1, <3>2 DEF circuit
    <3>3. QED
      BY <2>2, <3>1, <3>2 DEF DeferMutation
  <2>3. CASE SendMutation(d, text)
    <3>1. UNCHANGED <<budget, failedInputRevision>>
      BY <2>3 DEF SendMutation
    <3>2. CASE UNCHANGED circuit
      BY <1>1, <2>1, <3>1, <3>2 DEF circuit
    <3>3. CASE Fail(inputRevision + 1)
      BY <1>1, <2>1, <3>1, <3>3 DEF Fail
    <3>4. QED
      BY <2>3, <3>2, <3>3 DEF SendMutation
  <2>4. CASE UNCHANGED <<circuit, budget, failedInputRevision>>
    BY <1>1, <2>1, <2>4 DEF circuit
  <2>5. QED
    BY <1>3, <2>2, <2>3, <2>4 DEF Edit
<1>4. ASSUME NEW r \in Reqs, Call(r) \/ RequestStep(r) \/ Cancel(r) \/ Answer(r)
      PROVE  KeepsBudget \/ SpendsProbe \/ Replenishes
  <2>1. ASSUME NEW state, Move(r, state) PROVE KeepsBudget
    BY <1>2, <2>1 DEF Move, inputs
  <2>2. ASSUME Probe(r) PROVE SpendsProbe
    <3>1. restarts < RateLimit /\ blockedRevision < inputRevision
      BY <1>0, <2>2 DEF Probe, MayProbe
    <3>2. restarts' = restarts + 1 /\ probeTotal' = probeTotal + 1
          /\ blockedRevision' = inputRevision
      BY <2>2 DEF Probe
    <3>3. UNCHANGED <<automaticRestarts, automaticTotal, failedInputRevision, inputRevision>>
      BY <2>2 DEF Probe, inputs
    <3>4. QED
      BY <3>1, <3>2, <3>3 DEF SpendsProbe
  <2>3. CASE Answer(r)
    <3>1. UNCHANGED <<inputRevision, failure, blockedRevision, failedInputRevision, restarts,
                      automaticTotal, probeTotal>>
      BY <2>3 DEF Answer, inputs, circuit
    <3>2. CASE automaticRestarts' = automaticRestarts
      BY <1>2, <3>1, <3>2 DEF circuit, budget
    <3>3. CASE automaticRestarts' = 0 /\ inputRevision > failedInputRevision
      BY <1>0, <3>1, <3>3 DEF Replenishes
    <3>4. QED
      BY <2>3, <3>2, <3>3 DEF Answer, Healthy, ResetsBudget
  <2>4. CASE Dispatch(r)
    <3>1. CASE MayDispatch(r)
      BY <1>2, <2>4, <3>1 DEF Dispatch, inputs
    <3>2. CASE ~MayDispatch(r)
      BY <2>1, <2>4, <3>2 DEF Dispatch
    <3>3. QED
      BY <3>1, <3>2
  <2>5. QED
    BY <1>4, <2>1, <2>2, <2>3, <2>4 DEF Call, RequestStep, Resume, Recovered, Wait, Cancel
<1>5. CASE TransactionStep
  <2>1. UNCHANGED <<budget, failedInputRevision, inputRevision>>
    BY <1>5 DEF TransactionStep, inputs
  <2>2. ASSUME Fail(inputRevision) PROVE KeepsBudget
    BY <1>1, <2>1, <2>2 DEF Fail
  <2>3. ASSUME UNCHANGED circuit PROVE KeepsBudget
    BY <1>2, <2>1, <2>3
  <2>4. QED
    BY <1>5, <2>2, <2>3
    DEF TransactionStep, FailingEnds, Replaced, BackoffEnds, ReplayStep, FlushStep, FlowFails
<1>6. CASE Configure
  <2>1. inputRevision' = inputRevision + 1
        /\ UNCHANGED <<circuit, budget, failedInputRevision>>
    BY <1>6 DEF Configure
  <2>2. QED
    BY <1>1, <2>1 DEF circuit
<1>7. CASE Ack \/ Recycle \/ ThreadExit \/ StopEnds \/ Dispose \/ DisposeStep \/ UNCHANGED vars
  BY <1>2, <1>7 DEF Ack, Recycle, ThreadExit, StopEnds, Dispose, DisposeStep, vars, inputs
<1>8. CASE WorkerFails
  BY <1>0, <1>8, WorkerFailedBudget DEF WorkerFails, inputs
<1>9. CASE WindowExpires
  BY <1>0, <1>9 DEF WindowExpires, KeepsBudget, inputs, circuit
<1>10. CASE WitnessArrives
  <2>1. UNCHANGED <<budget, failedInputRevision, inputRevision>>
    BY <1>10 DEF WitnessArrives, inputs
  <2>2. Fail(inputRevision) \/ UNCHANGED circuit
    BY <1>10 DEF WitnessArrives
  <2>3. QED
    BY <1>1, <1>2, <2>1, <2>2 DEF Fail
<1>11. QED
  BY <1>3, <1>4, <1>5, <1>6, <1>7, <1>8, <1>9, <1>10 DEF Next, Sync, Close

\* BudgetInv holds in every behaviour.
LEMMA BudgetInvariant == Spec => []BudgetInv
<1>1. Init => BudgetInv
  <2>1. AutomaticLimit \in Nat /\ RateLimit \in Nat /\ AutomaticLimit * 0 = 0
    BY ConstantsAssumption
  <2>2. QED
    BY <2>1 DEF Init, BudgetInv
<1>2. TypeOK /\ BudgetInv /\ [Next]_vars => BudgetInv'
  BY TypeStep, BudgetStep, BudgetInvStep
<1>3. QED
  BY <1>1, <1>2, TypeCorrect, PTL DEF Spec

\* The recoveries ever granted are bounded by how often the inputs changed, for
\* every limit and every order of failures, successes and expiring windows.
THEOREM BoundedRecoveries == Spec => []RecoveriesBounded
<1>1. ASSUME TypeOK, BudgetInv PROVE RecoveriesBounded
  <2>1. /\ AutomaticLimit \in Nat /\ inputRevision \in Nat /\ failedInputRevision \in Nat
        /\ automaticTotal \in Nat /\ automaticRestarts \in Nat /\ probeTotal \in Nat
        /\ blockedRevision \in Nat
    BY <1>1, ConstantsAssumption DEF TypeOK
  <2> DEFINE Paid(n) == AutomaticLimit * n
  <2>2. /\ Paid(failedInputRevision) \in Nat /\ Paid(inputRevision) \in Nat
        /\ Paid(failedInputRevision) <= Paid(inputRevision)
    BY <1>1, <2>1, TimesMonotonic DEF BudgetInv
  <2>3. (AutomaticLimit + 1) * inputRevision = Paid(inputRevision) + inputRevision
    BY <2>1
  <2>4. /\ automaticRestarts > 0 => automaticTotal - automaticRestarts <= Paid(failedInputRevision)
        /\ automaticRestarts = 0 => automaticTotal <= Paid(inputRevision)
        /\ automaticRestarts <= AutomaticLimit
        /\ probeTotal <= blockedRevision /\ blockedRevision <= inputRevision
    BY <1>1 DEF BudgetInv
  <2> HIDE DEF Paid
  <2>5. automaticTotal + probeTotal <= Paid(inputRevision) + inputRevision + AutomaticLimit
    BY <2>1, <2>2, <2>4
  <2>6. QED
    BY <2>3, <2>5 DEF RecoveriesBounded
<1>2. QED
  BY <1>1, TypeCorrect, BudgetInvariant, PTL

\* The rate window and the automatic budget are never overdrawn.
THEOREM BudgetKept == Spec => []WithinBudget
<1>1. BudgetInv => WithinBudget
  BY DEF BudgetInv, WithinBudget
<1>2. QED
  BY <1>1, BudgetInvariant, PTL

-----------------------------------------------------------------------------
(* Disposal.                                                               *)

\* A disposed proxy has halted its transactions and given up its worker.
DisposeInv ==
    /\ stage # "open" => halted /\ worker = 0
    /\ stage = "closed" => retirement.state = "none"

\* A step that allocates a worker or takes the halt back happens on an open
\* proxy: the circuit, checkHealth and the halt are consulted everywhere.
LEMMA AllocatesWhenOpen ==
    ASSUME TypeOK, DisposeInv, [Next]_vars, stage # "open"
    PROVE  nextEpoch' = nextEpoch /\ halted' /\ (worker = 0 => worker' = 0)
<1>0. ~accepts /\ halted
  BY DEF accepts, DisposeInv
<1>1. ASSUME NEW retry, NEW rq, ReplaceWorker(retry, rq), worker = 0
      PROVE  worker' = 0
  BY <1>1 DEF ReplaceWorker
<1>2. ASSUME UNCHANGED <<worker, nextEpoch, halted>>
      PROVE  nextEpoch' = nextEpoch /\ halted' /\ (worker = 0 => worker' = 0)
  BY <1>0, <1>2
<1>3. ASSUME NEW d \in Docs, NEW text, Edit(d, text)
      PROVE  UNCHANGED <<worker, nextEpoch, halted>>
  BY <1>0, <1>3 DEF Edit, transaction, host
<1>4. ASSUME NEW r \in Reqs, Call(r) \/ RequestStep(r) \/ Cancel(r) \/ Answer(r)
      PROVE  UNCHANGED <<worker, nextEpoch, halted>>
  <2>1. ASSUME NEW state, Move(r, state) PROVE UNCHANGED <<worker, nextEpoch, halted>>
    BY <2>1 DEF Move, host, transaction
  <2>2. ~Probe(r) /\ ~MayDispatch(r)
    BY <1>0 DEF Probe, MayProbe, MayDispatch
  <2>3. CASE Answer(r)
    BY <2>3 DEF Answer, host, transaction
  <2>4. QED
    BY <1>4, <2>1, <2>2, <2>3
    DEF Call, RequestStep, Resume, Recovered, Dispatch, Wait, Cancel
<1>5. CASE TransactionStep
  <2>1. ASSUME FlowFails PROVE nextEpoch' = nextEpoch /\ halted' /\ (worker = 0 => worker' = 0)
    BY <1>0, <1>1, <2>1 DEF FlowFails, Retire
  <2>2. CASE FailingEnds
    BY <1>2, <2>2 DEF FailingEnds, host
  <2>3. CASE Replaced
    BY <1>0, <1>2, <2>1, <2>3 DEF Replaced, host
  <2>4. CASE BackoffEnds
    BY <2>1, <2>4 DEF BackoffEnds
  <2>5. CASE ReplayStep
    BY <1>2, <2>1, <2>5 DEF ReplayStep, host
  <2>6. CASE FlushStep
    BY <1>2, <2>1, <2>6 DEF FlushStep, host
  <2>7. QED
    BY <1>5, <2>2, <2>3, <2>4, <2>5, <2>6 DEF TransactionStep
<1>6. CASE Configure \/ Ack \/ ThreadExit \/ StopEnds \/ WindowExpires \/ UNCHANGED vars
  BY <1>2, <1>6 DEF Configure, Ack, ThreadExit, StopEnds, WindowExpires, vars, host, transaction
<1>7. CASE WitnessArrives
  BY <1>0, <1>1, <1>7 DEF WitnessArrives
<1>8. CASE DisposeStep
  BY <1>0, <1>1, <1>8 DEF DisposeStep, transaction
<1>9. QED
  BY <1>0, <1>2, <1>3, <1>4, <1>5, <1>6, <1>7, <1>8
  DEF Next, Sync, Close, WorkerFails, Recycle, Dispose

\* Only DisposeStep moves a disposal on, and Dispose begins it.
LEMMA StageStep ==
    ASSUME TypeOK, [Next]_vars
    PROVE  \/ stage' = stage
           \/ Dispose \/ DisposeStep
<1>1. ASSUME NEW d \in Docs, NEW text, Edit(d, text) PROVE stage' = stage
  BY <1>1 DEF Edit, DeferMutation, SendMutation, WorkerFailed
<1>2. ASSUME NEW r \in Reqs, Call(r) \/ RequestStep(r) \/ Cancel(r) \/ Answer(r)
      PROVE  stage' = stage
  BY <1>2 DEF Call, RequestStep, Resume, Recovered, Dispatch, Wait, Cancel, Answer, Move, Probe
<1>3. QED
  BY <1>1, <1>2 DEF Next, Sync, Close, Configure, Ack, WorkerFails, WorkerFailed, ThreadExit,
     StopEnds, WindowExpires, TransactionStep, Recycle, WitnessArrives, vars

\* The retirement a disposal waits for is not undone.
LEMMA DisposeInvStep ==
    ASSUME TypeOK, HandleInv, DisposeInv, [Next]_vars
    PROVE  DisposeInv' /\ AllocationIsTimely
<1>1. CASE Dispose
  <2>1. stage = "open" /\ stage' = "retiring" /\ halted'
    BY <1>1 DEF Dispose, Retire
  <2>2. worker' = 0
    BY <1>1 DEF Dispose, Retire, ReplaceWorker, HandleInv
  <2>3. QED
    BY <2>1, <2>2 DEF DisposeInv, AllocationIsTimely
<1>2. CASE DisposeStep
  <2>1. stage # "open" /\ stage' \in {"settling", "closing", "closed", "failed"}
    BY <1>2 DEF DisposeStep
  <2>2. nextEpoch' = nextEpoch /\ halted' /\ (worker = 0 => worker' = 0)
    BY <2>1, AllocatesWhenOpen
  <2>3. worker' = 0
    BY <2>1, <2>2 DEF DisposeInv
  <2>4. CASE stage' # "closed"
    BY <2>1, <2>2, <2>3, <2>4 DEF DisposeInv, AllocationIsTimely
  <2>5. CASE stage' = "closed"
    <3>1. /\ stage = "closing" /\ retirement.state = "none"
          /\ UNCHANGED <<worker, retirement, alive>>
      BY <1>2, <2>5 DEF DisposeStep
    <3>2. worker = 0 /\ retirement.epoch = 0
      BY <3>1 DEF DisposeInv, HandleInv
    <3>3. alive' = {}
      BY <3>1, <3>2 DEF HandleInv
    <3>4. QED
      BY <2>1, <2>2, <2>3, <2>5, <3>1, <3>3 DEF DisposeInv, AllocationIsTimely
  <2>6. QED
    BY <2>4, <2>5
<1>3. CASE stage' = stage /\ stage # "open"
  <2>1. nextEpoch' = nextEpoch /\ halted' /\ (worker = 0 => worker' = 0)
    BY <1>3, AllocatesWhenOpen
  <2>2. ASSUME stage = "closed"
        PROVE  retirement'.state = "none" /\ alive' = {}
    <3>1. worker = 0 /\ retirement.state = "none" /\ retirement.epoch = 0 /\ alive = {}
      BY <2>2 DEF DisposeInv, HandleInv
    <3>2. ~Retires /\ (Allocates => worker' = nextEpoch)
      BY <3>1 DEF Retires, Allocates, EnsureWorker
    <3>3. KeepsHandles \/ Releases
      BY <1>3, <2>1, <3>1, <3>2, HandleStep DEF HandleInv
    <3>4. QED
      BY <3>1, <3>3 DEF KeepsHandles, Releases
  <2>3. QED
    BY <1>3, <2>1, <2>2 DEF DisposeInv, AllocationIsTimely
<1>4. CASE stage' = stage /\ stage = "open"
  BY <1>4 DEF DisposeInv, AllocationIsTimely
<1>5. QED
  BY <1>1, <1>2, <1>3, <1>4, StageStep

\* However a disposal interleaves with failures, recoveries, recycles, edits and
\* requests, it is never followed by a new thread, and when it has ended no
\* thread is left (settle, checkHealth, host.dispose).
THEOREM NoWorkerAfterDisposal == Spec => NoLateWorker
<1>1. Init => HandleInv /\ DisposeInv
  BY DEF Init, HandleInv, DisposeInv
<1>2. TypeOK /\ HandleInv /\ [Next]_vars => HandleInv'
  BY HandleStep, HandleInvStep
<1>3. TypeOK /\ HandleInv /\ DisposeInv /\ [Next]_vars => DisposeInv' /\ AllocationIsTimely
  BY DisposeInvStep
<1>4. QED
  BY <1>1, <1>2, <1>3, TypeCorrect, PTL DEF Spec, NoLateWorker

\* With and without the opt-in recycle, and whatever stops fail, there is never a
\* second worker, the recoveries are bounded by the inputs, and no worker is
\* allocated once disposal began (SemanticWorkerRecycle, WorkerRecovery.admit).
THEOREM RecycleStaysSafe == Spec => RecycleIsSafe
BY OneWorker, BoundedRecoveries, NoWorkerAfterDisposal, PTL DEF RecycleIsSafe

-----------------------------------------------------------------------------
(* What the deferred records say about a document.                         *)

Absent(s, d) == \A i \in 1..Len(s) : s[i].doc # d

\* The last record of the document, if it has one, is its text.
LastIs(s, d, text) ==
    \A i \in 1..Len(s) :
        (s[i].doc = d /\ \A j \in 1..Len(s) : j > i => s[j].doc # d) => s[i].text = text

\* What waits to be sent, the batch and then the journal, ends with the parent's
\* text of every document it names.
Accounted == \A d \in Docs : /\ LastIs(journal, d, docs[d])
                             /\ Absent(journal, d) => LastIs(flow.batch, d, docs[d])

Waiting(d) == ~(Absent(journal, d) /\ Absent(flow.batch, d))

\* Every other document is at the worker.
Delivered == \A d \in Docs : Waiting(d) \/ wdocs[d] = docs[d]

\* Or will be replayed, while the replay is under way.
Replaying == \A d \in Docs :
    Waiting(d) \/ (IF d \in flow.left /\ ReplayText[d] # NoText THEN ReplayText[d] = docs[d]
                   ELSE wdocs[d] = docs[d])

\* How transactions, their records and the circuit depend on each other.
FlowInv ==
    /\ ~active => flow = NoFlow
    /\ flow.kind = "recover" =>
         pending /\ flow.phase \in {"retiring", "backoff", "replay", "flush", "failing"}
    /\ flow.kind = "recycle" =>
         recycles # 0 /\ flow.phase \in {"witness", "retiring", "replay", "flush", "abandon"}
    /\ flow.kind = "recover" /\ (~flow.restart \/ flow.phase = "failing") => failure
    /\ flow.phase \in {"witness", "retiring", "backoff", "replay"} => flow.batch = <<>>
    /\ recycles = 0 /\ ~active => journal = <<>>

\* Before the first worker there is nothing to recover.
FirstInv ==
    nextEpoch = 1 =>
        /\ ~active /\ ~failure /\ worker = 0 /\ retirement.state = "none"
        /\ stage = "open" => docs = Closed

\* The circuit is closed, and no probe has closed it over a recycle.
Trusted == accepts /\ (recycles = 0 \/ probeTotal = 0)

\* The worker is there when the transaction's phase needs it, and what it holds
\* and what waits for it add up to the parent's documents.
ReplayInv ==
    Trusted =>
        /\ ~active => journal = <<>>
        /\ ~active /\ nextEpoch > 1 => worker # 0 /\ wdocs = docs
        /\ active => Accounted
        /\ flow.phase \in {"retiring", "backoff"} => worker = 0
        /\ flow.phase \in {"witness", "replay", "flush", "abandon"} => worker # 0
        /\ flow.phase \in {"witness", "flush", "abandon"} => Delivered
        /\ flow.phase = "replay" => Replaying

-----------------------------------------------------------------------------
(* Sequences of records.                                                   *)

\* A record appended is the last one of its document and of no other.
LEMMA AppendRecord ==
    ASSUME NEW s \in Seq(Mutations), NEW r \in Mutations, NEW e \in Docs, NEW x
    PROVE  /\ Absent(Append(s, r), e) => e # r.doc /\ Absent(s, e)
           /\ LastIs(Append(s, r), r.doc, r.text)
           /\ e # r.doc /\ LastIs(s, e, x) => LastIs(Append(s, r), e, x)
<1> DEFINE t == Append(s, r)
<1>1. /\ Len(t) = Len(s) + 1 /\ t[Len(s) + 1] = r /\ Len(s) \in Nat
      /\ \A i \in 1..Len(s) : t[i] = s[i]
  OBVIOUS
<1>2. Absent(t, e) => e # r.doc /\ Absent(s, e)
  BY <1>1 DEF Absent
<1>3. LastIs(t, r.doc, r.text)
  BY <1>1 DEF LastIs
<1>4. ASSUME e # r.doc, LastIs(s, e, x), NEW i \in 1..Len(t), t[i].doc = e,
             \A j \in 1..Len(t) : j > i => t[j].doc # e
      PROVE  t[i].text = x
  <2>1. i \in 1..Len(s)
    BY <1>1, <1>4
  <2>2. \A j \in 1..Len(s) : j > i => s[j].doc # e
    BY <1>1, <1>4
  <2>3. QED
    BY <1>1, <1>4, <2>1, <2>2 DEF LastIs
<1>5. QED
  BY <1>2, <1>3, <1>4 DEF LastIs

\* A last record replaced by one of the same document counts for it.
LEMMA ReplaceRecord ==
    ASSUME NEW s \in Seq(Mutations), s # <<>>, NEW r \in Mutations, s[Len(s)].doc = r.doc,
           NEW e \in Docs, NEW x
    PROVE  /\ Absent([s EXCEPT ![Len(s)] = r], e) => e # r.doc /\ Absent(s, e)
           /\ LastIs([s EXCEPT ![Len(s)] = r], r.doc, r.text)
           /\ e # r.doc /\ LastIs(s, e, x) => LastIs([s EXCEPT ![Len(s)] = r], e, x)
<1> DEFINE n == Len(s)
           t == [s EXCEPT ![n] = r]
<1>1. /\ n \in Nat \ {0} /\ Len(t) = n /\ t[n] = r
      /\ \A i \in 1..n : i # n => t[i] = s[i]
      /\ \A i \in 1..n : t[i].doc = s[i].doc
  OBVIOUS
<1> HIDE DEF t
<1>2. Absent(t, e) => e # r.doc /\ Absent(s, e)
  BY <1>1 DEF Absent
<1>3. LastIs(t, r.doc, r.text)
  BY <1>1 DEF LastIs
<1>4. e # r.doc /\ LastIs(s, e, x) => LastIs(t, e, x)
  BY <1>1 DEF LastIs
<1>5. QED
  BY <1>2, <1>3, <1>4 DEF t

\* Sending the first record leaves the last one of every document, and sends the
\* only one of its own when no other follows.
LEMMA TailRecord ==
    ASSUME NEW s \in Seq(Mutations), s # <<>>, NEW e \in Docs, NEW x
    PROVE  /\ Tail(s) \in Seq(Mutations)
           /\ Absent(Tail(s), e) /\ e # Head(s).doc => Absent(s, e)
           /\ LastIs(s, e, x) => LastIs(Tail(s), e, x)
           /\ Absent(Tail(s), e) /\ e = Head(s).doc /\ LastIs(s, e, x) => Head(s).text = x
<1> DEFINE t == Tail(s)
<1>1. /\ t \in Seq(Mutations) /\ Len(s) \in Nat \ {0} /\ Len(t) = Len(s) - 1
      /\ Head(s) = s[1] /\ \A i \in 1..Len(t) : t[i] = s[i + 1]
  OBVIOUS
<1>2. \A i \in 1..Len(s) : i = 1 \/ (i - 1 \in 1..Len(t) /\ s[i] = t[i - 1])
  BY <1>1
<1>3. Absent(t, e) /\ e # Head(s).doc => Absent(s, e)
  BY <1>1, <1>2 DEF Absent
<1>4. ASSUME LastIs(s, e, x), NEW i \in 1..Len(t), t[i].doc = e,
             \A j \in 1..Len(t) : j > i => t[j].doc # e
      PROVE  t[i].text = x
  <2>1. i + 1 \in 1..Len(s) /\ s[i + 1] = t[i]
    BY <1>1
  <2>2. ASSUME NEW j \in 1..Len(s), j > i + 1 PROVE s[j].doc # e
    <3>1. j - 1 \in 1..Len(t) /\ s[j] = t[j - 1] /\ j - 1 > i
      BY <1>1, <1>2, <2>2
    <3>2. QED
      BY <1>4, <3>1
  <2>3. QED
    BY <1>4, <2>1, <2>2 DEF LastIs
<1>5. ASSUME Absent(t, e), e = Head(s).doc, LastIs(s, e, x) PROVE Head(s).text = x
  <2>1. \A j \in 1..Len(s) : j > 1 => s[j].doc # e
    BY <1>1, <1>2, <1>5, SMTT(60) DEF Absent
  <2>2. 1 \in 1..Len(s)
    BY <1>1
  <2>3. QED
    BY <1>1, <1>5, <2>1, <2>2 DEF LastIs
<1>6. QED
  BY <1>1, <1>3, <1>4, <1>5 DEF LastIs

\* The empty sequence says nothing.
LEMMA NoRecord == \A d, x : Absent(<<>>, d) /\ LastIs(<<>>, d, x)
BY DEF Absent, LastIs

\* Whether defer merges a change or appends it, the journal then ends with it.
LEMMA DeferredRecord ==
    ASSUME TypeOK, NEW d \in Docs, NEW text \in Texts, NEW e \in Docs, NEW x
    PROVE  /\ Absent(Deferred(d, text), e) => e # d /\ Absent(journal, e)
           /\ LastIs(Deferred(d, text), d, text)
           /\ e # d /\ LastIs(journal, e, x) => LastIs(Deferred(d, text), e, x)
<1> DEFINE r == [doc |-> d, text |-> text]
           merges == /\ journal # <<>> /\ text # NoText /\ docs[d] # NoText
                     /\ journal[Len(journal)].doc = d
                     /\ journal[Len(journal)].text # NoText
<1>1. journal \in Seq(Mutations) /\ r \in Mutations /\ r.doc = d /\ r.text = text
  BY DEF TypeOK, Mutations
<1>2. CASE merges
  <2>1. Deferred(d, text) = [journal EXCEPT ![Len(journal)] = r]
    BY <1>2 DEF Deferred
  <2>2. journal # <<>> /\ journal[Len(journal)].doc = r.doc
    BY <1>1, <1>2
  <2>3. /\ Absent([journal EXCEPT ![Len(journal)] = r], e) => e # r.doc /\ Absent(journal, e)
        /\ LastIs([journal EXCEPT ![Len(journal)] = r], r.doc, r.text)
        /\ e # r.doc /\ LastIs(journal, e, x) =>
             LastIs([journal EXCEPT ![Len(journal)] = r], e, x)
    <3> HIDE DEF r
    <3>1. QED
      BY <1>1, <2>2, ReplaceRecord
  <2>4. QED
    BY <1>1, <2>1, <2>3
<1>3. CASE ~merges
  <2>1. Deferred(d, text) = Append(journal, r)
    BY <1>3 DEF Deferred
  <2>2. QED
    BY <1>1, <2>1, AppendRecord
<1>4. QED
  BY <1>2, <1>3
-----------------------------------------------------------------------------
(* The shape of transactions.                                              *)

\* The step leaves the documents, the circuit, the transaction and the worker alone.
Quiet == UNCHANGED <<docs, failure, stage, probeTotal, flow, journal, recycles, pending,
                     worker, wdocs, nextEpoch>>

\* Requests that neither probe nor reach the worker, and the events of the thread.
LEMMA QuietSteps ==
    ASSUME \/ Configure \/ Ack \/ ThreadExit \/ StopEnds \/ WindowExpires \/ UNCHANGED vars
           \/ \E r \in Reqs : Answer(r) \/ \E state : Move(r, state)
    PROVE  Quiet
<1>1. ASSUME NEW r \in Reqs, Answer(r) \/ \E state : Move(r, state) PROVE Quiet
  BY <1>1 DEF Answer, Move, Quiet, inputs, circuit, budget, transaction, host, thread
<1>2. QED
  BY <1>1 DEF Configure, Ack, ThreadExit, StopEnds, WindowExpires, vars, Quiet, inputs,
     circuit, budget, transaction, host, thread

\* A request is quiet, probes, or is dispatched.
LEMMA RequestSteps ==
    ASSUME NEW r \in Reqs, Call(r) \/ RequestStep(r) \/ Cancel(r) \/ Answer(r)
    PROVE  \/ Quiet
           \/ Probe(r) /\ ~pending
           \/ Dispatch(r) /\ MayDispatch(r)
BY QuietSteps DEF Call, RequestStep, Resume, Recovered, Dispatch, Wait, Cancel

\* A worker failure in a transaction, or without a budget, opens the circuit.
LEMMA FailureSteps ==
    ASSUME NEW revision, WorkerFailed(revision)
    PROVE  /\ UNCHANGED <<stage, journal, recycles, nextEpoch, wdocs, probeTotal>>
           /\ \/ /\ pending \/ active
                 /\ failure' /\ UNCHANGED <<pending, flow>>
              \/ /\ ~pending /\ ~active /\ MayRestart
                 /\ Recover(TRUE, req) /\ UNCHANGED failure
              \/ /\ ~pending /\ ~active /\ Recover(FALSE, req) /\ failure'
BY DEF WorkerFailed, Fail, circuit, budget

\* The failure of a transaction opens the circuit; it ends a recycle at once.
LEMMA FlowFailures ==
    ASSUME FlowFails
    PROVE  /\ failure' /\ UNCHANGED <<recycles, nextEpoch, wdocs>>
           /\ \/ /\ flow.kind = "recover" /\ flow' = [flow EXCEPT !.phase = "failing"]
                 /\ UNCHANGED <<pending, journal>>
              \/ flow.kind = "recycle" /\ flow' = NoFlow /\ journal' = journal
BY DEF FlowFails, Fail, Finish

\* A recovery that starts is a transaction of its own, with an empty batch.
LEMMA RecoverFlow ==
    ASSUME NEW restart \in BOOLEAN, NEW rq, Recover(restart, rq), ~active
    PROVE  /\ pending' /\ flow'.kind = "recover" /\ flow'.phase = "retiring"
           /\ flow'.restart = restart /\ flow'.batch = <<>>
BY DEF Recover, NoFlow

\* Until the first worker is allocated no transaction starts.
LEMMA FirstInvStep ==
    ASSUME TypeOK, HandleInv, FlowInv, FirstInv, [Next]_vars
    PROVE  FirstInv'
<1> SUFFICES ASSUME nextEpoch' = 1 PROVE FirstInv'
  BY DEF FirstInv
<1>1. nextEpoch = 1 /\ ~EnsureWorker
  <2>1. UNCHANGED nextEpoch \/ EnsureWorker
    BY HandleStep DEF KeepsHandles, Retires, Allocates, Releases
  <2>2. ASSUME EnsureWorker, worker = 0 PROVE FALSE
    BY <2>2 DEF EnsureWorker, TypeOK, HandleInv
  <2>3. nextEpoch = 1
    BY <2>1, <2>2 DEF EnsureWorker
  <2>4. worker = 0
    BY <2>3 DEF FirstInv
  <2>5. QED
    BY <2>2, <2>3, <2>4
<1>2. /\ ~active /\ ~failure /\ worker = 0 /\ retirement.state = "none" /\ flow = NoFlow
      /\ stage = "open" => docs = Closed
  BY <1>1 DEF FirstInv, FlowInv
<1>3. ASSUME UNCHANGED <<docs, failure, worker, retirement, flow>>,
             stage' = "open" => stage = "open"
      PROVE  FirstInv'
  BY <1>2, <1>3 DEF FirstInv, active
<1>4. ASSUME NEW d \in Docs, NEW text, Edit(d, text) PROVE FirstInv'
  <2>1. ~accepts
    BY <1>1, <1>2, <1>4 DEF Edit, SendMutation, CanHost
  <2>2. stage # "open"
    BY <1>2, <2>1 DEF accepts
  <2>3. UNCHANGED <<failure, worker, retirement, flow, stage>>
    BY <1>4, <2>1 DEF Edit, circuit, transaction, host
  <2>4. QED
    BY <1>2, <2>2, <2>3 DEF FirstInv, active
<1>5. ASSUME NEW r \in Reqs, Call(r) \/ RequestStep(r) \/ Cancel(r) \/ Answer(r)
      PROVE  FirstInv'
  <2>1. ~Probe(r) /\ ~(Dispatch(r) /\ MayDispatch(r))
    BY <1>1, <1>2 DEF Probe, MayProbe, Dispatch
  <2>2. UNCHANGED <<docs, failure, worker, flow, stage, retirement>>
    BY <1>5, <2>1 DEF Call, RequestStep, Resume, Recovered, Dispatch, Wait, Cancel, Answer,
       Move, inputs, circuit, transaction, host
  <2>3. QED
    BY <1>3, <2>2
<1>6. flow.phase = "idle" /\ flow.kind = "none"
  BY <1>2 DEF NoFlow
<1>7. ~TransactionStep /\ ~WitnessArrives /\ ~Recycle /\ ~WorkerFails
  BY <1>1, <1>2, <1>6 DEF TransactionStep, FailingEnds, Replaced, BackoffEnds, ReplayStep,
     FlushStep, WitnessArrives, Recycle, WorkerFails
<1>8. CASE Configure \/ Ack \/ ThreadExit \/ StopEnds \/ WindowExpires \/ UNCHANGED vars
  <2>1. UNCHANGED <<docs, failure, worker, flow, stage, retirement>>
    BY <1>2, <1>8 DEF Configure, Ack, ThreadExit, StopEnds, WindowExpires, vars, inputs,
       circuit, transaction, host
  <2>2. QED
    BY <1>3, <2>1
<1>9. CASE Dispose \/ DisposeStep
  <2>1. ASSUME NEW retry, NEW rq, ReplaceWorker(retry, rq) PROVE UNCHANGED <<worker, retirement>>
    BY <1>2, <2>1 DEF ReplaceWorker
  <2>2. UNCHANGED <<docs, failure, flow, worker, retirement>> /\ stage' # "open"
    BY <1>9, <2>1 DEF Dispose, DisposeStep, Retire, inputs, circuit, transaction
  <2>3. QED
    BY <1>3, <2>2
<1>10. QED
  BY <1>4, <1>5, <1>7, <1>8, <1>9 DEF Next, Sync, Close

\* The ways a transaction goes on.  It ends, ...
Ends ==
    /\ Finish /\ UNCHANGED <<failure, worker, wdocs, nextEpoch>>
    /\ \/ flow.kind = "recover" /\ (flow.phase = "failing" \/ ~flow.restart)
       \/ flow.phase \in {"flush", "abandon"} /\ Flushed
\* ... waits, ...
BacksOff ==
    /\ flow.phase = "retiring" /\ flow.kind = "recover"
    /\ flow' = [flow EXCEPT !.phase = "backoff"]
    /\ UNCHANGED <<failure, pending, journal, worker, wdocs, nextEpoch>>
\* ... starts a worker, ...
Restarts ==
    /\ flow.phase \in {"retiring", "backoff"} /\ EnsureWorker /\ wdocs' = Held
    /\ \/ flow.kind = "recycle" /\ flow' = [flow EXCEPT !.phase = "replay", !.left = Open(docs)]
       \/ /\ flow.kind = "recover"
          /\ flow' = [flow EXCEPT !.phase = "replay", !.text = docs, !.left = Open(docs)]
    /\ UNCHANGED <<failure, pending, journal>>
\* ... sends it a document, ...
Replays(d) ==
    /\ flow.phase = "replay" /\ worker # 0 /\ d \in flow.left /\ ReplayText[d] # NoText
    /\ wdocs' = [wdocs EXCEPT ![d] = ReplayText[d]]
    /\ flow' = [flow EXCEPT !.left = @ \ {d}]
    /\ UNCHANGED <<failure, pending, journal, worker, nextEpoch>>
\* ... or has sent them all, ...
EndsReplay ==
    /\ flow.phase = "replay" /\ worker # 0
    /\ \A d \in flow.left : ReplayText[d] = NoText
    /\ flow' = [flow EXCEPT !.phase = "flush", !.left = {}]
    /\ UNCHANGED <<failure, pending, journal, worker, wdocs, nextEpoch>>
\* ... sends a deferred record, ...
Sends ==
    /\ flow.phase \in {"flush", "abandon"} /\ worker # 0 /\ flow.batch # <<>>
    /\ wdocs' = [wdocs EXCEPT ![Head(flow.batch).doc] = Head(flow.batch).text]
    /\ flow' = [flow EXCEPT !.batch = Tail(@)]
    /\ UNCHANGED <<failure, pending, journal, worker, nextEpoch>>
\* ... or takes the next batch of them.
Takes ==
    /\ flow.phase \in {"flush", "abandon"} /\ flow.batch = <<>>
    /\ flow' = [flow EXCEPT !.batch = journal] /\ journal' = <<>>
    /\ UNCHANGED <<failure, pending, worker, wdocs, nextEpoch>>

\* A transaction step is a failure or one of these.
LEMMA TransactionWays ==
    ASSUME TypeOK, FlowInv, TransactionStep
    PROVE  /\ active /\ UNCHANGED <<docs, stage, probeTotal, recycles>>
           /\ \/ FlowFails \/ Ends \/ BacksOff \/ Restarts \/ EndsReplay \/ Sends \/ Takes
              \/ \E d \in Docs : Replays(d)
<1>0. flow \in FlowType /\ (active => flow.kind \in {"recover", "recycle"})
  BY DEF TypeOK, FlowType, active
<1>1. active
  BY DEF TransactionStep, FailingEnds, Replaced, BackoffEnds, ReplayStep, FlushStep, FlowInv,
     NoFlow
<1>2. UNCHANGED <<docs, stage, probeTotal>>
  BY DEF TransactionStep, inputs, budget
<1>3. ASSUME FlowFails PROVE recycles' = recycles
  BY <1>3 DEF FlowFails
<1>4. ASSUME UNCHANGED <<circuit, changed, halted, recycles, host, alive, thread, req>>
      PROVE  UNCHANGED <<failure, worker, wdocs, nextEpoch, recycles>>
  BY <1>4 DEF circuit, host, thread
<1>5. ASSUME NEW d, NEW text, Mutate(d, text), worker # 0
      PROVE  wdocs' = [wdocs EXCEPT ![d] = text]
  BY <1>5 DEF Mutate, Held
<1>6. CASE FailingEnds
  BY <1>0, <1>1, <1>2, <1>4, <1>6 DEF FailingEnds, FlowInv, Ends
<1>7. CASE Replaced
  <2>1. CASE CanHost /\ flow.kind = "recover" /\ flow.restart
    BY <1>1, <1>2, <1>3, <1>7, <2>1 DEF Replaced, BacksOff, circuit, host, thread
  <2>2. CASE CanHost /\ flow.kind = "recover" /\ ~flow.restart
    BY <1>1, <1>2, <1>3, <1>4, <1>7, <2>2 DEF Replaced, Ends
  <2>3. CASE FlowFails
    BY <1>1, <1>2, <1>3, <2>3
  <2>4. CASE CanHost /\ flow.kind = "recycle" /\ ~halted /\ ~FlowFails
    <3>1. /\ EnsureWorker /\ wdocs' = Held /\ flow.phase = "retiring"
          /\ flow' = [flow EXCEPT !.phase = "replay", !.left = Open(docs)]
          /\ UNCHANGED <<circuit, pending, journal, recycles>>
      BY <1>7, <2>4 DEF Replaced
    <3>2. QED
      BY <1>1, <1>2, <2>4, <3>1 DEF Restarts, circuit
  <2>5. QED
    BY <1>7, <2>1, <2>2, <2>3, <2>4 DEF Replaced
<1>8. CASE BackoffEnds
  <2>1. CASE FlowFails
    BY <1>1, <1>2, <1>3, <2>1
  <2>2. CASE ~FlowFails
    <3>1. /\ EnsureWorker /\ wdocs' = Held /\ flow.phase = "backoff"
          /\ flow' = [flow EXCEPT !.phase = "replay", !.text = docs, !.left = Open(docs)]
          /\ UNCHANGED <<circuit, pending, journal, recycles>>
      BY <1>8, <2>2 DEF BackoffEnds
    <3>2. flow.kind = "recover"
      BY <1>0, <1>1, <3>1 DEF FlowInv
    <3>3. QED
      BY <1>1, <1>2, <3>1, <3>2 DEF Restarts, circuit
  <2>3. QED
    BY <2>1, <2>2
<1>9. CASE ReplayStep
  <2>1. CASE FlowFails
    BY <1>1, <1>2, <1>3, <2>1
  <2>2. CASE worker # 0 /\ UNCHANGED <<circuit, pending, journal, recycles, host>>
             /\ \E d \in flow.left \cap Open(ReplayText) :
                   Mutate(d, ReplayText[d]) /\ flow' = [flow EXCEPT !.left = @ \ {d}]
    <3>1. PICK d \in flow.left \cap Open(ReplayText) :
                   Mutate(d, ReplayText[d]) /\ flow' = [flow EXCEPT !.left = @ \ {d}]
      BY <2>2
    <3>2. d \in Docs /\ ReplayText[d] # NoText
      BY <3>1 DEF Open
    <3>3. Replays(d)
      BY <1>5, <1>9, <2>2, <3>1, <3>2 DEF ReplayStep, Replays, circuit, host
    <3>4. QED
      BY <1>1, <1>2, <2>2, <3>2, <3>3
  <2>3. CASE worker # 0 /\ flow.left \cap Open(ReplayText) = {}
             /\ flow' = [flow EXCEPT !.phase = "flush", !.left = {}]
             /\ UNCHANGED <<circuit, pending, journal, recycles, host, thread>>
    <3>1. \A d \in flow.left : ReplayText[d] = NoText
      BY <1>0, <2>3 DEF Open, FlowType
    <3>2. QED
      BY <1>1, <1>2, <1>9, <2>3, <3>1 DEF ReplayStep, EndsReplay, circuit, host, thread
  <2>4. QED
    BY <1>9, <2>1, <2>2, <2>3 DEF ReplayStep
<1>10. CASE FlushStep
  <2>1. CASE FlowFails
    BY <1>1, <1>2, <1>3, <2>1
  <2>2. CASE /\ flow.batch # <<>> /\ worker # 0
             /\ Mutate(Head(flow.batch).doc, Head(flow.batch).text)
             /\ flow' = [flow EXCEPT !.batch = Tail(@)]
             /\ UNCHANGED <<circuit, pending, journal, recycles, host>>
    BY <1>1, <1>2, <1>5, <1>10, <2>2 DEF FlushStep, Sends, circuit, host
  <2>3. CASE /\ flow.batch = <<>> /\ TakeBatch
             /\ UNCHANGED <<circuit, pending, recycles, host, thread>>
    BY <1>1, <1>2, <1>10, <2>3 DEF FlushStep, TakeBatch, Takes, circuit, host, thread
  <2>4. CASE Flushed /\ Finish
             /\ UNCHANGED <<circuit, changed, halted, recycles, host, alive, thread, req>>
    BY <1>1, <1>2, <1>4, <1>10, <2>4 DEF FlushStep, Ends
  <2>5. QED
    BY <1>10, <2>1, <2>2, <2>3, <2>4 DEF FlushStep
<1>11. QED
  BY <1>6, <1>7, <1>8, <1>9, <1>10 DEF TransactionStep

\* Transactions keep their shape.
LEMMA FlowInvStep ==
    ASSUME TypeOK, FlowInv, [Next]_vars
    PROVE  FlowInv'
<1>0. flow \in FlowType /\ NoFlow.kind = "none" /\ NoFlow.phase = "idle"
  BY DEF TypeOK, FlowType, NoFlow
<1>1. ASSUME UNCHANGED <<flow, journal, recycles, pending>>, failure => failure'
      PROVE  FlowInv'
  BY <1>1 DEF FlowInv, active
<1>2. ASSUME NEW restart \in BOOLEAN, NEW rq, Recover(restart, rq), ~active,
             ~restart => failure', journal' = journal, recycles' = recycles
      PROVE  FlowInv'
  <2>1. /\ pending' /\ flow'.kind = "recover" /\ flow'.phase = "retiring"
        /\ flow'.restart = restart /\ flow'.batch = <<>>
    BY <1>2, RecoverFlow
  <2>2. QED
    BY <1>2, <2>1 DEF FlowInv, active
<1>3. ASSUME NEW revision, WorkerFailed(revision) PROVE FlowInv'
  BY <1>1, <1>2, <1>3, FailureSteps
<1>4. ASSUME flow' = NoFlow, recycles' = recycles, recycles = 0 => journal' = <<>>
      PROVE  FlowInv'
  BY <1>0, <1>4 DEF FlowInv, active
<1>5. ASSUME FlowFails PROVE FlowInv'
  <2>1. CASE flow.kind = "recover" /\ flow' = [flow EXCEPT !.phase = "failing"]
             /\ UNCHANGED <<pending, journal>>
    <3>1. flow'.kind = "recover" /\ flow'.phase = "failing"
      BY <1>0, <2>1 DEF FlowType
    <3>2. QED
      BY <1>5, <2>1, <3>1, FlowFailures DEF FlowInv, active
  <2>2. CASE flow.kind = "recycle" /\ flow' = NoFlow /\ journal' = journal
    BY <1>4, <1>5, <2>2, FlowFailures DEF FlowInv
  <2>3. QED
    BY <1>5, <2>1, <2>2, FlowFailures
<1>6. ASSUME Finish, recycles' = recycles, active, flow.kind = "recycle" => journal = <<>>
      PROVE  FlowInv'
  BY <1>0, <1>4, <1>6 DEF Finish, active, FlowType
\* A transaction that goes on in another phase.
<1>7. ASSUME flow' \in FlowType, flow'.kind = flow.kind, flow'.restart = flow.restart, active,
             UNCHANGED <<pending, recycles, failure>>,
             \/ flow.kind = "recover" /\ flow'.phase \in {"retiring", "backoff", "replay", "flush"}
             \/ /\ flow.kind = "recycle"
                /\ flow'.phase \in {"witness", "retiring", "replay", "flush", "abandon"},
             flow'.phase \in {"flush", "abandon"} \/ flow'.batch = <<>>
      PROVE  FlowInv'
  BY <1>7 DEF FlowInv, active
<1>8. ASSUME NEW d \in Docs, NEW text, Edit(d, text) PROVE FlowInv'
  <2>1. CASE accepts /\ active /\ DeferMutation(d, text)
    <3>1. CASE WorkerFailed(inputRevision + 1)
      BY <1>3, <3>1
    <3>2. CASE /\ UNCHANGED <<circuit, pending, recycles>>
               /\ flow' = IF flow.kind = "recycle" /\ docs[d] = NoText
                          THEN [flow EXCEPT !.left = @ \cup {d}] ELSE flow
      <4>1. /\ flow'.kind = flow.kind /\ flow'.phase = flow.phase
            /\ flow'.restart = flow.restart /\ flow'.batch = flow.batch
        BY <1>0, <3>2 DEF FlowType
      <4>2. QED
        BY <2>1, <3>2, <4>1 DEF FlowInv, active, circuit
    <3>3. QED
      BY <2>1, <3>1, <3>2 DEF DeferMutation
  <2>2. CASE accepts /\ ~active /\ SendMutation(d, text)
    BY <1>1, <2>2 DEF SendMutation, Fail, circuit, transaction
  <2>3. CASE UNCHANGED <<circuit, pending, transaction>>
    BY <1>1, <2>3 DEF circuit, transaction
  <2>4. QED
    BY <1>8, <2>1, <2>2, <2>3 DEF Edit
<1>9. ASSUME NEW r \in Reqs, Call(r) \/ RequestStep(r) \/ Cancel(r) \/ Answer(r)
      PROVE  FlowInv'
  <2>1. CASE Quiet
    BY <1>1, <2>1 DEF Quiet
  <2>2. CASE Probe(r) /\ ~pending
    <3>1. Recover(TRUE, Goto(r, "recovering")) /\ UNCHANGED <<journal, recycles>>
      BY <2>2 DEF Probe
    <3>2. CASE active
      <4>1. flow.kind = "recycle" /\ flow' = flow
        BY <1>0, <2>2, <3>1, <3>2 DEF FlowInv, Recover, FlowType, active
      <4>2. QED
        BY <3>1, <4>1 DEF FlowInv, active
    <3>3. CASE ~active
      BY <1>2, <3>1, <3>3
    <3>4. QED
      BY <3>2, <3>3
  <2>3. CASE Dispatch(r) /\ MayDispatch(r)
    BY <1>1, <2>3 DEF Dispatch, circuit, transaction
  <2>4. QED
    BY <1>9, <2>1, <2>2, <2>3, RequestSteps
<1>10. CASE TransactionStep
  <2>0. active /\ recycles' = recycles /\ flow.kind \in {"recover", "recycle"}
    BY <1>0, <1>10, TransactionWays DEF FlowType, active
  <2>1. CASE Ends
    BY <1>6, <2>0, <2>1 DEF Ends, Flushed
  <2>2. CASE BacksOff
    <3>1. /\ flow'.kind = flow.kind /\ flow'.restart = flow.restart
          /\ flow'.phase = "backoff" /\ flow'.batch = flow.batch /\ flow' \in FlowType
      BY <1>0, <2>2 DEF BacksOff, FlowType, Phases
    <3>2. QED
      BY <1>7, <2>0, <2>2, <3>1 DEF BacksOff, FlowInv
  <2>3. CASE Restarts
    <3>1. /\ flow'.kind = flow.kind /\ flow'.restart = flow.restart
          /\ flow'.phase = "replay" /\ flow'.batch = flow.batch
      BY <1>0, <2>3 DEF Restarts, FlowType
    <3>2. flow' \in FlowType
      <4>1. Open(docs) \in SUBSET Docs /\ docs \in [Docs -> Texts] /\ "replay" \in Phases
        BY DEF Open, TypeOK, Phases
      <4>2. QED
        BY <1>0, <2>3, <4>1 DEF Restarts, FlowType
    <3>3. QED
      BY <1>7, <2>0, <2>3, <3>1, <3>2 DEF Restarts, FlowInv
  <2>4. CASE EndsReplay
    <3>1. /\ flow'.kind = flow.kind /\ flow'.restart = flow.restart
          /\ flow'.phase = "flush" /\ flow' \in FlowType
      BY <1>0, <2>4 DEF EndsReplay, FlowType, Phases
    <3>2. QED
      BY <1>7, <2>0, <2>4, <3>1 DEF EndsReplay
  <2>5. ASSUME NEW d \in Docs, Replays(d) PROVE FlowInv'
    <3>1. /\ flow'.kind = flow.kind /\ flow'.restart = flow.restart
          /\ flow'.phase = "replay" /\ flow'.batch = flow.batch /\ flow' \in FlowType
      BY <1>0, <2>5 DEF Replays, FlowType, Phases
    <3>2. QED
      BY <1>7, <2>0, <2>5, <3>1 DEF Replays, FlowInv
  <2>6. CASE Sends \/ Takes
    <3>1. /\ flow'.kind = flow.kind /\ flow'.restart = flow.restart /\ flow'.phase = flow.phase
          /\ flow.phase \in {"flush", "abandon"} /\ UNCHANGED <<failure, pending>>
      BY <1>0, <2>6 DEF Sends, Takes, FlowType
    <3>2. QED
      BY <2>0, <3>1 DEF FlowInv, active
  <2>7. QED
    BY <1>5, <1>10, <2>1, <2>2, <2>3, <2>4, <2>5, <2>6, TransactionWays
<1>11. CASE Recycle
  <2>1. /\ flow' = [NoFlow EXCEPT !.kind = "recycle", !.phase = "witness"]
        /\ recycles' = recycles + 1
    BY <1>11 DEF Recycle
  <2>2. /\ flow'.kind = "recycle" /\ flow'.phase = "witness" /\ flow'.batch = <<>>
        /\ recycles' # 0
    BY <2>1 DEF NoFlow, TypeOK
  <2>3. QED
    BY <2>2 DEF FlowInv, active
<1>12. CASE WitnessArrives
  <2>1. flow.kind = "recycle" /\ flow.phase = "witness" /\ recycles # 0 /\ recycles' = recycles
    BY <1>0, <1>12 DEF WitnessArrives, FlowInv, FlowType, active
  <2>2. CASE flow' = NoFlow
    BY <1>4, <2>1, <2>2
  <2>3. CASE flow' = [flow EXCEPT !.phase = "retiring"] \/ flow' = [flow EXCEPT !.phase = "abandon"]
    <3>1. /\ flow'.kind = "recycle" /\ flow'.batch = flow.batch
          /\ flow'.phase \in {"retiring", "abandon"}
      BY <1>0, <2>1, <2>3 DEF FlowType
    <3>2. QED
      BY <2>1, <3>1 DEF FlowInv, active
  <2>4. QED
    BY <1>12, <2>2, <2>3 DEF WitnessArrives
<1>13. CASE Configure \/ Ack \/ ThreadExit \/ StopEnds \/ WindowExpires \/ UNCHANGED vars
  BY <1>1, <1>13, QuietSteps DEF Quiet
<1>14. CASE WorkerFails
  BY <1>3, <1>14 DEF WorkerFails
<1>15. CASE Dispose \/ DisposeStep
  BY <1>1, <1>15 DEF Dispose, DisposeStep, circuit, transaction
<1>16. QED
  BY <1>8, <1>9, <1>10, <1>11, <1>12, <1>13, <1>14, <1>15 DEF Next, Sync, Close
-----------------------------------------------------------------------------
(* Nothing is lost and nothing revived.                                    *)

\* What has been sent or waits stays what it was when nothing of it changes.
LEMMA QuietReplay ==
    ASSUME ReplayInv, UNCHANGED <<docs, failure, stage, probeTotal, flow, journal, recycles,
                                  worker, wdocs, nextEpoch>>
    PROVE  ReplayInv'
BY DEF ReplayInv, Trusted, accepts, active, Accounted, Delivered, Replaying, Waiting, ReplayText,
   Absent, LastIs

\* A circuit that is open after the step, or a disposal, leaves nothing to show.
LEMMA UntrustedReplay ==
    ASSUME failure' \/ stage' # "open"
    PROVE  ReplayInv'
BY DEF ReplayInv, Trusted, accepts

\* Deferring an edit keeps what waits current.
LEMMA DeferReplay ==
    ASSUME TypeOK, FlowInv, ReplayInv, Trusted, active, NEW d \in Docs, NEW text \in Texts,
           docs' = [docs EXCEPT ![d] = text], journal' = Deferred(d, text),
           flow' = IF flow.kind = "recycle" /\ docs[d] = NoText
                   THEN [flow EXCEPT !.left = @ \cup {d}] ELSE flow,
           UNCHANGED <<wdocs, worker>>
    PROVE  ReplayInv'
<1>0. flow \in FlowType /\ docs \in [Docs -> Texts]
  BY DEF TypeOK, FlowType
<1>1. /\ flow'.kind = flow.kind /\ flow'.phase = flow.phase /\ flow'.batch = flow.batch
      /\ flow'.text = flow.text /\ flow'.left \subseteq flow.left \cup {d}
      /\ flow.left \subseteq flow'.left
  BY <1>0 DEF FlowType
<1>2. docs'[d] = text /\ \A e \in Docs : e # d => docs'[e] = docs[e]
  BY <1>0
<1>3. Accounted'
  <2>1. SUFFICES ASSUME NEW e \in Docs
                 PROVE  /\ LastIs(journal', e, docs'[e])
                        /\ Absent(journal', e) => LastIs(flow'.batch, e, docs'[e])
    BY DEF Accounted
  <2>2. CASE e = d
    BY <1>2, <2>2, DeferredRecord
  <2>3. CASE e # d
    <3>1. /\ LastIs(journal, e, docs[e])
          /\ Absent(journal, e) => LastIs(flow.batch, e, docs[e])
      BY DEF ReplayInv, Accounted
    <3>2. QED
      BY <1>1, <1>2, <2>3, <3>1, DeferredRecord
  <2>4. QED
    BY <2>2, <2>3
<1>4. \A e \in Docs : ~Waiting(e)' => e # d /\ ~Waiting(e)
  BY <1>1, DeferredRecord DEF Waiting
<1>5. Delivered => Delivered'
  BY <1>2, <1>4 DEF Delivered
<1>6. Replaying => Replaying'
  <2>1. \A e \in Docs : e # d => ReplayText'[e] = ReplayText[e]
    BY <1>1, <1>2 DEF ReplayText
  <2>2. \A e \in Docs : e # d => (e \in flow'.left <=> e \in flow.left)
    BY <1>1
  <2>3. QED
    BY <1>2, <1>4, <2>1, <2>2 DEF Replaying
<1>7. QED
  BY <1>1, <1>3, <1>5, <1>6 DEF ReplayInv, active

\* Nothing waits in an empty batch and an empty journal.
LEMMA NothingWaits ==
    ASSUME journal = <<>>, flow.batch = <<>>
    PROVE  (\A d \in Docs : ~Waiting(d)) /\ Accounted
BY NoRecord DEF Waiting, Accounted

\* A transaction that starts a worker, replays the documents and then flushes
\* what was deferred meanwhile loses none and revives none.
LEMMA TransactionReplay ==
    ASSUME TypeOK, HandleInv, FlowInv, ReplayInv, TransactionStep
    PROVE  ReplayInv'
<1> SUFFICES ASSUME Trusted' PROVE ReplayInv'
  BY DEF ReplayInv
<1>0. flow \in FlowType /\ active /\ flow.kind \in {"recover", "recycle"}
  BY TransactionWays DEF TypeOK, FlowType, active
<1>1. UNCHANGED <<docs, stage, probeTotal, recycles>> /\ ~failure'
  BY TransactionWays DEF Trusted, accepts
<1>2. ~FlowFails
  BY <1>1, FlowFailures
<1>3. ASSUME failure' = failure
      PROVE  /\ Trusted /\ Accounted
             /\ flow.phase \in {"retiring", "backoff"} => worker = 0
             /\ flow.phase \in {"witness", "replay", "flush", "abandon"} => worker # 0
             /\ flow.phase \in {"flush", "abandon"} => Delivered
             /\ flow.phase = "replay" => Replaying
  BY <1>0, <1>1, <1>3 DEF ReplayInv, Trusted, accepts
<1>4. CASE Ends
  <2>1. failure' = failure /\ Flushed /\ flow.phase \in {"flush", "abandon"}
    BY <1>1, <1>4 DEF Ends, FlowInv
  <2>2. worker # 0 /\ Delivered
    BY <1>3, <2>1
  <2>3. wdocs = docs
    <3>1. \A d \in Docs : wdocs[d] = docs[d]
      BY <2>1, <2>2, NothingWaits DEF Delivered, Flushed
    <3>2. QED
      BY <3>1 DEF TypeOK
  <2>4. flow' = NoFlow /\ journal' = <<>> /\ UNCHANGED <<worker, wdocs>>
    BY <1>4, <2>1 DEF Ends, Finish, Flushed
  <2>5. ~active' /\ flow'.phase = "idle"
    BY <2>4 DEF active, NoFlow
  <2>6. QED
    BY <1>1, <2>2, <2>3, <2>4, <2>5 DEF ReplayInv
<1>5. CASE BacksOff
  <2>1. flow'.phase = "backoff" /\ flow'.kind = "recover" /\ flow'.batch = flow.batch
    BY <1>0, <1>5 DEF BacksOff, FlowType
  <2>2. worker' = 0 /\ Accounted
    BY <1>3, <1>5 DEF BacksOff
  <2>3. Accounted'
    BY <1>1, <1>5, <2>1, <2>2 DEF Accounted, BacksOff
  <2>4. QED
    BY <2>1, <2>2, <2>3 DEF ReplayInv, active
<1>6. CASE Restarts
  <2>1. /\ flow'.phase = "replay" /\ flow'.kind = flow.kind /\ flow'.batch = flow.batch
        /\ flow'.left = Open(docs)
        /\ flow.kind = "recover" => flow'.text = docs
    BY <1>0, <1>6 DEF Restarts, FlowType
  <2>2. Accounted /\ worker = 0 /\ UNCHANGED <<failure, journal>>
    BY <1>3, <1>6 DEF Restarts
  <2>3. worker' = nextEpoch /\ wdocs' = Closed
    BY <1>6, <2>2 DEF Restarts, EnsureWorker, Held
  <2>4. ReplayText' = docs
    BY <1>1, <2>1 DEF ReplayText
  <2>5. Accounted'
    BY <1>1, <2>1, <2>2 DEF Accounted
  <2>6. \A d \in Docs : (d \in Open(docs) <=> docs[d] # NoText) /\ Closed[d] = NoText
    BY DEF Open, Closed
  <2>7. Replaying'
    BY <1>1, <2>1, <2>3, <2>4, <2>6 DEF Replaying
  <2>8. QED
    BY <1>0, <2>1, <2>3, <2>5, <2>7 DEF ReplayInv, active, HandleInv
<1>7. ASSUME NEW d \in Docs, Replays(d) PROVE ReplayInv'
  <2>1. /\ flow'.phase = "replay" /\ flow'.kind = flow.kind /\ flow'.batch = flow.batch
        /\ flow'.left = flow.left \ {d} /\ flow'.text = flow.text
    BY <1>0, <1>7 DEF Replays, FlowType
  <2>2. /\ Accounted /\ Replaying /\ UNCHANGED <<failure, journal, worker>> /\ worker # 0
        /\ d \in flow.left /\ ReplayText[d] # NoText
    BY <1>3, <1>7 DEF Replays
  <2>3. wdocs'[d] = ReplayText[d] /\ \A e \in Docs : e # d => wdocs'[e] = wdocs[e]
    BY <1>7 DEF Replays, TypeOK
  <2>4. ReplayText' = ReplayText /\ Accounted' /\ \A e \in Docs : Waiting(e)' <=> Waiting(e)
    BY <1>1, <2>1, <2>2 DEF ReplayText, Accounted, Waiting
  <2>5. Replaying'
    BY <1>1, <2>1, <2>2, <2>3, <2>4 DEF Replaying
  <2>6. QED
    BY <1>0, <2>1, <2>2, <2>4, <2>5 DEF ReplayInv, active
<1>8. CASE EndsReplay
  <2>1. /\ flow'.phase = "flush" /\ flow'.kind = flow.kind /\ flow'.batch = flow.batch
    BY <1>0, <1>8 DEF EndsReplay, FlowType
  <2>2. /\ Accounted /\ Replaying /\ UNCHANGED <<failure, journal, worker, wdocs>>
        /\ worker # 0 /\ \A d \in flow.left : ReplayText[d] = NoText
    BY <1>3, <1>8 DEF EndsReplay
  <2>3. Delivered
    BY <2>2 DEF Replaying, Delivered
  <2>4. Delivered' /\ Accounted'
    BY <1>1, <2>1, <2>2, <2>3 DEF Delivered, Waiting, Accounted
  <2>5. QED
    BY <1>0, <2>1, <2>2, <2>4 DEF ReplayInv, active
<1>9. CASE Sends
  <2> DEFINE h == Head(flow.batch)
  <2>1. /\ flow'.phase = flow.phase /\ flow'.kind = flow.kind /\ flow'.batch = Tail(flow.batch)
        /\ flow.phase \in {"flush", "abandon"}
    BY <1>0, <1>9 DEF Sends, FlowType
  <2>2. /\ Accounted /\ Delivered /\ UNCHANGED <<failure, journal, worker>> /\ worker # 0
        /\ flow.batch \in Seq(Mutations) /\ flow.batch # <<>>
    BY <1>0, <1>3, <1>9 DEF Sends, FlowType
  <2>3. h \in Mutations /\ h.doc \in Docs
    <3>1. h = flow.batch[1] /\ 1 \in 1..Len(flow.batch)
      BY <2>2
    <3>2. flow.batch[1] \in Mutations
      BY <2>2, <3>1
    <3>3. flow.batch[1].doc \in Docs
      BY <3>2 DEF Mutations
    <3>4. QED
      BY <3>1, <3>2, <3>3
  <2>4. wdocs'[h.doc] = h.text /\ \A e \in Docs : e # h.doc => wdocs'[e] = wdocs[e]
    BY <1>9, <2>3 DEF Sends, TypeOK
  <2>5. ASSUME NEW e \in Docs
        PROVE  /\ LastIs(journal', e, docs'[e])
               /\ Absent(journal', e) => LastIs(flow'.batch, e, docs'[e])
               /\ Waiting(e)' \/ wdocs'[e] = docs'[e]
    <3>1. /\ LastIs(journal, e, docs[e])
          /\ Absent(journal, e) => LastIs(flow.batch, e, docs[e])
          /\ Waiting(e) \/ wdocs[e] = docs[e]
      BY <2>2 DEF Accounted, Delivered
    <3>2. /\ Absent(Tail(flow.batch), e) /\ e # h.doc => Absent(flow.batch, e)
          /\ LastIs(flow.batch, e, docs[e]) => LastIs(Tail(flow.batch), e, docs[e])
          /\ Absent(Tail(flow.batch), e) /\ e = h.doc /\ LastIs(flow.batch, e, docs[e])
               => h.text = docs[e]
      BY <2>2, TailRecord
    <3>3. Waiting(e)' \/ wdocs'[e] = docs'[e]
      <4>1. SUFFICES ASSUME Absent(journal, e), Absent(Tail(flow.batch), e)
                     PROVE  wdocs'[e] = docs[e]
        BY <1>1, <2>1, <2>2 DEF Waiting
      <4>2. CASE e = h.doc
        BY <2>4, <3>1, <3>2, <4>1, <4>2
      <4>3. CASE e # h.doc
        BY <2>4, <3>1, <3>2, <4>1, <4>3 DEF Waiting
      <4>4. QED
        BY <4>2, <4>3
    <3>4. QED
      BY <1>1, <2>1, <2>2, <3>1, <3>2, <3>3
  <2>6. Accounted' /\ Delivered'
    BY <2>5 DEF Accounted, Delivered
  <2>7. QED
    BY <1>0, <2>1, <2>2, <2>6 DEF ReplayInv, active
<1>10. CASE Takes
  <2>1. /\ flow'.phase = flow.phase /\ flow'.kind = flow.kind /\ flow'.batch = journal
        /\ flow.phase \in {"flush", "abandon"} /\ flow.batch = <<>> /\ journal' = <<>>
    BY <1>0, <1>10 DEF Takes, FlowType
  <2>2. Accounted /\ Delivered /\ UNCHANGED <<failure, worker, wdocs>> /\ worker # 0
    BY <1>3, <1>10 DEF Takes
  <2>3. Accounted'
    BY <1>1, <2>1, <2>2, NoRecord DEF Accounted
  <2>4. Delivered'
    BY <1>1, <2>1, <2>2, NoRecord DEF Delivered, Waiting
  <2>5. QED
    BY <1>0, <2>1, <2>2, <2>3, <2>4 DEF ReplayInv, active
<1>11. QED
  BY <1>2, <1>4, <1>5, <1>6, <1>7, <1>8, <1>9, <1>10, TransactionWays

\* Every step keeps what waits and what the worker holds equal to the documents.
LEMMA ReplayInvStep ==
    ASSUME TypeOK, HandleInv, FlowInv, FirstInv, ReplayInv, [Next]_vars
    PROVE  ReplayInv'
<1> SUFFICES ASSUME Trusted' PROVE ReplayInv'
  BY DEF ReplayInv
<1>0. ~failure' /\ stage' = "open" /\ flow \in FlowType
  BY DEF Trusted, accepts, TypeOK, FlowType
<1>1. ASSUME UNCHANGED <<failure, stage, recycles, probeTotal>> PROVE Trusted
  BY <1>1 DEF Trusted, accepts
\* A recovery that starts in an open circuit finds an empty journal.
<1>2. ASSUME NEW rq, Recover(TRUE, rq), ~active, journal = <<>>,
             UNCHANGED <<journal, docs>>
      PROVE  ReplayInv'
  <2>1. /\ flow'.kind = "recover" /\ flow'.phase = "retiring" /\ flow'.batch = <<>>
    BY <1>2, RecoverFlow
  <2>2. worker' = 0
    BY <1>2 DEF Recover, ReplaceWorker, HandleInv
  <2>3. Accounted'
    BY <1>2, <2>1, NoRecord DEF Accounted
  <2>4. QED
    BY <2>1, <2>2, <2>3 DEF ReplayInv, active
<1>3. ASSUME NEW revision, WorkerFailed(revision), active \/ docs' = docs PROVE ReplayInv'
  <2>1. /\ ~pending /\ ~active /\ Recover(TRUE, req) /\ UNCHANGED failure
        /\ UNCHANGED <<stage, journal, recycles, probeTotal>>
    BY <1>0, <1>3, FailureSteps
  <2>2. journal = <<>>
    BY <1>1, <2>1 DEF ReplayInv
  <2>3. QED
    BY <1>2, <1>3, <2>1, <2>2
<1>4. ASSUME NEW d \in Docs, NEW text \in Texts, Edit(d, text) PROVE ReplayInv'
  <2>1. docs' = [docs EXCEPT ![d] = text] /\ docs \in [Docs -> Texts]
    BY <1>4 DEF Edit, TypeOK
  <2>2. CASE accepts /\ active /\ DeferMutation(d, text)
    <3>1. CASE WorkerFailed(inputRevision + 1)
      BY <1>3, <2>2, <3>1
    <3>2. CASE /\ journal' = Deferred(d, text)
               /\ flow' = IF flow.kind = "recycle" /\ docs[d] = NoText
                          THEN [flow EXCEPT !.left = @ \cup {d}] ELSE flow
               /\ UNCHANGED <<circuit, budget, stage, recycles, host, thread>>
      <4>1. Trusted /\ UNCHANGED <<wdocs, worker>>
        BY <1>1, <3>2 DEF circuit, budget, host, thread
      <4>2. QED
        BY <2>1, <2>2, <3>2, <4>1, DeferReplay
    <3>3. QED
      BY <2>2, <3>1, <3>2 DEF DeferMutation
  <2>3. CASE accepts /\ ~active /\ SendMutation(d, text)
    <3>1. EnsureWorker /\ Mutate(d, text) /\ UNCHANGED <<circuit, budget, stage, transaction>>
      BY <1>0, <2>3 DEF SendMutation, Fail
    <3>2. Trusted /\ UNCHANGED <<flow, journal>>
      BY <1>1, <3>1 DEF circuit, budget, transaction
    <3>3. Held = docs
      <4>1. CASE nextEpoch = 1
        BY <2>3, <4>1 DEF FirstInv, accepts, Held
      <4>2. CASE nextEpoch # 1
        BY <2>3, <3>2, <4>2 DEF ReplayInv, Held, TypeOK, HandleInv
      <4>3. QED
        BY <4>1, <4>2
    <3>4. wdocs' = docs' /\ worker' # 0
      BY <2>1, <3>1, <3>3 DEF Mutate, EnsureWorker, HandleInv
    <3>5. journal = <<>> /\ flow = NoFlow
      BY <2>3, <3>2 DEF ReplayInv, FlowInv
    <3>6. QED
      BY <3>2, <3>4, <3>5 DEF ReplayInv, active, NoFlow
  <2>4. CASE ~accepts /\ UNCHANGED <<circuit, stage>>
    BY <1>0, <2>4 DEF accepts, circuit
  <2>5. QED
    BY <1>4, <2>2, <2>3, <2>4 DEF Edit
<1>5. ASSUME NEW r \in Reqs, Call(r) \/ RequestStep(r) \/ Cancel(r) \/ Answer(r)
      PROVE  ReplayInv'
  <2>1. CASE Quiet
    BY <2>1, QuietReplay DEF Quiet
  <2>2. CASE Probe(r) /\ ~pending
    <3>1. /\ Recover(TRUE, Goto(r, "recovering")) /\ probeTotal' = probeTotal + 1
          /\ UNCHANGED <<docs, journal, recycles>>
      BY <2>2 DEF Probe, inputs
    <3>2. recycles = 0
      BY <3>1 DEF Trusted, TypeOK
    <3>3. ~active /\ journal = <<>>
      BY <1>0, <2>2, <3>2 DEF FlowInv, FlowType, active
    <3>4. QED
      BY <1>2, <3>1, <3>3
  <2>3. CASE Dispatch(r) /\ MayDispatch(r)
    <3>1. /\ EnsureWorker /\ wdocs' = Held /\ accepts /\ ~active
          /\ UNCHANGED <<inputs, circuit, budget, stage, transaction>>
      BY <2>3 DEF Dispatch, MayDispatch
    <3>2. Trusted /\ UNCHANGED <<docs, flow, journal>>
      BY <1>1, <3>1 DEF inputs, circuit, budget, transaction
    <3>3. Held = docs
      <4>1. CASE nextEpoch = 1
        BY <3>1, <4>1 DEF FirstInv, accepts, Held
      <4>2. CASE nextEpoch # 1
        BY <3>1, <3>2, <4>2 DEF ReplayInv, Held, TypeOK, HandleInv
      <4>3. QED
        BY <4>1, <4>2
    <3>4. wdocs' = docs' /\ worker' # 0
      BY <3>1, <3>2, <3>3 DEF EnsureWorker, HandleInv
    <3>5. journal = <<>> /\ flow = NoFlow
      BY <3>1, <3>2 DEF ReplayInv, FlowInv
    <3>6. QED
      BY <3>2, <3>4, <3>5 DEF ReplayInv, active, NoFlow
  <2>4. QED
    BY <1>5, <2>1, <2>2, <2>3, RequestSteps
<1>6. CASE TransactionStep
  BY <1>6, TransactionReplay
<1>7. CASE Recycle
  <2>1. /\ flow' = [NoFlow EXCEPT !.kind = "recycle", !.phase = "witness"]
        /\ recycles' = recycles + 1 /\ accepts /\ ~active /\ nextEpoch > 1
        /\ UNCHANGED <<docs, journal, worker, wdocs, probeTotal>>
    BY <1>7 DEF Recycle, inputs, budget, host, thread
  <2>2. Trusted
    BY <2>1 DEF Trusted, TypeOK
  <2>3. journal = <<>> /\ worker # 0 /\ wdocs = docs
    BY <2>1, <2>2 DEF ReplayInv
  <2>4. flow'.phase = "witness" /\ flow'.kind = "recycle" /\ flow'.batch = <<>>
    BY <2>1 DEF NoFlow
  <2>5. Accounted' /\ Delivered'
    BY <2>1, <2>3, <2>4, NoRecord DEF Accounted, Delivered
  <2>6. QED
    BY <2>1, <2>3, <2>4, <2>5 DEF ReplayInv, active
<1>8. CASE WitnessArrives
  <2>0. flow.phase = "witness" /\ UNCHANGED <<docs, stage, recycles, probeTotal, wdocs>>
    BY <1>8 DEF WitnessArrives, inputs, budget
  <2>1. /\ flow.kind = "recycle" /\ flow.phase = "witness"
        /\ UNCHANGED <<docs, stage, recycles, probeTotal, wdocs>>
    <3>1. flow.kind # "none"
      BY <2>0 DEF FlowInv, active, NoFlow
    <3>2. QED
      BY <1>0, <2>0, <3>1 DEF FlowInv, FlowType
  <2>2. failure' = failure /\ Trusted /\ worker # 0 /\ Accounted /\ Delivered
    <3>1. worker # 0 => failure' = failure
      BY <1>8 DEF WitnessArrives, circuit
    <3>2. worker = 0 => failure' = failure
      BY <1>0, <1>8 DEF WitnessArrives, circuit, Fail
    <3>3. Trusted
      BY <1>1, <2>1, <3>1, <3>2
    <3>4. QED
      BY <2>1, <3>1, <3>2, <3>3 DEF ReplayInv, active
  <2>3. CASE flow' = [flow EXCEPT !.phase = "retiring"] /\ ReplaceWorker(FALSE, req)
             /\ UNCHANGED journal
    <3>1. flow'.kind = "recycle" /\ flow'.phase = "retiring" /\ flow'.batch = flow.batch
      BY <1>0, <2>1, <2>3 DEF FlowType
    <3>2. worker' = 0
      BY <2>2, <2>3 DEF ReplaceWorker, HandleInv
    <3>3. Accounted'
      BY <2>1, <2>2, <2>3, <3>1 DEF Accounted
    <3>4. QED
      BY <3>1, <3>2, <3>3 DEF ReplayInv, active
  <2>4. CASE flow' = [flow EXCEPT !.phase = "abandon"] /\ UNCHANGED <<journal, worker>>
    <3>1. flow'.kind = "recycle" /\ flow'.phase = "abandon" /\ flow'.batch = flow.batch
      BY <1>0, <2>1, <2>4 DEF FlowType
    <3>2. Accounted' /\ Delivered'
      BY <2>1, <2>2, <2>4, <3>1 DEF Accounted, Delivered, Waiting
    <3>3. QED
      BY <2>2, <2>4, <3>1, <3>2 DEF ReplayInv, active
  <2>5. QED
    BY <1>8, <2>2, <2>3, <2>4 DEF WitnessArrives
<1>9. CASE Configure \/ Ack \/ ThreadExit \/ StopEnds \/ WindowExpires \/ UNCHANGED vars
  BY <1>9, QuietSteps, QuietReplay DEF Quiet
<1>10. CASE WorkerFails
  BY <1>3, <1>10 DEF WorkerFails, inputs
<1>11. CASE Dispose \/ DisposeStep
  BY <1>0, <1>11 DEF Dispose, DisposeStep
<1>12. QED
  <2>1. ASSUME NEW d \in Docs, Sync(d) \/ Close(d) PROVE ReplayInv'
    <3>1. NoText \in Texts
          /\ [version |-> docs[d].version + 1, content |-> inputRevision + 1] \in Texts
      BY DEF NoText, Texts, TypeOK
    <3>2. QED
      BY <1>4, <2>1, <3>1 DEF Sync, Close
  <2>2. QED
    BY <1>5, <1>6, <1>7, <1>8, <1>9, <1>10, <1>11, <2>1 DEF Next

\* No interleaving of edits, failures, recoveries and recycles loses a document
\* or revives one: whenever requests may be dispatched, the worker holds, or has
\* been sent, exactly the parent's documents.
THEOREM ReplayComplete == Spec => []Replayed
<1>1. Init => HandleInv /\ FlowInv /\ FirstInv /\ ReplayInv
  <2>1. ASSUME Init PROVE flow.kind = "none" /\ flow.phase = "idle" /\ ~active /\ flow = NoFlow
    BY <2>1 DEF Init, NoFlow, active
  <2>2. Init => HandleInv
    BY DEF Init, HandleInv
  <2>3. Init => FlowInv
    BY <2>1 DEF Init, FlowInv
  <2>4. Init => FirstInv
    <3>1. Init => ~failure /\ docs = Closed /\ worker = 0 /\ retirement.state = "none"
      BY DEF Init
    <3>2. QED
      BY <2>1, <3>1, Zenon DEF FirstInv
  <2>5. Init => ReplayInv
    <3>1. Init => journal = <<>> /\ ~(nextEpoch > 1)
      BY DEF Init
    <3>2. QED
      BY <2>1, <3>1 DEF ReplayInv
  <2>6. QED
    BY <2>2, <2>3, <2>4, <2>5
<1>2. TypeOK /\ HandleInv /\ [Next]_vars => HandleInv'
  BY HandleStep, HandleInvStep
<1>3. TypeOK /\ FlowInv /\ [Next]_vars => FlowInv'
  BY FlowInvStep
<1>4. TypeOK /\ HandleInv /\ FlowInv /\ FirstInv /\ [Next]_vars => FirstInv'
  BY FirstInvStep
<1>5. TypeOK /\ HandleInv /\ FlowInv /\ FirstInv /\ ReplayInv /\ [Next]_vars => ReplayInv'
  BY ReplayInvStep
<1>6. ReplayInv => Replayed
  BY DEF ReplayInv, Replayed, Trusted
<1>7. QED
  BY <1>1, <1>2, <1>3, <1>4, <1>5, <1>6, TypeCorrect, PTL DEF Spec
-----------------------------------------------------------------------------
(* Nobody waits for what is gone.                                          *)

SentToWorker == \A r \in Reqs : req[r] = "sent" => worker # 0

\* A worker is taken out of service together with what it was asked.
LEMMA ReplaceWorkerAwaited ==
    ASSUME SentToWorker, NEW retry \in BOOLEAN, NEW rq, ReplaceWorker(retry, rq),
           \A r \in Reqs : rq[r] = "sent" => req[r] = "sent"
    PROVE  SentToWorker'
<1>1. CASE req' = rq /\ worker' = worker
  BY <1>1 DEF SentToWorker
<1>2. CASE req' = Abandoned(rq)
  <2>1. \A r \in Reqs : req'[r] # "sent"
    BY <1>2 DEF Abandoned
  <2>2. QED
    BY <2>1 DEF SentToWorker
<1>3. QED
  BY <1>1, <1>2 DEF ReplaceWorker

\* So does a recovery, ...
LEMMA RecoverAwaited ==
    ASSUME SentToWorker, NEW restart \in BOOLEAN, NEW rq, Recover(restart, rq),
           \A r \in Reqs : rq[r] = "sent" => req[r] = "sent"
    PROVE  SentToWorker' /\ (pending' => active')
<1>1. CASE active
  <2>1. req' = rq /\ worker' = worker /\ flow' = flow
    BY <1>1 DEF Recover
  <2>2. QED
    BY <1>1, <2>1 DEF SentToWorker, active
<1>2. CASE ~active
  <2>1. flow'.kind = "recover" /\ ReplaceWorker(TRUE, rq)
    BY <1>2 DEF Recover, NoFlow
  <2>2. QED
    BY <2>1, ReplaceWorkerAwaited DEF active
<1>3. QED
  BY <1>1, <1>2

\* ... the failure of a worker ...
LEMMA WorkerFailedAwaited ==
    ASSUME AwaitedWorkIsAlive, NEW revision, WorkerFailed(revision)
    PROVE  AwaitedWorkIsAlive'
<1>1. SentToWorker /\ (pending => active)
  BY DEF AwaitedWorkIsAlive, SentToWorker
<1>2. CASE Retire(FALSE, req) /\ UNCHANGED <<pending, flow>>
  <2>1. SentToWorker'
    BY <1>1, <1>2, ReplaceWorkerAwaited DEF Retire
  <2>2. QED
    BY <1>1, <1>2, <2>1 DEF AwaitedWorkIsAlive, SentToWorker, active
<1>3. CASE Recover(TRUE, req) \/ Recover(FALSE, req)
  BY <1>1, <1>3, RecoverAwaited DEF AwaitedWorkIsAlive, SentToWorker
<1>4. QED
  BY <1>2, <1>3 DEF WorkerFailed

\* ... and the failure of a transaction.
LEMMA FlowFailsAwaited ==
    ASSUME TypeOK, AwaitedWorkIsAlive, FlowFails
    PROVE  AwaitedWorkIsAlive'
<1>1. SentToWorker /\ (pending => active)
  BY DEF AwaitedWorkIsAlive, SentToWorker
<1>2. CASE flow.kind = "recover"
  <2>1. Retire(FALSE, req) /\ flow' = [flow EXCEPT !.phase = "failing"]
    BY <1>2 DEF FlowFails
  <2>2. flow'.kind = "recover"
    BY <1>2, <2>1 DEF TypeOK
  <2>3. SentToWorker'
    BY <1>1, <2>1, ReplaceWorkerAwaited DEF Retire
  <2>4. QED
    BY <2>2, <2>3 DEF AwaitedWorkIsAlive, SentToWorker, active
<1>3. CASE flow.kind # "recover"
  <2>1. ~pending' /\ UNCHANGED <<worker, req>>
    BY <1>3 DEF FlowFails, Finish
  <2>2. QED
    BY <1>1, <2>1 DEF AwaitedWorkIsAlive, SentToWorker
<1>4. QED
  BY <1>2, <1>3

\* Every step keeps what is awaited.
LEMMA AwaitedStep ==
    ASSUME TypeOK, HandleInv, AwaitedWorkIsAlive, [Next]_vars
    PROVE  AwaitedWorkIsAlive'
<1>0. SentToWorker /\ (pending => active) /\ nextEpoch \in Nat \ {0}
  BY DEF AwaitedWorkIsAlive, SentToWorker, HandleInv, TypeOK
<1>1. ASSUME UNCHANGED <<pending, flow>>, SentToWorker' PROVE AwaitedWorkIsAlive'
  BY <1>0, <1>1 DEF AwaitedWorkIsAlive, SentToWorker, active
<1>2. ASSUME EnsureWorker PROVE worker' # 0
  BY <1>0, <1>2 DEF EnsureWorker
<1>3. ASSUME req' = req, worker' = worker \/ EnsureWorker PROVE SentToWorker'
  BY <1>0, <1>2, <1>3 DEF SentToWorker
<1>4. ASSUME NEW d \in Docs, NEW text, Edit(d, text) PROVE AwaitedWorkIsAlive'
  <2>1. CASE accepts /\ active /\ DeferMutation(d, text)
    <3>1. CASE WorkerFailed(inputRevision + 1)
      BY <3>1, WorkerFailedAwaited
    <3>2. CASE ~WorkerFailed(inputRevision + 1)
      <4>1. /\ UNCHANGED <<req, worker, pending>>
            /\ flow' = flow \/ flow' = [flow EXCEPT !.left = @ \cup {d}]
        BY <2>1, <3>2 DEF DeferMutation, host
      <4>2. flow'.kind = flow.kind
        BY <4>1 DEF TypeOK
      <4>3. QED
        BY <1>0, <1>3, <4>1, <4>2 DEF AwaitedWorkIsAlive, SentToWorker, active
    <3>3. QED
      BY <3>1, <3>2
  <2>2. CASE accepts /\ ~active /\ SendMutation(d, text)
    <3>1. UNCHANGED <<req, pending, flow>> /\ (worker' = worker \/ EnsureWorker)
      BY <2>2 DEF SendMutation, transaction, host
    <3>2. QED
      BY <1>1, <1>3, <3>1
  <2>3. CASE ~accepts
    <3>1. UNCHANGED <<req, pending, flow, worker>>
      BY <1>4, <2>3 DEF Edit, transaction, host
    <3>2. QED
      BY <1>1, <1>3, <3>1
  <2>4. QED
    BY <1>4, <2>1, <2>2, <2>3 DEF Edit
<1>5. ASSUME NEW r \in Reqs, Call(r) \/ RequestStep(r) \/ Cancel(r) \/ Answer(r)
      PROVE  AwaitedWorkIsAlive'
  <2>1. ASSUME NEW state, state # "sent", req' = Goto(r, state), UNCHANGED <<worker, pending, flow>>
        PROVE  AwaitedWorkIsAlive'
    <3>1. \A q \in Reqs : req'[q] = "sent" => req[q] = "sent"
      BY <2>1 DEF Goto, TypeOK
    <3>2. QED
      BY <1>0, <1>1, <2>1, <3>1 DEF SentToWorker
  <2>2. ASSUME NEW state, state # "sent", Move(r, state) PROVE AwaitedWorkIsAlive'
    <3>1. req' = Goto(r, state) /\ UNCHANGED <<worker, pending, flow>>
      BY <2>2 DEF Move, host, transaction
    <3>2. QED
      BY <2>1, <2>2, <3>1
  <2>3. CASE Probe(r)
    <3>1. \A q \in Reqs : Goto(r, "recovering")[q] = "sent" => req[q] = "sent"
      BY DEF Goto, TypeOK
    <3>2. SentToWorker' /\ (pending' => active')
      BY <1>0, <2>3, <3>1, RecoverAwaited DEF Probe
    <3>3. QED
      BY <3>2 DEF AwaitedWorkIsAlive, SentToWorker
  <2>4. CASE Answer(r)
    <3>1. \E state \in {"ok", "rejected"} : req' = Goto(r, state)
      BY <2>4 DEF Answer
    <3>2. UNCHANGED <<worker, pending, flow>>
      BY <2>4 DEF Answer, host, transaction
    <3>3. QED
      BY <2>1, <3>1, <3>2
  <2>5. CASE Dispatch(r) /\ MayDispatch(r)
    <3>1. EnsureWorker /\ UNCHANGED <<pending, flow>>
      BY <2>5 DEF Dispatch, transaction
    <3>2. QED
      BY <1>1, <1>2, <3>1 DEF SentToWorker
  <2>6. CASE Dispatch(r) /\ ~MayDispatch(r)
    BY <2>2, <2>6 DEF Dispatch
  <2>7. QED
    BY <1>5, <2>2, <2>3, <2>4, <2>5, <2>6 DEF Call, RequestStep, Resume, Recovered, Wait, Cancel
<1>6. CASE TransactionStep
  <2>1. ASSUME Finish, UNCHANGED <<worker, req>> PROVE AwaitedWorkIsAlive'
    BY <1>3, <2>1 DEF Finish, AwaitedWorkIsAlive, SentToWorker
  <2>2. ASSUME flow'.kind = flow.kind, UNCHANGED <<pending, req>>, worker' = worker \/ EnsureWorker
        PROVE  AwaitedWorkIsAlive'
    BY <1>0, <1>3, <2>2 DEF AwaitedWorkIsAlive, SentToWorker, active
  <2>3. CASE FailingEnds
    BY <2>1, <2>3 DEF FailingEnds, host
  <2>4. CASE Replaced
    <3>1. CASE FlowFails
      BY <3>1, FlowFailsAwaited
    <3>2. CASE Finish /\ UNCHANGED <<host, req>>
      BY <2>1, <3>2 DEF host
    <3>3. CASE /\ flow' = [flow EXCEPT !.phase = "backoff"]
               /\ UNCHANGED <<pending, host, req>>
      BY <2>2, <3>3 DEF host, TypeOK
    <3>4. CASE /\ EnsureWorker /\ UNCHANGED <<pending, req>>
               /\ flow' = [flow EXCEPT !.phase = "replay", !.left = Open(docs)]
      BY <2>2, <3>4 DEF TypeOK
    <3>5. QED
      BY <2>4, <3>1, <3>2, <3>3, <3>4 DEF Replaced
  <2>5. CASE BackoffEnds
    <3>1. CASE FlowFails
      BY <3>1, FlowFailsAwaited
    <3>2. CASE ~FlowFails
      <4>1. /\ EnsureWorker /\ UNCHANGED <<pending, req>>
            /\ flow' = [flow EXCEPT !.phase = "replay", !.text = docs, !.left = Open(docs)]
        BY <2>5, <3>2 DEF BackoffEnds
      <4>2. QED
        BY <2>2, <4>1 DEF TypeOK
    <3>3. QED
      BY <3>1, <3>2
  <2>6. CASE ReplayStep
    <3>1. CASE FlowFails
      BY <3>1, FlowFailsAwaited
    <3>2. CASE ~FlowFails
      <4>1. /\ UNCHANGED <<pending, worker, req>>
            /\ \/ flow' = [flow EXCEPT !.phase = "flush", !.left = {}]
               \/ \E d \in flow.left : flow' = [flow EXCEPT !.left = @ \ {d}]
        BY <2>6, <3>2 DEF ReplayStep, host
      <4>2. flow'.kind = flow.kind
        BY <4>1 DEF TypeOK
      <4>3. QED
        BY <2>2, <4>1, <4>2
    <3>3. QED
      BY <3>1, <3>2
  <2>7. CASE FlushStep
    <3>1. CASE FlowFails
      BY <3>1, FlowFailsAwaited
    <3>2. CASE Finish /\ UNCHANGED <<host, req>>
      BY <2>1, <3>2 DEF host
    <3>3. CASE /\ UNCHANGED <<pending, host, req>>
               /\ \/ flow' = [flow EXCEPT !.batch = Tail(@)]
                  \/ flow' = [flow EXCEPT !.batch = journal]
      BY <2>2, <3>3 DEF host, TypeOK
    <3>4. QED
      BY <2>7, <3>1, <3>2, <3>3 DEF FlushStep, TakeBatch
  <2>8. QED
    BY <1>6, <2>3, <2>4, <2>5, <2>6, <2>7 DEF TransactionStep
<1>7. CASE Configure \/ Ack \/ ThreadExit \/ StopEnds \/ WindowExpires \/ UNCHANGED vars
  <2>1. UNCHANGED <<pending, flow, worker, req>>
    BY <1>7 DEF Configure, Ack, ThreadExit, StopEnds, WindowExpires, vars, host, transaction
  <2>2. QED
    BY <1>1, <1>3, <2>1
<1>8. CASE WorkerFails
  BY <1>8, WorkerFailedAwaited DEF WorkerFails
<1>9. CASE Recycle
  <2>1. flow'.kind = "recycle" /\ UNCHANGED <<worker, req>>
    BY <1>9 DEF Recycle, NoFlow, host
  <2>2. QED
    BY <1>3, <2>1 DEF AwaitedWorkIsAlive, SentToWorker, active
<1>10. CASE WitnessArrives
  <2>1. CASE worker = 0
    <3>1. ~pending' /\ UNCHANGED <<worker, req>>
      BY <1>10, <2>1 DEF WitnessArrives
    <3>2. QED
      BY <1>3, <3>1 DEF AwaitedWorkIsAlive, SentToWorker
  <2>2. CASE worker # 0
    <3>1. /\ pending' = pending
          /\ \/ flow' = [flow EXCEPT !.phase = "retiring"]
             \/ flow' = [flow EXCEPT !.phase = "abandon"]
          /\ ReplaceWorker(FALSE, req) \/ UNCHANGED <<worker, req>>
      BY <1>10, <2>2 DEF WitnessArrives
    <3>2. flow'.kind = flow.kind
      BY <3>1 DEF TypeOK
    <3>3. SentToWorker'
      BY <1>0, <1>3, <3>1, ReplaceWorkerAwaited
    <3>4. QED
      BY <1>0, <3>1, <3>2, <3>3 DEF AwaitedWorkIsAlive, SentToWorker, active
  <2>3. QED
    BY <2>1, <2>2
<1>11. CASE Dispose \/ DisposeStep
  <2>1. /\ UNCHANGED <<pending, flow>>
        /\ \/ \E retry \in BOOLEAN : ReplaceWorker(retry, req)
           \/ UNCHANGED <<worker, req>>
    BY <1>11 DEF Dispose, DisposeStep, Retire, transaction
  <2>2. SentToWorker'
    BY <1>0, <1>3, <2>1, ReplaceWorkerAwaited
  <2>3. QED
    BY <1>1, <2>1, <2>2
<1>12. QED
  BY <1>4, <1>5, <1>6, <1>7, <1>8, <1>9, <1>10, <1>11 DEF Next, Sync, Close

\* Whatever fails, is replaced, recycled or disposed: a recovery that callers wait for
\* is under way, and a request that was sent waits for the worker that is there, for
\* any number of documents and requests.
THEOREM NobodyWaitsInVain == Spec => []AwaitedWorkIsAlive
<1>1. Init => HandleInv /\ AwaitedWorkIsAlive
  BY DEF Init, HandleInv, AwaitedWorkIsAlive
<1>2. TypeOK /\ HandleInv /\ [Next]_vars => HandleInv'
  BY HandleStep, HandleInvStep
<1>3. TypeOK /\ HandleInv /\ AwaitedWorkIsAlive /\ [Next]_vars => AwaitedWorkIsAlive'
  BY AwaitedStep
<1>4. QED
  BY <1>1, <1>2, <1>3, TypeCorrect, PTL DEF Spec
=============================================================================
