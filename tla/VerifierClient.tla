--------------------------- MODULE VerifierClient ---------------------------
(***************************************************************************)
(* The thread that verifies batches of a reference search, or resolves its *)
(* declaration, and the client that owns it (ReferenceVerifierClient).     *)
(* One job runs at a time; the thread outlives a job that succeeds and is  *)
(* stopped by one that fails.  Jobs are cancelled while they wait or run,  *)
(* the thread crashes, idle or not, and memory pressure, a new             *)
(* configuration or disposal gives it up.                                  *)
(***************************************************************************)
EXTENDS Naturals, Sequences, FiniteSets

CONSTANTS
    Jobs,         \* calls of run
    MaxThreads,   \* bound: threads started
    MaxReleases   \* bound: releases and disposals from outside

VARIABLES
    job,          \* [Jobs -> [pc, cancelled, on (its thread), got (its answer)]]
    chain,        \* the promise chain pending: jobs not yet begun
    thread,       \* [1 .. MaxThreads -> [state, work, answer]]
    worker,       \* this.worker, 0 when there is none
    stopping,     \* this.termination: the thread it waits for, or 0
    retire,       \* releaseWhenIdle was called during a job
    releases

clientVars == <<job, chain, thread, worker, stopping, retire, releases>>

NoJob == "none"
Threads == 1 .. MaxThreads
Alive == {i \in Threads : thread[i].state \in {"live", "stopping", "crashed"}}
Active == {j \in Jobs : job[j].pc \in {"starting", "running", "failing"}}    \* busy
Terminated == stopping \in {0} \cup {i \in Threads : thread[i].state = "exited"}

Init ==
    /\ job = [j \in Jobs |-> [pc |-> "idle", cancelled |-> FALSE, on |-> 0, got |-> NoJob]]
    /\ chain = <<>>
    /\ thread = [i \in Threads |-> [state |-> "none", work |-> NoJob, answer |-> NoJob]]
    /\ worker = 0 /\ stopping = 0
    /\ retire = FALSE
    /\ releases = 0

Run(j) ==
    /\ job[j].pc = "idle"
    /\ job' = [job EXCEPT ![j].pc = "waiting"]
    /\ chain' = Append(chain, j)
    /\ UNCHANGED <<thread, worker, stopping, retire, releases>>

\* dispose, with what else happens to the threads.
Disposed(threads) ==
    /\ worker' = 0
    /\ stopping' = IF worker = 0 THEN stopping ELSE worker
    /\ thread' = IF worker = 0 \/ threads[worker].state # "live" THEN threads
                 ELSE [threads EXCEPT ![worker].state = "stopping"]

\* runJob up to its first await; a job cancelled before gives up its turn.
Begin ==
    /\ chain # <<>>
    /\ Active = {}
    /\ chain' = Tail(chain)
    /\ LET j == Head(chain)
       IN  IF job[j].cancelled
           THEN /\ job' = [job EXCEPT ![j].pc = "failed"]
                /\ UNCHANGED retire
           ELSE /\ job' = [job EXCEPT ![j].pc = "starting"]
                /\ retire' = FALSE
    /\ UNCHANGED <<thread, worker, stopping, releases>>

\* The old thread has gone: reuse the present one or start another.
Acquire(j) ==
    /\ job[j].pc = "starting"
    /\ Terminated
    /\ ~job[j].cancelled
    /\ \E i \in Threads :
          /\ IF worker # 0 THEN i = worker
             ELSE thread[i].state = "none" /\ \A k \in Threads : k < i => thread[k].state # "none"
          /\ worker' = i
          /\ thread' = [thread EXCEPT ![i].work = j,
                                      ![i].state = IF worker = 0 THEN "live" ELSE @]
          /\ job' = [job EXCEPT ![j].pc = "running", ![j].on = i]
    /\ UNCHANGED <<chain, stopping, retire, releases>>

\* Mutant: a job that fails leaves the thread to the next one.
ThrowM(j, threads) ==
    /\ job' = [job EXCEPT ![j].pc = "failing"]
    /\ thread' = threads
    /\ UNCHANGED <<worker, stopping>>

\* runJob's catch block, up to its await.
Throw(j, threads) ==
    /\ job' = [job EXCEPT ![j].pc = "failing"]
    /\ Disposed(threads)

GiveUp(j) ==
    /\ job[j].pc = "starting" /\ Terminated /\ job[j].cancelled
    /\ Throw(j, thread)
    /\ UNCHANGED <<chain, retire, releases>>

\* The end of runJob.
Settle(j, pc, got, threads) ==
    /\ job' = [job EXCEPT ![j].pc = pc, ![j].got = got]
    /\ IF retire THEN Disposed(threads)
       ELSE thread' = threads /\ UNCHANGED <<worker, stopping>>

Rethrow(j) ==
    /\ job[j].pc = "failing" /\ Terminated
    /\ Settle(j, "failed", NoJob, thread)
    /\ UNCHANGED <<chain, retire, releases>>

\* The thread finishes its job and posts the response.
Respond(i) ==
    /\ thread[i].state = "live" /\ thread[i].work # NoJob
    /\ thread' = [thread EXCEPT ![i].answer = thread[i].work, ![i].work = NoJob]
    /\ UNCHANGED <<job, chain, worker, stopping, retire, releases>>

Running(i) == {j \in Jobs : job[j].pc = "running" /\ job[j].on = i}

\* onMessage: the job that listens takes whatever arrives.
Deliver(i) ==
    /\ thread[i].answer # NoJob
    /\ LET read == [thread EXCEPT ![i].answer = NoJob]
       IN  \/ /\ Running(i) = {}
              /\ thread' = read
              /\ UNCHANGED <<job, worker, stopping>>
           \/ \E j \in Running(i) :
                 \/ ~job[j].cancelled /\ Settle(j, "done", thread[i].answer, read)
                 \/ Throw(j, read)               \* cancelled, or an error response
    /\ UNCHANGED <<chain, retire, releases>>

\* The error event of a thread that fails by itself.
Crash(i) ==
    /\ thread[i].state = "live"
    /\ LET crashed == [thread EXCEPT ![i].state = "crashed", ![i].work = NoJob]
       IN  \/ /\ Running(i) = {}
              /\ thread' = crashed
              /\ UNCHANGED <<job, worker, stopping>>
           \/ \E j \in Running(i) : Throw(j, crashed)
    /\ UNCHANGED <<chain, retire, releases>>

\* Mutant: a job does not listen to the exit of its thread.
ExitM(i) ==
    /\ thread[i].state \in {"stopping", "crashed"}
    /\ thread' = [thread EXCEPT ![i].state = "exited", ![i].work = NoJob, ![i].answer = NoJob]
    /\ worker' = IF worker = i THEN 0 ELSE worker
    /\ UNCHANGED <<job, chain, stopping, retire, releases>>

\* The exit event: listeners of the client and of the job.
Exit(i) ==
    /\ thread[i].state \in {"stopping", "crashed"}
    /\ LET exited == [thread EXCEPT ![i].state = "exited", ![i].work = NoJob, ![i].answer = NoJob]
       IN  /\ thread' = exited
           /\ worker' = IF worker = i THEN 0 ELSE worker
           /\ job' = [j \in Jobs |-> IF j \in Running(i) THEN [job[j] EXCEPT !.pc = "failing"]
                                     ELSE job[j]]
           /\ UNCHANGED stopping
    /\ UNCHANGED <<chain, retire, releases>>

Cancel(j) ==
    /\ job[j].pc \in {"waiting", "starting", "running"} /\ ~job[j].cancelled
    /\ job' = [job EXCEPT ![j].cancelled = TRUE]
    /\ UNCHANGED <<chain, thread, worker, stopping, retire, releases>>

\* The timers that look at the cancellation every ten milliseconds.  A job
\* that is rejected while it waits keeps its place in the chain.
Poll(j) ==
    /\ job[j].cancelled
    /\ \/ /\ job[j].pc = "waiting"
          /\ job' = [job EXCEPT ![j].pc = "failed"]
          /\ UNCHANGED <<thread, worker, stopping>>
       \/ job[j].pc = "running" /\ Throw(j, thread)
    /\ UNCHANGED <<chain, retire, releases>>

\* Memory pressure of level 3; or dispose of the engine and new settings.
ReleaseWhenIdle ==
    /\ releases < MaxReleases
    /\ releases' = releases + 1
    /\ IF Active # {} THEN retire' = TRUE /\ UNCHANGED <<thread, worker, stopping>>
       ELSE Disposed(thread) /\ UNCHANGED retire
    /\ UNCHANGED <<job, chain>>

Dispose ==
    /\ releases < MaxReleases
    /\ releases' = releases + 1
    /\ Disposed(thread)
    /\ UNCHANGED <<job, chain, retire>>

Client ==
    \/ Begin
    \/ \E j \in Jobs : Acquire(j) \/ GiveUp(j) \/ Rethrow(j)
Thread(i) == Respond(i) \/ Deliver(i) \/ Exit(i)

Next ==
    \/ Client \/ ReleaseWhenIdle \/ Dispose
    \/ \E j \in Jobs : Run(j) \/ Cancel(j) \/ Poll(j)
    \/ \E i \in Threads : Thread(i) \/ Crash(i)

\* Continuations run, a thread that was told to stop stops, and a
\* verification ends: it has no loop that waits for anything.
Fairness ==
    /\ WF_clientVars(Client)
    /\ \A i \in Threads : WF_clientVars(Thread(i))
    /\ \A j \in Jobs : WF_clientVars(Poll(j))

Spec == Init /\ [][Next]_clientVars /\ Fairness

-----------------------------------------------------------------------------

\* Two verification threads, each with a compiler of its own, never exist
\* at once, and a job is answered by the thread's response to that job, not
\* to one that was cancelled before it (runJob's catch block).
VerifierIsExclusive ==
    /\ Cardinality(Alive) <= 1
    /\ \A j \in Jobs : job[j].got \in {NoJob, j}

\* Again and again, for each job: it is settled if it was begun, whether it
\* waited behind others, was cancelled, or its thread was taken away.
JobSettled(j) == job[j].pc \in {"idle", "done", "failed"}
=============================================================================
