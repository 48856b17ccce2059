------------------------------ MODULE Watchdog ------------------------------
(***************************************************************************)
(* SemanticWorkerWatchdog: the parent judges, without the worker's help,   *)
(* whether the worker still gets anywhere.  It sees the command and phase  *)
(* that the worker writes into shared memory at once, and the events that  *)
(* the worker posts in order but some time later.                          *)
(*                                                                         *)
(* Time passes in ticks, each ending with a check(); an entry holds the    *)
(* ages of what the code holds the times of.  A phase "commit" stands for  *)
(* synchronize, program and checker, "request" for the other phases of a   *)
(* running command.  A worker that is wedged takes no steps.               *)
(***************************************************************************)
EXTENDS Integers, Sequences, FiniteSets, FiniteSetsExt

CONSTANTS
    Reads, Mutations,   \* the commands sent to the worker
    Limit,              \* [Reads \cup Mutations -> Nat]: their deadlines
    Preparation, Grace, \* deadlines of waiting commands and of cancelled reads
    MaxActivity         \* bound on the compiler's checkpoints

Commands == Reads \cup Mutations
Never == -1

\* How long a command may wait for its turn.
Longest(c) == Max({Limit[c], Preparation})

VARIABLES
    waiting,   \* [a subset of Commands -> entries]
    failed,    \* what was given to failed(): the command and the reason
    cell,      \* [Reads -> states of the cancellation cells]
    progress,  \* shared memory: the command, its phase, and who saw its activity
    mail,      \* posted by the worker and not yet read
    checkpoints,
    quiet,     \* history: since when a cancelled read shows no sign of life
    inside     \* history: reads cancelled in the commit that they are still in

watchdogVars == <<waiting, failed, cell, progress, mail, checkpoints, quiet, inside>>

Soft == {"clientCancelled", "contentModified"}
Alive == failed.reason = "none"
Idle == "none"

Committing(c) ==
    /\ c \in Reads
    /\ waiting[c].started # Never
    /\ progress.command = c
    /\ progress.phase = "commit"

(* ------------------------------ The parent ----------------------------- *)

\* endpoint.send, which posts to the worker: sent().
Send(c) ==
    /\ Alive
    /\ c \notin DOMAIN waiting
    /\ c \notin progress.taken
    /\ waiting' = [x \in DOMAIN waiting \cup {c} |->
                      IF x = c THEN [sent |-> 0, started |-> Never, cancelled |-> Never,
                                     activity |-> Never, invalidation |-> "none"]
                      ELSE waiting[x]]
    /\ UNCHANGED <<failed, cell, progress, mail, checkpoints, quiet, inside>>

Invalidated(c, finishSynchronization) ==
    IF c \notin DOMAIN waiting \/ waiting[c].invalidation = "settling" THEN waiting
    ELSE [waiting EXCEPT ![c].invalidation =
             IF ~finishSynchronization THEN "interrupt"
             ELSE IF @ = "none" THEN "finish-sync" ELSE @]

\* Somebody writes the cell of a read: the client's cancellation, a disposal,
\* or a mutation, which also tells the watchdog (invalidate).  Only the first
\* write counts.
Cancel(c) ==
    /\ Alive
    /\ c \in DOMAIN waiting
    /\ \E reason \in Soft \cup {"supervisorDisposing"}, finish \in BOOLEAN :
          /\ reason # "contentModified" => cell[c] = "active" /\ ~finish
          /\ waiting' = IF reason = "contentModified" THEN Invalidated(c, finish) ELSE waiting
          /\ cell' = [cell EXCEPT ![c] = IF @ = "active" THEN reason ELSE @]
          /\ inside' = IF cell[c] = "active" /\ reason \in Soft
                          /\ progress.command = c /\ progress.phase = "commit"
                          /\ \A n \in DOMAIN mail : mail[n] # [of |-> c, action |-> "synchronized"]
                       THEN inside \cup {c} ELSE inside
          /\ quiet' = [quiet EXCEPT ![c] = IF cell[c] = "active" THEN 0 ELSE @]
    /\ UNCHANGED <<failed, progress, mail, checkpoints>>

\* execution() and settled()
Receive ==
    /\ Alive
    /\ mail # <<>>
    /\ mail' = Tail(mail)
    /\ LET c == Head(mail).of
           entry == waiting[c]
       IN  waiting' =
             CASE Head(mail).action = "terminal" -> [x \in DOMAIN waiting \ {c} |-> waiting[x]]
               [] Head(mail).action = "started" -> [waiting EXCEPT ![c].started = 0]
               [] Head(mail).action = "synchronized" ->
                    IF entry.invalidation = "finish-sync" /\ entry.cancelled # Never
                    THEN [waiting EXCEPT ![c].invalidation = "settling", ![c].cancelled = 0]
                    ELSE waiting
    /\ UNCHANGED <<failed, cell, progress, checkpoints, quiet, inside>>

\* One round of check() for an entry.
Checked(c, entry) ==
    LET cancelled == IF /\ c \in Reads /\ entry.started # Never
                        /\ entry.cancelled = Never /\ cell[c] # "active"
                     THEN 0 ELSE entry.cancelled
        committing == Committing(c)
        allowed == IF committing /\ cancelled # Never /\ entry.invalidation # "settling" /\ cell[c] \in Soft
                   THEN "finish-sync" ELSE entry.invalidation
        left == allowed = "finish-sync" /\ ~committing /\ cancelled # Never
    IN  [entry EXCEPT !.invalidation = IF left THEN "settling" ELSE allowed,
                      !.cancelled = IF left THEN 0 ELSE cancelled,
                      !.activity = IF committing /\ c \notin progress.seen THEN 0 ELSE @]

\* Mutant: the grace is counted from the start of the read.
CancelledForM(entry) == entry.started

CancelledFor(entry) ==
    IF entry.activity = Never \/ entry.activity > entry.cancelled
    THEN entry.cancelled ELSE entry.activity

\* The cancelled read whose commit has a permission waits for its end.
Reason(c, entry) ==
    LET draining == entry.invalidation = "finish-sync" /\ Committing(c) IN
    CASE /\ ~draining /\ entry.cancelled # Never
         /\ CancelledFor(entry) >= Grace -> "cancellation-deadline"
      [] OTHER ->
         IF entry.started # Never
         THEN IF entry.started >= Limit[c] THEN "execution-deadline" ELSE "none"
         ELSE IF entry.sent >= Longest(c) THEN "queue-deadline" ELSE "none"

\* No deadline tells ages beyond it apart.
Older(age, cap) == IF age \in {Never, cap} THEN age ELSE age + 1
Aged(c, entry) == [entry EXCEPT !.sent = Older(@, Longest(c) + Limit[c]), !.started = Older(@, Limit[c]),
                                !.cancelled = Older(@, Grace), !.activity = Older(@, Grace)]

\* Time passes, and the timer runs check(); the first entry with a reason
\* fails the worker, which disposes the watchdog.
Tick ==
    /\ Alive
    /\ DOMAIN waiting # {}
    /\ LET now == [c \in DOMAIN waiting |-> Checked(c, Aged(c, waiting[c]))]
           late == {c \in DOMAIN waiting : Reason(c, now[c]) # "none"}
           seen == {c \in DOMAIN waiting : Committing(c)}
       IN  /\ waiting' = now
           /\ progress' = [progress EXCEPT !.seen = @ \cup seen]
           /\ failed' \in IF late = {} THEN {failed}
                          ELSE {[of |-> c, reason |-> Reason(c, now[c])] : c \in late}
           /\ quiet' = [c \in Reads |-> IF c \in seen \ progress.seen THEN 0 ELSE Older(quiet[c], Grace)]
    /\ UNCHANGED <<cell, mail, checkpoints, inside>>

(* ------------------------------ The worker ----------------------------- *)

Post(c, action) == mail' = Append(mail, [of |-> c, action |-> action])

\* runWorkerCommand: commands run one at a time, interactive reads first.
Start(c) ==
    /\ progress.command = Idle
    /\ c \in DOMAIN waiting \ progress.taken
    /\ progress' = [progress EXCEPT !.command = c, !.phase = "request", !.taken = @ \cup {c}]
    /\ Post(c, "started")
    /\ UNCHANGED <<waiting, failed, cell, checkpoints, quiet, inside>>

\* observeCompilerPhase: the phase is entered, and left for the one before.
\* Only the synchronization of a language service is announced, inside it.
EnterCommit ==
    /\ progress.command \in Reads
    /\ progress.phase = "request"
    /\ checkpoints < MaxActivity
    /\ checkpoints' = checkpoints + 1
    /\ progress' = [progress EXCEPT !.phase = "commit"]
    /\ UNCHANGED <<waiting, failed, cell, mail, quiet, inside>>

LeaveCommit ==
    /\ progress.phase = "commit"
    /\ progress' = [progress EXCEPT !.phase = "request"]
    /\ inside' = inside \ {progress.command}
    /\ UNCHANGED <<waiting, failed, cell, mail, checkpoints, quiet>>

\* compilerSynchronized
Synchronized ==
    /\ progress.phase = "commit"
    /\ \A n \in DOMAIN mail : mail[n].action # "synchronized"
    /\ Post(progress.command, "synchronized")
    /\ inside' = inside \ {progress.command}
    /\ UNCHANGED <<waiting, failed, cell, progress, checkpoints, quiet>>

\* compilerSynchronizationActivity
Activity ==
    /\ progress.phase = "commit"
    /\ checkpoints < MaxActivity
    /\ checkpoints' = checkpoints + 1
    /\ progress' = [progress EXCEPT !.seen = {}]
    /\ UNCHANGED <<waiting, failed, cell, mail, quiet, inside>>

\* publishWorkerTerminal, and the end of runWorkerCommand.
Finish ==
    /\ progress.phase = "request"
    /\ Post(progress.command, "terminal")
    /\ progress' = [progress EXCEPT !.command = Idle, !.phase = "idle"]
    /\ UNCHANGED <<waiting, failed, cell, checkpoints, quiet, inside>>

Init ==
    /\ waiting = [c \in {} |-> 0]
    /\ failed = [of |-> Idle, reason |-> "none"]
    /\ cell = [c \in Reads |-> "active"]
    /\ progress = [command |-> Idle, phase |-> "idle", seen |-> {}, taken |-> {}]
    /\ mail = <<>>
    /\ checkpoints = 0
    /\ quiet = [c \in Reads |-> Never]
    /\ inside = {}

Worker ==
    /\ Alive
    /\ \/ \E c \in Commands : Start(c)
       \/ EnterCommit \/ LeaveCommit \/ Synchronized \/ Activity \/ Finish

Next ==
    \/ \E c \in Commands : Send(c)
    \/ \E c \in Reads : Cancel(c)
    \/ Receive
    \/ Tick
    \/ Worker

Spec == Init /\ [][Next]_watchdogVars

(* ------------------------------ Properties ----------------------------- *)

\* A worker is given up for a cancelled read only after it showed no sign of
\* life for the whole grace: none since the cell was written, and none that
\* the check() could have seen in a commit of that read.
CancelledReadsHaveTheirGrace ==
    failed.reason = "cancellation-deadline" => quiet[failed.of] >= Grace

\* A client's cancellation and an edit never interrupt, by the cancellation
\* deadline, the Program commit in which they find the read, whatever further
\* mutations say, unless the end of an earlier commit was still in the mail.
CommitsAreNotInterrupted ==
    failed.reason = "cancellation-deadline" => failed.of \notin inside

\* No command waits longer than its turn and its own deadline allow, however
\* busy the worker looks: checkpoints never extend an execution.
StallsAreBounded ==
    \A c \in DOMAIN waiting : Alive =>
       waiting[c].sent < Longest(c) + Limit[c]

\* The watchdog gives a cancelled read its grace, lets a Program commit end and
\* still bounds every stall.
DeadlinesAreFair == CancelledReadsHaveTheirGrace /\ CommitsAreNotInterrupted /\ StallsAreBounded
=============================================================================
