----------------------------- MODULE IndexClient -----------------------------
(***************************************************************************)
(* The client side of the workspace index: DefaultWorkspaceSymbolService   *)
(* opens one sidecar process per workspace, runs its catalogs, repeats     *)
(* them when files change and searches; SidecarWorkspaceIndex and          *)
(* SidecarSession speak to the process over stdin and stdout.  Promises    *)
(* settle in steps of their own, so that the lines of one stdout chunk are *)
(* all read before the code awaiting the first of them continues.          *)
(***************************************************************************)
EXTENDS Integers, Sequences, FiniteSets, SequencesExt, TLC

CONSTANTS Workspaces,    \* the workspace roots of the session
          MaxChanges,    \* bound: file change notifications
          MaxSearches,   \* bound: symbol searches
          MaxFaults,     \* bound: misbehaviours of the sidecars
          MaxEvents      \* bound: all of these together


Phases == {"discovering", "indexing", "ready", "degraded", "cancelled"}
TerminalPhases == {"ready", "degraded", "cancelled"}
Methods == {"initialize", "catalog/start", "catalog/cancel", "search", "shutdown"}

VARIABLES
    svc,        \* per workspace: openWorkspace's progress, searchable, pending, catalog, phase
    session,    \* per workspace: the SidecarSession
    run,        \* per workspace: the CatalogRun of SidecarWorkspaceIndex
    side,       \* per workspace: the sidecar process
    inbox,      \* per workspace: requests written to its stdin
    outbox,     \* per workspace: lines in its stdout
    settled,    \* per workspace: answers whose awaiting code has not continued
    finished,   \* the client's progress was ended
    aborted,    \* the client cancelled the progress
    disposed,   \* the service was disposed
    search,     \* the search in flight
    changes,    \* history: notifications so far, per workspace
    searches,   \* history: searches so far
    faults      \* history: misbehaviours so far

vars == <<svc, session, run, side, inbox, outbox, settled, finished, aborted, disposed,
          search, changes, searches, faults>>

NoRun == [on |-> FALSE, gen |-> 0, abort |-> FALSE, cancel |-> FALSE, cancelTimer |-> FALSE,
          stallTimer |-> FALSE, mark |-> 0, buffered |-> <<>>]
NoSession == [state |-> "none", failure |-> FALSE, closing |-> FALSE, term |-> "none",
              close |-> "none", next |-> 1, pending |-> {}, abandoned |-> {}]
NoSearch == [pc |-> "none", ids |-> [w \in Workspaces |-> 0]]
FreshSide == [gen |-> 0, stage |-> "idle", phase |-> "ready", committed |-> 0, next |-> 1,
              scans |-> 0, covers |-> -1, mute |-> FALSE, dead |-> FALSE, faulty |-> FALSE]

(***************************************************************************)
(* Progress: the phases of all workspaces are reported as one.             *)
(***************************************************************************)
AggregatePhase(phases) ==
    CASE phases \subseteq TerminalPhases /\ "degraded" \in phases -> "degraded"
      [] phases \subseteq TerminalPhases /\ "cancelled" \in phases -> "cancelled"
      [] phases = {"ready"} -> "ready"
      [] "discovering" \in phases -> "discovering"
      [] OTHER -> "indexing"

\* startWorkspaceIndex ends the progress with the first terminal aggregate.
Report(services) ==
    finished' = (finished \/ AggregatePhase({services[w].phase : w \in Workspaces})
                                 \in TerminalPhases)

\* The rank of a sidecar phase, which may never go down within a run.
CatalogPhaseRank(phase) ==
    CASE phase = "discovering" -> 1
      [] phase = "activating" -> 2
      [] phase = "cancelling" -> 3
      [] OTHER -> 4

MapCatalogPhase(phase) ==
    CASE phase \in {"ready", "degraded", "cancelled"} -> phase
      [] phase \in {"activating", "cancelling"} -> "indexing"
      [] OTHER -> "discovering"

\* DefaultWorkspaceSymbolService.failWorkspace.
Failed(s, signal) ==
    IF disposed THEN s
    ELSE [s EXCEPT !.phase = IF signal /\ aborted THEN "cancelled" ELSE "degraded"]

\* Mutant of Scheduled: a change during a run is forgotten.
ScheduledOnce(s) ==
    CASE disposed -> s
      [] s.catalog # "none" -> s
      [] OTHER -> [s EXCEPT !.catalog = "starting"]

\* scheduleCatalog: one run per workspace, a later one is remembered.
Scheduled(s) ==
    CASE disposed -> s
      [] s.catalog # "none" -> [s EXCEPT !.pending = TRUE]
      [] OTHER -> [s EXCEPT !.catalog = "starting"]

(***************************************************************************)
(* SidecarSession                                                          *)
(***************************************************************************)
Sendable(ss) == ~ss.failure /\ ss.state = "live" /\ ~ss.closing

\* sendRequest, when the session takes it: the id it gets, and the line it writes.
Sent(ss, method) == [ss EXCEPT !.next = @ + 1, !.pending = @ \cup {[id |-> ss.next, method |-> method]}]
Line(ss, method, gen) == [id |-> ss.next, method |-> method, gen |-> gen]

\* terminate, once; terminateProcess has nothing to do for a process that is gone.
Terminating(ss) ==
    IF ss.term # "none" THEN ss
    ELSE [ss EXCEPT !.closing = TRUE, !.term = IF ss.state = "closed" THEN "done" ELSE "term"]

\* fail: every pending request is rejected and no abandoned one is awaited.
FailedSession(ss, terminate) ==
    LET rejected == [ss EXCEPT !.failure = TRUE, !.pending = {}, !.abandoned = {}]
    IN IF terminate /\ ss.state # "closed" THEN Terminating(rejected) ELSE rejected

\* rejectCatalog, and the code that awaited the run's promise.
RejectedCatalog(s, r) == IF r.on THEN [s EXCEPT !.catalog = "rejected"] ELSE s

\* A failure of the session, from whatever side, in one step.
FailSession(w, terminate) ==
    /\ session' = [session EXCEPT ![w] = FailedSession(@, terminate)]
    /\ svc' = [svc EXCEPT ![w] = IF session[w].failure THEN @ ELSE RejectedCatalog(@, run[w])]
    /\ run' = [run EXCEPT ![w] = IF session[w].failure THEN @ ELSE NoRun]

(***************************************************************************)
(* The catalog run of SidecarWorkspaceIndex                                *)
(***************************************************************************)
IsTerminal(phase) == phase \in TerminalPhases

\* validateCatalogGeneration.
ValidGeneration(gen, cancel, m) ==
    /\ ~IsTerminal(m.phase) => m.building = gen
    /\ m.phase = "ready" => m.committed = gen
    /\ m.phase = "cancelled" => cancel

\* assertMonotonicCatalogProgress, for the part of a mark that is modelled.
Monotonic(r, m) == CatalogPhaseRank(m.phase) >= r.mark

\* applyCatalogEvent and reportCatalogProgress on [s, r, ok], the service's
\* record, the run and whether the status was accepted.
ApplyStatus(acc, m) ==
    LET r == acc.r
        reported == IF disposed THEN acc.s ELSE [acc.s EXCEPT !.phase = MapCatalogPhase(m.phase)]
        cancelling == r.cancel /\ m.phase = "cancelling"
    IN CASE ~acc.ok \/ ~r.on -> acc
         [] ~ValidGeneration(r.gen, r.cancel, m) -> [acc EXCEPT !.ok = FALSE]
         [] IsTerminal(m.phase) ->
                [s |-> [reported EXCEPT !.catalog = "resolved"], r |-> NoRun, ok |-> TRUE]
         [] cancelling -> [s |-> reported, r |-> [r EXCEPT !.stallTimer = FALSE], ok |-> TRUE]
         [] OTHER -> [s |-> reported,
                      r |-> [r EXCEPT !.stallTimer = TRUE, !.mark = CatalogPhaseRank(m.phase)],
                      ok |-> Monotonic(r, m)]

\* What a status does to the workspace: it is applied, or it fails the session.
Apply(w, acc) ==
    IF acc.ok
    THEN /\ svc' = [svc EXCEPT ![w] = acc.s]
         /\ run' = [run EXCEPT ![w] = acc.r]
         /\ UNCHANGED session
    ELSE FailSession(w, TRUE)

\* cancelCatalog up to its await: the run is cancelled once, when its generation is known.
CancelDue(r) == r.on /\ r.gen # 0 /\ r.abort /\ ~r.cancel
Cancelling(r) == IF CancelDue(r) THEN [r EXCEPT !.cancel = TRUE] ELSE r
CancelSent(ss, r) == IF CancelDue(r) THEN Sent(ss, "catalog/cancel") ELSE ss
CancelWritten(lines, ss, r) ==
    IF CancelDue(r) THEN Append(lines, Line(ss, "catalog/cancel", r.gen)) ELSE lines

(***************************************************************************)
(* Opening a workspace                                                     *)
(***************************************************************************)
Init ==
    /\ svc = [w \in Workspaces |-> [pc |-> "directory", searchable |-> FALSE, pending |-> FALSE,
                                    catalog |-> "none", phase |-> "discovering", signal |-> TRUE]]
    /\ session = [w \in Workspaces |-> NoSession]
    /\ run = [w \in Workspaces |-> NoRun]
    /\ side = [w \in Workspaces |-> FreshSide]
    /\ inbox = [w \in Workspaces |-> <<>>]
    /\ outbox = [w \in Workspaces |-> <<>>]
    /\ settled = [w \in Workspaces |-> <<>>]
    /\ finished = FALSE /\ aborted = FALSE /\ disposed = FALSE
    /\ search = NoSearch
    /\ changes = [w \in Workspaces |-> 0]
    /\ searches = 0 /\ faults = 0

Events == SumFunction(changes) + searches + faults
MayFault == faults < MaxFaults /\ Events < MaxEvents

process == <<side, inbox, outbox>>
history == <<changes, searches, faults>>

\* openWorkspace after the cache directory is known.
DirectoryReady(w) ==
    /\ svc[w].pc = "directory"
    /\ svc' = [svc EXCEPT ![w] = CASE disposed -> [@ EXCEPT !.pc = "done"]
                                   [] ~disposed /\ aborted -> [Failed(@, TRUE) EXCEPT !.pc = "done"]
                                   [] OTHER -> [@ EXCEPT !.pc = "paths"]]
    /\ Report(svc')
    /\ UNCHANGED <<session, run, settled, aborted, disposed, search, process, history>>

\* SidecarWorkspaceIndex.openWorkspace: the session is created with its process.
SpawnSidecar(w) ==
    /\ svc[w].pc = "paths"
    /\ svc' = [svc EXCEPT ![w].pc = "initialize"]
    /\ \E live \in {[NoSession EXCEPT !.state = "live"]} :
           /\ session' = [session EXCEPT ![w] = Sent(live, "initialize")]
           /\ inbox' = [inbox EXCEPT ![w] = Append(@, Line(live, "initialize", 0))]
    /\ UNCHANGED <<run, side, outbox, settled, finished, aborted, disposed, search, history>>

\* The root or the cache directory cannot be resolved.
PathsFail(w) ==
    /\ svc[w].pc = "paths" /\ MayFault
    /\ faults' = faults + 1
    /\ svc' = [svc EXCEPT ![w] = [Failed(@, TRUE) EXCEPT !.pc = "done"]]
    /\ Report(svc')
    /\ UNCHANGED <<session, run, settled, aborted, disposed, search, process, changes, searches>>

\* initialize was answered: the workspace is searchable, or closed again.
Opened(w) ==
    /\ svc[w].pc = "initialize"
    /\ svc' = [svc EXCEPT ![w] =
                  IF disposed \/ aborted THEN [@ EXCEPT !.pc = "closing"]
                  ELSE Scheduled([@ EXCEPT !.pc = "done", !.searchable = TRUE])]
    /\ UNCHANGED <<session, run, inbox, search>>

\* initialize failed: the session is forgotten and its process ended first.
OpenFails(w) ==
    /\ svc[w].pc = "initialize" /\ session[w].failure
    /\ svc' = [svc EXCEPT ![w].pc = "failing"]
    /\ session' = [session EXCEPT ![w] = [Terminating(@) EXCEPT !.close = "done"]]
    /\ UNCHANGED <<run, settled, finished, aborted, disposed, search, process, history>>

\* openWorkspace's last step after a failed or a revoked open.
EndOpening(w) ==
    /\ \/ svc[w].pc = "failing" /\ session[w].term = "done"
       \/ svc[w].pc = "closing" /\ session[w].close = "done"
    /\ svc' = [svc EXCEPT ![w] = [Failed(@, TRUE) EXCEPT !.pc = "done"]]
    /\ Report(svc')
    /\ UNCHANGED <<session, run, settled, aborted, disposed, search, process, history>>

(***************************************************************************)
(* Catalogs                                                                *)
(***************************************************************************)
\* runCatalog after semantic.indexCatalog("starting"): SidecarWorkspaceIndex.start.
BeginRun(w) ==
    /\ svc[w].catalog = "starting"
    /\ \/ /\ Sendable(session[w])
          /\ ~(svc[w].signal /\ aborted)
          /\ svc' = [svc EXCEPT ![w].catalog = "running"]
          /\ run' = [run EXCEPT ![w] = [NoRun EXCEPT !.on = TRUE]]
          /\ session' = [session EXCEPT ![w] = Sent(@, "catalog/start")]
          /\ inbox' = [inbox EXCEPT ![w] = Append(@, Line(session[w], "catalog/start", 0))]
          /\ UNCHANGED faults
       \/ /\ ~Sendable(session[w]) \/ (svc[w].signal /\ aborted)
          /\ svc' = [svc EXCEPT ![w].catalog = "rejected"]
          /\ UNCHANGED <<run, session, inbox, faults>>
       \/ /\ MayFault         \* semantic.indexCatalog rejects
          /\ faults' = faults + 1
          /\ svc' = [svc EXCEPT ![w].catalog = "rejected"]
          /\ UNCHANGED <<run, session, inbox>>
    /\ UNCHANGED <<side, outbox, settled, finished, aborted, disposed, search, changes, searches>>

\* The code after the run's promise, and scheduleCatalog's finally.
FinishRun(w) ==
    /\ svc[w].catalog \in {"resolved", "rejected"}
    /\ \E s \in {IF svc[w].catalog = "rejected" THEN Failed(svc[w], svc[w].signal) ELSE svc[w]} :
           svc' = [svc EXCEPT ![w] =
                      IF ~disposed /\ s.pending
                      THEN Scheduled([s EXCEPT !.catalog = "none", !.signal = FALSE, !.pending = FALSE])
                      ELSE [s EXCEPT !.catalog = "none", !.signal = FALSE]]
    /\ Report(svc')
    /\ UNCHANGED <<session, run, settled, aborted, disposed, search, process, history>>

\* workspaceFilesChanged.
FilesChanged(w) ==
    /\ ~disposed /\ changes[w] < MaxChanges /\ Events < MaxEvents
    /\ changes' = [changes EXCEPT ![w] = @ + 1]
    /\ \E s \in {[svc[w] EXCEPT !.phase = "discovering"]} :
           svc' = [svc EXCEPT ![w] = IF s.searchable THEN Scheduled(s)
                                     ELSE [s EXCEPT !.pending = TRUE]]
    /\ Report(svc')
    /\ UNCHANGED <<session, run, settled, aborted, disposed, search, process, searches, faults>>

\* The client cancels the progress or the server begins to stop: onAbort of every run.
Abort ==
    /\ ~aborted
    /\ aborted' = TRUE
    /\ \E asked \in {[w \in Workspaces |-> [run[w] EXCEPT !.abort = run[w].on /\ svc[w].signal]]} :
           /\ run' = [w \in Workspaces |-> Cancelling(asked[w])]
           /\ session' = [w \in Workspaces |-> CancelSent(session[w], asked[w])]
           /\ inbox' = [w \in Workspaces |-> CancelWritten(inbox[w], session[w], asked[w])]
    /\ UNCHANGED <<svc, side, outbox, settled, finished, disposed, search, history>>

\* beginCatalog after the answer: the status it carries, then the events read
\* before it, then the cancellation that waited for the generation.
Started(w, m) ==
    \E acc \in {FoldLeft(ApplyStatus,
                         ApplyStatus([s |-> svc[w], ok |-> TRUE,
                                      r |-> [run[w] EXCEPT !.gen = m.gen, !.buffered = <<>>]], m),
                         run[w].buffered)} :
        IF m.ok /\ acc.ok
        THEN /\ svc' = [svc EXCEPT ![w] = acc.s]
             /\ run' = [run EXCEPT ![w] = Cancelling(acc.r)]
             /\ session' = [session EXCEPT ![w] = CancelSent(@, acc.r)]
             /\ inbox' = [inbox EXCEPT ![w] = CancelWritten(@, session[w], acc.r)]
        ELSE /\ UNCHANGED inbox
             /\ \/ m.ok /\ FailSession(w, TRUE)
                \/ /\ ~m.ok
                   /\ svc' = [svc EXCEPT ![w] = RejectedCatalog(@, run[w])]
                   /\ run' = [run EXCEPT ![w] = NoRun]
                   /\ UNCHANGED session

\* cancelCatalog after the answer: from now on the terminal event has a deadline.
Cancelled(w, m) ==
    /\ IF ~ValidGeneration(m.gen, TRUE, m)
       THEN FailSession(w, TRUE)
       ELSE \E acc \in {IF run[w].gen = m.gen
                        THEN ApplyStatus([s |-> svc[w], r |-> run[w], ok |-> TRUE], m)
                        ELSE [s |-> svc[w], r |-> run[w], ok |-> TRUE]} :
                Apply(w, IF acc.r.on /\ acc.r.gen = m.gen
                         THEN [acc EXCEPT !.r.cancelTimer = TRUE] ELSE acc)
    /\ UNCHANGED <<inbox, search>>

(***************************************************************************)
(* Reading the sidecar's output                                            *)
(***************************************************************************)
\* acceptCatalogEvent: without a generation the event waits for the start's answer.
AcceptEvent(w, m) ==
    IF run[w].on /\ run[w].gen = 0
    THEN /\ run' = [run EXCEPT ![w].buffered = Append(@, m)]
         /\ UNCHANGED <<svc, session>>
    ELSE Apply(w, ApplyStatus([s |-> svc[w], r |-> run[w], ok |-> TRUE], m))

\* Mutant of AcceptResponse: the answer to an aborted request is unknown.
AcceptResponseStrictly(w, m) ==
    LET asked == {q \in session[w].pending : q.id = m.id}
    IN IF asked # {}
       THEN /\ session' = [session EXCEPT ![w].pending = @ \ asked]
            /\ settled' = [settled EXCEPT ![w] = Append(@, m)]
            /\ UNCHANGED <<svc, run>>
       ELSE FailSession(w, TRUE) /\ UNCHANGED settled

\* acceptLine for a response.
AcceptResponse(w, m) ==
    LET asked == {q \in session[w].pending : q.id = m.id}
    IN CASE asked # {} ->
              /\ session' = [session EXCEPT ![w].pending = @ \ asked]
              /\ settled' = [settled EXCEPT ![w] = Append(@, m)]
              /\ UNCHANGED <<svc, run>>
         [] asked = {} /\ m.id \in session[w].abandoned ->
              /\ session' = [session EXCEPT ![w].abandoned = @ \ {m.id}]
              /\ UNCHANGED <<svc, run, settled>>
         [] OTHER -> FailSession(w, TRUE) /\ UNCHANGED settled

\* One line of stdout.
ReadLine(w) ==
    /\ outbox[w] # <<>> /\ session[w].state = "live"
    /\ \E m \in {Head(outbox[w])} :
           \/ m.kind = "event" /\ AcceptEvent(w, m) /\ UNCHANGED settled
           \/ m.kind = "answer" /\ AcceptResponse(w, m)
           \/ m.kind = "garbage" /\ FailSession(w, TRUE) /\ UNCHANGED settled
    /\ outbox' = [outbox EXCEPT ![w] = Tail(@)]
    /\ Report(svc')
    /\ UNCHANGED <<side, inbox, aborted, disposed, search, history>>

\* The code that awaited an answer continues.
Continue(w) ==
    /\ settled[w] # <<>>
    /\ settled' = [settled EXCEPT ![w] = Tail(@)]
    /\ \E m \in {Head(settled[w])} :
           \/ m.method = "initialize" /\ m.ok /\ Opened(w)
           \/ /\ m.method = "initialize" /\ ~m.ok
              /\ svc' = [svc EXCEPT ![w].pc = "failing"]
              /\ session' = [session EXCEPT ![w] = [Terminating(@) EXCEPT !.close = "done"]]
              /\ UNCHANGED <<run, inbox, search>>
           \/ m.method = "catalog/start" /\ run[w].on /\ Started(w, m) /\ UNCHANGED search
           \/ m.method = "catalog/start" /\ ~run[w].on /\ UNCHANGED <<svc, session, run, inbox, search>>
           \/ m.method = "catalog/cancel" /\ Cancelled(w, m)
           \/ /\ m.method = "search"
              /\ search' = IF search.ids[w] = m.id THEN [search EXCEPT !.ids[w] = 0] ELSE search
              /\ UNCHANGED <<svc, session, run, inbox>>
           \/ /\ m.method = "shutdown"
              /\ session' = [session EXCEPT ![w].pending = {}, ![w].abandoned = {}, ![w].close = "exit"]
              /\ UNCHANGED <<svc, run, inbox, search>>
    /\ Report(svc')
    /\ UNCHANGED <<side, outbox, aborted, disposed, history>>

\* Mutant of Timeout: only requests have deadlines, not the catalog they started.
TimeoutOfRequests(w) ==
    /\ side[w].mute \/ (side[w].dead /\ outbox[w] = <<>>)
    /\ ~session[w].failure
    /\ session[w].pending # {} \/ session[w].abandoned # {}
    /\ FailSession(w, TRUE)
    /\ UNCHANGED <<settled, finished, aborted, disposed, search, process, history>>

\* A request, an abandoned one, a cancellation or the catalog's progress is overdue.
Timeout(w) ==
    /\ side[w].mute \/ (side[w].dead /\ outbox[w] = <<>>)
    /\ ~session[w].failure
    /\ \/ session[w].pending # {}
       \/ session[w].abandoned # {}
       \/ run[w].on /\ (run[w].cancelTimer \/ run[w].stallTimer)
    /\ FailSession(w, TRUE)
    /\ UNCHANGED <<settled, finished, aborted, disposed, search, process, history>>

\* The process is gone and its output read.
ChildClosed(w) ==
    /\ side[w].dead /\ outbox[w] = <<>> /\ session[w].state = "live"
    /\ \E closed \in {[session[w] EXCEPT !.state = "closed",
                                         !.term = IF @ \in {"term", "kill"} THEN "done" ELSE @]} :
           IF session[w].closing
           THEN /\ session' = [session EXCEPT ![w] = closed]
                /\ UNCHANGED <<svc, run>>
           ELSE /\ session' = [session EXCEPT ![w] = FailedSession(closed, FALSE)]
                /\ svc' = [svc EXCEPT ![w] = IF session[w].failure THEN @ ELSE RejectedCatalog(@, run[w])]
                /\ run' = [run EXCEPT ![w] = IF session[w].failure THEN @ ELSE NoRun]
    /\ UNCHANGED <<settled, finished, aborted, disposed, search, process, history>>

(***************************************************************************)
(* Searching                                                               *)
(***************************************************************************)
\* searchSymbols asks every searchable workspace; one that cannot answer counts as null.
BeginSearch ==
    /\ search.pc = "none" /\ searches < MaxSearches /\ Events < MaxEvents /\ ~disposed
    /\ searches' = searches + 1
    /\ \E asked \in {{w \in Workspaces : svc[w].searchable /\ Sendable(session[w])}} :
           /\ search' = [pc |-> "persisted",
                         ids |-> [w \in Workspaces |-> IF w \in asked THEN session[w].next ELSE 0]]
           /\ session' = [w \in Workspaces |-> IF w \in asked THEN Sent(session[w], "search")
                                               ELSE session[w]]
           /\ inbox' = [w \in Workspaces |->
                           IF w \in asked THEN Append(inbox[w], Line(session[w], "search", 0))
                           ELSE inbox[w]]
    /\ UNCHANGED <<svc, run, side, outbox, settled, finished, aborted, disposed, changes, faults>>

\* The workspaces whose answer the search still waits for: a failed session rejected its requests.
Waiting ==
    {w \in Workspaces :
        /\ search.ids[w] # 0
        /\ \/ \E q \in session[w].pending : q.id = search.ids[w]
           \/ \E i \in DOMAIN settled[w] : settled[w][i].id = search.ids[w]}

\* The client cancels the search: its requests are abandoned, their answers still expected.
AbortSearch ==
    /\ search.pc = "persisted"
    /\ search' = NoSearch
    /\ session' = [w \in Workspaces |->
           LET mine == {q \in session[w].pending : q.id = search.ids[w]}
           IN [session[w] EXCEPT !.pending = @ \ mine,
                                 !.abandoned = @ \cup {q.id : q \in mine}]]
    /\ UNCHANGED <<svc, run, settled, finished, aborted, disposed, process, history>>

\* Every workspace answered or failed: overlays are added and the result returned.
FinishSearch ==
    /\ search.pc = "persisted" /\ Waiting = {}
    /\ search' = NoSearch
    /\ UNCHANGED <<svc, session, run, settled, finished, aborted, disposed, process, history>>

(***************************************************************************)
(* Closing                                                                 *)
(***************************************************************************)
\* dispose; the server has aborted the progress before.
Dispose ==
    /\ aborted /\ ~disposed
    /\ disposed' = TRUE
    /\ svc' = [w \in Workspaces |-> [svc[w] EXCEPT !.pending = FALSE]]
    /\ UNCHANGED <<session, run, settled, finished, aborted, search, process, history>>

\* SidecarWorkspaceIndex.close waits for an open in progress; dispose and a
\* revoked open both call it.
CloseDue(w) == svc[w].pc = "closing" \/ (svc[w].pc = "done" /\ disposed)

\* close up to its first await: the catalog is rejected and the shutdown begins.
BeginClose(w) ==
    /\ CloseDue(w) /\ session[w].state # "none" /\ session[w].close = "none"
    /\ svc' = [svc EXCEPT ![w] = RejectedCatalog(@, run[w])]
    /\ run' = [run EXCEPT ![w] = NoRun]
    /\ \E ss \in {session[w]} :
           \/ /\ ss.state = "closed"
              /\ session' = [session EXCEPT ![w].close = "done"]
              /\ UNCHANGED inbox
           \/ /\ ss.state = "live" /\ ss.failure
              /\ session' = [session EXCEPT ![w] = [Terminating(@) EXCEPT !.close = "terminate"]]
              /\ UNCHANGED inbox
           \/ /\ ss.state = "live" /\ ~ss.failure
              /\ session' = [session EXCEPT ![w] = [Sent(@, "shutdown") EXCEPT !.closing = TRUE,
                                                                        !.close = "shutdown"]]
              /\ inbox' = [inbox EXCEPT ![w] = Append(@, Line(ss, "shutdown", 0))]
    /\ UNCHANGED <<side, outbox, settled, finished, aborted, disposed, search, history>>

\* Mutant of CloseStep: close does not wait for the process to exit.
CloseStepWithoutWaiting(w) ==
    /\ \E ss \in {session[w]} : session' = [session EXCEPT ![w] =
           CASE ss.close = "shutdown" /\ ss.failure -> [Terminating(@) EXCEPT !.close = "terminate"]
             [] ss.close \in {"exit", "terminate"} -> [@ EXCEPT !.close = "done"]
             [] OTHER -> @]
    /\ session' # session
    /\ UNCHANGED <<svc, run, settled, finished, aborted, disposed, search, process, history>>

\* Mutant of CloseStep: the rejection of the shutdown request is not caught.
CloseStepAnsweredOnly(w) ==
    /\ \E ss \in {session[w]} : session' = [session EXCEPT ![w] =
           CASE ss.close = "exit" /\ ss.state = "closed" -> [@ EXCEPT !.close = "done"]
             [] ss.close = "terminate" /\ ss.term = "done" -> [@ EXCEPT !.close = "done"]
             [] OTHER -> @]
    /\ session' # session
    /\ UNCHANGED <<svc, run, settled, finished, aborted, disposed, search, process, history>>

\* shutdown and terminateProcess go on: the request failed, the process closed or is overdue.
CloseStep(w) ==
    /\ \E ss \in {session[w]} : session' = [session EXCEPT ![w] =
           CASE ss.close = "shutdown" /\ ss.failure -> [Terminating(@) EXCEPT !.close = "terminate"]
             [] ss.close = "exit" /\ ss.state = "closed" -> [@ EXCEPT !.close = "done"]
             [] ss.close = "exit" /\ ss.state = "live" /\ side[w].mute ->
                    [Terminating(@) EXCEPT !.close = "terminate"]
             [] ss.close = "terminate" /\ ss.term = "done" -> [@ EXCEPT !.close = "done"]
             [] OTHER -> @]
    /\ session' # session
    /\ UNCHANGED <<svc, run, settled, finished, aborted, disposed, search, process, history>>

\* SIGTERM had no effect in time; after SIGKILL the wait is bounded as well.
TerminationTimeout(w) ==
    /\ side[w].mute /\ session[w].state = "live" /\ session[w].term \in {"term", "kill"}
    /\ session' = [session EXCEPT ![w].term = IF @ = "term" THEN "kill" ELSE "done"]
    /\ UNCHANGED <<svc, run, settled, finished, aborted, disposed, search, process, history>>

DisposeResolved ==
    /\ disposed
    /\ \A w \in Workspaces : /\ svc[w].pc = "done" /\ svc[w].catalog = "none"
                             /\ session[w].state = "none" \/ session[w].close = "done"

(***************************************************************************)
(* The sidecar process, as its client sees it                              *)
(***************************************************************************)
Status(p) == [building |-> p.gen, committed |-> p.committed, phase |-> p.phase]
EventLine(p) == [kind |-> "event", id |-> 0, method |-> "none", ok |-> TRUE, gen |-> 0] @@ Status(p)
AnswerLine(p, q, ok, gen) ==
    [kind |-> "answer", id |-> q.id, method |-> q.method, ok |-> ok, gen |-> gen] @@ Status(p)
GarbageLine == [EventLine(FreshSide) EXCEPT !.kind = "garbage"]

\* Runtime::dispatch, for what the client notices of each request.  A cancellation comes
\* before or, while the catalog activates, after its switch to publishing.
Dispatched(w, q) ==
    LET p == side[w]
        cancelled == [p EXCEPT !.stage = "cancelled", !.phase = "cancelling"]
    IN CASE q.method = "catalog/start" /\ p.gen = 0 ->
              {[p EXCEPT !.gen = p.next, !.next = @ + 1, !.stage = "scan", !.phase = "discovering",
                         !.scans = changes[w]]}
         [] q.method = "catalog/cancel" /\ p.gen = q.gen /\ p.stage = "scan" -> {cancelled}
         [] q.method = "catalog/cancel" /\ p.gen = q.gen /\ p.stage = "publish" -> {cancelled, p}
         [] q.method = "shutdown" -> {[p EXCEPT !.dead = TRUE]}
         [] OTHER -> {p}

Respond(w) ==
    /\ inbox[w] # <<>> /\ ~side[w].dead
    /\ inbox' = [inbox EXCEPT ![w] = Tail(@)]
    /\ \E q \in {Head(inbox[w])} :
           \/ \E p \in Dispatched(w, q) :
                  /\ side' = [side EXCEPT ![w] = p]
                  /\ outbox' = [outbox EXCEPT ![w] = Append(@, AnswerLine(p, q, TRUE,
                                   IF q.method = "catalog/start" THEN p.gen ELSE q.gen))]
                  /\ UNCHANGED faults
           \/ /\ q.method \in {"initialize", "catalog/start", "search"}   \* storage errors
              /\ MayFault
              /\ faults' = faults + 1
              /\ outbox' = [outbox EXCEPT ![w] = Append(@, AnswerLine(side[w], q, FALSE, 0))]
              /\ UNCHANGED side
    /\ UNCHANGED <<svc, session, run, settled, finished, aborted, disposed, search, changes, searches>>

\* The catalog thread advances, and handle_catalog_update emits the status.
CatalogAdvances(w) ==
    /\ side[w].gen # 0 /\ ~side[w].dead
    /\ \E p \in {side[w]} : \E q \in
           {[p EXCEPT !.stage = "publish", !.phase = "activating"],
            [p EXCEPT !.gen = 0, !.stage = "idle", !.phase = "ready", !.committed = p.gen,
                      !.covers = p.scans],
            [p EXCEPT !.gen = 0, !.stage = "idle", !.phase = "degraded"],
            [p EXCEPT !.gen = 0, !.stage = "idle", !.phase = "cancelled"]} :
           /\ CASE p.stage = "scan" -> q.phase \in {"activating", "degraded"}
                [] p.stage = "publish" -> q.phase \in {"ready", "degraded"}
                [] p.stage = "cancelled" -> q.phase \in {"cancelled", "degraded"}
           /\ side' = [side EXCEPT ![w] = q]
           /\ outbox' = [outbox EXCEPT ![w] = Append(@, EventLine(q))]
    /\ UNCHANGED <<svc, session, run, inbox, settled, finished, aborted, disposed, search, history>>

\* The process stops answering, dies, or writes a line that is not of the protocol.
Misbehave(w) ==
    /\ session[w].state = "live" /\ MayFault /\ ~side[w].dead
    /\ faults' = faults + 1
    /\ \/ /\ side' = [side EXCEPT ![w].mute = TRUE, ![w].faulty = TRUE]
          /\ UNCHANGED outbox
       \/ /\ side' = [side EXCEPT ![w].dead = TRUE, ![w].faulty = TRUE]
          /\ UNCHANGED outbox
       \/ /\ side' = [side EXCEPT ![w].faulty = TRUE]
          /\ outbox' = [outbox EXCEPT ![w] = Append(@, GarbageLine)]
    /\ UNCHANGED <<svc, session, run, inbox, settled, finished, aborted, disposed, search, changes, searches>>

\* A signalled process ends; a wedged one may ignore SIGTERM.
SignalledDies(w) ==
    /\ session[w].term \in {"term", "kill"} /\ ~side[w].dead
    /\ side' = [side EXCEPT ![w].dead = TRUE]
    /\ UNCHANGED <<svc, session, run, inbox, outbox, settled, finished, aborted, disposed, search, history>>

Client(w) ==
    \/ DirectoryReady(w) \/ SpawnSidecar(w) \/ OpenFails(w) \/ EndOpening(w)
    \/ BeginRun(w) \/ FinishRun(w) \/ Continue(w) \/ ChildClosed(w)
    \/ BeginClose(w) \/ CloseStep(w)

Timers(w) == Timeout(w) \/ TerminationTimeout(w)

Next ==
    \/ \E w \in Workspaces :
           \/ Client(w) \/ ReadLine(w) \/ Timers(w)
           \/ PathsFail(w) \/ FilesChanged(w)
           \/ Respond(w) \/ CatalogAdvances(w) \/ Misbehave(w) \/ SignalledDies(w)
    \/ Abort \/ Dispose \/ BeginSearch \/ AbortSearch \/ FinishSearch

\* The event loop runs what is due and timers expire; a process that is not
\* wedged goes on, and one that got SIGKILL ends.
SidecarWorks(w) == ~side[w].mute /\ (Respond(w) \/ CatalogAdvances(w))
SidecarObeys(w) == SignalledDies(w) /\ (~side[w].mute \/ session[w].term = "kill")
Fairness ==
    \A w \in Workspaces :
        /\ WF_vars(Client(w)) /\ WF_vars(ReadLine(w)) /\ WF_vars(Timers(w))
        /\ WF_vars(SidecarWorks(w)) /\ WF_vars(SidecarObeys(w))

Spec == Init /\ [][Next]_vars /\ Fairness

(***************************************************************************)
(* Properties                                                              *)
(***************************************************************************)
TypeOK ==
    /\ \A w \in Workspaces :
           /\ svc[w].phase \in Phases
           /\ svc[w].catalog \in {"none", "starting", "running", "resolved", "rejected"}
           /\ (svc[w].catalog = "running") <=> run[w].on
           /\ \A q \in session[w].pending : q.method \in Methods /\ q.id < session[w].next
           /\ session[w].abandoned \cap {q.id : q \in session[w].pending} = {}
    /\ search.pc \in {"none", "persisted"}

\* A sidecar that speaks the protocol never has its session failed: aborted
\* requests answered late, events read before the start's answer and a
\* cancellation crossing the terminal event are all accepted.
HealthySessionsSurvive == \A w \in Workspaces : session[w].failure => side[w].faulty

\* "ready" is not the last word before the committed catalog covers every
\* change reported so far: otherwise another catalog runs or is due.
ReadyCoversChanges ==
    \A w \in Workspaces :
        (svc[w].phase = "ready" /\ svc[w].catalog = "none" /\ ~disposed)
            => side[w].covers = changes[w]

\* When dispose has resolved, every process has ended or was sent SIGKILL.
NothingLeftRunning ==
    DisposeResolved => \A w \in Workspaces :
        session[w].state # "live" \/ session[w].term = "done"

\* Again and again, for each workspace: its catalog run has ended, whatever
\* the sidecar did.
RunSettled(w) == svc[w].catalog = "none"

\* Again and again: a dispose that was called has resolved, whatever the
\* sidecars did.
DisposeEnded == disposed => DisposeResolved
=============================================================================
