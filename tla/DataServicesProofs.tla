-------------------------- MODULE DataServicesProofs --------------------------
(***************************************************************************)
(* The theorems about the components that MCDataServices places side by    *)
(* side hold of the composition: whichever part a behaviour is one of,     *)
(* every step of it is a step of that part, or changes nothing.            *)
(***************************************************************************)
EXTENDS MCDataServices, TLAPS

\* A behaviour stays in its part.
LEMMA PartStays == [Next]_all => part' = part
BY DEF Next, all

-----------------------------------------------------------------------------
(* The document store and the compiler contexts.                           *)

\* The constants of the four instances have their types.
LEMMA ContentsParameters ==
    Views!Parameters /\ Scoping!Parameters /\ Aliases!Parameters /\ Buffers!Parameters
<1>1. None \notin {l1, l2} /\ None \notin Spans /\ None \notin Deltas /\ None \notin Held
  BY NoneAssumption
<1>2. Plain \in [{p1, p2} -> {p1, p2}] /\ Alias \in [{p1, p2, p3} -> {p1, p2, p3}]
  BY DEF Plain, Alias
<1>3. /\ \A f \in PlainClosures : f.paths \subseteq {p1, p2}
      /\ \A f \in LinkedClosures \cup AliasClosures : f.paths \subseteq {p1, p2, p3}
  BY DEF PlainClosures, LinkedClosures, AliasClosures
<1>4. Views!Parameters
  <2>1. Views!Spans \subseteq Spans /\ Views!Deltas \subseteq Deltas
    BY DEF Views!Spans, Views!Deltas, Spans, Deltas
  <2>2. ASSUME NEW s \in Seq(Views!Deltas) PROVE s \in Seq(Deltas)
    BY <2>1
  <2>3. Views!ViewType \subseteq Held
    BY <2>1, <2>2 DEF Views!ViewType, Held
  <2> QED BY <1>1, <1>2, <1>3, <2>1, <2>3 DEF Views!Parameters
<1>5. Scoping!Parameters
  <2>1. Scoping!Spans \subseteq Spans /\ Scoping!Deltas \subseteq Deltas
    BY DEF Scoping!Spans, Scoping!Deltas, Spans, Deltas
  <2>2. ASSUME NEW s \in Seq(Scoping!Deltas) PROVE s \in Seq(Deltas)
    BY <2>1
  <2>3. Scoping!ViewType \subseteq Held
    BY <2>1, <2>2 DEF Scoping!ViewType, Held
  <2> QED BY <1>1, <1>2, <1>3, <2>1, <2>3 DEF Scoping!Parameters
<1>6. Aliases!Parameters
  <2>1. Aliases!Spans \subseteq Spans /\ Aliases!Deltas \subseteq Deltas
    BY DEF Aliases!Spans, Aliases!Deltas, Spans, Deltas
  <2>2. ASSUME NEW s \in Seq(Aliases!Deltas) PROVE s \in Seq(Deltas)
    BY <2>1
  <2>3. Aliases!ViewType \subseteq Held
    BY <2>1, <2>2 DEF Aliases!ViewType, Held
  <2> QED BY <1>1, <1>2, <1>3, <2>1, <2>3 DEF Aliases!Parameters
<1>7. Buffers!Parameters
  <2>1. Buffers!Spans \subseteq Spans /\ Buffers!Deltas \subseteq Deltas
    BY DEF Buffers!Spans, Buffers!Deltas, Spans, Deltas
  <2>2. ASSUME NEW s \in Seq(Buffers!Deltas) PROVE s \in Seq(Deltas)
    BY <2>1
  <2>3. Buffers!ViewType \subseteq Held
    BY <2>1, <2>2 DEF Buffers!ViewType, Held
  <2> QED BY <1>1, <1>2, <1>3, <2>1, <2>3 DEF Buffers!Parameters
<1> QED BY <1>4, <1>5, <1>6, <1>7

\* The part "views" of the composition keeps what is proved of every instance.
LEMMA ViewsPart == Spec => [](part = "views" => Views!ContextsAreCurrent)
<1>1. Init /\ part = "views" => Views!Init
  BY DEF Init
<1>2. [Next]_all /\ part = "views" => [Views!Next]_Views!vars
  BY DEF Next, all, Views!vars, Views!store
<1>3. Views!Spec => [](Views!ContextsAreCurrent)
  BY ContentsParameters, Views!UsedContextsAreCurrent, PTL
<1>4. [Next]_all /\ part = "views" => (part = "views")'
  BY PartStays
<1>5. [Next]_all /\ ~(part = "views") => ~(part = "views")'
  BY PartStays
<1> QED BY <1>1, <1>2, <1>3, <1>4, <1>5, PTL DEF Spec, Views!Spec

\* The part "scopes" of the composition keeps what is proved of every instance.
LEMMA ScopingPart == Spec => [](part = "scopes" => Scoping!ContextsAreCurrent)
<1>1. Init /\ part = "scopes" => Scoping!Init
  BY DEF Init
<1>2. [Next]_all /\ part = "scopes" => [Scoping!Next]_Scoping!vars
  BY DEF Next, all, Scoping!vars, Scoping!store
<1>3. Scoping!Spec => [](Scoping!ContextsAreCurrent)
  BY ContentsParameters, Scoping!UsedContextsAreCurrent, PTL
<1>4. [Next]_all /\ part = "scopes" => (part = "scopes")'
  BY PartStays
<1>5. [Next]_all /\ ~(part = "scopes") => ~(part = "scopes")'
  BY PartStays
<1> QED BY <1>1, <1>2, <1>3, <1>4, <1>5, PTL DEF Spec, Scoping!Spec

\* The part "aliases" of the composition keeps what is proved of every instance.
LEMMA AliasesPart == Spec => [](part = "aliases" => Aliases!ContextsAreCurrent)
<1>1. Init /\ part = "aliases" => Aliases!Init
  BY DEF Init
<1>2. [Next]_all /\ part = "aliases" => [Aliases!Next]_Aliases!vars
  BY DEF Next, all, Aliases!vars, Aliases!store
<1>3. Aliases!Spec => [](Aliases!ContextsAreCurrent)
  BY ContentsParameters, Aliases!UsedContextsAreCurrent, PTL
<1>4. [Next]_all /\ part = "aliases" => (part = "aliases")'
  BY PartStays
<1>5. [Next]_all /\ ~(part = "aliases") => ~(part = "aliases")'
  BY PartStays
<1> QED BY <1>1, <1>2, <1>3, <1>4, <1>5, PTL DEF Spec, Aliases!Spec

\* The part "buffers" of the composition keeps what is proved of every instance.
LEMMA BuffersPart == Spec => [](part = "buffers" => Buffers!TypeOK /\ Buffers!ContextsAreCurrent)
<1>1. Init /\ part = "buffers" => Buffers!Init
  BY DEF Init
<1>2. [Next]_all /\ part = "buffers" => [Buffers!Next]_Buffers!vars
  BY DEF Next, all, Buffers!vars, Buffers!store
<1>3. Buffers!Spec => [](Buffers!TypeOK /\ Buffers!ContextsAreCurrent)
  BY ContentsParameters, Buffers!UsedContextsAreCurrent, Buffers!ContentsTypes, PTL
<1>4. [Next]_all /\ part = "buffers" => (part = "buffers")'
  BY PartStays
<1>5. [Next]_all /\ ~(part = "buffers") => ~(part = "buffers")'
  BY PartStays
<1> QED BY <1>1, <1>2, <1>3, <1>4, <1>5, PTL DEF Spec, Buffers!Spec

\* Of every instance, a compiler context is only used again for a view it is
\* current for, whatever the others do with the store meanwhile
\* (synchronizeContextDelta, typeContextResetReason, WorkspaceContentChanges).
THEOREM ContextsStayCurrent == Spec => []ContextsAreCurrent
BY ViewsPart, ScopingPart, AliasesPart, BuffersPart, PTL DEF ContextsAreCurrent

-----------------------------------------------------------------------------
(* The editor's side, and the watchdog of the worker.                      *)

S == INSTANCE ServicesProofs WITH
    disk <- v1, editor <- v2, call <- v3, changes <- v4, Files <- {"f1", "f2"}, Texts <- {1, 2},
    MaxSources <- 2, MaxChanges <- 2,
    onDisk <- v1, reported <- v2, pending <- v3, dirty <- v4, members <- v5, outdated <- v6, events <- v7,
    merged <- v8, Sources <- [a |-> 1, b |-> 1, c |-> 2], Resources <- [s |-> 1], Configurations <- [p |-> 2],
    Roots <- {1, 2}, MaxPendingPaths <- 2, MaxEvents <- 4,
    waiting <- v1, failed <- v2, cell <- v3, progress <- v4, mail <- v5, checkpoints <- v6, quiet <- v7,
    inside <- v8, Reads <- {"c1"}, Mutations <- {"m1"}, Limit <- [c1 |-> 4, m1 |-> 1], Preparation <- 3,
    Grace <- 2, MaxActivity <- 2,
    \* the components that are not looked at here
    Jobs <- Unused, MaxThreads <- Unused, MaxReleases <- Unused, Searchable <- Unused, Overlays <- Unused,
    Projects <- Unused, UnitOf <- Unused, Depends <- Unused, BatchLimit <- Unused, MaxAltered <- Unused,
    Searches <- Unused, Queries <- Unused, Sizes <- Unused, MaxEntries <- Unused, MaxBytes <- Unused,
    MaxAsks <- Unused, MaxDisturbances <- Unused, job <- Unused, chain <- Unused, thread <- Unused,
    worker <- Unused, stopping <- Unused, retire <- Unused, releases <- Unused, query <- Unused,
    altered <- Unused, run <- Unused, notified <- Unused, rev <- Unused, index <- Unused, service <- Unused,
    fresh <- Unused, cache <- Unused, search <- Unused, used <- Unused,
    Docs <- Unused, Resolvers <- Unused, MaxRecords <- Unused, MaxWaiting <- Unused, MaxActionBytes <- Unused,
    RecordSizes <- Unused, MaxItems <- Unused, MaxEdits <- Unused, doc <- Unused, issued <- Unused,
    store <- Unused, recordBytes <- Unused, req <- Unused, active <- Unused, queued <- Unused,
    counted <- Unused, closed <- Unused, edits <- Unused

\* The part is the component that the theorems are about.
LEMMA SameCalls ==
    /\ Calls!Init = S!Calls!Init
    /\ Calls!Next = S!Calls!Next
    /\ Calls!AnswersAreSnapshots = S!Calls!AnswersAreSnapshots
<1>1. Calls!Init = S!Calls!Init
  BY DEF Calls!Init, S!Calls!Init, Calls!Source, S!Calls!Source
<1>2. Calls!Next = S!Calls!Next
  BY DEF Calls!Next, S!Calls!Next, Calls!DiskChanges, S!Calls!DiskChanges, Calls!Changed, S!Calls!Changed,
         Calls!Ended, S!Calls!Ended, Calls!DidChange, S!Calls!DidChange, Calls!Aborted, S!Calls!Aborted,
         Calls!DidClose, S!Calls!DidClose, Calls!Runner, S!Calls!Runner,
         Calls!ResolveOrigin, S!Calls!ResolveOrigin, Calls!Resolves, S!Calls!Resolves,
         Calls!Fail, S!Calls!Fail, Calls!Source, S!Calls!Source, Calls!Execute, S!Calls!Execute,
         Calls!ReadSource, S!Calls!ReadSource, Calls!Shown, S!Calls!Shown,
         Calls!Cardinality, S!Calls!Cardinality, Calls!IsFiniteSet, S!Calls!IsFiniteSet,
         Calls!Recheck, S!Calls!Recheck, Calls!Goto, S!Calls!Goto, Calls!IsCurrent, S!Calls!IsCurrent,
         Calls!CheckOrigin, S!Calls!CheckOrigin
<1>3. Calls!AnswersAreSnapshots = S!Calls!AnswersAreSnapshots
  BY DEF Calls!AnswersAreSnapshots, S!Calls!AnswersAreSnapshots
<1> QED BY <1>1, <1>2, <1>3

\* The part is the component that the theorems are about.
LEMMA SameWatched ==
    /\ Watched!Init = S!Watched!Init
    /\ Watched!Next = S!Watched!Next
    /\ Watched!TypeOK = S!Watched!TypeOK
    /\ Watched!MembersFollowDisk = S!Watched!MembersFollowDisk
    /\ Watched!ChangesAreDiagnosed = S!Watched!ChangesAreDiagnosed
<1>1. Watched!Init = S!Watched!Init
  BY DEF Watched!Init, S!Watched!Init, Watched!OfRoot, S!Watched!OfRoot, Watched!Clean, S!Watched!Clean
<1>2. Watched!Next = S!Watched!Next
  BY DEF Watched!Next, S!Watched!Next, Watched!FileCreated, S!Watched!FileCreated,
         Watched!Happens, S!Watched!Happens, Watched!Domain, S!Watched!Domain, Watched!Root, S!Watched!Root,
         Watched!FileDeleted, S!Watched!FileDeleted, Watched!Files, S!Watched!Files,
         Watched!FileWritten, S!Watched!FileWritten,
         Watched!AcceptOne, S!Watched!AcceptOne, Watched!Configured, S!Watched!Configured,
         Watched!Cardinality, S!Watched!Cardinality, Watched!IsFiniteSet, S!Watched!IsFiniteSet,
         Watched!MarkRootDirty, S!Watched!MarkRootDirty, Watched!Record, S!Watched!Record, Watched!Replaces, S!Watched!Replaces,
         Watched!Drain, S!Watched!Drain, Watched!Clean, S!Watched!Clean, Watched!HasBatch, S!Watched!HasBatch,
         Watched!Changes, S!Watched!Changes, Watched!Membership, S!Watched!Membership,
         Watched!Rejected, S!Watched!Rejected, Watched!Enumerated, S!Watched!Enumerated,
         Watched!OfRoot, S!Watched!OfRoot, Watched!Scheduled, S!Watched!Scheduled
<1>3. Watched!TypeOK = S!Watched!TypeOK
  BY DEF Watched!TypeOK, S!Watched!TypeOK, Watched!Files, S!Watched!Files,
         Watched!Cardinality, S!Watched!Cardinality, Watched!IsFiniteSet, S!Watched!IsFiniteSet,
         Watched!Domains, S!Watched!Domains
<1>4. Watched!MembersFollowDisk = S!Watched!MembersFollowDisk
  BY DEF Watched!MembersFollowDisk, S!Watched!MembersFollowDisk, Watched!Delivered, S!Watched!Delivered,
         Watched!Clean, S!Watched!Clean, Watched!Enumerated, S!Watched!Enumerated,
         Watched!OfRoot, S!Watched!OfRoot
<1>5. Watched!ChangesAreDiagnosed = S!Watched!ChangesAreDiagnosed
  BY DEF Watched!ChangesAreDiagnosed, S!Watched!ChangesAreDiagnosed, Watched!Delivered, S!Watched!Delivered,
         Watched!Clean, S!Watched!Clean
<1> QED BY <1>1, <1>2, <1>3, <1>4, <1>5

\* The part is the component that the theorems are about.
LEMMA SameDeadlines ==
    /\ Deadlines!Init = S!Dog!Init
    /\ Deadlines!Next = S!Dog!Next
    /\ Deadlines!DeadlinesAreFair = S!Dog!DeadlinesAreFair
<1>1. Deadlines!Init = S!Dog!Init
  BY DEF Deadlines!Init, S!Dog!Init, Deadlines!Idle, S!Dog!Idle, Deadlines!Never, S!Dog!Never
<1>2. Deadlines!Tick = S!Dog!Tick
  <2>1. \A c : Deadlines!Longest(c) = S!Dog!Longest(c)
    BY DEF Deadlines!Longest, S!Dog!Longest, Deadlines!Max, S!Dog!Max
  <2>2. \A age, cap : Deadlines!Older(age, cap) = S!Dog!Older(age, cap)
    BY DEF Deadlines!Older, S!Dog!Older, Deadlines!Never, S!Dog!Never
  <2>3. \A c : Deadlines!Committing(c) = S!Dog!Committing(c)
    BY DEF Deadlines!Committing, S!Dog!Committing, Deadlines!Never, S!Dog!Never
  <2>4. ASSUME NEW c, NEW entry PROVE Deadlines!Aged(c, entry) = S!Dog!Aged(c, entry)
    BY <2>1, <2>2, Zenon DEF Deadlines!Aged, S!Dog!Aged
  <2>5. \A c, entry : Deadlines!Checked(c, entry) = S!Dog!Checked(c, entry)
    BY Zenon DEF Deadlines!Checked, S!Dog!Checked, Deadlines!Never, S!Dog!Never,
           Deadlines!Committing, S!Dog!Committing, Deadlines!Soft, S!Dog!Soft
  <2>6. \A c, entry : Deadlines!Reason(c, entry) = S!Dog!Reason(c, entry)
    BY <2>1, <2>3 DEF Deadlines!Reason, S!Dog!Reason, Deadlines!Never, S!Dog!Never,
           Deadlines!CancelledFor, S!Dog!CancelledFor
  <2>7. ASSUME NEW c, NEW entry
        PROVE  Deadlines!Checked(c, Deadlines!Aged(c, entry)) = S!Dog!Checked(c, S!Dog!Aged(c, entry))
    BY <2>4, <2>5
  <2> DEFINE now1 == [c \in DOMAIN v1 |-> Deadlines!Checked(c, Deadlines!Aged(c, v1[c]))]
             late1 == {c \in DOMAIN v1 : Deadlines!Reason(c, now1[c]) # "none"}
             seen1 == {c \in DOMAIN v1 : Deadlines!Committing(c)}
             reasons1 == {[of |-> c, reason |-> Deadlines!Reason(c, now1[c])] : c \in late1}
             quiet1 == [c \in {"c1"} |-> IF c \in seen1 \ v4.seen THEN 0 ELSE Deadlines!Older(v7[c], 2)]
             now2 == [c \in DOMAIN v1 |-> S!Dog!Checked(c, S!Dog!Aged(c, v1[c]))]
             late2 == {c \in DOMAIN v1 : S!Dog!Reason(c, now2[c]) # "none"}
             seen2 == {c \in DOMAIN v1 : S!Dog!Committing(c)}
             reasons2 == {[of |-> c, reason |-> S!Dog!Reason(c, now2[c])] : c \in late2}
             quiet2 == [c \in {"c1"} |-> IF c \in seen2 \ v4.seen THEN 0 ELSE S!Dog!Older(v7[c], 2)]
  <2>8. Deadlines!Tick = (/\ Deadlines!Alive
             /\ DOMAIN v1 # {}
             /\ /\ v1' = now1
                /\ v4' = [v4 EXCEPT !.seen = @ \cup seen1]
                /\ v2' \in IF late1 = {} THEN {v2} ELSE reasons1
                /\ v7' = quiet1
             /\ UNCHANGED <<v3, v5, v6, v8>>)
    BY Zenon DEF Deadlines!Tick
  <2>9. S!Dog!Tick = (/\ S!Dog!Alive
             /\ DOMAIN v1 # {}
             /\ /\ v1' = now2
                /\ v4' = [v4 EXCEPT !.seen = @ \cup seen2]
                /\ v2' \in IF late2 = {} THEN {v2} ELSE reasons2
                /\ v7' = quiet2
             /\ UNCHANGED <<v3, v5, v6, v8>>)
    BY Zenon DEF S!Dog!Tick
  <2>10. now1 = now2
    BY <2>7
  <2>11. late1 = late2
    BY <2>6, <2>10
  <2>12. seen1 = seen2
    BY <2>3
  <2>13. reasons1 = reasons2
    BY <2>6, <2>10, <2>11
  <2>14. quiet1 = quiet2
    BY <2>2, <2>12
  <2>15. Deadlines!Alive = S!Dog!Alive
    BY DEF Deadlines!Alive, S!Dog!Alive
  <2> HIDE DEF now1, now2, late1, late2, seen1, seen2, reasons1, reasons2, quiet1, quiet2
  <2> QED BY <2>8, <2>9, <2>10, <2>11, <2>12, <2>13, <2>14, <2>15
<1>3. Deadlines!Worker = S!Dog!Worker
  BY DEF Deadlines!Worker, S!Dog!Worker, Deadlines!Alive, S!Dog!Alive, Deadlines!Commands, S!Dog!Commands,
         Deadlines!Start, S!Dog!Start, Deadlines!Idle, S!Dog!Idle, Deadlines!Post, S!Dog!Post,
         Deadlines!EnterCommit, S!Dog!EnterCommit, Deadlines!LeaveCommit, S!Dog!LeaveCommit,
         Deadlines!Synchronized, S!Dog!Synchronized, Deadlines!Activity, S!Dog!Activity,
         Deadlines!Finish, S!Dog!Finish
<1>4. Deadlines!Receive = S!Dog!Receive
  BY DEF Deadlines!Receive, S!Dog!Receive, Deadlines!Alive, S!Dog!Alive, Deadlines!Never, S!Dog!Never
<1>5. Deadlines!Next = S!Dog!Next
  BY <1>2, <1>3, <1>4 DEF Deadlines!Next, S!Dog!Next, Deadlines!Commands, S!Dog!Commands,
         Deadlines!Send, S!Dog!Send, Deadlines!Alive, S!Dog!Alive, Deadlines!Never, S!Dog!Never,
         Deadlines!Cancel, S!Dog!Cancel, Deadlines!Soft, S!Dog!Soft, Deadlines!Invalidated, S!Dog!Invalidated
<1>6. Deadlines!DeadlinesAreFair = S!Dog!DeadlinesAreFair
  BY DEF Deadlines!DeadlinesAreFair, S!Dog!DeadlinesAreFair,
         Deadlines!CancelledReadsHaveTheirGrace, S!Dog!CancelledReadsHaveTheirGrace,
         Deadlines!CommitsAreNotInterrupted, S!Dog!CommitsAreNotInterrupted,
         Deadlines!StallsAreBounded, S!Dog!StallsAreBounded, Deadlines!Alive, S!Dog!Alive,
         Deadlines!Longest, S!Dog!Longest, Deadlines!Max, S!Dog!Max
<1> QED BY <1>1, <1>5, <1>6

\* The part "calls" of the composition keeps what is proved of every instance.
LEMMA CallsPart == Spec => [](part = "calls" => Calls!AnswersAreSnapshots)
<1>1. Init /\ part = "calls" => S!Calls!Init
  BY SameCalls DEF Init
<1>2. [Next]_all /\ part = "calls" => [S!Calls!Next]_S!Calls!hierarchyVars
  BY SameCalls DEF Next, all, S!Calls!hierarchyVars
<1>3. S!Calls!Spec => []Calls!AnswersAreSnapshots
  <2>1. S!Calls!AnswersAreSnapshots => Calls!AnswersAreSnapshots
    BY SameCalls
  <2> QED BY <2>1, S!AnswersAreSnapshots, PTL
<1>4. [Next]_all /\ part = "calls" => (part = "calls")'
  BY PartStays
<1>5. [Next]_all /\ ~(part = "calls") => ~(part = "calls")'
  BY PartStays
<1> QED BY <1>1, <1>2, <1>3, <1>4, <1>5, PTL DEF Spec, S!Calls!Spec

\* The part "watched" of the composition keeps what is proved of every instance.
LEMMA WatchedPart ==
    Spec => [](part = "watched" => Watched!TypeOK /\ Watched!MembersFollowDisk /\ Watched!ChangesAreDiagnosed)
<1>1. Init /\ part = "watched" => S!Watched!Init
  BY SameWatched DEF Init
<1>2. [Next]_all /\ part = "watched" => [S!Watched!Next]_S!Watched!fileVars
  BY SameWatched DEF Next, all, S!Watched!fileVars
<1>3. S!Watched!Spec => [](Watched!TypeOK /\ Watched!MembersFollowDisk /\ Watched!ChangesAreDiagnosed)
  <2>1. S!WatchParameters
    BY DEF S!WatchParameters
  <2>2. /\ S!Watched!TypeOK => Watched!TypeOK
        /\ S!Watched!MembersFollowDisk => Watched!MembersFollowDisk
        /\ S!Watched!ChangesAreDiagnosed => Watched!ChangesAreDiagnosed
    BY SameWatched
  <2> QED BY <2>1, <2>2, S!WatchedTypes, S!MembersFollowDisk, S!ChangesAreDiagnosed, PTL
<1>4. [Next]_all /\ part = "watched" => (part = "watched")'
  BY PartStays
<1>5. [Next]_all /\ ~(part = "watched") => ~(part = "watched")'
  BY PartStays
<1> QED BY <1>1, <1>2, <1>3, <1>4, <1>5, PTL DEF Spec, S!Watched!Spec

\* The part "deadlines" of the composition keeps what is proved of every instance.
LEMMA DeadlinesPart == Spec => [](part = "deadlines" => Deadlines!DeadlinesAreFair)
<1>1. Init /\ part = "deadlines" => S!Dog!Init
  BY SameDeadlines DEF Init
<1>2. [Next]_all /\ part = "deadlines" => [S!Dog!Next]_S!Dog!watchdogVars
  BY SameDeadlines DEF Next, all, S!Dog!watchdogVars
<1>3. S!Dog!Spec => []Deadlines!DeadlinesAreFair
  <2>1. S!Dog!Commands = {"c1", "m1"}
    BY DEF S!Dog!Commands
  <2>2. S!WatchdogParameters
    BY <2>1 DEF S!WatchdogParameters, S!Dog!Idle
  <2>3. S!Dog!DeadlinesAreFair => Deadlines!DeadlinesAreFair
    BY SameDeadlines
  <2> QED BY <2>2, <2>3, S!WatchdogIsFair, PTL
<1>4. [Next]_all /\ part = "deadlines" => (part = "deadlines")'
  BY PartStays
<1>5. [Next]_all /\ ~(part = "deadlines") => ~(part = "deadlines")'
  BY PartStays
<1> QED BY <1>1, <1>2, <1>3, <1>4, <1>5, PTL DEF Spec, S!Dog!Spec

\* A call hierarchy describes one state of the sources it quotes; when watched
\* changes are delivered the store lists no source that is gone, it lacks only
\* sources whose creation was merged with a write that followed it, and every
\* changed source is diagnosed again
\* (CallHierarchySourceAuthority, WorkspaceFileChangeCoordinator).
THEOREM SourcesStayFollowed == Spec => []SourcesAreFollowed
BY CallsPart, WatchedPart, PTL DEF SourcesAreFollowed

\* The watchdog is fair to a cancelled read and to a Program commit, and still
\* finds every stall (SemanticWorkerWatchdog).
THEOREM DeadlinesStayFair == Spec => []DeadlinesAreFair
BY DeadlinesPart, PTL DEF DeadlinesAreFair
=============================================================================
