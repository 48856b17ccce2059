------------------------- MODULE RequestServicesProofs -------------------------
(***************************************************************************)
(* The theorems about the components that MCRequestServices places side by *)
(* side hold of the composition: whichever part a behaviour is one of,     *)
(* every step of it is a step of that part, or changes nothing.  The       *)
(* fairness of the composition is not needed for any of them.              *)
(***************************************************************************)
EXTENDS MCRequestServices, Integers, Sequences, TLAPS

\* A behaviour stays in its part.
LEMMA PartStays == [Next]_all => part' = part
BY DEF Next, all, InRecovery, InCallers, InRoutes, InRepeats, InExecutor, InVerifier, InItems

-----------------------------------------------------------------------------
(* Reference searches.                                                     *)

\* The components of a search, and the resolutions, with the parameters of the parts.
S == INSTANCE ServicesProofs WITH
    notified <- v1, rev <- v2, index <- v3, service <- v4, fresh <- v5, cache <- v6, search <- v7, used <- v8,
    Searches <- {"s"}, Queries <- [disk : BOOLEAN, inc : {TRUE}], Sizes <- {1}, MaxEntries <- 1,
    MaxBytes <- 2, MaxAsks <- 1, MaxDisturbances <- 2,
    query <- v1, altered <- v2, run <- v3, Searchable <- 1 .. 3, Overlays <- {},
    Projects <- {Chain, Cycle, Fan}, UnitOf <- <<1, 2, 3>>, Depends <- <<{}, {1}, {}>>, BatchLimit <- 1,
    MaxAltered <- 1,
    job <- v1, chain <- v2, thread <- v3, worker <- v4, stopping <- v5, retire <- v6, releases <- v7,
    Jobs <- {"i", "j"}, MaxThreads <- 3, MaxReleases <- 2,
    doc <- v1, issued <- v2, store <- v3, recordBytes <- v4, req <- v5, active <- v6, queued <- v7,
    counted <- v8, closed <- v9, edits <- v10, Docs <- {"d"}, Resolvers <- {"q", "r"}, MaxRecords <- 1,
    MaxWaiting <- 2, MaxActionBytes <- 2, RecordSizes <- {1, 2}, MaxItems <- 2, MaxEdits <- 3,
    \* the components that are not looked at here
    Files <- Unused, Texts <- Unused, MaxSources <- Unused, MaxChanges <- Unused, Sources <- Unused,
    Resources <- Unused, Configurations <- Unused, Roots <- Unused, MaxPendingPaths <- Unused,
    MaxEvents <- Unused, merged <- Unused, Reads <- Unused, Mutations <- Unused,
    Limit <- Unused, Preparation <- Unused, Grace <- Unused, MaxActivity <- Unused, disk <- Unused,
    editor <- Unused, call <- Unused, changes <- Unused, onDisk <- Unused, reported <- Unused,
    pending <- Unused, dirty <- Unused, members <- Unused, outdated <- Unused, events <- Unused,
    waiting <- Unused, failed <- Unused, cell <- Unused, progress <- Unused, mail <- Unused,
    checkpoints <- Unused, quiet <- Unused, inside <- Unused

\* The routes once more, for a search that is repeated.
Again == INSTANCE ServicesProofs WITH
    notified <- v1, rev <- v2, index <- v3, service <- v4, fresh <- v5, cache <- v6, search <- v7, used <- v8,
    Searches <- {"s"}, Queries <- [disk : BOOLEAN, inc : {TRUE}], Sizes <- {1}, MaxEntries <- 1,
    MaxBytes <- 2, MaxAsks <- 2, MaxDisturbances <- 1,
    \* the components that are not looked at here
    Files <- Unused, Texts <- Unused, MaxSources <- Unused, MaxChanges <- Unused, Sources <- Unused,
    Resources <- Unused, Configurations <- Unused, Roots <- Unused, MaxPendingPaths <- Unused,
    MaxEvents <- Unused, merged <- Unused, Jobs <- Unused, MaxThreads <- Unused,
    MaxReleases <- Unused, Searchable <- Unused, Overlays <- Unused, Projects <- Unused, UnitOf <- Unused,
    Depends <- Unused, BatchLimit <- Unused, MaxAltered <- Unused, Reads <- Unused, Mutations <- Unused,
    Limit <- Unused, Preparation <- Unused, Grace <- Unused, MaxActivity <- Unused, disk <- Unused,
    editor <- Unused, call <- Unused, changes <- Unused, onDisk <- Unused, reported <- Unused,
    pending <- Unused, dirty <- Unused, members <- Unused, outdated <- Unused, events <- Unused,
    job <- Unused, chain <- Unused, thread <- Unused, worker <- Unused, stopping <- Unused, retire <- Unused,
    releases <- Unused, query <- Unused, altered <- Unused, run <- Unused, waiting <- Unused,
    failed <- Unused, cell <- Unused, progress <- Unused, mail <- Unused, checkpoints <- Unused,
    quiet <- Unused, inside <- Unused,
    Docs <- Unused, Resolvers <- Unused, MaxRecords <- Unused, MaxWaiting <- Unused, MaxActionBytes <- Unused,
    RecordSizes <- Unused, MaxItems <- Unused, MaxEdits <- Unused, doc <- Unused, issued <- Unused,
    store <- Unused, recordBytes <- Unused, req <- Unused, active <- Unused, queued <- Unused,
    counted <- Unused, closed <- Unused, edits <- Unused

\* The part is the component that the theorems are about.
LEMMA SameVerifier ==
    /\ Verifier!Init = S!Verifier!Init
    /\ Verifier!Next = S!Verifier!Next
    /\ Verifier!VerifierIsExclusive = S!Verifier!VerifierIsExclusive
<1>1. Verifier!Init = S!Verifier!Init
  BY DEF Verifier!Init, S!Verifier!Init, Verifier!NoJob, S!Verifier!NoJob,
         Verifier!Threads, S!Verifier!Threads
<1>2. Verifier!Next = S!Verifier!Next
  BY DEF Verifier!Next, S!Verifier!Next, Verifier!Client, S!Verifier!Client, Verifier!Begin, S!Verifier!Begin,
         Verifier!Active, S!Verifier!Active, Verifier!Acquire, S!Verifier!Acquire,
         Verifier!Terminated, S!Verifier!Terminated, Verifier!Threads, S!Verifier!Threads,
         Verifier!GiveUp, S!Verifier!GiveUp, Verifier!Throw, S!Verifier!Throw,
         Verifier!Disposed, S!Verifier!Disposed, Verifier!Rethrow, S!Verifier!Rethrow,
         Verifier!Settle, S!Verifier!Settle, Verifier!NoJob, S!Verifier!NoJob,
         Verifier!ReleaseWhenIdle, S!Verifier!ReleaseWhenIdle, Verifier!Dispose, S!Verifier!Dispose,
         Verifier!Run, S!Verifier!Run, Verifier!Cancel, S!Verifier!Cancel, Verifier!Poll, S!Verifier!Poll,
         Verifier!Thread, S!Verifier!Thread, Verifier!Respond, S!Verifier!Respond,
         Verifier!Deliver, S!Verifier!Deliver, Verifier!Running, S!Verifier!Running,
         Verifier!Exit, S!Verifier!Exit, Verifier!Crash, S!Verifier!Crash
<1>3. Verifier!VerifierIsExclusive = S!Verifier!VerifierIsExclusive
  BY DEF Verifier!VerifierIsExclusive, S!Verifier!VerifierIsExclusive,
         Verifier!Cardinality, S!Verifier!Cardinality, Verifier!IsFiniteSet, S!Verifier!IsFiniteSet,
         Verifier!Alive, S!Verifier!Alive, Verifier!Threads, S!Verifier!Threads,
         Verifier!NoJob, S!Verifier!NoJob
<1> QED BY <1>1, <1>2, <1>3

\* The part is the component that the theorems are about.
LEMMA SameExecutor ==
    /\ Executor!Init = S!Search!Init
    /\ Executor!Next = S!Search!Next
    /\ Executor!CompleteAnswersAreExact = S!Search!CompleteAnswersAreExact
<1>1. Executor!Init = S!Search!Init
  BY DEF Executor!Init, S!Search!Init, Executor!Current, S!Search!Current,
         Executor!Requests, S!Search!Requests, Executor!None, S!Search!None,
         Executor!Execute, S!Search!Execute
<1>2. Executor!Next = S!Search!Next
  BY DEF Executor!Next, S!Search!Next, Executor!Execution, S!Search!Execution, Executor!Plan, S!Search!Plan,
         Executor!Started, S!Search!Started, Executor!Pinned, S!Search!Pinned,
         Executor!Current, S!Search!Current, Executor!NextChunk, S!Search!NextChunk,
         Executor!Packed, S!Search!Packed, Executor!Cardinality, S!Search!Cardinality,
         Executor!IsFiniteSet, S!Search!IsFiniteSet, Executor!Chunk, S!Search!Chunk,
         Executor!Finish, S!Search!Finish, Executor!IdentityProfile, S!Search!IdentityProfile,
         Executor!IdentitiesCurrent, S!Search!IdentitiesCurrent, Executor!None, S!Search!None,
         Executor!Admit, S!Search!Admit, Executor!Roots, S!Search!Roots,
         Executor!AdmittedPaths, S!Search!AdmittedPaths, Executor!Members, S!Search!Members,
         Executor!Closure, S!Search!Closure, Executor!RejectBudget, S!Search!RejectBudget,
         Executor!AnchorMismatch, S!Search!AnchorMismatch, Executor!Restart, S!Search!Restart,
         Executor!Execute, S!Search!Execute, Executor!VerifyIncomplete, S!Search!VerifyIncomplete,
         Executor!Anchored, S!Search!Anchored, Executor!Complete, S!Search!Complete,
         Executor!Unavailable, S!Search!Unavailable, Executor!Loaded, S!Search!Loaded,
         Executor!ReadFails, S!Search!ReadFails, Executor!Expanded, S!Search!Expanded,
         Executor!Units, S!Search!Units, Executor!VerifierFails, S!Search!VerifierFails,
         Executor!VerifyComplete, S!Search!VerifyComplete, Executor!Exclusions, S!Search!Exclusions,
         Executor!CoversWholeScope, S!Search!CoversWholeScope, Executor!Replans, S!Search!Replans,
         Executor!Merge, S!Search!Merge, Executor!DiskChanges, S!Search!DiskChanges
<1>3. Executor!CompleteAnswersAreExact = S!Search!CompleteAnswersAreExact
  BY DEF Executor!CompleteAnswersAreExact, S!Search!CompleteAnswersAreExact
<1> QED BY <1>1, <1>2, <1>3

\* The part is the component that the theorems are about.
LEMMA SameRoutes ==
    /\ Routes!Init = S!Routes!Init
    /\ Routes!Next = S!Routes!Next
    /\ Routes!AnswersSeeEveryChange = S!Routes!AnswersSeeEveryChange
<1>1. Routes!Init = S!Routes!Init
  BY DEF Routes!Init, S!Routes!Init, Routes!NoGeneration, S!Routes!NoGeneration,
         Routes!NoToken, S!Routes!NoToken, Routes!Idle, S!Routes!Idle, Routes!NoProof, S!Routes!NoProof,
         Routes!Nothing, S!Routes!Nothing
<1>2. ASSUME NEW entries, NEW entry PROVE Routes!Put(entries, entry) = S!Routes!Put(entries, entry)
  <2>1. ASSUME NEW s PROVE Routes!Bytes(s) = S!Routes!Bytes(s)
    BY DEF Routes!Bytes, S!Routes!Bytes, Routes!MapThenSumSet, S!Routes!MapThenSumSet,
           Routes!MapThenFoldSet, S!Routes!MapThenFoldSet
  <2>2. ASSUME NEW s, NEW key PROVE Routes!Without(s, key) = S!Routes!Without(s, key)
    BY DEF Routes!Without, S!Routes!Without, Routes!Keyed, S!Routes!Keyed, Routes!RemoveAt, S!Routes!RemoveAt
  <2>3. ASSUME NEW numbers PROVE Routes!Min(numbers) = S!Routes!Min(numbers)
    BY DEF Routes!Min, S!Routes!Min
  <2>4. ASSUME NEW s PROVE Routes!Evict(s) = S!Routes!Evict(s)
    <3> DEFINE rest(n) == SubSeq(s, n + 1, Len(s))
               fits1 == {n \in 0 .. Len(s) : n = Len(s) \/ (Len(rest(n)) <= 1 /\ Routes!Bytes(rest(n)) <= 2)}
               fits2 == {n \in 0 .. Len(s) : n = Len(s) \/ (Len(rest(n)) <= 1 /\ S!Routes!Bytes(rest(n)) <= 2)}
    <3>1. Routes!Evict(s) = SubSeq(s, Routes!Min(fits1) + 1, Len(s))
      BY Zenon DEF Routes!Evict
    <3>2. S!Routes!Evict(s) = SubSeq(s, S!Routes!Min(fits2) + 1, Len(s))
      BY Zenon DEF S!Routes!Evict
    <3>3. fits1 = fits2
      BY <2>1
    <3> HIDE DEF fits1, fits2
    <3> QED BY <2>3, <3>1, <3>2, <3>3
  <2> QED BY <2>2, <2>4 DEF Routes!Put, S!Routes!Put
<1>3. \A entries, entry, both : Routes!Store(entries, entry, both) = S!Routes!Store(entries, entry, both)
  BY <1>2 DEF Routes!Store, S!Routes!Store, Routes!Flip, S!Routes!Flip
<1>4. \A s, key, seed : Routes!Begin(s, key, seed) = S!Routes!Begin(s, key, seed)
  BY DEF Routes!Begin, S!Routes!Begin, Routes!Hits, S!Routes!Hits, Routes!Keyed, S!Routes!Keyed,
         Routes!Idle, S!Routes!Idle, Routes!NoToken, S!Routes!NoToken,
         Routes!NoGeneration, S!Routes!NoGeneration, Routes!NoProof, S!Routes!NoProof,
         Routes!Nothing, S!Routes!Nothing, Routes!Without, S!Routes!Without,
         Routes!RemoveAt, S!Routes!RemoveAt, Routes!Answer, S!Routes!Answer
<1>5. ASSUME NEW s, NEW scan PROVE Routes!Publish(s, scan) = S!Routes!Publish(s, scan)
  BY <1>3 DEF Routes!Publish, S!Routes!Publish, Routes!Key, S!Routes!Key, Routes!NoProof, S!Routes!NoProof,
         Routes!Answer, S!Routes!Answer, Routes!Idle, S!Routes!Idle, Routes!NoToken, S!Routes!NoToken,
         Routes!NoGeneration, S!Routes!NoGeneration, Routes!Nothing, S!Routes!Nothing,
         Routes!Incomplete, S!Routes!Incomplete
<1>6. \A s : Routes!Dispatched(s) = S!Routes!Dispatched(s)
  BY <1>4, <1>5 DEF Routes!Dispatched, S!Routes!Dispatched, Routes!Current, S!Routes!Current,
         Routes!Fail, S!Routes!Fail, Routes!Idle, S!Routes!Idle, Routes!NoToken, S!Routes!NoToken,
         Routes!NoGeneration, S!Routes!NoGeneration, Routes!NoProof, S!Routes!NoProof,
         Routes!Nothing, S!Routes!Nothing, Routes!Key, S!Routes!Key, Routes!Incomplete, S!Routes!Incomplete
<1>7. \A s : Routes!Resident(s) = S!Routes!Resident(s)
  BY <1>3 DEF Routes!Resident, S!Routes!Resident, Routes!Current, S!Routes!Current,
         Routes!Fail, S!Routes!Fail, Routes!Idle, S!Routes!Idle, Routes!NoToken, S!Routes!NoToken,
         Routes!NoGeneration, S!Routes!NoGeneration, Routes!NoProof, S!Routes!NoProof,
         Routes!Nothing, S!Routes!Nothing, Routes!Goto, S!Routes!Goto, Routes!Incomplete, S!Routes!Incomplete,
         Routes!Publish, S!Routes!Publish, Routes!Key, S!Routes!Key, Routes!Answer, S!Routes!Answer
<1>8. \A s : Routes!PublishDisk(s) = S!Routes!PublishDisk(s)
  BY <1>3 DEF Routes!PublishDisk, S!Routes!PublishDisk, Routes!Current, S!Routes!Current,
         Routes!Fail, S!Routes!Fail, Routes!Idle, S!Routes!Idle, Routes!NoToken, S!Routes!NoToken,
         Routes!NoGeneration, S!Routes!NoGeneration, Routes!NoProof, S!Routes!NoProof,
         Routes!Nothing, S!Routes!Nothing, Routes!Proofs, S!Routes!Proofs, Routes!Key, S!Routes!Key,
         Routes!Answer, S!Routes!Answer
<1>9. /\ \A s : Routes!CheckHit(s) = S!Routes!CheckHit(s)
      /\ \A s : Routes!Admit(s) = S!Routes!Admit(s)
      /\ \A s : Routes!Select(s) = S!Routes!Select(s)
      /\ \A s : Routes!AwaitCaptures(s) = S!Routes!AwaitCaptures(s)
      /\ \A s : Routes!Recover(s) = S!Routes!Recover(s)
      /\ \A s : Routes!QueryAnswered(s) = S!Routes!QueryAnswered(s)
      /\ \A s : Routes!Vouch(s) = S!Routes!Vouch(s)
      /\ \A s : Routes!Requeried(s) = S!Routes!Requeried(s)
  BY DEF Routes!CheckHit, S!Routes!CheckHit, Routes!Current, S!Routes!Current, Routes!Fail, S!Routes!Fail,
         Routes!Idle, S!Routes!Idle, Routes!NoToken, S!Routes!NoToken,
         Routes!NoGeneration, S!Routes!NoGeneration, Routes!NoProof, S!Routes!NoProof,
         Routes!Nothing, S!Routes!Nothing, Routes!Proofs, S!Routes!Proofs, Routes!Answer, S!Routes!Answer,
         Routes!Admit, S!Routes!Admit, Routes!Select, S!Routes!Select, Routes!Goto, S!Routes!Goto,
         Routes!AwaitCaptures, S!Routes!AwaitCaptures, Routes!Recover, S!Routes!Recover,
         Routes!Replies, S!Routes!Replies, Routes!Statuses, S!Routes!Statuses, Routes!Status, S!Routes!Status,
         Routes!NoAnswer, S!Routes!NoAnswer, Routes!Candidates, S!Routes!Candidates,
         Routes!Exports, S!Routes!Exports, Routes!Recovered, S!Routes!Recovered,
         Routes!Fallback, S!Routes!Fallback, Routes!Dispatch, S!Routes!Dispatch, Routes!Key, S!Routes!Key,
         Routes!QueryAnswered, S!Routes!QueryAnswered, Routes!IndexError, S!Routes!IndexError,
         Routes!Sourced, S!Routes!Sourced, Routes!Proven, S!Routes!Proven, Routes!Vouch, S!Routes!Vouch,
         Routes!Eligible, S!Routes!Eligible, Routes!Requeried, S!Routes!Requeried
<1>10. /\ \A s : Routes!Judge(s) = S!Routes!Judge(s)
       /\ \A s : Routes!Accept(s) = S!Routes!Accept(s)
       /\ \A s : Routes!AnchorSeed(s) = S!Routes!AnchorSeed(s)
       /\ \A s : Routes!Reaccept(s) = S!Routes!Reaccept(s)
       /\ \A s : Routes!SeedAnswered(s) = S!Routes!SeedAnswered(s)
       /\ \A s : Routes!Define(s) = S!Routes!Define(s)
       /\ \A s : Routes!Confirm(s) = S!Routes!Confirm(s)
  BY DEF Routes!Judge, S!Routes!Judge, Routes!Current, S!Routes!Current,
         Routes!Unanchored, S!Routes!Unanchored, Routes!Fallback, S!Routes!Fallback,
         Routes!Dispatch, S!Routes!Dispatch, Routes!Idle, S!Routes!Idle, Routes!NoToken, S!Routes!NoToken,
         Routes!NoGeneration, S!Routes!NoGeneration, Routes!NoProof, S!Routes!NoProof,
         Routes!Nothing, S!Routes!Nothing, Routes!Key, S!Routes!Key, Routes!Fail, S!Routes!Fail,
         Routes!Goto, S!Routes!Goto, Routes!Accept, S!Routes!Accept, Routes!Replies, S!Routes!Replies,
         Routes!Statuses, S!Routes!Statuses, Routes!Status, S!Routes!Status,
         Routes!NoAnswer, S!Routes!NoAnswer, Routes!Candidates, S!Routes!Candidates,
         Routes!Exports, S!Routes!Exports, Routes!Eligible, S!Routes!Eligible, Routes!Proven, S!Routes!Proven,
         Routes!IndexError, S!Routes!IndexError, Routes!AnchorSeed, S!Routes!AnchorSeed,
         Routes!Reaccept, S!Routes!Reaccept, Routes!SeedAnswered, S!Routes!SeedAnswered,
         Routes!Define, S!Routes!Define, Routes!Confirm, S!Routes!Confirm, Routes!Reselect, S!Routes!Reselect
<1>11. \A s : Routes!Step(s) = S!Routes!Step(s)
  BY <1>6, <1>7, <1>8, <1>9, <1>10 DEF Routes!Step, S!Routes!Step
<1>12. Routes!Next = S!Routes!Next
  BY <1>11 DEF Routes!Next, S!Routes!Next, Routes!FilesChanged, S!Routes!FilesChanged,
         Routes!Event, S!Routes!Event, Routes!NoGeneration, S!Routes!NoGeneration,
         Routes!Scheduled, S!Routes!Scheduled, Routes!NoToken, S!Routes!NoToken,
         Routes!InputsChanged, S!Routes!InputsChanged,
         Routes!ApplyMemoryPressure, S!Routes!ApplyMemoryPressure, Routes!FailBuild, S!Routes!FailBuild,
         Routes!SidecarDies, S!Routes!SidecarDies, Routes!Catalog, S!Routes!Catalog,
         Routes!BindAsked, S!Routes!BindAsked, Routes!Statuses, S!Routes!Statuses,
         Routes!Status, S!Routes!Status, Routes!NoAnswer, S!Routes!NoAnswer,
         Routes!CatalogStarted, S!Routes!CatalogStarted, Routes!Bigger, S!Routes!Bigger,
         Routes!StartCatalog, S!Routes!StartCatalog, Routes!PublishGeneration, S!Routes!PublishGeneration,
         Routes!CatalogReady, S!Routes!CatalogReady, Routes!EndRun, S!Routes!EndRun,
         Routes!CatalogFailed, S!Routes!CatalogFailed, Routes!Freshness, S!Routes!Freshness,
         Routes!CaptureDone, S!Routes!CaptureDone, Routes!BaselineCaptured, S!Routes!BaselineCaptured,
         Routes!PostCaptureDone, S!Routes!PostCaptureDone, Routes!Ask, S!Routes!Ask,
         Routes!Begin, S!Routes!Begin, Routes!Hits, S!Routes!Hits, Routes!Keyed, S!Routes!Keyed,
         Routes!Idle, S!Routes!Idle, Routes!NoProof, S!Routes!NoProof, Routes!Nothing, S!Routes!Nothing,
         Routes!Without, S!Routes!Without, Routes!RemoveAt, S!Routes!RemoveAt, Routes!Answer, S!Routes!Answer
<1>13. Routes!AnswersSeeEveryChange = S!Routes!AnswersSeeEveryChange
  BY DEF Routes!AnswersSeeEveryChange, S!Routes!AnswersSeeEveryChange
<1> QED BY <1>1, <1>12, <1>13

\* The part is the component that the theorems are about.
LEMMA SameRepeats ==
    /\ Repeats!Init = Again!Routes!Init
    /\ Repeats!Next = Again!Routes!Next
    /\ Repeats!AnswersSeeEveryChange = Again!Routes!AnswersSeeEveryChange
<1>1. Repeats!Init = Again!Routes!Init
  BY DEF Repeats!Init, Again!Routes!Init, Repeats!NoGeneration, Again!Routes!NoGeneration,
         Repeats!NoToken, Again!Routes!NoToken, Repeats!Idle, Again!Routes!Idle,
         Repeats!NoProof, Again!Routes!NoProof, Repeats!Nothing, Again!Routes!Nothing
<1>2. ASSUME NEW entries, NEW entry PROVE Repeats!Put(entries, entry) = Again!Routes!Put(entries, entry)
  <2>1. ASSUME NEW s PROVE Repeats!Bytes(s) = Again!Routes!Bytes(s)
    BY DEF Repeats!Bytes, Again!Routes!Bytes, Repeats!MapThenSumSet, Again!Routes!MapThenSumSet,
           Repeats!MapThenFoldSet, Again!Routes!MapThenFoldSet
  <2>2. ASSUME NEW s, NEW key PROVE Repeats!Without(s, key) = Again!Routes!Without(s, key)
    BY DEF Repeats!Without, Again!Routes!Without, Repeats!Keyed, Again!Routes!Keyed,
           Repeats!RemoveAt, Again!Routes!RemoveAt
  <2>3. ASSUME NEW numbers PROVE Repeats!Min(numbers) = Again!Routes!Min(numbers)
    BY DEF Repeats!Min, Again!Routes!Min
  <2>4. ASSUME NEW s PROVE Repeats!Evict(s) = Again!Routes!Evict(s)
    <3> DEFINE rest(n) == SubSeq(s, n + 1, Len(s))
               fits1 == {n \in 0 .. Len(s) : n = Len(s) \/ (Len(rest(n)) <= 1 /\ Repeats!Bytes(rest(n)) <= 2)}
               fits2 == {n \in 0 .. Len(s) : n = Len(s) \/ (Len(rest(n)) <= 1 /\ Again!Routes!Bytes(rest(n)) <= 2)}
    <3>1. Repeats!Evict(s) = SubSeq(s, Repeats!Min(fits1) + 1, Len(s))
      BY Zenon DEF Repeats!Evict
    <3>2. Again!Routes!Evict(s) = SubSeq(s, Again!Routes!Min(fits2) + 1, Len(s))
      BY Zenon DEF Again!Routes!Evict
    <3>3. fits1 = fits2
      BY <2>1
    <3> HIDE DEF fits1, fits2
    <3> QED BY <2>3, <3>1, <3>2, <3>3
  <2> QED BY <2>2, <2>4 DEF Repeats!Put, Again!Routes!Put
<1>3. \A entries, entry, both : Repeats!Store(entries, entry, both) = Again!Routes!Store(entries, entry, both)
  BY <1>2 DEF Repeats!Store, Again!Routes!Store, Repeats!Flip, Again!Routes!Flip
<1>4. \A s, key, seed : Repeats!Begin(s, key, seed) = Again!Routes!Begin(s, key, seed)
  BY DEF Repeats!Begin, Again!Routes!Begin, Repeats!Hits, Again!Routes!Hits,
         Repeats!Keyed, Again!Routes!Keyed, Repeats!Idle, Again!Routes!Idle,
         Repeats!NoToken, Again!Routes!NoToken, Repeats!NoGeneration, Again!Routes!NoGeneration,
         Repeats!NoProof, Again!Routes!NoProof, Repeats!Nothing, Again!Routes!Nothing,
         Repeats!Without, Again!Routes!Without, Repeats!RemoveAt, Again!Routes!RemoveAt,
         Repeats!Answer, Again!Routes!Answer
<1>5. ASSUME NEW s, NEW scan PROVE Repeats!Publish(s, scan) = Again!Routes!Publish(s, scan)
  BY <1>3 DEF Repeats!Publish, Again!Routes!Publish, Repeats!Key, Again!Routes!Key,
         Repeats!NoProof, Again!Routes!NoProof, Repeats!Answer, Again!Routes!Answer,
         Repeats!Idle, Again!Routes!Idle, Repeats!NoToken, Again!Routes!NoToken,
         Repeats!NoGeneration, Again!Routes!NoGeneration, Repeats!Nothing, Again!Routes!Nothing,
         Repeats!Incomplete, Again!Routes!Incomplete
<1>6. \A s : Repeats!Dispatched(s) = Again!Routes!Dispatched(s)
  BY <1>4, <1>5 DEF Repeats!Dispatched, Again!Routes!Dispatched, Repeats!Current, Again!Routes!Current,
         Repeats!Fail, Again!Routes!Fail, Repeats!Idle, Again!Routes!Idle,
         Repeats!NoToken, Again!Routes!NoToken, Repeats!NoGeneration, Again!Routes!NoGeneration,
         Repeats!NoProof, Again!Routes!NoProof, Repeats!Nothing, Again!Routes!Nothing,
         Repeats!Key, Again!Routes!Key, Repeats!Incomplete, Again!Routes!Incomplete
<1>7. \A s : Repeats!Resident(s) = Again!Routes!Resident(s)
  BY <1>3 DEF Repeats!Resident, Again!Routes!Resident, Repeats!Current, Again!Routes!Current,
         Repeats!Fail, Again!Routes!Fail, Repeats!Idle, Again!Routes!Idle,
         Repeats!NoToken, Again!Routes!NoToken, Repeats!NoGeneration, Again!Routes!NoGeneration,
         Repeats!NoProof, Again!Routes!NoProof, Repeats!Nothing, Again!Routes!Nothing,
         Repeats!Goto, Again!Routes!Goto, Repeats!Incomplete, Again!Routes!Incomplete,
         Repeats!Publish, Again!Routes!Publish, Repeats!Key, Again!Routes!Key,
         Repeats!Answer, Again!Routes!Answer
<1>8. \A s : Repeats!PublishDisk(s) = Again!Routes!PublishDisk(s)
  BY <1>3 DEF Repeats!PublishDisk, Again!Routes!PublishDisk, Repeats!Current, Again!Routes!Current,
         Repeats!Fail, Again!Routes!Fail, Repeats!Idle, Again!Routes!Idle,
         Repeats!NoToken, Again!Routes!NoToken, Repeats!NoGeneration, Again!Routes!NoGeneration,
         Repeats!NoProof, Again!Routes!NoProof, Repeats!Nothing, Again!Routes!Nothing,
         Repeats!Proofs, Again!Routes!Proofs, Repeats!Key, Again!Routes!Key,
         Repeats!Answer, Again!Routes!Answer
<1>9. /\ \A s : Repeats!CheckHit(s) = Again!Routes!CheckHit(s)
      /\ \A s : Repeats!Admit(s) = Again!Routes!Admit(s)
      /\ \A s : Repeats!Select(s) = Again!Routes!Select(s)
      /\ \A s : Repeats!AwaitCaptures(s) = Again!Routes!AwaitCaptures(s)
      /\ \A s : Repeats!Recover(s) = Again!Routes!Recover(s)
      /\ \A s : Repeats!QueryAnswered(s) = Again!Routes!QueryAnswered(s)
      /\ \A s : Repeats!Vouch(s) = Again!Routes!Vouch(s)
      /\ \A s : Repeats!Requeried(s) = Again!Routes!Requeried(s)
  BY DEF Repeats!CheckHit, Again!Routes!CheckHit, Repeats!Current, Again!Routes!Current,
         Repeats!Fail, Again!Routes!Fail, Repeats!Idle, Again!Routes!Idle,
         Repeats!NoToken, Again!Routes!NoToken, Repeats!NoGeneration, Again!Routes!NoGeneration,
         Repeats!NoProof, Again!Routes!NoProof, Repeats!Nothing, Again!Routes!Nothing,
         Repeats!Proofs, Again!Routes!Proofs, Repeats!Answer, Again!Routes!Answer,
         Repeats!Admit, Again!Routes!Admit, Repeats!Select, Again!Routes!Select,
         Repeats!Goto, Again!Routes!Goto, Repeats!AwaitCaptures, Again!Routes!AwaitCaptures,
         Repeats!Recover, Again!Routes!Recover, Repeats!Replies, Again!Routes!Replies,
         Repeats!Statuses, Again!Routes!Statuses, Repeats!Status, Again!Routes!Status,
         Repeats!NoAnswer, Again!Routes!NoAnswer, Repeats!Candidates, Again!Routes!Candidates,
         Repeats!Exports, Again!Routes!Exports, Repeats!Recovered, Again!Routes!Recovered,
         Repeats!Fallback, Again!Routes!Fallback, Repeats!Dispatch, Again!Routes!Dispatch,
         Repeats!Key, Again!Routes!Key, Repeats!QueryAnswered, Again!Routes!QueryAnswered,
         Repeats!IndexError, Again!Routes!IndexError, Repeats!Sourced, Again!Routes!Sourced,
         Repeats!Proven, Again!Routes!Proven, Repeats!Vouch, Again!Routes!Vouch,
         Repeats!Eligible, Again!Routes!Eligible, Repeats!Requeried, Again!Routes!Requeried
<1>10. /\ \A s : Repeats!Judge(s) = Again!Routes!Judge(s)
       /\ \A s : Repeats!Accept(s) = Again!Routes!Accept(s)
       /\ \A s : Repeats!AnchorSeed(s) = Again!Routes!AnchorSeed(s)
       /\ \A s : Repeats!Reaccept(s) = Again!Routes!Reaccept(s)
       /\ \A s : Repeats!SeedAnswered(s) = Again!Routes!SeedAnswered(s)
       /\ \A s : Repeats!Define(s) = Again!Routes!Define(s)
       /\ \A s : Repeats!Confirm(s) = Again!Routes!Confirm(s)
  BY DEF Repeats!Judge, Again!Routes!Judge, Repeats!Current, Again!Routes!Current,
         Repeats!Unanchored, Again!Routes!Unanchored, Repeats!Fallback, Again!Routes!Fallback,
         Repeats!Dispatch, Again!Routes!Dispatch, Repeats!Idle, Again!Routes!Idle,
         Repeats!NoToken, Again!Routes!NoToken, Repeats!NoGeneration, Again!Routes!NoGeneration,
         Repeats!NoProof, Again!Routes!NoProof, Repeats!Nothing, Again!Routes!Nothing,
         Repeats!Key, Again!Routes!Key, Repeats!Fail, Again!Routes!Fail, Repeats!Goto, Again!Routes!Goto,
         Repeats!Accept, Again!Routes!Accept, Repeats!Replies, Again!Routes!Replies,
         Repeats!Statuses, Again!Routes!Statuses, Repeats!Status, Again!Routes!Status,
         Repeats!NoAnswer, Again!Routes!NoAnswer, Repeats!Candidates, Again!Routes!Candidates,
         Repeats!Exports, Again!Routes!Exports, Repeats!Eligible, Again!Routes!Eligible,
         Repeats!Proven, Again!Routes!Proven, Repeats!IndexError, Again!Routes!IndexError,
         Repeats!AnchorSeed, Again!Routes!AnchorSeed, Repeats!Reaccept, Again!Routes!Reaccept,
         Repeats!SeedAnswered, Again!Routes!SeedAnswered, Repeats!Define, Again!Routes!Define,
         Repeats!Confirm, Again!Routes!Confirm, Repeats!Reselect, Again!Routes!Reselect
<1>11. \A s : Repeats!Step(s) = Again!Routes!Step(s)
  BY <1>6, <1>7, <1>8, <1>9, <1>10 DEF Repeats!Step, Again!Routes!Step
<1>12. Repeats!Next = Again!Routes!Next
  BY <1>11 DEF Repeats!Next, Again!Routes!Next, Repeats!FilesChanged, Again!Routes!FilesChanged,
         Repeats!Event, Again!Routes!Event, Repeats!NoGeneration, Again!Routes!NoGeneration,
         Repeats!Scheduled, Again!Routes!Scheduled, Repeats!NoToken, Again!Routes!NoToken,
         Repeats!InputsChanged, Again!Routes!InputsChanged,
         Repeats!ApplyMemoryPressure, Again!Routes!ApplyMemoryPressure,
         Repeats!FailBuild, Again!Routes!FailBuild, Repeats!SidecarDies, Again!Routes!SidecarDies,
         Repeats!Catalog, Again!Routes!Catalog, Repeats!BindAsked, Again!Routes!BindAsked,
         Repeats!Statuses, Again!Routes!Statuses, Repeats!Status, Again!Routes!Status,
         Repeats!NoAnswer, Again!Routes!NoAnswer, Repeats!CatalogStarted, Again!Routes!CatalogStarted,
         Repeats!Bigger, Again!Routes!Bigger, Repeats!StartCatalog, Again!Routes!StartCatalog,
         Repeats!PublishGeneration, Again!Routes!PublishGeneration,
         Repeats!CatalogReady, Again!Routes!CatalogReady, Repeats!EndRun, Again!Routes!EndRun,
         Repeats!CatalogFailed, Again!Routes!CatalogFailed, Repeats!Freshness, Again!Routes!Freshness,
         Repeats!CaptureDone, Again!Routes!CaptureDone,
         Repeats!BaselineCaptured, Again!Routes!BaselineCaptured,
         Repeats!PostCaptureDone, Again!Routes!PostCaptureDone, Repeats!Ask, Again!Routes!Ask,
         Repeats!Begin, Again!Routes!Begin, Repeats!Hits, Again!Routes!Hits,
         Repeats!Keyed, Again!Routes!Keyed, Repeats!Idle, Again!Routes!Idle,
         Repeats!NoProof, Again!Routes!NoProof, Repeats!Nothing, Again!Routes!Nothing,
         Repeats!Without, Again!Routes!Without, Repeats!RemoveAt, Again!Routes!RemoveAt,
         Repeats!Answer, Again!Routes!Answer
<1>13. Repeats!AnswersSeeEveryChange = Again!Routes!AnswersSeeEveryChange
  BY DEF Repeats!AnswersSeeEveryChange, Again!Routes!AnswersSeeEveryChange
<1> QED BY <1>1, <1>12, <1>13

\* The part "routes" of the composition keeps what is proved of every instance.
LEMMA RoutesPart == Spec => [](part = "routes" => Routes!AnswersSeeEveryChange)
<1>1. Init /\ part = "routes" => S!Routes!Init
  BY SameRoutes DEF Init
<1>2. [Next]_all /\ part = "routes" => [S!Routes!Next]_S!Routes!vars
  BY SameRoutes DEF Next, all, from4, from8, from11, InRecovery, InCallers, InRoutes, InRepeats, InExecutor, InVerifier,
         InItems, S!Routes!vars
<1>3. S!Routes!Init /\ [][S!Routes!Next]_S!Routes!vars => []Routes!AnswersSeeEveryChange
  <2>1. S!RouteParameters
    BY DEF S!RouteParameters, S!Keys
  <2>2. S!Routes!AnswersSeeEveryChange => Routes!AnswersSeeEveryChange
    BY SameRoutes
  <2> QED BY <2>1, <2>2, S!RouteSafety, PTL
<1>4. [Next]_all /\ part = "routes" => (part = "routes")'
  BY PartStays
<1>5. [Next]_all /\ ~(part = "routes") => ~(part = "routes")'
  BY PartStays
<1> QED BY <1>1, <1>2, <1>3, <1>4, <1>5, PTL DEF Spec

\* The part "repeats" of the composition keeps what is proved of every instance.
LEMMA RepeatsPart == Spec => [](part = "repeats" => Repeats!AnswersSeeEveryChange)
<1>1. Init /\ part = "repeats" => Again!Routes!Init
  BY SameRepeats DEF Init
<1>2. [Next]_all /\ part = "repeats" => [Again!Routes!Next]_Again!Routes!vars
  BY SameRepeats DEF Next, all, from4, from8, from11, InRecovery, InCallers, InRoutes, InRepeats, InExecutor, InVerifier,
         InItems, Again!Routes!vars
<1>3. Again!Routes!Init /\ [][Again!Routes!Next]_Again!Routes!vars => []Repeats!AnswersSeeEveryChange
  <2>1. Again!RouteParameters
    BY DEF Again!RouteParameters, Again!Keys
  <2>2. Again!Routes!AnswersSeeEveryChange => Repeats!AnswersSeeEveryChange
    BY SameRepeats
  <2> QED BY <2>1, <2>2, Again!RouteSafety, PTL
<1>4. [Next]_all /\ part = "repeats" => (part = "repeats")'
  BY PartStays
<1>5. [Next]_all /\ ~(part = "repeats") => ~(part = "repeats")'
  BY PartStays
<1> QED BY <1>1, <1>2, <1>3, <1>4, <1>5, PTL DEF Spec

\* The part "executor" of the composition keeps what is proved of every instance.
LEMMA ExecutorPart == Spec => [](part = "executor" => Executor!CompleteAnswersAreExact)
<1>1. Init /\ part = "executor" => S!Search!Init
  BY SameExecutor DEF Init
<1>2. [Next]_all /\ part = "executor" => [S!Search!Next]_S!Search!searchVars
  BY SameExecutor DEF Next, all, from4, from8, from11, InRecovery, InCallers, InRoutes, InRepeats, InExecutor, InVerifier,
         InItems, S!Search!searchVars
<1>3. S!Search!Init /\ [][S!Search!Next]_S!Search!searchVars => []Executor!CompleteAnswersAreExact
  <2>1. S!Search!Pinned \subseteq 1 .. 3
    BY DEF S!Search!Pinned, S!Search!Current
  <2>2. DOMAIN <<{}, {1}, {}>> = 1 .. 3 /\ <<1, 2, 3>> \in [1 .. 3 -> 1 .. 3]
    OBVIOUS
  <2>3. S!SearchParameters
    BY <2>1, <2>2 DEF S!SearchParameters
  <2>4. S!Search!CompleteAnswersAreExact => Executor!CompleteAnswersAreExact
    BY SameExecutor
  <2> QED BY <2>1, <2>2, <2>3, <2>4, S!SearchSafety, PTL
<1>4. [Next]_all /\ part = "executor" => (part = "executor")'
  BY PartStays
<1>5. [Next]_all /\ ~(part = "executor") => ~(part = "executor")'
  BY PartStays
<1> QED BY <1>1, <1>2, <1>3, <1>4, <1>5, PTL DEF Spec

\* The part "verifier" of the composition keeps what is proved of every instance.
LEMMA VerifierPart == Spec => [](part = "verifier" => Verifier!VerifierIsExclusive)
<1>1. Init /\ part = "verifier" => S!Verifier!Init
  BY SameVerifier DEF Init
<1>2. [Next]_all /\ part = "verifier" => [S!Verifier!Next]_S!Verifier!clientVars
  BY SameVerifier DEF Next, all, from4, from8, from11, InRecovery, InCallers, InRoutes, InRepeats, InExecutor, InVerifier,
         InItems, S!Verifier!clientVars
<1>3. S!Verifier!Init /\ [][S!Verifier!Next]_S!Verifier!clientVars => []Verifier!VerifierIsExclusive
  <2>1. S!Verifier!VerifierIsExclusive => Verifier!VerifierIsExclusive
    BY SameVerifier
  <2> QED BY <2>1, S!VerifierSafety, PTL
<1>4. [Next]_all /\ part = "verifier" => (part = "verifier")'
  BY PartStays
<1>5. [Next]_all /\ ~(part = "verifier") => ~(part = "verifier")'
  BY PartStays
<1> QED BY <1>1, <1>2, <1>3, <1>4, <1>5, PTL DEF Spec

\* A reference answer reflects every change that was notified before it left, a
\* complete one names every reference and rests on nothing that changed, and a
\* job is answered by the only verification thread there is, for that job
\* (ReferenceIndexFreshness, ReferenceSearchExecutor, ReferenceVerifierClient).
THEOREM SearchAnswersStayExact == Spec => []SearchAnswersAreExact
BY RoutesPart, RepeatsPart, ExecutorPart, VerifierPart, PTL DEF SearchAnswersAreExact

-----------------------------------------------------------------------------
(* The replacement of the worker.                                          *)

\* The constants of the instance are what WorkerRecovery assumes of them.
LEMMA RecoveryAssumption ==
    /\ 1 \in Nat /\ 2 \in Nat /\ TRUE \in BOOLEAN
    /\ {"r"} \subseteq {"r"}
OBVIOUS

\* A recycle that races failures, failing stops and disposal never leads to a
\* second worker, to recoveries without end, or to a worker started after the
\* disposal began (SemanticWorkerRecycle, SemanticWorkerHost).
THEOREM RecycleStaysSafe == Spec => RecycleIsSafe
<1>1. Init /\ part = "recovery" => Recovery!Init
  BY DEF Init
<1>2. [Next]_all /\ part = "recovery" => [Recovery!Next]_Recovery!vars
  BY DEF Next, all, from4, from8, from11, InRecovery, InCallers, InRoutes, InRepeats, InExecutor, InVerifier,
         InItems, Recovery!vars, Recovery!inputs, Recovery!circuit, Recovery!budget, Recovery!transaction,
         Recovery!host, Recovery!thread
<1>3. Recovery!Spec => [](Recovery!SingleWorker /\ Recovery!RecoveriesBounded)
                       /\ [][Recovery!AllocationIsTimely]_Recovery!vars
  BY Recovery!RecycleStaysSafe, RecoveryAssumption, PTL DEF Recovery!RecycleIsSafe, Recovery!NoLateWorker
<1>4. [Next]_all /\ part = "recovery" => (part = "recovery")'
  BY PartStays
<1>5. [Next]_all /\ ~(part = "recovery") => ~(part = "recovery")'
  BY PartStays
<1>6. [Next]_all /\ [Recovery!AllocationIsTimely]_Recovery!vars
        => [part = "recovery" => Recovery!AllocationIsTimely]_all
  BY PartStays DEF all, from4, from8, from11, Recovery!vars, Recovery!inputs, Recovery!circuit, Recovery!budget,
         Recovery!transaction, Recovery!host, Recovery!thread
<1>7. [Next]_all /\ ~(part = "recovery") => [part = "recovery" => Recovery!AllocationIsTimely]_all
  OBVIOUS
<1> QED BY <1>1, <1>2, <1>3, <1>4, <1>5, <1>6, <1>7, PTL DEF Spec, Recovery!Spec, RecycleIsSafe

-----------------------------------------------------------------------------
(* The resolution of items.                                                *)

\* The two instances count, choose and remove alike.
LEMMA SameItemHelpers ==
    /\ \A s : Items!Elements(s) = S!Items!Elements(s)
    /\ \A handles : Items!ActiveBytes(handles) = S!Items!ActiveBytes(handles)
    /\ \A numbers : Items!Min(numbers) = S!Items!Min(numbers)
    /\ \A s, i : Items!RemoveAt(s, i) = S!Items!RemoveAt(s, i)
    /\ \A s : Items!Cardinality(s) = S!Items!Cardinality(s)
<1>1. ASSUME NEW s PROVE Items!Cardinality(s) = S!Items!Cardinality(s)
  BY Zenon DEF Items!Cardinality, S!Items!Cardinality, Items!IsFiniteSet, S!Items!IsFiniteSet
<1>2. ASSUME NEW s PROVE Items!Elements(s) = S!Items!Elements(s)
  BY Zenon DEF Items!Elements, S!Items!Elements
<1>3. ASSUME NEW handles PROVE Items!ActiveBytes(handles) = S!Items!ActiveBytes(handles)
  <2>1. Items!RecordBytes(handles) = S!Items!RecordBytes(handles)
    BY Zenon DEF Items!RecordBytes, S!Items!RecordBytes
  <2> QED BY <1>1, <2>1 DEF Items!ActiveBytes, S!Items!ActiveBytes
<1>4. ASSUME NEW numbers PROVE Items!Min(numbers) = S!Items!Min(numbers)
  BY Zenon DEF Items!Min, S!Items!Min
<1>5. ASSUME NEW s, NEW i PROVE Items!RemoveAt(s, i) = S!Items!RemoveAt(s, i)
  BY Zenon DEF Items!RemoveAt, S!Items!RemoveAt
<1> QED BY <1>1, <1>2, <1>3, <1>4, <1>5

\* The part is the component that the theorem is about.
LEMMA SameItems ==
    /\ Items!Init = S!Items!Init
    /\ Items!Next = S!Items!Next
    /\ Items!CountersAreExact = S!Items!CountersAreExact
    /\ Items!DetailsFitTheirText = S!Items!DetailsFitTheirText
<1>1. Items!Init = S!Items!Init
  BY DEF Items!Init, S!Items!Init, Items!Idle, S!Items!Idle, Items!NoRequest, S!Items!NoRequest
<1>2. Items!CountersAreExact = S!Items!CountersAreExact
  BY SameItemHelpers DEF Items!CountersAreExact, S!Items!CountersAreExact, Items!NoRequest, S!Items!NoRequest
<1>3. Items!DetailsFitTheirText = S!Items!DetailsFitTheirText
  BY DEF Items!DetailsFitTheirText, S!Items!DetailsFitTheirText
<1>4. ASSUME NEW K PROVE Items!Forget(K) = S!Items!Forget(K)
  BY SameItemHelpers DEF Items!Forget, S!Items!Forget, Items!Handles, S!Items!Handles
<1>5. /\ \A K : Items!Abort(K) = S!Items!Abort(K)
      /\ Items!Running = S!Items!Running
      /\ \A d : Items!Outdated(d) = S!Items!Outdated(d)
  <2>1. Items!Running = S!Items!Running
    BY DEF Items!Running, S!Items!Running
  <2>2. ASSUME NEW d PROVE Items!Outdated(d) = S!Items!Outdated(d)
    BY <2>1 DEF Items!Outdated, S!Items!Outdated
  <2>3. ASSUME NEW T, NEW n PROVE Items!BoundedSeq(T, n) = S!Items!BoundedSeq(T, n)
    BY Zenon DEF Items!BoundedSeq, S!Items!BoundedSeq, Items!SeqOf, S!Items!SeqOf
  <2>4. ASSUME NEW K PROVE Items!Remaining(K) = S!Items!Remaining(K)
    BY <2>3, SameItemHelpers DEF Items!Remaining, S!Items!Remaining
  <2>5. ASSUME NEW K PROVE Items!Abort(K) = S!Items!Abort(K)
    BY <2>4 DEF Items!Abort, S!Items!Abort, Items!Aborted, S!Items!Aborted, Items!Settled, S!Items!Settled
  <2> QED BY <2>1, <2>2, <2>5
<1>6. ASSUME NEW d PROVE Items!Of(d) = S!Items!Of(d)
  BY DEF Items!Of, S!Items!Of, Items!Handles, S!Items!Handles
<1>7. ASSUME NEW d
      PROVE  /\ Items!DidChange(d) = S!Items!DidChange(d)
             /\ Items!DidClose(d) = S!Items!DidClose(d)
             /\ Items!DiskWritten(d) = S!Items!DiskWritten(d)
  BY <1>4, <1>5, <1>6 DEF Items!DidChange, S!Items!DidChange, Items!DidClose, S!Items!DidClose,
         Items!DiskWritten, S!Items!DiskWritten, Items!Edited, S!Items!Edited
<1>8. ASSUME NEW d PROVE Items!OnCompletion(d) = S!Items!OnCompletion(d)
  BY DEF Items!OnCompletion, S!Items!OnCompletion, Items!Expired, S!Items!Expired, Items!Handle, S!Items!Handle,
         Items!Handles, S!Items!Handles, Items!Content, S!Items!Content
<1>9. ASSUME NEW d, NEW size PROVE Items!OnCodeAction(d, size) = S!Items!OnCodeAction(d, size)
  BY SameItemHelpers DEF Items!OnCodeAction, S!Items!OnCodeAction, Items!DeletedBytes, S!Items!DeletedBytes,
         Items!Handle, S!Items!Handle, Items!Content, S!Items!Content
<1>10. ASSUME NEW r, NEW item PROVE Items!Admitted(r, item) = S!Items!Admitted(r, item)
  BY DEF Items!Admitted, S!Items!Admitted, Items!NoRequest, S!Items!NoRequest
<1>11. ASSUME NEW r, NEW item PROVE Items!Finished(r, item) = S!Items!Finished(r, item)
  BY DEF Items!Finished, S!Items!Finished, Items!NoRequest, S!Items!NoRequest
<1>12. ASSUME NEW r, NEW h PROVE Items!ResolveCompletion(r, h) = S!Items!ResolveCompletion(r, h)
  BY <1>10, SameItemHelpers DEF Items!ResolveCompletion, S!Items!ResolveCompletion, Items!Find, S!Items!Find,
         Items!Holds, S!Items!Holds, Items!Idle, S!Items!Idle, Items!Content, S!Items!Content
<1>13. ASSUME NEW r, NEW h PROVE Items!ResolveCodeAction(r, h) = S!Items!ResolveCodeAction(r, h)
  BY <1>4, <1>6, SameItemHelpers DEF Items!ResolveCodeAction, S!Items!ResolveCodeAction,
         Items!Lookup, S!Items!Lookup, Items!Holds, S!Items!Holds, Items!Idle, S!Items!Idle,
         Items!Content, S!Items!Content
<1>14. ASSUME NEW r PROVE Items!ReadDisk(r) = S!Items!ReadDisk(r)
  BY <1>10 DEF Items!ReadDisk, S!Items!ReadDisk, Items!Settled, S!Items!Settled, Items!Content, S!Items!Content
<1>15. ASSUME NEW r PROVE Items!Start(r) = S!Items!Start(r)
  BY <1>11 DEF Items!Start, S!Items!Start, Items!Settled, S!Items!Settled
<1>16. ASSUME NEW r PROVE Items!Answer(r) = S!Items!Answer(r)
  BY <1>11 DEF Items!Answer, S!Items!Answer, Items!Settled, S!Items!Settled
<1>17. ASSUME NEW r
       PROVE  /\ Items!CheckDisk(r) = S!Items!CheckDisk(r)
              /\ Items!AnswerCodeAction(r) = S!Items!AnswerCodeAction(r)
  BY DEF Items!CheckDisk, S!Items!CheckDisk, Items!AnswerCodeAction, S!Items!AnswerCodeAction,
         Items!Settled, S!Items!Settled, Items!Content, S!Items!Content
<1>18. ASSUME NEW r PROVE Items!Cancel(r) = S!Items!Cancel(r)
  BY SameItemHelpers DEF Items!Cancel, S!Items!Cancel, Items!Running, S!Items!Running,
         Items!Aborted, S!Items!Aborted, Items!Settled, S!Items!Settled
<1>19. Items!Shutdown = S!Items!Shutdown
  BY <1>5 DEF Items!Shutdown, S!Items!Shutdown, Items!Cleared, S!Items!Cleared, Items!Handles, S!Items!Handles
<1>20. \A r : Items!Step(r) = S!Items!Step(r)
  BY <1>14, <1>15, <1>16, <1>17 DEF Items!Step, S!Items!Step
<1>21. Items!Next = S!Items!Next
  BY <1>7, <1>8, <1>9, <1>12, <1>13, <1>18, <1>19, <1>20
     DEF Items!Next, S!Items!Next, Items!Handles, S!Items!Handles
<1> QED BY <1>1, <1>2, <1>3, <1>21

\* Whatever is edited, closed, cancelled, evicted or cleared, the counters that
\* admit resolutions and code actions agree with what they count, and details and
\* edits are only given for the text the item was listed for
\* (CompletionResolutionQueue, CodeActionResolutionStore, onCompletionResolve).
THEOREM ResolutionsStayExact == Spec => ResolutionsAreExact
<1>1. Init /\ part = "items" => S!Items!Init
  BY SameItems DEF Init
<1>2. [Next]_all /\ part = "items" => [S!Items!Next]_S!Items!itemVars
  BY SameItems DEF Next, all, from4, from8, from11, InRecovery, InCallers, InRoutes, InRepeats, InExecutor, InVerifier,
         InItems, S!Items!itemVars
<1>3. S!ItemParameters
  BY DEF S!ItemParameters
<1>4. S!Items!Init => S!ItemInv
  BY <1>3, S!ItemInit
<1>5. S!ItemInv /\ [S!Items!Next]_S!Items!itemVars => S!ItemInv' /\ Items!DetailsFitTheirText
  BY <1>3, S!ItemNext, S!ItemStutter, SameItems
<1>6. S!ItemInv => Items!CountersAreExact
  BY S!ItemSafety, SameItems
<1>7. [Next]_all /\ part = "items" => (part = "items")'
  BY PartStays
<1>8. [Next]_all /\ ~(part = "items") => ~(part = "items")'
  BY PartStays
<1>9. [Next]_all /\ Items!DetailsFitTheirText => [part = "items" => Items!DetailsFitTheirText]_all
  OBVIOUS
<1>10. [Next]_all /\ ~(part = "items") => [part = "items" => Items!DetailsFitTheirText]_all
  OBVIOUS
<1> QED BY <1>1, <1>2, <1>4, <1>5, <1>6, <1>7, <1>8, <1>9, <1>10, PTL DEF Spec, ResolutionsAreExact
=============================================================================
