-------------------------- MODULE ReferenceRouting --------------------------
(***************************************************************************)
(* The parent's side of a reference search in one workspace root: the      *)
(* result cache, the snapshot of the inputs every await is fenced with,    *)
(* the selection of candidate files from the persistent index, and the     *)
(* bookkeeping that decides whether a generation of that index may be      *)
(* trusted after files changed (ReferenceIndexFreshness).                  *)
(*                                                                         *)
(* The sidecar that builds the generations and the service that asks it to *)
(* are reduced to what decides which changes a generation has seen: a      *)
(* build may have read every file as early as the moment it was started.   *)
(* A request to the sidecar is processed in one step and its answer        *)
(* received in a later one.  A request to the semantic worker is answered  *)
(* in one step, because the supervisor rejects an answer computed before   *)
(* an input changed (WorkerSupervisor).                                    *)
(***************************************************************************)
EXTENDS Integers, Sequences, SequencesExt, FiniteSetsExt

CONSTANTS
    Searches,    \* concurrent reference requests
    Queries,     \* sets of [disk, inc]: an unopened file?  with the declaration?
    Sizes,       \* sizes of a result
    MaxEntries,  \* ReferenceResultCache.maxEntries
    MaxBytes,    \* ReferenceResultCache.maxBytes
    MaxAsks,     \* bound: searches begun
    MaxEvents    \* bound: changes of sources or other inputs, failures of the sidecar

VARIABLES
    changes,     \* notified changes of source files
    rev,         \* the root and configuration revision of ReferenceInputState
    index,       \* the sidecar: its committed and its building generation
    service,     \* the catalog runs of the workspace symbol service
    fresh,       \* ReferenceIndexFreshness
    cache,       \* ReferenceResultCache, the oldest entry first
    search,      \* [Searches -> the request in progress]
    used         \* steps taken from the bounds

vars == <<changes, rev, index, service, fresh, cache, search, used>>

NoGeneration == -1
NoToken == 0
NoProof == -1
Nothing == [scan |-> 0, rev |-> 0]    \* no result

\* A search that is not running.  ans: the index answer it holds; anchored:
\* the selection rests on a declaration the compiler has yet to confirm.
Idle == [pc |-> "idle", key |-> [disk |-> FALSE, inc |-> FALSE], rev |-> 0, seed |-> TRUE, tok |-> NoToken,
         ans |-> <<>>, route |-> "direct", anchored |-> FALSE, anchorGen |-> NoGeneration,
         proof |-> NoProof, hit |-> <<>>, result |-> Nothing]

Init ==
    /\ changes = 0
    /\ rev = 0
    /\ index \in {[committed |-> g, scan |-> 0, building |-> 0, start |-> 0, next |-> g + 1,
                   full |-> TRUE, state |-> IF g = 0 THEN "warming" ELSE "ready"] : g \in {0, 1}}
    /\ service = [pc |-> "idle", pending |-> FALSE, reply |-> <<>>]
    /\ fresh = [accepted |-> NoGeneration, token |-> NoToken, baseline |-> NoGeneration,
                capture |-> "none", post |-> NoGeneration,
                ready |-> "none", readyBase |-> NoGeneration,
                bound |-> NoToken, boundBase |-> NoGeneration]
    /\ cache = <<>>
    /\ search = [s \in Searches |-> Idle]
    /\ used = [asks |-> 0, events |-> 0]

Bigger(a, b) == IF a > b THEN a ELSE b

(* ------------------ What the sidecar answers a request ----------------- *)

\* A session that has lost its sidecar reports "degraded" or fails the call.
NoAnswer == [ok |-> FALSE]
Status == [ok |-> TRUE, ready |-> index.state = "ready",
           committed |-> index.committed, building |-> index.building]
Statuses == IF index.state = "dead" THEN {Status, NoAnswer} ELSE {Status}

\* searchReferenceCandidates.  "exact": the identity of the declaration is
\* complete; "wide": proven, but some bindings have no source yet;
\* "unsupported": no declaration the index knows; "partial": not every file
\* of the generation could be indexed.
Candidates ==
    IF index.state = "dead" THEN {NoAnswer}
    ELSE [ok : {TRUE}, gen : {index.committed}, scan : {index.scan},
          kind : IF index.full THEN {"exact", "wide", "unsupported"} ELSE {"partial"}]

\* searchExports, and whether it has exactly one item that fits.
Exports ==
    IF index.state = "dead" THEN {NoAnswer}
    ELSE [ok : {TRUE}, gen : {index.committed}, found : {index.full, FALSE}]

Proven(answer) == answer.kind \in {"exact", "wide"}
Eligible(answer, status) == Proven(answer) /\ status.ready /\ answer.gen = status.committed

(* ------------------------- ReferenceResultCache ------------------------ *)

Bytes(entries) == LET size(i) == entries[i].size IN MapThenSumSet(size, DOMAIN entries)

\* #evict drops the oldest entries until both limits hold or none is left.
Evict(entries) ==
    LET Within(kept) == Len(kept) <= MaxEntries /\ Bytes(kept) <= MaxBytes
        fits == {n \in 0 .. Len(entries) :
                    n = Len(entries) \/ Within(SubSeq(entries, n + 1, Len(entries)))}
    IN  SubSeq(entries, Min(fits) + 1, Len(entries))

Keyed(entries, key) == {i \in DOMAIN entries : entries[i].key = key}

\* #delete: a key has at most one entry.
Without(entries, key) ==
    IF Keyed(entries, key) = {} THEN entries
    ELSE RemoveAt(entries, CHOOSE i \in Keyed(entries, key) : TRUE)

Put(entries, entry) ==
    IF entry.size > MaxBytes THEN entries ELSE Evict(Append(Without(entries, entry.key), entry))

Flip(key) == [key EXCEPT !.inc = ~key.inc]

\* set: the result and, when the search also collected the other variant
\* (with or without the declaration), that one too.
Store(entries, entry, both) ==
    IF both /\ entry.size <= MaxBytes
    THEN Put(Put(entries, entry), [entry EXCEPT !.key = Flip(entry.key)])
    ELSE Put(entries, entry)

Hits(key) == Keyed(cache, key)

(* ------------------------- Changes of the inputs ----------------------- *)

\* scheduleCatalog: a run in progress is followed by another one.
Scheduled(token) ==
    IF service.pc # "idle" THEN [service EXCEPT !.pending = TRUE]
    ELSE [service EXCEPT !.pc = IF token = NoToken THEN "starting" ELSE "binding"]

Event ==
    /\ used.events < MaxEvents
    /\ used' = [used EXCEPT !.events = @ + 1]

\* workspaceFilesChanged with a source file among the changes, for the
\* semantic proxy and then for the symbol service.
FilesChanged ==
    /\ Event
    /\ changes' = changes + 1
    /\ rev' = rev + 1
    /\ cache' = <<>>
    /\ fresh' = [fresh EXCEPT !.token = changes + 1, !.baseline = fresh.accepted,
                              !.capture = "asked", !.post = NoGeneration,
                              !.ready = "none", !.readyBase = NoGeneration]
    /\ service' = Scheduled(changes + 1)
    /\ UNCHANGED <<index, search>>

\* An open document is edited, a configuration is set: the index is not
\* concerned, the snapshots and the cached results are.
InputsChanged ==
    /\ Event
    /\ rev' = rev + 1
    /\ cache' = <<>>
    /\ UNCHANGED <<changes, index, service, fresh, search>>

ApplyMemoryPressure ==
    /\ cache # <<>>
    /\ cache' = <<>>
    /\ UNCHANGED <<changes, rev, index, service, fresh, search, used>>

(* --------------------------- The catalog runs -------------------------- *)

\* indexCatalog "starting": the run waits for a status and binds itself to
\* the change that is then the latest.
BindAsked ==
    /\ service.pc = "binding" /\ service.reply = <<>>
    /\ \E status \in Statuses : service' = [service EXCEPT !.reply = <<status>>]
    /\ UNCHANGED <<changes, rev, index, fresh, cache, search, used>>

CatalogStarted ==
    /\ service.pc = "binding" /\ service.reply # <<>>
    /\ service' = [service EXCEPT !.pc = "starting", !.reply = <<>>]
    /\ LET status == service.reply[1]
       IN  fresh' = IF ~status.ok \/ fresh.token = NoToken THEN fresh
                    ELSE [fresh EXCEPT !.bound = fresh.token,
                                       !.boundBase = Bigger(status.committed, status.building)]
    /\ UNCHANGED <<changes, rev, index, cache, search, used>>

StartCatalog ==
    /\ service.pc = "starting"
    /\ IF index.state = "dead"
       THEN /\ service' = [service EXCEPT !.pc = "failed"]
            /\ UNCHANGED index
       ELSE /\ service' = [service EXCEPT !.pc = "running"]
            /\ index' = [index EXCEPT !.building = index.next, !.next = @ + 1, !.start = changes]
    /\ UNCHANGED <<changes, rev, fresh, cache, search, used>>

PublishGeneration ==
    /\ service.pc = "running"
    /\ service' = [service EXCEPT !.pc = "published"]
    /\ \E full \in BOOLEAN :
          index' = [index EXCEPT !.committed = index.building, !.scan = index.start,
                                 !.building = 0, !.full = full, !.state = "ready"]
    /\ UNCHANGED <<changes, rev, fresh, cache, search, used>>

FailBuild ==
    /\ service.pc = "running"
    /\ Event
    /\ service' = [service EXCEPT !.pc = "failed"]
    /\ index' = [index EXCEPT !.building = 0, !.full = FALSE, !.state = "degraded"]
    /\ UNCHANGED <<changes, rev, fresh, cache, search>>

SidecarDies ==
    /\ index.state # "dead"
    /\ Event
    /\ index' = [index EXCEPT !.building = 0, !.state = "dead"]
    /\ service' = IF service.pc \in {"running", "published"}
                  THEN [service EXCEPT !.pc = "failed"] ELSE service
    /\ UNCHANGED <<changes, rev, fresh, cache, search>>

EndRun(token) ==
    service' = [pc |-> IF ~service.pending THEN "idle"
                       ELSE IF token = NoToken THEN "starting" ELSE "binding",
                pending |-> FALSE, reply |-> <<>>]

\* indexCatalog "ready": if the change the run was bound to is still the
\* latest, ask which generation now contains it.
CatalogReady ==
    /\ service.pc = "published"
    /\ fresh' = IF fresh.bound = NoToken \/ fresh.bound # fresh.token
                THEN [fresh EXCEPT !.bound = NoToken, !.boundBase = NoGeneration]
                ELSE [fresh EXCEPT !.bound = NoToken, !.boundBase = NoGeneration,
                                   !.ready = "asked", !.readyBase = fresh.boundBase]
    /\ EndRun(fresh.token)
    /\ UNCHANGED <<changes, rev, index, cache, search, used>>

CatalogFailed ==
    /\ service.pc = "failed"
    /\ EndRun(fresh.token)
    /\ UNCHANGED <<changes, rev, index, fresh, cache, search, used>>

(* ------------------------ ReferenceIndexFreshness ---------------------- *)

\* Mutant: a generation being built when the file changed counts as newer.
BaselineCapturedM(status) ==
    IF status.ok THEN Bigger(fresh.baseline, status.committed) ELSE NoGeneration

\* changed: only a generation begun after the status can contain the edit.
BaselineCaptured(status) ==
    IF status.ok THEN Bigger(fresh.baseline, Bigger(status.committed, status.building))
    ELSE NoGeneration

\* Mutant: a status that fails is not caught and never ends the capture.
CaptureDoneM ==
    /\ fresh.capture = "asked"
    /\ \E status \in Statuses :
          /\ status.ok
          /\ fresh' = [fresh EXCEPT !.capture = "done", !.baseline = BaselineCaptured(status)]
    /\ index.state # "dead"
    /\ UNCHANGED <<changes, rev, index, service, cache, search, used>>

\* Nobody looks at what a capture found before it is done, so that the
\* sidecar's answer and its arrival are one step.
CaptureDone ==
    /\ fresh.capture = "asked"
    /\ \E status \in Statuses :
          fresh' = [fresh EXCEPT !.capture = "done", !.baseline = BaselineCaptured(status)]
    /\ UNCHANGED <<changes, rev, index, service, cache, search, used>>

PostCaptureDone ==
    /\ fresh.ready = "asked"
    /\ \E status \in Statuses :
          LET newer == status.ok /\ status.ready /\ status.committed > fresh.readyBase
          IN  fresh' = [fresh EXCEPT !.ready = "done", !.readyBase = NoGeneration,
                                     !.post = IF newer THEN status.committed ELSE @]
    /\ UNCHANGED <<changes, rev, index, service, cache, search, used>>

\* beforeSearch, once its own status has arrived: the index may be used
\* again, because a generation exists that began after the change.
Recovered(status) ==
    /\ status.ok /\ status.ready
    /\ \/ fresh.baseline # NoGeneration /\ status.committed > fresh.baseline
       \/ fresh.post # NoGeneration /\ status.committed >= fresh.post

(* ------------------------- The steps of a search ----------------------- *)

Goto(s, pc) == search' = [search EXCEPT ![s].pc = pc]
Fail(s) == search' = [search EXCEPT ![s] = Idle]
Current(s) == search[s].rev = rev
Key(s) == search[s].key

\* The answer leaves the proxy.  What remains of it is how many changes and
\* how many revisions it lags behind.
Answer(s, result) ==
    search' = [search EXCEPT ![s] =
        [Idle EXCEPT !.pc = "done", !.result = [scan |-> changes - result.scan,
                                                rev |-> rev - result.rev]]]

\* Whatever is not "complete", or was aborted, is passed on without a value.
Incomplete(s) == search' = [search EXCEPT ![s] = Idle]

\* references from cachedReferences to the first await of the route.
Begin(s, key, seed) ==
    LET hits == Hits(key)
        next == [Idle EXCEPT !.key = key, !.seed = seed, !.rev = rev]
    IN  IF hits # {}
        THEN \E i \in hits :
               /\ cache' = Append(Without(cache, key), cache[i])
               /\ IF key.disk
                  THEN search' = [search EXCEPT ![s] = [next EXCEPT !.pc = "hit", !.hit = <<cache[i]>>]]
                  ELSE Answer(s, cache[i].result)
        ELSE /\ UNCHANGED cache
             /\ \E resident \in BOOLEAN :
                   search' = [search EXCEPT ![s] =
                      [next EXCEPT !.pc = IF key.disk THEN "admit"
                                          ELSE IF resident THEN "resident" ELSE "select"]]

Ask(s) ==
    /\ search[s].pc \in {"idle", "done"}
    /\ used.asks < MaxAsks
    /\ used' = [used EXCEPT !.asks = @ + 1]
    /\ \E key \in Queries : Begin(s, key, TRUE)
    /\ UNCHANGED <<changes, rev, index, service, fresh>>

\* diskReferenceProof: a readiness report is a proof only when it is ready.
Proofs == {rev, NoProof}

\* An entry for a file on disk counts only under the proof it was stored with.
CheckHit(s) ==
    /\ search[s].pc = "hit"
    /\ \/ ~Current(s) /\ Fail(s)
       \/ /\ Current(s)
          /\ \E proof \in Proofs :
                IF proof # NoProof /\ proof = search[s].hit[1].proof
                THEN Answer(s, search[s].hit[1].result)
                ELSE search' = [search EXCEPT ![s].pc = "admit", ![s].hit = <<>>]
    /\ UNCHANGED <<changes, rev, index, service, fresh, cache, used>>

\* referenceCacheAdmission, and then the snapshot of the inputs.
Admit(s) ==
    /\ search[s].pc = "admit"
    /\ \/ ~Current(s) /\ Fail(s)
       \/ /\ Current(s)
          /\ \E proof \in Proofs, pc \in {"resident", "select"} :
                search' = [search EXCEPT ![s].pc = pc, ![s].proof = proof]
    /\ UNCHANGED <<changes, rev, index, service, fresh, cache, used>>

\* publishReferenceResult: an open document's result is stored at once, a
\* disk result after its proof was read again.
Publish(s, scan) ==
    LET result == [scan |-> scan, rev |-> rev]
    IN  \/ /\ Key(s).disk
           /\ search' = [search EXCEPT ![s].pc = "publish", ![s].result = result]
           /\ UNCHANGED cache
        \/ /\ ~Key(s).disk
           /\ \E size \in Sizes, both \in BOOLEAN :
                 cache' = Store(cache, [key |-> Key(s), size |-> size, result |-> result,
                                        proof |-> NoProof], both)
           /\ Answer(s, result)
        \/ Incomplete(s) /\ UNCHANGED cache    \* aborted meanwhile

PublishDisk(s) ==
    /\ search[s].pc = "publish"
    /\ \/ ~Current(s) /\ Fail(s) /\ UNCHANGED cache
       \/ /\ Current(s)
          /\ \E proof \in Proofs, size \in Sizes, both \in BOOLEAN :
                cache' = IF proof = NoProof \/ proof # search[s].proof THEN cache
                         ELSE Store(cache, [key |-> Key(s), size |-> size, proof |-> proof,
                                            result |-> search[s].result], both)
          /\ Answer(s, search[s].result)
    /\ UNCHANGED <<changes, rev, index, service, fresh, used>>

\* The worker is asked whether a retained compiler context can answer.
Resident(s) ==
    /\ search[s].pc = "resident"
    /\ \/ ~Current(s) /\ Fail(s) /\ UNCHANGED cache
       \/ Current(s) /\ Goto(s, "select") /\ UNCHANGED cache
       \/ Current(s) /\ Incomplete(s) /\ UNCHANGED cache
       \/ Current(s) /\ Publish(s, changes)
    /\ UNCHANGED <<changes, rev, index, service, fresh, used>>

(* selectReferenceCandidates.  The wait for the first catalog takes any     *)
(* time and decides nothing; after it the index must be fit for use.       *)
Select(s) ==
    /\ search[s].pc = "select"
    /\ IF ~Current(s) THEN Fail(s)
       ELSE IF fresh.token = NoToken THEN Goto(s, "query")
       ELSE search' = [search EXCEPT ![s].pc = "capture", ![s].tok = fresh.token]
    /\ UNCHANGED <<changes, rev, index, service, fresh, cache, used>>

AwaitCaptures(s) ==
    /\ search[s].pc = "capture"
    /\ \/ fresh.token # search[s].tok
       \/ fresh.capture = "done" /\ fresh.ready # "asked"
    /\ Goto(s, "recover")
    /\ UNCHANGED <<changes, rev, index, service, fresh, cache, used>>

\* What the sidecar answers to what the search waits for.
Replies(s, pc) ==
    IF search[s].pc # pc THEN {}
    ELSE CASE pc \in {"recover", "vouch", "accept", "reaccept", "confirm"} -> Statuses
           [] pc \in {"query", "requery"} -> Candidates
           [] pc \in {"exports", "seed"} -> Exports

\* The route goes on with the candidates, or without any.
Dispatch(s, ans, anchored) ==
    search' = [search EXCEPT ![s] =
        [Idle EXCEPT !.pc = "dispatch", !.key = Key(s), !.rev = search[s].rev, !.proof = search[s].proof,
                     !.ans = ans, !.anchored = anchored]]
Fallback(s) == IF Current(s) THEN Dispatch(s, <<>>, FALSE) ELSE Fail(s)
IndexError(s) == Fallback(s)

Recover(s) ==
    /\ \E reply \in Replies(s, "recover") :
      /\ \/ fresh.token # search[s].tok /\ Goto(s, "query") /\ UNCHANGED fresh
         \/ /\ fresh.token = search[s].tok /\ Recovered(reply)
            /\ fresh' = [fresh EXCEPT !.token = NoToken, !.capture = "none", !.post = NoGeneration,
                                      !.ready = "none", !.baseline = NoGeneration]
            /\ Goto(s, "query")
         \/ fresh.token = search[s].tok /\ ~Recovered(reply) /\ Fallback(s) /\ UNCHANGED fresh
    /\ UNCHANGED <<changes, rev, index, service, cache, used>>

\* After the sources of the candidates are resolved, the direct answer is
\* accepted first and the declaration's answer compared with the status.
Sourced(s, ans) ==
    search' = [search EXCEPT ![s].ans = <<ans>>,
                             ![s].pc = IF search[s].route = "declared" THEN "confirm"
                                       ELSE IF Proven(ans) THEN "accept" ELSE "judge"]

QueryAnswered(s) ==
    /\ \E reply \in Replies(s, "query") :
      /\ IF ~reply.ok THEN IndexError(s)
         ELSE IF reply.kind = "wide"
         THEN search' = [search EXCEPT ![s].pc = "vouch", ![s].ans = <<reply>>]
         ELSE Sourced(s, reply)
    /\ UNCHANGED <<changes, rev, index, service, fresh, cache, used>>

\* resolveReferenceCandidateSources asks again once it knows more sources.
Vouch(s) ==
    /\ \E reply \in Replies(s, "vouch") :
      /\ LET ans == search[s].ans[1]
         IN  IF ~reply.ok THEN IndexError(s) /\ UNCHANGED fresh
             ELSE IF ~Eligible(ans, reply) THEN Sourced(s, ans) /\ UNCHANGED fresh
             ELSE /\ fresh' = [fresh EXCEPT !.accepted = ans.gen]
                  /\ Sourced(s, ans) \/ Goto(s, "requery")
    /\ UNCHANGED <<changes, rev, index, service, cache, used>>

Requeried(s) ==
    /\ \E reply \in Replies(s, "requery") :
      /\ IF reply.ok THEN Sourced(s, reply) ELSE IndexError(s)
    /\ UNCHANGED <<changes, rev, index, service, fresh, cache, used>>

\* Neither an accepted answer with an anchor nor a reason to give up: the
\* declaration is found by an export seed or by the compiler.
Unanchored(s, accepted) ==
    LET kind == search[s].ans[1].kind
    IN  IF kind = "partial" \/ (~accepted /\ kind # "unsupported") THEN Fallback(s)
        ELSE \/ search[s].seed /\ Goto(s, "seed")
             \/ Goto(s, "define")

Judge(s) ==
    /\ search[s].pc = "judge"
    /\ IF Current(s) THEN Unanchored(s, FALSE) ELSE Fail(s)
    /\ UNCHANGED <<changes, rev, index, service, fresh, cache, used>>

Accept(s) ==
    /\ \E reply \in Replies(s, "accept") :
      /\ LET ans == search[s].ans[1]
             accepted == reply.ok /\ Eligible(ans, reply)
         IN  /\ fresh' = IF accepted THEN [fresh EXCEPT !.accepted = ans.gen] ELSE fresh
             /\ IF ~reply.ok THEN IndexError(s)
                ELSE IF ~Current(s) THEN Fail(s)
                ELSE IF accepted /\ search[s].seed /\ ans.kind = "exact" THEN Goto(s, "exports")
                ELSE Unanchored(s, accepted)
    /\ UNCHANGED <<changes, rev, index, service, cache, used>>

\* indexedReferenceAnchorSeed: the export must be of the same generation.
AnchorSeed(s) ==
    /\ \E reply \in Replies(s, "exports") :
      /\ IF ~reply.ok THEN IndexError(s)
         ELSE IF reply.found /\ reply.gen = search[s].ans[1].gen THEN Goto(s, "reaccept")
         ELSE Unanchored(s, TRUE)
    /\ UNCHANGED <<changes, rev, index, service, fresh, cache, used>>

Reaccept(s) ==
    /\ \E reply \in Replies(s, "reaccept") :
      /\ LET ans == search[s].ans[1]
             accepted == reply.ok /\ Eligible(ans, reply)
         IN  /\ fresh' = IF accepted THEN [fresh EXCEPT !.accepted = ans.gen] ELSE fresh
             /\ \/ ~accepted /\ Fallback(s)
                \/ accepted /\ ~Current(s) /\ Fail(s)
                \/ accepted /\ Current(s) /\ Dispatch(s, <<ans>>, TRUE)
                \/ accepted /\ Fallback(s)    \* the support files are not among the candidates
    /\ UNCHANGED <<changes, rev, index, service, cache, used>>

\* localExportAnchorSeed and unaliasedReexportAnchorSeed.
SeedAnswered(s) ==
    /\ \E reply \in Replies(s, "seed") :
      /\ IF ~reply.ok THEN IndexError(s)
         ELSE IF ~reply.found THEN Goto(s, "define")
         ELSE IF ~Current(s) THEN Fail(s)
         ELSE search' = [search EXCEPT ![s].pc = "query", ![s].route = "declared",
                                       ![s].anchored = TRUE, ![s].anchorGen = reply.gen]
    /\ UNCHANGED <<changes, rev, index, service, fresh, cache, used>>

\* The worker is asked for the one definition.
Define(s) ==
    /\ search[s].pc = "define"
    /\ \/ ~Current(s) /\ Fail(s)
       \/ Current(s) /\ Fallback(s)
       \/ /\ Current(s)
          /\ search' = [search EXCEPT ![s].pc = "query", ![s].route = "declared"]
    /\ UNCHANGED <<changes, rev, index, service, fresh, cache, used>>

Reselect(s) ==
    search' = [search EXCEPT ![s] = [Idle EXCEPT !.pc = "select", !.key = Key(s), !.seed = FALSE,
                                                 !.rev = search[s].rev, !.proof = search[s].proof]]

Confirm(s) ==
    /\ \E reply \in Replies(s, "confirm") :
      /\ LET ans == search[s].ans[1]
             eligible == reply.ok /\ Eligible(ans, reply)
             fits == ans.kind = "exact" /\ ans.gen = search[s].anchorGen
         IN  /\ fresh' = IF eligible /\ Current(s) THEN [fresh EXCEPT !.accepted = ans.gen] ELSE fresh
             /\ IF ~reply.ok THEN IndexError(s)
                ELSE IF ~Current(s) THEN Fail(s)
                ELSE IF ~eligible THEN IF search[s].anchored THEN Reselect(s) ELSE Fallback(s)
                ELSE IF search[s].anchored /\ ~fits THEN Reselect(s)
                ELSE \/ Dispatch(s, <<ans>>, search[s].anchored)
                     \/ search[s].anchored /\ Reselect(s)    \* another declaration
    /\ UNCHANGED <<changes, rev, index, service, cache, used>>

\* The worker searches the candidates, or the whole scope when there are
\* none or a change is not yet in the index (forceLegacy).
Dispatched(s) ==
    /\ search[s].pc = "dispatch"
    /\ \/ ~Current(s) /\ Fail(s) /\ UNCHANGED cache
       \/ Current(s) /\ search[s].anchored /\ Begin(s, Key(s), FALSE)    \* retryWithoutSeed
       \/ Current(s) /\ Incomplete(s) /\ UNCHANGED cache
       \/ /\ Current(s)
          /\ Publish(s, IF search[s].ans # <<>> /\ fresh.token = NoToken
                        THEN search[s].ans[1].scan ELSE changes)
    /\ UNCHANGED <<changes, rev, index, service, fresh, used>>

Step(s) ==
    \/ CheckHit(s) \/ Admit(s) \/ PublishDisk(s) \/ Resident(s) \/ Select(s) \/ AwaitCaptures(s)
    \/ Recover(s) \/ QueryAnswered(s) \/ Vouch(s) \/ Requeried(s) \/ Judge(s)
    \/ Accept(s) \/ AnchorSeed(s) \/ Reaccept(s) \/ SeedAnswered(s) \/ Define(s) \/ Confirm(s)
    \/ Dispatched(s)

Catalog ==
    \/ BindAsked \/ CatalogStarted \/ StartCatalog \/ PublishGeneration \/ CatalogReady
    \/ CatalogFailed

Freshness == CaptureDone \/ PostCaptureDone

Next ==
    \/ FilesChanged \/ InputsChanged \/ ApplyMemoryPressure \/ FailBuild \/ SidecarDies
    \/ Catalog \/ Freshness
    \/ \E s \in Searches : Ask(s) \/ Step(s)

\* The event loop runs every continuation; the sidecar answers or is dead.
Fairness ==
    /\ WF_vars(Catalog)
    /\ WF_vars(Freshness)
    /\ \A s \in Searches : WF_vars(Step(s))

Spec == Init /\ [][Next]_vars /\ Fairness

-----------------------------------------------------------------------------

\* Every answer, cached or computed, reflects every change of a source file
\* that was notified before it left, and no edit happened since its inputs
\* were captured: a search never narrows its scope by a generation that may
\* have been read before the latest change (reference-index-freshness.ts).
AnswersSeeEveryChange ==
    \A s \in Searches :
        search[s].pc = "done" => search[s].result.scan <= 0 /\ search[s].result.rev = 0

\* Again and again, for each search: it has ended, whatever the sidecar and
\* the catalog runs do; neither the captures it waits for nor its retries
\* keep it going for ever.
RequestEnded(s) == search[s].pc \in {"idle", "done"}
=============================================================================
