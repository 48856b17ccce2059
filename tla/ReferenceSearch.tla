--------------------------- MODULE ReferenceSearch ---------------------------
(***************************************************************************)
(* The worker's side of a reference search (ReferenceSearchExecutor): the  *)
(* files that may hold references are planned into batches, each batch is  *)
(* verified by a compiler in a thread of its own, and the union of the     *)
(* batches is the answer.  The search may narrow its scope by candidates   *)
(* of the index, by the project's graph of semantic units and by modules   *)
(* that cannot refer to a constructor; it falls back to a wider scope when *)
(* one of these proves wrong.  Files change on disk meanwhile.             *)
(*                                                                         *)
(* What a compiler finds is reduced to the files it loads: it finds a      *)
(* reference if and only if the file that holds it is loaded.              *)
(***************************************************************************)
EXTENDS Integers, FiniteSets

CONSTANTS
    Files,        \* the project's complete membership, 1 .. n in path order
    Overlays,     \* files open in the editor besides the current one
    Projects,     \* imports: [Files -> SUBSET Files], one for every project considered
    UnitOf,       \* [Files -> unit], units are numbers in the order of their names
    Depends,      \* [units -> set of units]
    BatchLimit,   \* batchRootLimit
    MaxChanges    \* bound: files that change on disk during the search

VARIABLES
    query,        \* the project and the request, fixed
    disk,         \* files changed on disk since their identities were taken
    run           \* the activation of execute

searchVars == <<query, disk, run>>

Current == 1                          \* workspace.state.path
Pinned == {Current} \cup Overlays
Units == DOMAIN Depends
None == [indexed |-> FALSE, paths |-> Files, support |-> {}, seeded |-> FALSE]

\* What is reached from seeds along next: the smallest set of nodes that has the
\* seeds and, with a node, what next leads to from it.
Closure(seeds, next) ==
    LET closed == {S \in SUBSET DOMAIN next : seeds \subseteq S /\ \A x \in S : next[x] \subseteq S}
    IN  {x \in DOMAIN next : \A S \in closed : x \in S}

\* Candidates of the index that rest on a confirmed declaration hold every
\* use; those seeded by an export may belong to another declaration.
Requests(uses) ==
    {None} \cup
    {[indexed |-> TRUE, paths |-> paths, support |-> support, seeded |-> seeded] :
        paths \in {p \in SUBSET Files : uses \subseteq p}, support \in {{}, {Current}, {Current, 2}},
        seeded \in BOOLEAN}
    \cup {[indexed |-> TRUE, paths |-> {Current}, support |-> {Current}, seeded |-> TRUE]}

\* execute is called afresh: what it collected is gone.
Execute(scope, graph, exclude) ==
    [pc |-> "plan", scope |-> scope, graph |-> graph, exclude |-> exclude,
     identity |-> FALSE, units |-> FALSE, remaining |-> {}, chunk |-> {}, later |-> FALSE,
     admitted |-> {}, attempts |-> 0, found |-> {}, searched |-> {},
     consumed |-> {}, replanned |-> FALSE]

Init ==
    /\ disk = {}
    /\ \E imports \in Projects, uses \in {u \in SUBSET Files : Current \in u} :
       \E scope \in Requests(uses), closed \in {Files \ uses, {}}, graph \in BOOLEAN,
          ctor \in BOOLEAN, limited \in BOOLEAN :
          /\ query = [imports |-> imports, uses |-> uses, closed |-> closed, ctor |-> ctor,
                      right |-> uses \subseteq scope.paths, limited |-> limited]
          /\ run = Execute(scope, graph, TRUE)

(* ----------------------------- The planner ----------------------------- *)

Members(units) == {f \in Files : UnitOf[f] \in units}

\* chunkCandidates: the first candidates in path order.
Chunk(paths) == {f \in paths : Cardinality({g \in paths : g < f}) < BatchLimit}

\* packSemanticUnits: whole units, in the order of their names, as long as
\* they fit; a unit that is too large makes a batch of its own.
Packed(paths) ==
    LET Before(unit) == {g \in paths : UnitOf[g] < unit}
        Upto(unit) == {g \in paths : UnitOf[g] <= unit}
        Fits(unit) == Cardinality(Before(unit)) < BatchLimit /\ Cardinality(Upto(unit)) <= BatchLimit
    IN  {f \in paths : Before(UnitOf[f]) = {} \/ Fits(UnitOf[f])}

\* planConservativeReferenceBatches, one batch at a time: the next batch of
\* the candidates that remain.  What is pinned is a root of every batch, and
\* there is a batch even without candidates.  A batch of units admits the
\* units its roots depend on.
NextChunk(paths, graph) == IF graph THEN Packed(paths) ELSE Chunk(paths)
AdmittedPaths(chunk, graph) ==
    IF ~graph \/ chunk = {} THEN Files
    ELSE Members(Closure({UnitOf[f] : f \in chunk \cup Pinned}, Depends))

\* expandReferenceBatchAdmission
Expanded(admitted, unavailable) ==
    admitted \cup Members(Closure({UnitOf[f] : f \in unavailable}, Depends))

(* ----------------------------- The executor ---------------------------- *)

Finish(status) == run' = [run EXCEPT !.pc = status]
Restart(scope, graph, exclude) == run' = Execute(scope, graph, exclude)

\* projectFileIdentitiesCurrent
IdentitiesCurrent == disk \ Overlays = {}

\* The profile that loads only the candidates themselves.
IdentityProfile(scope) ==
    /\ scope.indexed /\ scope.support # {}
    /\ scope.support \subseteq scope.paths

Started(scope) ==
    LET candidates == scope.paths \ Pinned
    IN  IF query.limited /\ NextChunk(candidates, run.graph) # candidates
        THEN Finish("incomplete")                       \* rejectBudget
        ELSE run' = [run EXCEPT !.pc = "admit", !.scope = scope, !.remaining = candidates,
                                      !.identity = IdentityProfile(scope), !.units = run.graph]

\* Candidates say nothing about files that changed since.
Plan ==
    /\ run.pc = "plan"
    /\ Started(IF run.scope.indexed /\ ~IdentitiesCurrent THEN None ELSE run.scope)
    /\ UNCHANGED <<query, disk>>

Roots(chunk) == Pinned \cup chunk \cup (IF run.identity THEN run.scope.support ELSE {})

\* admitVerifier: under memory pressure only a first batch is started.
Admit ==
    /\ run.pc = "admit"
    /\ LET chunk == NextChunk(run.remaining, run.graph)
       IN  run' = [run EXCEPT !.pc = "verify", !.attempts = 0, !.chunk = chunk,
                         !.remaining = @ \ chunk,
                         !.admitted = IF run.identity THEN Roots(chunk)
                                      ELSE AdmittedPaths(chunk, run.graph)]
    /\ UNCHANGED <<query, disk>>

RejectBudget ==
    /\ run.pc \in {"admit", "verify"}
    /\ run.later \/ run.attempts > 0
    /\ Finish("incomplete")
    /\ UNCHANGED <<query, disk>>

\* The files the verifier's compiler loads, and those it may not.
Loaded == LET within == [f \in run.admitted |-> query.imports[f] \cap run.admitted]
          IN  Closure(Roots(run.chunk), within)
Unavailable == IF run.identity THEN {}
               ELSE UNION {query.imports[f] : f \in Loaded} \ (run.admitted \cup Overlays)
ReadFails == (Loaded \cap disk) \ Overlays # {}
Complete == Unavailable = {} /\ ~ReadFails

\* Mutant: the rejected seed survives the restart.
AnchorMismatchM ==
    /\ run.pc = "verify"
    /\ run.scope.seeded /\ ~query.right
    /\ Restart(run.scope, run.graph, run.exclude)
    /\ UNCHANGED <<query, disk>>

\* The compiler resolves the seeded declaration elsewhere.
AnchorMismatch ==
    /\ run.pc = "verify"
    /\ run.scope.seeded /\ ~query.right
    /\ Restart(None, run.graph, run.exclude)
    /\ UNCHANGED <<query, disk>>

Anchored == run.scope.seeded => query.right

VerifyIncomplete ==
    /\ run.pc = "verify"
    /\ Anchored
    /\ ~Complete
    /\ LET expanded == Expanded(run.admitted, Unavailable)
           expands == ~run.identity /\ run.units /\ Unavailable # {}
                      /\ run.attempts < Cardinality(Units) /\ expanded # run.admitted
       IN  IF expands
           THEN run' = [run EXCEPT !.admitted = expanded, !.attempts = @ + 1]
           ELSE IF run.units
           THEN Restart([run.scope EXCEPT !.support = {}], FALSE, run.exclude)
           ELSE Finish("incomplete")
    /\ UNCHANGED <<query, disk>>

\* A verifier that fails for its own reasons ends the run.
VerifierFails ==
    /\ run.pc = "verify"
    /\ Finish("incomplete")
    /\ UNCHANGED <<query, disk>>

\* constructorModuleExclusions: closed modules among the files that were
\* not searched and can be read under their old identity.  The scan has a
\* budget, so any part of them may be reported.
Exclusions ==
    IF ~query.ctor \/ ~run.exclude \/ ~(Pinned \subseteq Loaded) THEN {{}}
    ELSE SUBSET (((query.closed \ Loaded) \cap run.admitted) \ (disk \cup Overlays))

CoversWholeScope(excluded) == Pinned \subseteq Loaded /\ Files \subseteq Loaded \cup excluded

\* Excluded modules are taken out of the batches to come, once.
Replans(excluded) ==
    /\ ~run.replanned /\ ~run.identity /\ ~run.scope.indexed
    /\ run.remaining \cap excluded # {}
    /\ Pinned \cup run.chunk \subseteq Loaded

VerifyComplete ==
    /\ run.pc = "verify"
    /\ Anchored
    /\ Complete
    /\ \E excluded \in Exclusions :
          LET stop == ~run.identity /\ CoversWholeScope(excluded)
              replans == ~stop /\ Replans(excluded)
          IN  run' = [run EXCEPT
                 !.found = @ \cup (query.uses \cap Loaded), !.searched = @ \cup Loaded,
                 !.consumed = @ \cup (IF stop THEN excluded
                                      ELSE IF replans THEN run.remaining \cap excluded ELSE {}),
                 !.remaining = IF replans THEN @ \ excluded ELSE @,
                 !.replanned = @ \/ replans, !.later = TRUE, !.attempts = 0,
                 !.pc = IF stop \/ (run.remaining = {} /\ ~replans) THEN "merge" ELSE "admit"]
    /\ UNCHANGED <<query, disk>>

\* Mutant: exclusions are not validated again before the answer.
MergeM ==
    /\ run.pc = "merge"
    /\ Finish(IF run.scope.indexed /\ ~IdentitiesCurrent THEN "incomplete" ELSE "complete")
    /\ UNCHANGED <<query, disk>>

\* Exclusions and identities are checked again before the answer.
Merge ==
    /\ run.pc = "merge"
    /\ IF run.consumed \cap disk # {} THEN Restart(run.scope, run.graph, FALSE)
       ELSE IF run.scope.indexed /\ ~IdentitiesCurrent THEN Finish("incomplete")
       ELSE Finish("complete")
    /\ UNCHANGED <<query, disk>>

\* A file changes on disk; its identity no longer holds.
DiskChanges(f) ==
    /\ run.pc \notin {"complete", "incomplete"}
    /\ Cardinality(disk) < MaxChanges
    /\ f \notin disk
    /\ disk' = disk \cup {f}
    /\ UNCHANGED <<query, run>>

Execution ==
    \/ Plan \/ Admit \/ RejectBudget \/ AnchorMismatch \/ VerifyIncomplete \/ VerifierFails
    \/ VerifyComplete \/ Merge

Next == Execution \/ \E f \in Files : DiskChanges(f)

Spec == Init /\ [][Next]_searchVars /\ WF_searchVars(Execution)

-----------------------------------------------------------------------------

\* A complete answer names every reference of the snapshot, and what it
\* passed over on the word of the index or of an exclusion was still
\* unchanged when it was given, whichever narrowing was tried and abandoned
\* on the way (ReferenceSearchExecutor.execute).
CompleteAnswersAreExact ==
    run.pc = "complete" =>
        /\ run.found = query.uses
        /\ (Files \ run.searched) \cap (disk \ Overlays) = {}

\* Again and again: the search is over, as each restart gives up one way of
\* narrowing.
SearchEnded == run.pc \in {"complete", "incomplete"}
=============================================================================
