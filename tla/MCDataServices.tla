---------------------------- MODULE MCDataServices ----------------------------
(***************************************************************************)
(* Small instances of the components whose safety matters most: what they  *)
(* answer must be true of the files, the buffers and the rows it is about. *)
(* A behaviour is a behaviour of one part; the parts share the variables   *)
(* v1 to v8 under the names the WITH clauses give them.                    *)
(***************************************************************************)
EXTENDS Integers, Sequences, FiniteSets, TLC, SourceStatements

CONSTANTS
    Parts,                  \* the parts a run looks at
    Forms,                  \* statements on the way to a declaration: "named", "star", "rare"
    p1, p2, p3, l1, l2, c1, k1, k2, None

VARIABLES part, v1, v2, v3, v4, v5, v6, v7, v8

all == <<part, v1, v2, v3, v4, v5, v6, v7, v8>>
Unused == <<>>

-----------------------------------------------------------------------------
(* Workspace contents, instances of the module with the theorems about them *)

\* What the store and the contexts have where they do not have None.
Spans == [root : {l1, l2}, from : Nat, to : Nat]
Deltas == [root : {l1, l2}, from : Nat, to : Nat, changed : SUBSET {p1, p2, p3}]
Held == [root : {l1, l2}, revision : Nat, epoch : Nat, reset : BOOLEAN,
         changed : SUBSET {p1, p2, p3}, removed : SUBSET {p1, p2, p3}, delta : {None} \cup Deltas,
         deltas : Seq(Deltas), documents : SUBSET {p1, p2, p3}, members : SUBSET {p1, p2, p3},
         overlay : SUBSET {p1, p2, p3}, behind : SUBSET {p1, p2, p3}]
ASSUME NoneAssumption == None \notin {l1, l2} \cup Spans \cup Deltas \cup Held

RequestSymmetry == Permutations({k1, k2})
Plain == [p \in {p1, p2} |-> p]
\* p3 is another name of p1, in a package that links to a module of the project
Alias == [p \in {p1, p2, p3} |-> IF p = p3 THEN p1 ELSE p]
PlainClosures == {[owner |-> p1, paths |-> {p1}]}
\* p2 imports the linked package
LinkedClosures == {[owner |-> p2, paths |-> {p2, p3}]}
AliasClosures == PlainClosures \cup LinkedClosures
Every == {"changed", "created", "deleted", "rejected"}

\* Two requests use their views late, under two spellings of the root
Views == INSTANCE WorkspaceContentsProofs WITH
    changes <- v1, overlay <- v2, cached <- v3, catalog <- v4, closures <- v5, context <- v6, view <- v7,
    Paths <- {p1, p2}, Physical <- Plain, LexicalRoots <- {l1, l2}, Contexts <- {c1}, RootOf <- c1 :> l1,
    Reusing <- {c1}, Scoped <- {}, Requests <- {k1, k2}, Closures <- PlainClosures, Catalogs <- {FALSE},
    Editable <- {}, Events <- {"changed"}, MaxCached <- 1, MaxBatch <- 1, MaxChanged <- 2, MaxRemoved <- 1,
    MaxHistory <- 2, MaxRevision <- 3

\* The same in a context that is synchronized for a scope
Scoping == INSTANCE WorkspaceContentsProofs WITH
    changes <- v1, overlay <- v2, cached <- v3, catalog <- v4, closures <- v5, context <- v6, view <- v7,
    Paths <- {p1, p2}, Physical <- Plain, LexicalRoots <- {l1, l2}, Contexts <- {c1}, RootOf <- c1 :> l1,
    Reusing <- {c1}, Scoped <- {c1}, Requests <- {k1, k2}, Closures <- PlainClosures, Catalogs <- {FALSE},
    Editable <- {}, Events <- {"changed"}, MaxCached <- 1, MaxBatch <- 1, MaxChanged <- 2, MaxRemoved <- 1,
    MaxHistory <- 2, MaxRevision <- 3

\* Aliases, deletions and rejected sources on disk
Aliases == INSTANCE WorkspaceContentsProofs WITH
    changes <- v1, overlay <- v2, cached <- v3, catalog <- v4, closures <- v5, context <- v6, view <- v7,
    Paths <- {p1, p2, p3}, Physical <- Alias, LexicalRoots <- {l1}, Contexts <- {c1}, RootOf <- c1 :> l1,
    Reusing <- {c1}, Scoped <- {}, Requests <- {k1}, Closures <- LinkedClosures, Catalogs <- {TRUE},
    Editable <- {}, Events <- {"changed", "deleted", "rejected"}, MaxCached <- 2, MaxBatch <- 1, MaxChanged <- 2, MaxRemoved <- 1,
    MaxHistory <- 2, MaxRevision <- 3

\* The same with an alias that is edited, and files that appear
Buffers == INSTANCE WorkspaceContentsProofs WITH
    changes <- v1, overlay <- v2, cached <- v3, catalog <- v4, closures <- v5, context <- v6, view <- v7,
    Paths <- {p1, p2, p3}, Physical <- Alias, LexicalRoots <- {l1}, Contexts <- {c1}, RootOf <- c1 :> l1,
    Reusing <- {c1}, Scoped <- {}, Requests <- {k1}, Closures <- AliasClosures, Catalogs <- {TRUE},
    Editable <- {p3}, Events <- Every, MaxCached <- 2, MaxBatch <- 1, MaxChanged <- 2, MaxRemoved <- 1,
    MaxHistory <- 2, MaxRevision <- 2

-----------------------------------------------------------------------------
(* The SQLite store *)

Rows(o, c) == [symbols |-> IF o = <<>> THEN o ELSE <<o[1]>>, exports |-> <<>>, occurrences |-> o,
               aliases |-> <<>>, bindings |-> <<>>, classes |-> c]
mcFacts == "a" :> {[heritage |-> TRUE, rows |-> Rows(<<"x", "y", "x">>, <<>>)],
                   [heritage |-> FALSE, rows |-> Rows(<<"y">>, <<>>)]}
           @@ "b" :> {[heritage |-> TRUE, rows |-> Rows(<<>>, <<"y">>)]}

\* Two writers and a reader of one cache
Shared == INSTANCE SqliteStore WITH
    db <- v1, writer <- v2, reader <- v3, build <- v4, memory <- v5,
    Uris <- {"a", "b"}, Facts <- mcFacts, Writers <- {"w1", "w2"}, Readers <- {"r1"},
    MaxGeneration <- 3, MaxBuilds <- 0

\* A writer of the cache and a private build
Private == INSTANCE SqliteStore WITH
    db <- v1, writer <- v2, reader <- v3, build <- v4, memory <- v5,
    Uris <- {"a", "b"}, Facts <- mcFacts, Writers <- {"w1"}, Readers <- {},
    MaxGeneration <- 2, MaxBuilds <- 1

\* Caches of every released layout, opened by three sidecars of two workspaces
Schema == INSTANCE SchemaMigration WITH
    version <- v1, schema <- v2, facts <- v3, owner <- v4, control <- v5, opener <- v6, opens <- v7,
    history <- v8,
    Openers <- {"o1", "o2", "o3"}, Identity <- "o1" :> "w" @@ "o2" :> "w" @@ "o3" :> "v",
    Legacy <- 2 .. 11, Qualifiers <- {"p", "q"}, MaxOpens <- 5

-----------------------------------------------------------------------------
(* Reference candidates: D declares, E is unrelated, M re-exports, U uses *)

mcUris == {"D", "E", "M", "U"}
mcRelative == ("./D" :> {"D"}) @@ ("./M" :> {"M"}) @@ ("./E" :> {"E"}) @@ ("./U" :> {"U"})
              @@ ("./A" :> {"D", "E"}) @@ ("./B" :> {"M", "E"})
mcNamed == {{ReExport("f", l, s)} : l \in {"f", "g"}, s \in {"./D", "./E", "./U"}}
           \cup {{Import("f", "f", "./D"), ExportLocal("f")}, {Declare("f")},
                 {ReExport("default", "f", "./D")}}
mcReExporting == (IF "named" \in Forms THEN mcNamed ELSE {})
                 \cup (IF "star" \in Forms THEN {{Star("./D")}} ELSE {})
\* Two bindings of a name, a default export of a package or a namespace, a specifier that
\* may stand for the barrel or another file
mcRare ==
    {{Import("f", "f", "./D"), Import("f", "g", "./E"), Use("f")},
     {Import("default", "g", "pkg"), Use("g")}, {Namespace("n", "./D"), Member("n", "default")}}
    \cup {{Import("f", l, "./B"), Use(l)} : l \in {"f", "g"}}
mcUsing ==
    {{Import("f", l, s), Use(l)} : l \in {"f", "g"}, s \in {"./D", "./M", "./E", "./A", "pkg", "sdk"}}
    \cup {{Import("g", l, "./M"), Use(l)} : l \in {"f", "g"}}
    \cup {{ReExport("f", "f", s)} : s \in {"./D", "./M", "./E", "./A", "pkg"}}
    \cup {{Import("default", "g", s), Use("g")} : s \in {"./D", "./M", "./A"}}
    \cup {{Namespace("n", "./M"), Member("n", "f")},
          {Import("default", "n", "sdk"), Member("n", "f")}, {Use("f")}}
    \cup (IF "rare" \in Forms THEN mcRare ELSE {})
mcTexts ==
    "D" :> {{Declare("f")}, {DeclareDefault("f")}}
    @@ "E" :> {{Declare("f")}, {Declare("g")}, {ReExport("f", "f", "./D")}, {Broken}}
    @@ "M" :> mcReExporting @@ "U" :> mcUsing

Proof == INSTANCE ReferenceProof WITH
    text <- v1, documents <- v2, rejected <- v3, answer <- v4, changes <- v5,
    Uris <- mcUris, Names <- {"f", "g", "n", "default"}, Default <- "default", Texts <- mcTexts,
    Relative <- mcRelative, Packages <- "pkg" :> "M", Sdk <- {"sdk"},
    Scopes <- {mcUris, mcUris \ {"E"}}, Limit <- 3, MaxNames <- 4, MaxChanges <- 5
-----------------------------------------------------------------------------
(* Base classes: a extends a class of b.ets, b.ts or x, which has an alias *)

mcPhysical == [a |-> "a", bets |-> "bets", bts |-> "bts", x |-> "x", link |-> "x"]
mcAsking == {{Extends(1, "A", "B", FALSE), Import("B", "B", "./b")},
             {Extends(1, "A", "B", FALSE), Import("C", "B", "./x.ets")}}
mcHeritage ==
    [a |-> mcAsking \cup {{Extends(1, "A", "B", FALSE), Class(2, "B", FALSE), Import("B", "B", "./x.ets")},
                          {Class(1, "A", FALSE)}},
     bets |-> {{Class(1, "B", TRUE)}, {Class(1, "B", TRUE), Other("B")},
               {ReExport("C", "B", "./x.ets"), Class(1, "B", FALSE)}},
     bts |-> {{Class(2, "B", TRUE)}},
     x |-> {{Class(1, "C", TRUE)}, {Class(2, "C", TRUE), Nested}, {Star("./b"), Class(3, "D", TRUE)}},
     link |-> {{Class(3, "C", TRUE)}}]
Absent == [kind |-> "absent", text |-> {}, stamp |-> 0]
File(t) == [kind |-> "file", text |-> t, stamp |-> 0]
mcDisks ==
    {[a |-> File(t), bets |-> b, bts |-> c, x |-> File({Class(1, "C", TRUE)})] :
        t \in mcAsking, b \in {Absent, File({ReExport("C", "B", "./x.ets"), Class(1, "B", FALSE)})},
        c \in {Absent, File({Class(2, "B", TRUE)})}}
Question(documents) == [documents |-> documents, uri |-> "a", at |-> 1]

Classes == INSTANCE ClassBinding WITH
    disk <- v1, buffer <- v2, revision <- v3, index <- v4, call <- v5, changes <- v6,
    Uris <- DOMAIN mcPhysical, Physical <- mcPhysical, Admissible <- DOMAIN mcPhysical,
    Names <- {"A", "B", "C", "D"}, Texts <- mcHeritage, Disks <- mcDisks,
    Candidates <- "./b" :> <<"bets", "bts">> @@ "./x.ets" :> <<"x">>,
    Questions <- {Question({"a", "bets", "bts", "x"}), Question({"a", "bts"}), Question({"a", "x", "link"})},
    MaxVisited <- 3, MaxBytes <- 3, MaxChanges <- 2

-----------------------------------------------------------------------------
(* The editor's side, and the watchdog of the worker *)

Calls == INSTANCE CallHierarchy WITH
    disk <- v1, editor <- v2, call <- v3, changes <- v4,
    Files <- {"f1", "f2"}, Texts <- {1, 2}, MaxSources <- 2, MaxChanges <- 2

Watched == INSTANCE FileChanges WITH
    onDisk <- v1, reported <- v2, pending <- v3, dirty <- v4, members <- v5, outdated <- v6, events <- v7,
    merged <- v8,
    Sources <- [a |-> 1, b |-> 1, c |-> 2], Resources <- [s |-> 1], Configurations <- [p |-> 2],
    Roots <- {1, 2}, MaxPendingPaths <- 2, MaxEvents <- 4

Deadlines == INSTANCE Watchdog WITH
    waiting <- v1, failed <- v2, cell <- v3, progress <- v4, mail <- v5, checkpoints <- v6, quiet <- v7,
    inside <- v8,
    Reads <- {"c1"}, Mutations <- {"m1"}, Limit <- [c1 |-> 4, m1 |-> 1], Preparation <- 3, Grace <- 2,
    MaxActivity <- 2

-----------------------------------------------------------------------------
Unused4 == v5 = Unused /\ v6 = Unused /\ v7 = Unused /\ v8 = Unused
Unused5 == v6 = Unused /\ v7 = Unused /\ v8 = Unused

Init ==
    /\ part \in Parts
    /\ \/ part = "views" /\ Views!Init /\ v8 = Unused
       \/ part = "scopes" /\ Scoping!Init /\ v8 = Unused
       \/ part = "aliases" /\ Aliases!Init /\ v8 = Unused
       \/ part = "buffers" /\ Buffers!Init /\ v8 = Unused
       \/ part = "shared" /\ Shared!Init /\ Unused5
       \/ part = "private" /\ Private!Init /\ Unused5
       \/ part = "schema" /\ Schema!Init
       \/ part = "proof" /\ Proof!Init /\ Unused5
       \/ part = "classes" /\ Classes!Init /\ v7 = Unused /\ v8 = Unused
       \/ part = "calls" /\ Calls!Init /\ Unused4
       \/ part = "watched" /\ Watched!Init
       \/ part = "deadlines" /\ Deadlines!Init

Next ==
    \/ part = "views" /\ Views!Next /\ UNCHANGED <<part, v8>>
    \/ part = "scopes" /\ Scoping!Next /\ UNCHANGED <<part, v8>>
    \/ part = "aliases" /\ Aliases!Next /\ UNCHANGED <<part, v8>>
    \/ part = "buffers" /\ Buffers!Next /\ UNCHANGED <<part, v8>>
    \/ part = "shared" /\ Shared!Next /\ UNCHANGED <<part, v6, v7, v8>>
    \/ part = "private" /\ Private!Next /\ UNCHANGED <<part, v6, v7, v8>>
    \/ part = "schema" /\ Schema!Next /\ UNCHANGED part
    \/ part = "proof" /\ Proof!Next /\ UNCHANGED <<part, v6, v7, v8>>
    \/ part = "classes" /\ Classes!Next /\ UNCHANGED <<part, v7, v8>>
    \/ part = "calls" /\ Calls!Next /\ UNCHANGED <<part, v5, v6, v7, v8>>
    \/ part = "watched" /\ Watched!Next /\ UNCHANGED part
    \/ part = "deadlines" /\ Deadlines!Next /\ UNCHANGED part

Spec == Init /\ [][Next]_all

-----------------------------------------------------------------------------

\* A compiler context is only used again for a view it is current for, on the
\* ordinary and on the resident path, and the change history it is judged by
\* is a gapless chain (WorkspaceContents).
ContextsAreCurrent ==
    /\ part = "views" => Views!ContextsAreCurrent
    /\ part = "scopes" => Scoping!ContextsAreCurrent
    /\ part = "aliases" => Aliases!ContextsAreCurrent
    /\ part = "buffers" => Buffers!TypeOK /\ Buffers!ContextsAreCurrent

\* The SQLite and the in-memory store answer alike, each answer belongs to the
\* generation it names, generations grow with every change, search structures
\* match their tables, and a migrated cache has no invented facts (SqliteStore). A cache
\* is only used with its full schema, except where openers overlapped in the chain of
\* migrations after another had been killed inside it (SchemaMigration).
StoresAreConsistent ==
    /\ [](/\ part = "shared" => /\ Shared!StoresAgree /\ Shared!AnswersMatchTheirGeneration
                               /\ Shared!SearchIndexMatchesTables
          /\ part = "private" => Private!StoresAgree /\ Private!SearchIndexMatchesTables
          /\ part = "schema" => Schema!OpenStoresHaveTheirSchema /\ Schema!MigratedRowsClaimNothing)
    /\ [][/\ part = "shared" => Shared!GenerationsGrow
          /\ part = "private" => Private!GenerationsGrow]_all

\* Every file that refers to the declaration is among the candidates of an
\* answer the server accepts as complete (ReferenceProof): what the report on
\* conservative narrowing says of the index. The code drops files that refer
\* to it by a form the index does not follow.
ReferencesAreCovered ==
    part = "proof" => Proof!ReferencesAreCovered

\* Every file that refers to the declaration by a chain the index follows is among
\* the candidates of an answer the server accepts as complete. Followed is every
\* chain but those FollowedExports and RefersAsFollowed name: through `export *`, through
\* a file that is not admitted, through an import exported again behind a specifier with
\* several candidates, from a file that binds the name from two modules, and, to a default
\* export, through a namespace or a package (ReferenceProof).
FollowedReferencesAreCovered ==
    part = "proof" => Proof!FollowedReferencesAreCovered

\* A base class is the one the compiler would find: of the current files when
\* they were captured, of the stored generation otherwise (ClassBinding).
BindingsAreExact ==
    /\ [](part = "classes" => Classes!SnapshotBindingsAreExact)
    /\ [][part = "classes" => Classes!AcceptedIsCurrent]_all

\* Call hierarchies describe one state of the sources they quote; when watched
\* changes are delivered the store lists no source that is gone and every changed
\* source is diagnosed again. What the store lacks are sources whose creation was
\* merged with a later event of the same batch (CallHierarchy, FileChanges).
SourcesAreFollowed ==
    /\ part = "calls" => Calls!AnswersAreSnapshots
    /\ part = "watched" => Watched!TypeOK /\ Watched!MembersFollowDisk /\ Watched!ChangesAreDiagnosed

\* The watchdog gives a cancelled read its grace, lets a Program commit end and
\* still bounds every stall (Watchdog).
DeadlinesAreFair == part = "deadlines" => Deadlines!DeadlinesAreFair
=============================================================================
