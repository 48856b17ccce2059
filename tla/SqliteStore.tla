---------------------------- MODULE SqliteStore ----------------------------
(***************************************************************************)
(* The SQLite symbol store: tables keyed by document and ordinal, the       *)
(* trigram index kept by triggers, the occurrence identities beside the     *)
(* occurrences, several connections that read and write one database, and   *)
(* the catalog build that fills a private database in bounded transactions. *)
(*                                                                          *)
(* SQLite itself is external: a transaction is atomic, an immediate one     *)
(* holds the write lock, a deferred one reads the snapshot of its first     *)
(* statement, deleting a document cascades to its rows and fires their      *)
(* triggers.                                                                *)
(***************************************************************************)
EXTENDS Naturals, FiniteSets, SequencesExt

CONSTANTS
    Uris,
    Facts,          \* what the parser may know of each: [heritage: known or not, rows: names per section]
    Writers, Readers,
    MaxGeneration,  \* bound: the largest generation a writer asks for
    MaxBuilds       \* bound: catalog builds

Sections == {"symbols", "exports", "occurrences", "aliases", "bindings", "classes"}

VARIABLES
    db,             \* the published database
    writer,         \* the generation each writer passed its preflight with; 0 when idle
    reader,         \* the transaction of each reader
    build,          \* the catalog build and its private database
    memory          \* an in-memory store given the same batches

vars == <<db, writer, reader, build, memory>>

-----------------------------------------------------------------------------
(* Tables *)

Empty == [documents |-> <<>>, rows |-> {}, identities |-> {}, trigrams |-> {},
          deleteTrigger |-> TRUE, rejected |-> {}, generation |-> 0]

RowsOf(u, section, names, offset) ==
    {[uri |-> u, section |-> section, ordinal |-> offset + i, name |-> names[i]] : i \in DOMAIN names}

Key(row) == <<row.uri, row.section, row.ordinal>>
KeysAreNew(d, rows) == {Key(r) : r \in d.rows} \cap {Key(r) : r \in rows} = {}

\* The insert trigger copies every symbol's name
InsertRows(d, rows) ==
    [d EXCEPT !.rows = @ \cup rows,
              !.trigrams = @ \cup {r \in rows : r.section = "symbols"}]

\* The names that occur, each once
InsertIdentities(d, rows) ==
    [d EXCEPT !.identities = @ \cup {<<r.uri, r.name>> : r \in {x \in rows : x.section = "occurrences"}}]

\* Mutant: foreign keys are not enforced
DeleteDocumentM(d, u) == [d EXCEPT !.documents = [v \in DOMAIN @ \ {u} |-> @[v]]]

\* DELETE FROM documents: its rows follow, and the trigger takes the symbols out of the trigrams
DeleteDocument(d, u) ==
    LET gone == {r \in d.rows : r.uri = u}
    IN  [d EXCEPT !.documents = [v \in DOMAIN @ \ {u} |-> @[v]],
                  !.rows = @ \ gone,
                  !.identities = {p \in @ : p[1] # u},
                  !.trigrams = IF d.deleteTrigger THEN @ \ gone ELSE @]

InsertDocument(d, u, g) ==
    [d EXCEPT !.documents = [v \in DOMAIN @ \cup {u} |-> IF v = u THEN [generation |-> g, heritage |-> FALSE]
                                                         ELSE @[v]]]

\* The heritage marker, NULL until the document's classes are known
InsertHeritage(d, u, facts) ==
    IF facts.heritage THEN [d EXCEPT !.documents[u].heritage = TRUE] ELSE d

AllRows(u, facts) == UNION {RowsOf(u, s, facts.rows[s], 0) : s \in Sections}

InsertFacts(d, u, facts) ==
    InsertHeritage(InsertIdentities(InsertRows(d, AllRows(u, facts)), AllRows(u, facts)), u, facts)

Unreject(d, u) == [d EXCEPT !.rejected = @ \ {u}]
Reject(d, u) == [DeleteDocument(d, u) EXCEPT !.rejected = @ \cup {u}]

-----------------------------------------------------------------------------
(* Write transactions *)

Fold(op(_, _), d, S) == FoldLeft(op, d, SetToSeq(S))

\* apply_batch: removals, replacements, rejections
Refreshed(d, g, gone, new, bad) ==
    LET remove(x, u) == Unreject(DeleteDocument(x, u), u)
        replace(x, u) == InsertFacts(InsertDocument(Unreject(DeleteDocument(x, u), u), u, g), u, new[u])
    IN  [Fold(Reject, Fold(replace, Fold(remove, d, gone), DOMAIN new), bad) EXCEPT !.generation = g]

\* Mutant: the delete trigger stays dropped
ClearDocumentsM(d) == [Empty EXCEPT !.deleteTrigger = FALSE, !.generation = d.generation]

\* The trigrams are emptied at once while their delete trigger is dropped
ClearDocuments(d) == [Empty EXCEPT !.deleteTrigger = d.deleteTrigger, !.generation = d.generation]

\* replace_all
Replaced(d, g, new, bad) ==
    LET insert(x, u) == InsertFacts(InsertDocument(x, u, g), u, new[u])
    IN  [Fold(insert, ClearDocuments(d), DOMAIN new) EXCEPT !.rejected = bad, !.generation = g]

-----------------------------------------------------------------------------
(* What the tables say of a document *)

Listed(d, u, s) ==
    LET mine == {r \in d.rows : r.uri = u /\ r.section = s}
    IN  [i \in 1 .. Cardinality(mine) |->
            (CHOOSE r \in mine : Cardinality({x \in mine : x.ordinal <= r.ordinal}) = i).name]

ReadDocument(d, u) == [heritage |-> u \in DOMAIN d.documents /\ d.documents[u].heritage,
                       rows |-> [s \in Sections |-> Listed(d, u, s)]]

\* A document is there when any table knows it
Present(d) == DOMAIN d.documents \cup {r.uri : r \in d.rows}
Content(d) == [u \in Present(d) |-> ReadDocument(d, u)]

-----------------------------------------------------------------------------
(* The in-memory store *)

MemoryApplied(g, gone, new, bad) ==
    [documents |-> [u \in ((DOMAIN memory.documents \ gone) \cup DOMAIN new) \ bad |->
                        IF u \in DOMAIN new THEN new[u] ELSE memory.documents[u]],
     rejected |-> (memory.rejected \ (gone \cup DOMAIN new)) \cup bad,
     generation |-> g]

MemoryReplaced(g, new, bad) == [documents |-> new, rejected |-> bad, generation |-> g]

-----------------------------------------------------------------------------
NoBuild == [at |-> "idle", db |-> Empty, todo |-> <<>>, from |-> <<>>, generation |-> 0, base |-> 0,
            left |-> MaxBuilds]
NoRead == [at |-> "idle", begun |-> 0, rows |-> 0, generation |-> 0]

Init == /\ db = Empty
        /\ writer = [w \in Writers |-> 0]
        /\ reader = [r \in Readers |-> NoRead]
        /\ build = NoBuild
        /\ memory = MemoryReplaced(0, <<>>, {})

\* The parsed documents of a batch, and the ones it removes or rejects: at most one each
Batches == UNION {{f \in [S -> UNION {Facts[u] : u \in S}] : \A u \in S : f[u] \in Facts[u]} :
                    S \in SUBSET Uris}
Few == {S \in SUBSET Uris : Cardinality(S) <= 1}

\* The generation is compared before the batch is checked and the transaction begun
Preflight(w) ==
    \E g \in db.generation + 1 .. MaxGeneration :
        /\ writer[w] = 0
        /\ writer' = [writer EXCEPT ![w] = g]
        /\ UNCHANGED <<db, reader, build, memory>>

\* Mutant: the generation is not compared again
NewerM(g) == TRUE

\* ... and again under the write lock
Newer(g) == g > db.generation

ApplyBatch(w) ==
    /\ writer[w] # 0 /\ Newer(writer[w])
    /\ \E gone, bad \in Few, new \in Batches :
            /\ db' = Refreshed(db, writer[w], gone, new, bad)
            /\ memory' = MemoryApplied(writer[w], gone, new, bad)
    /\ writer' = [writer EXCEPT ![w] = 0]
    /\ UNCHANGED <<reader, build>>

ReplaceCatalog(w) ==
    /\ writer[w] # 0 /\ Newer(writer[w])
    /\ \E bad \in Few, new \in Batches :
            /\ db' = Replaced(db, writer[w], new, bad)
            /\ memory' = MemoryReplaced(writer[w], new, bad)
    /\ writer' = [writer EXCEPT ![w] = 0]
    /\ UNCHANGED <<reader, build>>

\* An older generation, an SQLite error or a crash: the transaction rolls back
RollBack(w) ==
    /\ writer[w] # 0
    /\ writer' = [writer EXCEPT ![w] = 0]
    /\ UNCHANGED <<db, reader, build, memory>>

-----------------------------------------------------------------------------
(* Catalog build *)

\* The documents in uri order, into a private database
BeginBuild ==
    \E g \in db.generation + 1 .. MaxGeneration, new \in Batches, bad \in Few :
        /\ build.at = "idle" /\ build.left > 0
        /\ build' = [at |-> "writing", db |-> [Empty EXCEPT !.rejected = bad], from |-> new,
                     todo |-> [i \in 1 .. Cardinality(DOMAIN new) |->
                                LET u == SetToSeq(DOMAIN new)[i] IN [uri |-> u, facts |-> new[u]]],
                     generation |-> g, base |-> db.generation, left |-> build.left - 1]
        /\ UNCHANGED <<db, writer, reader, memory>>

Doc == Head(build.todo)

\* A document within the batch bounds, in one transaction
WriteDocument ==
    /\ build.at = "writing" /\ build.todo # <<>>
    /\ build' = [build EXCEPT !.todo = Tail(@),
                              !.db = InsertFacts(InsertDocument(@, Doc.uri, build.generation), Doc.uri, Doc.facts)]
    /\ UNCHANGED <<db, writer, reader, memory>>

\* An oversized one: first its row with the heritage marker ...
WriteBase ==
    /\ build.at = "writing" /\ build.todo # <<>>
    /\ build' = [build EXCEPT !.at = "chunks",
                              !.todo = <<[uri |-> Doc.uri, facts |-> Doc.facts, left |-> Doc.facts.rows]>> \o Tail(@),
                              !.db = InsertHeritage(InsertDocument(@, Doc.uri, build.generation),
                                                    Doc.uri, Doc.facts)]
    /\ UNCHANGED <<db, writer, reader, memory>>

Sequence == <<"symbols", "exports", "occurrences", "aliases", "bindings", "classes">>
Unwritten == {i \in DOMAIN Sequence : Doc.left[Sequence[i]] # <<>>}

\* Ordinals go on where the last chunk of the section ended
Offset(s) == Len(Doc.facts.rows[s]) - Len(Doc.left[s])

\* ... then each section in chunks, an identity that is already there being ignored
WriteChunk ==
    /\ build.at = "chunks" /\ Unwritten # {}
    /\ LET s == Sequence[CHOOSE i \in Unwritten : \A j \in Unwritten : i <= j]
       IN  \E n \in 1 .. Len(Doc.left[s]) :
            LET rows == RowsOf(Doc.uri, s, SubSeq(Doc.left[s], 1, n), Offset(s))
            IN  /\ KeysAreNew(build.db, rows)
                /\ build' = [build EXCEPT !.db = InsertIdentities(InsertRows(@, rows), rows),
                                          !.todo[1].left[s] = SubSeq(@, n + 1, Len(@))]
    /\ UNCHANGED <<db, writer, reader, memory>>

DocumentWritten ==
    /\ build.at = "chunks" /\ Unwritten = {}
    /\ build' = [build EXCEPT !.at = "writing", !.todo = Tail(@)]
    /\ UNCHANGED <<db, writer, reader, memory>>

\* PRAGMA foreign_key_check and the trigrams' integrity check
Valid(d) == /\ {r.uri : r \in d.rows} \subseteq DOMAIN d.documents
            /\ d.trigrams = {r \in d.rows : r.section = "symbols"}

\* The metadata, the checks, and the publication IndexCatalog describes: not over a newer one
Publish ==
    LET done == [build.db EXCEPT !.generation = build.generation]
    IN  /\ build.at = "writing" /\ build.todo = <<>> /\ Valid(done)
        /\ build.base = db.generation
        /\ db' = done
        /\ memory' = MemoryReplaced(build.generation, build.from, done.rejected)
        /\ build' = [NoBuild EXCEPT !.left = build.left]
        /\ UNCHANGED <<writer, reader>>

\* Cancelled, failed, killed or overtaken: the private database is dropped
AbandonBuild ==
    /\ build.at # "idle"
    /\ build' = [NoBuild EXCEPT !.left = build.left]
    /\ UNCHANGED <<db, writer, reader, memory>>

-----------------------------------------------------------------------------
(* Reads *)

\* Mutant: the statements run without a transaction
SnapshotM(r) == db.generation

\* A deferred transaction sees the database of its first statement
Snapshot(r) == IF reader[r].at = "idle" THEN db.generation ELSE reader[r].begun

\* The rows come first in search and search_exports, the generation in the reference and
\* class searches
BeginRead(r) ==
    /\ reader[r].at = "idle"
    /\ \E first \in {"rows", "generation"} :
            reader' = [reader EXCEPT ![r] = [NoRead EXCEPT !.at = first, !.begun = Snapshot(r), ![first] = Snapshot(r)]]
    /\ UNCHANGED <<db, writer, build, memory>>

EndRead(r) ==
    /\ reader[r].at \in {"rows", "generation"}
    /\ LET rest == IF reader[r].at = "rows" THEN "generation" ELSE "rows"
       IN  reader' = [reader EXCEPT ![r] = [@ EXCEPT !.at = "answered", ![rest] = Snapshot(r)]]
    /\ UNCHANGED <<db, writer, build, memory>>

Delivered(r) ==
    /\ reader[r].at = "answered"
    /\ reader' = [reader EXCEPT ![r] = NoRead]
    /\ UNCHANGED <<db, writer, build, memory>>

-----------------------------------------------------------------------------
Next == \/ \E w \in Writers : Preflight(w) \/ ApplyBatch(w) \/ ReplaceCatalog(w) \/ RollBack(w)
        \/ BeginBuild \/ WriteDocument \/ WriteBase \/ WriteChunk \/ DocumentWritten
        \/ Publish \/ AbandonBuild
        \/ \E r \in Readers : BeginRead(r) \/ EndRead(r) \/ Delivered(r)

Spec == Init /\ [][Next]_vars

-----------------------------------------------------------------------------
\* The tables and the in-memory store agree: whichever way a document's rows were written,
\* replaced, cascaded away, filled in chunks or published, reading them back gives the facts
\* the batches put there, and no batch is applied over a newer generation.
StoresAgree ==
    /\ Content(db) = memory.documents
    /\ db.rejected = memory.rejected /\ db.generation = memory.generation

\* An answer's rows are the ones of the generation it says it was served from.
AnswersMatchTheirGeneration ==
    \A r \in Readers : reader[r].at = "answered" => reader[r].rows = reader[r].generation

\* In every step the generation grows or nothing changes, so that equal generations mean
\* equal content.
GenerationsGrow == db' # db => db'.generation > db.generation

\* The search structures kept beside the tables, by triggers and by hand, say what the
\* tables say.
SearchIndexMatchesTables ==
    /\ db.trigrams = {r \in db.rows : r.section = "symbols"}
    /\ db.identities = {<<r.uri, r.name>> : r \in {x \in db.rows : x.section = "occurrences"}}
=============================================================================
