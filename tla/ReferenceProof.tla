--------------------------- MODULE ReferenceProof ---------------------------
(***************************************************************************)
(* Which files can hold a reference to a declaration: the index's answer.   *)
(* Every document is reduced to its exports, its import and re-export       *)
(* bindings and the identifiers that occur in it; the query follows the     *)
(* bindings from the declaration, sorts them into proven, disjoint and       *)
(* unknown, and names the files the compiler still has to read.             *)
(*                                                                          *)
(* A document is a set of statements; what the compiler makes of them is    *)
(* the reference the answers are compared with.                             *)
(***************************************************************************)
EXTENDS Integers, FiniteSets, SequencesExt, SourceStatements

CONSTANTS
    Uris,           \* the documents of the workspace
    Names,          \* the identifiers documents use
    Default,        \* the one of them that is "default"
    Texts,          \* [Uris -> sets of statement sets]: what a document may say
    Relative,       \* [relative specifiers -> the documents it may stand for]
    Packages,       \* [package specifiers -> the document the project resolves it to]
    Sdk,            \* SDK module specifiers
    Scopes,         \* sets of admitted documents; Uris is "no admission roots"
    Limit,          \* query.limit
    MaxNames,       \* MAX_REFERENCE_ALIAS_NAMES
    MaxChanges      \* bound: refreshes of one behaviour

VARIABLES
    text,           \* what each document says; {} when it does not exist
    documents,      \* the store's documents: the metadata of each indexed one
    rejected,       \* documents the parser refused
    answer,         \* the last candidate answer, NoAnswer after a change
    changes

vars == <<text, documents, rejected, answer, changes>>

-----------------------------------------------------------------------------
(* The metadata the parser keeps of the statements *)

Bare(n) == [name |-> n, qualified |-> FALSE, qualifier |-> <<>>]

\* Every identifier token, with the one before a dot as its qualifier
Occurrences(stmts) ==
    {Bare(s.name) : s \in stmts \ (Form(stmts, "import") \cup Form(stmts, "reexport")
        \cup Form(stmts, "star") \cup Form(stmts, "namespace") \cup Form(stmts, "member"))}
    \cup {Bare(Default) : s \in Form(stmts, "declareDefault")}
    \cup {Bare(s.local) : s \in Form(stmts, "import") \cup Form(stmts, "reexport")
                                \cup Form(stmts, "namespace")}
    \* "import D from" has no token for the imported name
    \cup {Bare(s.imported) : s \in Form(stmts, "reexport")
            \cup {i \in Form(stmts, "import") : i.imported # Default}}
    \cup {Bare(s.qualifier) : s \in Form(stmts, "member")}
    \cup {[name |-> s.name, qualified |-> TRUE, qualifier |-> <<s.qualifier>>] :
            s \in Form(stmts, "member")}

\* Exported top-level declarations, by the name other files import them under
Exports(stmts) ==
    {[name |-> s.name, exportName |-> s.name] : s \in Form(stmts, "declare")}
    \cup {[name |-> s.name, exportName |-> Default] : s \in Form(stmts, "declareDefault")}

\* Named and default imports and re-exports with a source; nothing else binds
Bindings(u, stmts) ==
    {[uri |-> u, imported |-> s.imported, local |-> s.local, from |-> s.from, kind |-> s.form] :
        s \in Form(stmts, "import") \cup Form(stmts, "reexport")}

Parse(u, stmts) ==
    [exports |-> Exports(stmts), occurrences |-> Occurrences(stmts), bindings |-> Bindings(u, stmts)]

-----------------------------------------------------------------------------
(* What the compiler makes of the statements *)

\* The document a specifier names; the first one that exists
Sources(spec) ==
    IF spec \in DOMAIN Relative THEN {v \in Relative[spec] : text[v] # {}}
    ELSE IF spec \in DOMAIN Packages THEN {Packages[spec]} ELSE {}

\* The declarations an export name of a document stands for, k files away
Exported[k \in 0 .. Cardinality(Uris) + 1, u \in Uris, n \in Names] ==
    LET via(s, m) == IF k = 0 THEN {} ELSE UNION {Exported[k - 1, v, m] : v \in Sources(s)}
        own == {<<u, e.exportName>> : e \in {x \in Exports(text[u]) : x.exportName = n}}
               \cup UNION {via(s.from, s.imported) :
                            s \in {x \in Form(text[u], "reexport") : x.local = n}}
               \cup UNION {UNION {via(i.from, i.imported) :
                            i \in {x \in Form(text[u], "import") : x.local = n}} :
                            s \in {x \in Form(text[u], "exportLocal") : x.name = n}}
    IN  IF own # {} \/ n = Default THEN own
        ELSE UNION {via(s.from, n) : s \in Form(text[u], "star")}

Reached(spec, n) == UNION {Exported[Cardinality(Uris) + 1, v, n] : v \in Sources(spec)}

\* A document refers to a declaration in a specifier, by name or through a namespace
Refers(u, target) ==
    \/ \E s \in Form(text[u], "import") \cup Form(text[u], "reexport") :
            target \in Reached(s.from, s.imported)
    \/ \E s \in Form(text[u], "member"), i \in Form(text[u], "namespace") :
            i.local = s.qualifier /\ target \in Reached(i.from, s.name)

-----------------------------------------------------------------------------
(* Query: names, bindings and their sources *)

Indexed == DOMAIN documents
Admitted(scope, home) == {u \in Indexed : u = home \/ u \in scope}
AllBindings(us) == UNION {documents[u].bindings : u \in us}
NamesOf(bs) == {b.imported : b \in bs} \cup {b.local : b \in bs}

\* The smallest set of names closed under the bindings' aliases in both directions
AliasNames(seeds, bs) ==
    LET closed(S) == \A b \in bs : b.imported \in S <=> b.local \in S
    IN  {n \in seeds \cup NamesOf(bs) :
            \A S \in SUBSET (seeds \cup NamesOf(bs)) : (seeds \subseteq S /\ closed(S)) => n \in S}

\* The indexed documents a relative specifier may stand for
Located(b) == IF b.from \in DOMAIN Relative THEN Relative[b.from] \cap Indexed ELSE {}

\* Where a binding's source leads by its path alone
ByPath(b) ==
    [as |-> IF b.from \notin DOMAIN Relative THEN "unsupported"
            ELSE IF Located(b) = {} THEN "unresolved"
            ELSE IF Cardinality(Located(b)) = 1 THEN "unique" ELSE "ambiguous",
     to |-> Located(b)]

\* What the project resolved settles the sources their path does not
Resolve(b, resolved) ==
    IF ~resolved \/ ByPath(b).as = "unique" THEN ByPath(b)
    ELSE IF b.from \in Sdk THEN [as |-> "external", to |-> {}]
    ELSE IF b.from \in DOMAIN Packages THEN [as |-> "unique", to |-> {Packages[b.from]}]
    ELSE ByPath(b)

-----------------------------------------------------------------------------
(* prove_reference_binding_chain *)

\* Mutant: a specifier with several candidates is never followed
PossibleM(bs, how, home, name, exportName) ==
    LET seeds == {b \in bs : how[b].as \in {"unsupported", "unresolved"}
                    /\ b.from \notin Sdk /\ b.from \notin DOMAIN Relative}
    IN  seeds

\* The bindings that may carry the target: unresolvable packages, then what follows from them
Possible(bs, how, home, name, exportName) ==
    LET seeds == {b \in bs : how[b].as \in {"unsupported", "unresolved"}
                    /\ b.from \notin Sdk /\ b.from \notin DOMAIN Relative
                    /\ (exportName # Default \/ b.imported = exportName \/ b.local = name)}
        carries(S, v, n) == <<v, n>> = <<home, exportName>>
                            \/ \E c \in S : c.kind = "reexport" /\ c.uri = v /\ c.local = n
        closed(S) == \A b \in bs : (\E v \in how[b].to : carries(S, v, b.imported)) => b \in S
    IN  {b \in bs : \A S \in SUBSET bs : (seeds \subseteq S /\ closed(S)) => b \in S}

\* One look at a binding, given the ones already proven and disjoint
Classify(b, state, how, known, independent, possible, home, exportName) ==
    LET source == CHOOSE v \in how[b].to : TRUE
        exports(S) == \E c \in S : c.kind = "reexport" /\ c.uri = source /\ c.local = b.imported
        proven == <<source, b.imported>> = <<home, exportName>> \/ exports(state.proven)
        disjoint == <<source, b.imported>> \in independent \/ exports(state.disjoint)
        apart == \/ how[b].as = "external"
                 \/ b.kind = "import" /\ how[b].as = "unresolved" /\ b.from \in DOMAIN Relative
                 \/ how[b].as = "ambiguous" /\ b \notin possible
                 \/ how[b].as = "unique" /\ source \notin known
                 \/ how[b].as = "unique" /\ disjoint /\ ~proven
    IN  IF apart THEN [state EXCEPT !.disjoint = @ \cup {b}]
        ELSE IF how[b].as = "unique" /\ proven /\ ~disjoint
        THEN [state EXCEPT !.proven = @ \cup {b}] ELSE state

\* Passes over the bindings in the given order until one reaches no new binding
Chain(order, bs, how, known, independent, possible, home, exportName) ==
    LET look(s, b) == IF b \in bs THEN Classify(b, s, how, known, independent, possible, home, exportName)
                      ELSE s
        pass[k \in 0 .. Cardinality(bs) + 1] ==
            IF k = 0 THEN [proven |-> {}, disjoint |-> {}, grew |-> TRUE]
            ELSE LET before == pass[k - 1]
                     after == FoldLeft(look, before, order)
                 IN  IF ~before.grew THEN before
                     ELSE [after EXCEPT !.grew = before.proven \cup before.disjoint
                                                # after.proven \cup after.disjoint]
    IN  pass[Cardinality(bs) + 1]

Capped(us) == IF Cardinality(us) <= Limit THEN us ELSE {}

\* Mutant: open bindings do not keep the proof from being whole
DefaultVerdictM(state, possible, home) ==
    LET named == {b.uri : b \in state.proven} \cup {home}
        whole == Cardinality(named) <= Limit
    IN  [proven |-> whole, identity |-> IF whole THEN named ELSE {}, narrowed |-> {}]

\* The proof's verdict on a default export: by its binding documents alone
DefaultVerdict(state, possible, home) ==
    LET open == possible \ (state.proven \cup state.disjoint)
        named == {b.uri : b \in state.proven} \cup {home}
        whole == open = {} /\ Cardinality(named) <= Limit
    IN  [proven |-> whole, identity |-> IF whole THEN named ELSE {},
         narrowed |-> Capped(named \cup {b.uri : b \in open})]

\* The proof's verdict on a named export: by the identifiers that occur
NamedVerdict(state, bs, how, occurrences, independent, home, name, exportName) ==
    LET binds(S, o) == \E b \in S : b.uri = o.uri /\ o.name \in {b.imported, b.local}
        proven(o) == (o.uri = home /\ o.name \in {name, exportName}) \/ binds(state.proven, o)
        external(o) == \E b \in bs : how[b].as = "external" /\ b.uri = o.uri /\ <<b.local>> = o.qualifier
        disjoint(o) == \/ ~o.qualified /\ (binds(state.disjoint, o) \/ <<o.uri, o.name>> \in independent)
                       \/ o.qualified /\ external(o)
        named == {o.uri : o \in {x \in occurrences : proven(x)}}
        whole == /\ state.proven \cup state.disjoint = bs
                 /\ \A o \in occurrences : proven(o) \/ disjoint(o)
                 /\ Cardinality(named) <= Limit
        kept == {o.uri : o \in {x \in occurrences : ~disjoint(x)}} \cup {home}
        all == {o.uri : o \in occurrences} \cup {home}
    IN  [proven |-> whole, identity |-> IF whole THEN named ELSE {},
         narrowed |-> IF Cardinality(kept) < Cardinality(all) THEN Capped(kept) ELSE {}]

-----------------------------------------------------------------------------
(* search_reference_candidates *)

NoAnswer == [supported |-> FALSE]

Named(u, es) == {[uri |-> u, name |-> e.name, exportName |-> e.exportName] : e \in es}

\* The declaration an import at a position leads to
ImportedDeclarations(u, at, resolved, scope) ==
    LET found == {b \in documents[u].bindings : b.kind = "import" /\ b.local = at}
        to == {v \in UNION {Resolve(b, resolved).to : b \in found} \cap Indexed : v = u \/ v \in scope}
        imported == {b.imported : b \in found}
    IN  IF Cardinality(found) = 1 /\ \A b \in found : Resolve(b, resolved).as = "unique"
        THEN UNION {Named(v, {e \in documents[v].exports : e.exportName \in imported}) : v \in to}
        ELSE {}

\* The declaration at a position: an export there, or the one an import there leads to
Declarations(u, at, resolved, scope) ==
    LET here == {e \in documents[u].exports : e.name = at}
    IN  IF here # {} THEN Named(u, here) ELSE ImportedDeclarations(u, at, resolved, scope)

Occurring(names, inside) ==
    UNION {{[uri |-> u, name |-> o.name, qualified |-> o.qualified, qualifier |-> o.qualifier] :
                o \in {x \in documents[u].occurrences : x.name \in names}} : u \in inside}

\* The bindings of the names, and those that bring in what qualifies one of them
Relevant(names, occurrences, inside) ==
    LET bs == AllBindings(inside)
        qualifiers == {n \in NamesOf(bs) : \E o \in occurrences : o.qualifier = <<n>>}
    IN  {b \in bs : b.imported \in names \/ b.local \in names \cup qualifiers}

\* Other declarations exported under one of the names
Independent(d, names, inside) ==
    {p \in inside \X names : /\ p # <<d.uri, d.exportName>>
                             /\ \E e \in documents[p[1]].exports : e.exportName = p[2]}

OutsideAdmission(bs, how, scope, inside) ==
    scope # Uris /\ \E b \in bs : how[b].as = "unique" /\ how[b].to \cap (Indexed \ inside) # {}

Candidates(d, scope, resolved, order) ==
    LET inside == Admitted(scope, d.uri)
        names == AliasNames({d.name, d.exportName}, AllBindings(inside))
        occurrences == Occurring(names, inside)
        bs == Relevant(names, occurrences, inside)
        how == [b \in bs |-> Resolve(b, resolved)]
        independent == Independent(d, names, inside)
        uris == {o.uri : o \in occurrences}
        known == uris \cup {b.uri : b \in bs} \cup {p[1] : p \in independent} \cup {d.uri}
        possible == Possible(bs, how, d.uri, d.name, d.exportName)
        state == Chain(order, bs, how, known, independent, possible, d.uri, d.exportName)
        verdict == IF d.exportName = Default THEN DefaultVerdict(state, possible, d.uri)
                   ELSE NamedVerdict(state, bs, how, occurrences, independent, d.uri, d.name, d.exportName)
    IN  IF Cardinality(names) > MaxNames \/ OutsideAdmission(bs, how, scope, inside) THEN NoAnswer
        ELSE [supported |-> TRUE, complete |-> Cardinality(uris) <= Limit,
              target |-> <<d.uri, d.exportName>>, scope |-> inside, uris |-> uris,
              proven |-> verdict.proven, identity |-> verdict.identity, narrowed |-> verdict.narrowed]

-----------------------------------------------------------------------------
(* The workspace *)

Init == /\ text = [u \in Uris |-> {}] /\ documents = <<>> /\ rejected = {}
        /\ answer = NoAnswer /\ changes = 0

\* A document is parsed and its facts replaced, or it is rejected and its facts dropped
Refresh(u) ==
    \E t \in Texts[u] :
        /\ changes < MaxChanges /\ changes' = changes + 1
        /\ text' = [text EXCEPT ![u] = t]
        /\ documents' = [v \in (Indexed \ {u}) \cup (IF Broken \in t THEN {} ELSE {u}) |->
                            IF v = u THEN Parse(u, t) ELSE documents[v]]
        /\ rejected' = IF Broken \in t THEN rejected \cup {u} ELSE rejected \ {u}
        /\ answer' = NoAnswer

\* A document is removed from the workspace
RemoveDocument(u) ==
    /\ text[u] # {} /\ changes < MaxChanges /\ changes' = changes + 1
    /\ text' = [text EXCEPT ![u] = {}]
    /\ documents' = [v \in Indexed \ {u} |-> documents[v]]
    /\ rejected' = rejected \ {u}
    /\ answer' = NoAnswer

\* The store reads its bindings in an order of its own
Search(u) ==
    \E o \in {x \in documents[u].occurrences : ~x.qualified}, scope \in Scopes, resolved \in BOOLEAN :
        \E ds \in {Declarations(u, o.name, resolved, scope)} :
            \E order \in SetToSeqs(AllBindings(Indexed)) :
                /\ Cardinality(ds) = 1
                /\ answer' = Candidates(CHOOSE d \in ds : TRUE, scope, resolved, order)
                /\ UNCHANGED <<text, documents, rejected, changes>>

Next == \/ \E u \in Uris : Refresh(u) \/ RemoveDocument(u)
        \/ \E u \in Indexed : answer = NoAnswer /\ Search(u)

Spec == Init /\ [][Next]_vars

-----------------------------------------------------------------------------
\* What the client reads: the proven files, else the narrowed ones, else every candidate
Selected == IF answer.proven THEN answer.identity
            ELSE IF answer.narrowed # {} THEN answer.narrowed ELSE answer.uris

\* The answers a client takes: every document indexed, within the limit
Accepted == answer.supported /\ rejected = {} /\ answer.complete

Covered(refers(_, _)) ==
    \A u \in answer.scope : refers(u, answer.target) => u \in Selected \cup {answer.target[1]}

\* No file that refers to the declaration is left out of an answer the client takes. The
\* code does not keep this.
ReferencesAreCovered == Accepted => Covered(Refers)

(* The references the index follows *)

\* A default export is followed by paths alone
FollowedSpecifiers ==
    IF answer.target[2] = Default THEN DOMAIN Relative ELSE DOMAIN Relative \cup DOMAIN Packages

\* Exported, without `export *`, within the admitted documents, and with what a document
\* imports and then exports only where one document is meant: listed says so
FollowedExports[k \in 0 .. Cardinality(Uris) + 1, u \in Uris, n \in Names, listed \in BOOLEAN] ==
    LET via(s, m) == IF k = 0 \/ s \notin FollowedSpecifiers THEN {}
                     ELSE UNION {FollowedExports[k - 1, v, m, Cardinality(Sources(s)) = 1] :
                                    v \in Sources(s) \cap answer.scope}
    IN  {<<u, e.exportName>> : e \in {x \in Exports(text[u]) : x.exportName = n}}
        \cup UNION {via(s.from, s.imported) : s \in {x \in Form(text[u], "reexport") : x.local = n}}
        \cup UNION {via(i.from, i.imported) :
                    i \in {x \in Form(text[u], "import") :
                            listed /\ x.local = n /\ ExportLocal(n) \in text[u]}}

FollowedFrom(spec, n) ==
    UNION {FollowedExports[Cardinality(Uris) + 1, v, n, Cardinality(Sources(spec)) = 1] :
            v \in IF spec \in FollowedSpecifiers THEN Sources(spec) \cap answer.scope ELSE {}}

\* The name is bound from one module only
BoundOnce(u, s) ==
    \A t \in Form(text[u], "import") \cup Form(text[u], "reexport") :
        {t.imported, t.local} \cap {s.imported, s.local} # {} => t.from = s.from

\* Refers, by a chain the index follows
RefersAsFollowed(u, target) ==
    \/ \E s \in Form(text[u], "import") \cup Form(text[u], "reexport") :
            BoundOnce(u, s) /\ target \in FollowedFrom(s.from, s.imported)
    \/ /\ target[2] # Default
       /\ \E s \in Form(text[u], "member"), i \in Form(text[u], "namespace") :
            i.local = s.qualifier /\ target \in FollowedFrom(i.from, s.name)

\* No file that refers to the declaration by a chain the index follows is left out of an
\* answer the client takes: what the proof drops is about another declaration.
FollowedReferencesAreCovered == Accepted => Covered(RefersAsFollowed)
=============================================================================
