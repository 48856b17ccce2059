---------------------------- MODULE ClassBinding ----------------------------
(***************************************************************************)
(* Discovery of the class a class extends.  The server captures the files   *)
(* and buffers a question may depend on, the index sidecar answers from     *)
(* the current texts of the files the capture calls present, and the        *)
(* answer is accepted only when nothing captured has changed.  A question   *)
(* without that evidence is answered from the stored rows of one            *)
(* generation and the buffers sent with it.                                 *)
(***************************************************************************)
EXTENDS Integers, Sequences, FiniteSets, SourceStatements

CONSTANTS
    Uris,           \* documents a question may name
    Physical,       \* [Uris -> physical paths]: two uris may reach one file
    Admissible,     \* uris inside the root and spelt as the sidecar spells them
    Names,          \* class names
    Texts,          \* [Uris -> sets of statement sets]
    Disks,          \* initial files: sets of [physical paths -> entries]
    Candidates,     \* [specifiers -> sequence of uris it may stand for]
    Questions,      \* [documents, uri, at]: what may be asked
    MaxVisited,     \* names one resolution follows (32)
    MaxBytes,       \* MAX_OVERLAY_TOTAL_BYTES, a text counting one
    MaxChanges      \* bound: changes of files, buffers and index

VARIABLES disk, buffer, revision, index, call, changes

vars == <<disk, buffer, revision, index, call, changes>>

-----------------------------------------------------------------------------
(* The facts the parser keeps of the statements *)

\* No class or extends token but the recorded top-level classes
LexicallyComplete(stmts) == Form(stmts, "nested") \cup Form(stmts, "broken") = {}

\* Only named imports and re-exports, and no other top-level declaration
SourceSupported(stmts) ==
    LexicallyComplete(stmts) /\ \A s \in stmts : s.form \in {"class", "import", "reexport"}

Document(stmts) ==
    [known |-> TRUE, complete |-> LexicallyComplete(stmts), supported |-> SourceSupported(stmts),
     classes |-> Form(stmts, "class"),
     direct |-> IF SourceSupported(stmts) THEN {c.at : c \in {x \in Form(stmts, "class") : x.exported}}
                ELSE {},
     bindings |-> Form(stmts, "import") \cup Form(stmts, "reexport")]

Unknown == [known |-> FALSE, complete |-> FALSE, supported |-> FALSE,
            classes |-> {}, direct |-> {}, bindings |-> {}]

\* A stored row has no bindings unless its source was validated
Row(row) ==
    IF ~row.indexed THEN Unknown
    ELSE [Document(row.text) EXCEPT !.bindings = IF SourceSupported(row.text) THEN @ ELSE {}]

ValidDocument(d) ==
    /\ d.supported => d.complete /\ d.direct \subseteq {c.at : c \in d.classes}
    /\ ~d.supported => d.direct = {} /\ d.bindings = {}

-----------------------------------------------------------------------------
(* The resolver of the index *)

NoBinding == [kind |-> "unknown", uri |-> <<>>, at |-> 0, support |-> {}]
NoBase == [NoBinding EXCEPT !.kind = "no-base"]

Occurring(xs) == {xs[i] : i \in DOMAIN xs}

\* The one present candidate, when every candidate's state is known
ByAvailability(spec, states) ==
    LET cs == Occurring(Candidates[spec])
        present == {u \in cs : u \in DOMAIN states /\ states[u]}
    IN  IF cs \subseteq DOMAIN states /\ Cardinality(present) = 1 THEN present ELSE {}

\* Mutant: the one requested candidate is the source
ByExplicitSourceM(spec, requested) ==
    LET cs == Occurring(Candidates[spec]) \cap requested
    IN  IF Cardinality(cs) = 1 THEN cs ELSE {}

\* A stored snapshot cannot prove that a competing candidate is absent
ByExplicitSource(spec, requested) ==
    IF Len(Candidates[spec]) = 1 THEN Occurring(Candidates[spec]) \cap requested ELSE {}

\* sourceOf(spec) is the document a specifier was resolved to, {} when it was not
Resolve(docs, sourceOf, uri, base) ==
    LET R[k \in 0 .. MaxVisited, u \in Uris, n \in Names, exported \in BOOLEAN] ==
            LET d == docs[u]
                named == {c \in d.classes : c.name = n}
                imports == {b \in d.bindings : b.form = "import" /\ b.local = n}
                classes == {c \in named : exported => c.at \in d.direct}
                bindings == IF exported THEN {b \in d.bindings : b.form = "reexport" /\ b.local = n}
                            ELSE imports
                next == UNION {{[u |-> v, n |-> b.imported] : v \in sourceOf[b.from]} : b \in bindings}
            IN  IF \/ k = 0 \/ ~d.complete \/ ~d.supported
                   \/ Cardinality(named) + Cardinality(imports) > 1
                   \/ Cardinality(classes) + Cardinality(bindings) # 1
                THEN NoBinding
                ELSE IF classes # {}
                THEN [kind |-> "resolved", uri |-> <<u>>, at |-> (CHOOSE c \in classes : TRUE).at,
                      support |-> {u}]
                ELSE IF next = {} THEN NoBinding
                ELSE LET t == CHOOSE x \in next : TRUE
                         r == R[k - 1, t.u, t.n, TRUE]
                     IN  IF r.kind = "resolved" THEN [r EXCEPT !.support = @ \cup {u}] ELSE NoBinding
    IN  R[MaxVisited, uri, base, FALSE]

ResolveDocuments(docs, sourceOf, uri, at) ==
    LET d == docs[uri]
        here == {c \in d.classes : c.at = at}
    IN  IF ~d.known \/ ~d.complete \/ ~d.supported \/ Cardinality(here) # 1 THEN NoBinding
        ELSE LET c == CHOOSE x \in here : TRUE
             IN  IF c.base = <<>> THEN NoBase ELSE Resolve(docs, sourceOf, uri, c.base[1])

\* Current texts replace the stored facts; absence is the caller's evidence
ResolveCurrentSources(sources, absent, uri, at) ==
    LET states == [u \in DOMAIN sources \cup absent |-> u \in DOMAIN sources]
        docs == [u \in Uris |-> IF u \in DOMAIN sources THEN Document(sources[u]) ELSE Unknown]
    IN  ResolveDocuments(docs, [s \in DOMAIN Candidates |-> ByAvailability(s, states)], uri, at)

ResolveSnapshot(rows, requested, overlays, uri, at) ==
    LET stored == [u \in requested |-> Row(rows[u])]
        docs == [u \in Uris |-> IF u \in DOMAIN overlays THEN Document(overlays[u])
                                ELSE IF u \in requested THEN stored[u] ELSE Unknown]
    IN  IF \A u \in requested : ValidDocument(stored[u])
        THEN ResolveDocuments(docs, [s \in DOMAIN Candidates |-> ByExplicitSource(s, requested)], uri, at)
        ELSE NoBinding

-----------------------------------------------------------------------------
(* What the compiler makes of a workspace: [exists, text] for every uri *)

Means(files, uri, name) ==
    LET first(spec) == LET cs == Candidates[spec]
                       IN  {cs[i] : i \in {j \in DOMAIN cs : files[cs[j]].exists /\
                                            \A h \in 1 .. j - 1 : ~files[cs[h]].exists}}
        M[k \in 0 .. 2 * Cardinality(Uris), u \in Uris, n \in Names, exported \in BOOLEAN] ==
            LET via(s, m) == IF k = 0 THEN {} ELSE UNION {M[k - 1, v, m, TRUE] : v \in first(s)}
                text == files[u].text
                own == {<<u, c.at>> : c \in {x \in Form(text, "class") :
                            x.name = n /\ (exported => x.exported)}}
                       \cup UNION {via(s.from, s.imported) : s \in {x \in
                            Form(text, IF exported THEN "reexport" ELSE "import") : x.local = n}}
                       \cup {<<u, 0>> : s \in {x \in Form(text, "other") : x.name = n}}
            IN  IF own # {} \/ ~exported THEN own
                ELSE UNION {via(s.from, n) : s \in Form(text, "star")}
    IN  M[2 * Cardinality(Uris), uri, name, FALSE]

\* A definite answer is the compiler's
Right(files, q, b) ==
    \/ b.kind = "unknown"
    \/ \E c \in Form(files[q.uri].text, "class") :
        /\ c.at = q.at
        /\ IF b.kind = "no-base" THEN c.base = <<>>
           ELSE c.base # <<>> /\ Means(files, q.uri, c.base[1]) = {<<b.uri[1], b.at>>}

-----------------------------------------------------------------------------
(* The capture of a question's files and buffers *)

Entry(k, t, n) == [kind |-> k, text |-> t, stamp |-> n]
Absent == Entry("absent", {}, 0)
Closed == [open |-> FALSE, text |-> {}]

\* Buffers of the captured document itself or of an alias of its file
BuffersOf(u) ==
    {v \in Uris : buffer[v].open
        /\ (v = u \/ (Physical[v] = Physical[u] /\ disk[Physical[u]].kind # "special"))}

State(u, overlaid) ==
    LET e == disk[Physical[u]]
    IN  CASE e.kind \in {"file", "unreadable"} -> "present"
          [] e.kind = "special" -> "unknown"
          [] e.kind = "absent" -> IF overlaid THEN "present" ELSE "absent"

Token(u) == <<disk[Physical[u]].kind, disk[Physical[u]].stamp>>

\* Two requested documents may not be one file, and a file has one buffer
Capturable(q) ==
    /\ \A u, v \in q.documents :
        (u # v /\ disk[Physical[u]].kind # "special") => Physical[u] # Physical[v]
    /\ \A u \in q.documents : Cardinality(BuffersOf(u)) <= 1

\* Overlays and availability name requested documents, as does the question
ValidInputs(c) ==
    /\ c.q.uri \in c.q.documents
    /\ DOMAIN c.overlays \cup DOMAIN c.states \subseteq c.q.documents
    /\ \A u \in DOMAIN c.overlays \cap DOMAIN c.states : c.states[u] # "absent"

Idle == [stage |-> "idle"]

Capture(q, expected) ==
    /\ call.stage = "idle" /\ Capturable(q)
    /\ LET overlays == [u \in {x \in q.documents : BuffersOf(x) # {}} |->
                            buffer[CHOOSE v \in BuffersOf(u) : TRUE].text]
       IN  call' = [stage |-> "captured", mode |-> "current", q |-> q, expected |-> expected,
                    overlays |-> overlays, revision |-> revision,
                    states |-> [u \in q.documents |-> State(u, u \in DOMAIN overlays)],
                    tokens |-> [u \in q.documents |-> Token(u)],
                    left |-> {}, sources |-> <<>>, binding |-> NoBinding, basis |-> <<>>]
    /\ UNCHANGED <<disk, buffer, revision, index, changes>>

\* A caller without evidence of the files sends its buffers alone
Ask(q, expected) ==
    /\ call.stage = "idle"
    /\ call' = [stage |-> "sent", mode |-> "snapshot", q |-> q, expected |-> expected,
                overlays |-> [u \in {x \in q.documents : buffer[x].open} |-> buffer[u].text],
                revision |-> revision, states |-> <<>>, tokens |-> <<>>,
                left |-> {}, sources |-> <<>>, binding |-> NoBinding, basis |-> <<>>]
    /\ UNCHANGED <<disk, buffer, revision, index, changes>>

IsCurrent == revision = call.revision /\ \A u \in call.q.documents : Token(u) = call.tokens[u]

\* assertCurrent before the request
Send ==
    /\ call.stage = "captured"
    /\ call' = IF IsCurrent THEN [call EXCEPT !.stage = "sent"] ELSE Idle
    /\ UNCHANGED <<disk, buffer, revision, index, changes>>

-----------------------------------------------------------------------------
(* The sidecar *)

\* Present documents the sidecar can place inside the root
Placed(c) == {u \in c.q.documents : c.states[u] = "present" /\ u \in Admissible}

Answered(c, b) == [c EXCEPT !.stage = "answered", !.binding = b]

Begin ==
    /\ call.stage = "sent"
    /\ LET served == /\ index.ready /\ index.committed = index.generation
                     /\ index.generation = call.expected
           placed == Placed(call)
           overlaid == [u \in placed \cap DOMAIN call.overlays |-> call.overlays[u]]
           files == [u \in Uris |->
                        IF u \in DOMAIN call.overlays THEN [exists |-> TRUE, text |-> call.overlays[u]]
                        ELSE [exists |-> index.rows[u].indexed, text |-> index.rows[u].text]]
       IN  IF ~ValidInputs(call) THEN call' = [call EXCEPT !.stage = "protocolError"]
           ELSE IF ~served THEN call' = Answered(call, NoBinding)
           ELSE IF call.mode = "snapshot"
           THEN call' = Answered([call EXCEPT !.basis = files],
                            ResolveSnapshot(index.rows, call.q.documents, call.overlays, call.q.uri, call.q.at))
           \* several names of one file: no source is taken
           ELSE IF Cardinality({Physical[u] : u \in placed}) < Cardinality(placed)
           THEN call' = [call EXCEPT !.stage = "reading"]
           ELSE call' = [call EXCEPT !.stage = "reading", !.sources = overlaid,
                            !.left = placed \ DOMAIN overlaid]
    /\ UNCHANGED <<disk, buffer, revision, index, changes>>

\* read_source: nothing unless one regular readable file was read whole;
\* past the byte limit no source is taken
Read(u) ==
    /\ call.stage = "reading" /\ u \in call.left
    /\ LET e == disk[Physical[u]]
           rest == call.left \ {u}
           read == [v \in DOMAIN call.sources \cup {u} |-> IF v = u THEN e.text ELSE call.sources[v]]
           fromDisk == DOMAIN call.sources \ DOMAIN call.overlays
           bytes == Cardinality(DOMAIN call.overlays) + Cardinality(fromDisk) + 1
       IN  call' = IF e.kind # "file" THEN [call EXCEPT !.left = rest]
                   ELSE IF bytes > MaxBytes THEN [call EXCEPT !.left = {}, !.sources = <<>>]
                   ELSE [call EXCEPT !.left = rest, !.sources = read]
    /\ UNCHANGED <<disk, buffer, revision, index, changes>>

Answer ==
    /\ call.stage = "reading" /\ call.left = {}
    /\ call' = Answered(call, ResolveCurrentSources(call.sources,
                    {u \in call.q.documents : call.states[u] = "absent"}, call.q.uri, call.q.at))
    /\ UNCHANGED <<disk, buffer, revision, index, changes>>

\* The client's validation of a definite answer
Valid(c) ==
    c.binding.kind = "resolved" =>
        /\ c.binding.support \subseteq c.q.documents
        /\ {c.binding.uri[1], c.q.uri} \subseteq c.binding.support

\* assertCurrent before the result is accepted
Accept ==
    /\ call.stage = "answered"
    /\ call' = IF ~Valid(call) THEN [call EXCEPT !.stage = "protocolError"]
               ELSE IF call.mode = "current" => IsCurrent THEN [call EXCEPT !.stage = "accepted"]
               ELSE Idle
    /\ UNCHANGED <<disk, buffer, revision, index, changes>>

Finish ==
    /\ call.stage \in {"accepted", "protocolError"}
    /\ call' = Idle
    /\ UNCHANGED <<disk, buffer, revision, index, changes>>

-----------------------------------------------------------------------------
(* Changes of the workspace and of the index *)

Write(p) ==
    /\ \E e \in {Entry("file", t, changes + 1) :
                    t \in UNION {Texts[u] : u \in {x \in Uris : Physical[x] = p}}}
                \cup {Entry(k, {}, changes + 1) : k \in {"special", "unreadable"}} \cup {Absent} :
        e # disk[p] /\ disk' = [disk EXCEPT ![p] = e]
    /\ UNCHANGED <<buffer, revision, index, call>>

\* Every edit of a buffer advances the root's revision
Edit(u) ==
    /\ \E b \in {[open |-> TRUE, text |-> t] : t \in Texts[u]} \cup {Closed} :
        b # buffer[u] /\ buffer' = [buffer EXCEPT ![u] = b]
    /\ revision' = revision + 1
    /\ UNCHANGED <<disk, index, call>>

\* The catalog's rows follow the files; the runtime learns of it later
Publish ==
    /\ index' = [index EXCEPT !.generation = @ + 1,
                    !.rows = [u \in Uris |-> [indexed |-> disk[Physical[u]].kind = "file",
                                              text |-> disk[Physical[u]].text]]]
    /\ UNCHANGED <<disk, buffer, revision, call>>

Adopt ==
    /\ \E ready \in BOOLEAN :
        index' = [index EXCEPT !.committed = index.generation, !.ready = ready] /\ index' # index
    /\ UNCHANGED <<disk, buffer, revision, call>>

Change ==
    /\ changes < MaxChanges /\ changes' = changes + 1
    /\ \/ \E p \in {Physical[u] : u \in Uris} : Write(p)
       \/ \E u \in Uris : Edit(u)
       \/ Publish \/ Adopt

Init ==
    /\ disk \in Disks
    /\ buffer = [u \in Uris |-> Closed]
    /\ revision = 0
    /\ index = [generation |-> 1, committed |-> 1, ready |-> TRUE,
                rows |-> [u \in Uris |-> [indexed |-> disk[Physical[u]].kind = "file",
                                          text |-> disk[Physical[u]].text]]]
    /\ call = Idle
    /\ changes = 0

Next ==
    \/ \E q \in Questions : Capture(q, index.committed) \/ Ask(q, index.committed)
    \/ Send \/ Begin \/ Answer \/ Accept \/ Finish
    \/ \E u \in Uris : Read(u)
    \/ Change

Spec == Init /\ [][Next]_vars

-----------------------------------------------------------------------------
(* Properties *)

\* The workspace as the editor and the disk have it now
Workspace ==
    LET open(u) == {v \in Uris : buffer[v].open /\ Physical[v] = Physical[u]}
    IN  [u \in Uris |->
        IF open(u) # {}
        THEN [exists |-> TRUE, text |-> buffer[CHOOSE v \in open(u) : TRUE].text]
        ELSE [exists |-> disk[Physical[u]].kind # "absent", text |-> disk[Physical[u]].text]]

\* A base class accepted for a captured question is the one the compiler would
\* find in the files and buffers of the moment it is accepted, whatever changed
\* while the sidecar was reading (class-binding-input-snapshot.ts,
\* class_binding_sources.rs, class_binding_snapshot_resolution.rs).
AcceptedIsCurrent ==
    call'.stage = "accepted" /\ call.stage = "answered" /\ call.mode = "current" =>
        Right(Workspace, call.q, call.binding)
AcceptedBindingsAreCurrent == [][AcceptedIsCurrent]_vars

\* A base class answered from stored rows is the compiler's for the texts of
\* that generation with the sent buffers in their place, and the client never
\* takes an answer for a protocol fault (class_binding_discovery.rs,
\* class-binding-discovery.ts).
SnapshotBindingsAreExact ==
    /\ call.stage # "protocolError"
    /\ (call.stage = "answered" /\ call.mode = "snapshot" /\ call.basis # <<>>) =>
            Right(call.basis, call.q, call.binding)
=============================================================================
