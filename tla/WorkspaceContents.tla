-------------------------- MODULE WorkspaceContents --------------------------
(***************************************************************************)
(* How the worker's document store tells the compiler contexts that it     *)
(* retains which source texts changed (DocumentStore with                  *)
(* WorkspaceContentChanges, prepareContextEntry with type-context-reset).  *)
(*                                                                         *)
(* Notifications are taken once, by whichever request prepares first, yet  *)
(* every context must learn of every change.  Revisions, a reset epoch and *)
(* a bounded history of deltas make up for it: a context is reused only if *)
(* the deltas from its own revision to the view's are contiguous.          *)
(*                                                                         *)
(* One canonical root.  Texts are not represented: `behind` is the set of  *)
(* paths whose authoritative text changed, as far as the store was told,   *)
(* since a context or a view read it.                                      *)
(***************************************************************************)
EXTENDS Integers, Sequences, FiniteSets, SequencesExt

CONSTANTS
    Paths,         \* source paths of the workspace
    Physical,      \* [Paths -> Paths]: the file behind a path; itself but for aliases
    LexicalRoots,  \* spellings of the root
    Contexts,      \* retained compiler contexts
    RootOf,        \* [Contexts -> LexicalRoots]
    Reusing,       \* contexts that may be reused across revisions (groups, session reuse)
    Scoped,        \* contexts with explicit semantic roots
    Requests,      \* requests that hold a prepared view
    Closures,      \* dependency closures, with their owners, that a preparation may find
    Catalogs,      \* may a preparation ask for the whole project membership?
    Editable,      \* paths that the editor opens
    Events,        \* kinds of watched changes that are delivered
    MaxCached,     \* MAX_CACHED_DOCUMENTS
    MaxBatch,      \* watched files per notification
    MaxChanged,    \* WorkspaceContentChanges.maxChanged
    MaxRemoved,    \* WorkspaceContentChanges.maxRemoved
    MaxHistory,    \* MAX_DELTA_HISTORY (32 in the code)
    MaxRevision,   \* bound on content revisions in a behaviour
    None

VARIABLES
    changes,   \* RootChanges of the canonical root
    overlay,   \* open documents
    cached,    \* disk documents in the store
    catalog,   \* the project membership: whether it is loaded, and then its paths
    closures,  \* recorded dependency closures, one per document that was prepared
    context,   \* the applied identity of every compiler context
    view       \* the prepared workspace that each request holds

store == <<overlay, cached, catalog, closures>>
vars == <<changes, store, context, view>>

\* A watched change; one of a path that is no readable source any more is rejected.
Kinds == {"created", "changed", "deleted", "rejected"}

Aliases(p) == {q \in Paths : Physical[q] = Physical[p]}
IsAlias(p) == Physical[p] # p

-----------------------------------------------------------------------------
(* WorkspaceContentChanges.                                                *)

NoChanges ==
    [revision |-> 0, resetEpoch |-> 0, resetRequested |-> FALSE, changed |-> {},
     removed |-> {}, span |-> None, spanBlocked |-> FALSE, history |-> <<>>]

\* Mutant of Advance: an incompatible change blocks the span and counts nothing.
AdvanceUncounted(ch, root) ==
    LET from == ch.revision IN
    IF \/ root = None \/ ch.spanBlocked \/ ch.resetRequested
       \/ ch.span # None /\ ch.span.root # root
    THEN [ch EXCEPT !.span = None, !.spanBlocked = TRUE, !.history = <<>>]
    ELSE [ch EXCEPT !.revision = from + 1,
                    !.span = [root |-> root, to |-> from + 1,
                              from |-> IF ch.span = None THEN from ELSE ch.span.from]]

\* advance: a new revision; only changes under one spelling of the root (None:
\* an incompatible change) since the last take form a span.
Advance(ch, root) ==
    LET from == ch.revision IN
    IF \/ root = None \/ ch.spanBlocked \/ ch.resetRequested
       \/ ch.span # None /\ ch.span.root # root
    THEN [ch EXCEPT !.revision = from + 1, !.span = None, !.spanBlocked = TRUE,
                    !.history = <<>>]
    ELSE [ch EXCEPT !.revision = from + 1,
                    !.span = [root |-> root, to |-> from + 1,
                              from |-> IF ch.span = None THEN from ELSE ch.span.from]]

\* reset, of which one is enough until the next take.
Reset(ch) ==
    IF ch.resetRequested THEN ch
    ELSE [ch EXCEPT !.resetRequested = TRUE, !.resetEpoch = @ + 1, !.history = <<>>]

\* mark every path of a set: a set that would exceed its limit becomes a reset.
MarkRemoved(ch, ps) ==
    IF ch.resetRequested THEN ch
    ELSE IF Cardinality(ch.removed \cup ps) > MaxRemoved THEN Reset([ch EXCEPT !.removed = {}])
    ELSE [ch EXCEPT !.removed = @ \cup ps]

MarkChanged(ch, ps) ==
    IF ch.resetRequested THEN ch
    ELSE IF Cardinality(ch.changed \cup ps) > MaxChanged THEN Reset([ch EXCEPT !.changed = {}])
    ELSE [ch EXCEPT !.changed = @ \cup ps]

PathCount(history) == FoldSeq(LAMBDA d, n: Cardinality(d.changed) + n, 0, history)

\* The longest suffix within both limits.
Trim(history) ==
    LET Fits(i) == LET h == SubSeq(history, i, Len(history))
                   IN  Len(h) <= MaxHistory /\ PathCount(h) <= MaxChanged
    IN  SubSeq(history, CHOOSE i \in 1 .. Len(history) + 1 :
                            Fits(i) /\ \A j \in 1 .. i - 1 : ~Fits(j), Len(history))

\* The delta that take publishes, or None.
Delta(ch) ==
    IF ch.span = None \/ ch.resetRequested \/ ch.removed # {} THEN None
    ELSE [root |-> ch.span.root, from |-> ch.span.from, to |-> ch.span.to,
          changed |-> ch.changed]

History(ch) ==
    LET delta == Delta(ch)
        joined == IF ch.history # <<>> /\ (\/ Last(ch.history).to # delta.from
                                           \/ Last(ch.history).root # delta.root)
                  THEN <<>> ELSE ch.history
    IN  IF delta = None THEN ch.history ELSE Trim(Append(joined, delta))

\* take: what is left after the notifications were handed out.
Taken(ch) ==
    [ch EXCEPT !.history = History(ch), !.changed = {}, !.removed = {},
               !.resetRequested = FALSE, !.span = None, !.spanBlocked = FALSE]

-----------------------------------------------------------------------------
(* DocumentStore: what changes the texts.                                  *)

\* Every holder of a text falls behind when the authority for it changes.
Announce(ps) ==
    /\ context' = [c \in Contexts |-> [context[c] EXCEPT !.behind = @ \cup ps]]
    /\ view' = [k \in Requests |-> IF view[k] = None THEN None
                                   ELSE [view[k] EXCEPT !.behind = @ \cup ps]]

\* The names under which a recorded closure has the file p.
Names(p) == {q \in Aliases(p) : \E f \in closures : q \in f.paths}

\* Mutant of Affected: closures are searched by name only.
AffectedByName(p) == (Names(p) \cap {p}) \ overlay

\* invalidateDiskDocuments: the names that a change of p reaches.  An open
\* document answers for its path itself.
Affected(p) == Names(p) \ overlay

\* The cached documents and the closures that survive the invalidation.
Invalidated(ps) == cached \ UNION {Aliases(p) : p \in ps}
Untouched(touched) == {f \in closures : f.paths \cap touched = {}}

\* A batch resets the contexts when it removes, rejects or shadows an input, or
\* reaches it under another name.
ChangeResets(kind, lost) ==
    \/ lost # {}
    \/ \E p \in DOMAIN kind : \/ kind[p] = "rejected"
                              \/ kind[p] # "changed" /\ Affected(p) # {}
                              \/ kind[p] = "changed" /\ Affected(p) \ {p} # {}

\* workspaceFilesChanged without rootDirty.  `regular` are the paths that are
\* plain files now, `resolves` says that a created file is a candidate for an
\* import that the closure resolved differently or not at all.
FilesChanged(root, kind, regular, resolves) ==
    LET batch == DOMAIN kind
        Of(k) == {p \in batch : kind[p] = k}
        source == batch \ Of("rejected")
        known == (source \ overlay) \cap (cached \cup catalog.paths)
        lost == (source \ (Of("deleted") \cup overlay \cup regular)) \cap catalog.paths
        touched == UNION {Affected(p) : p \in batch}
        removed == lost \cup (UNION {Affected(p) : p \in Of("deleted") \cup Of("rejected")})
                   \cup {p \in Of("deleted") \ overlay : p \in known \/ Affected(p) # {}}
                   \cup (IF catalog.loaded THEN Of("rejected") ELSE {})
        changed == (Of("changed") \ (overlay \cup lost))
                   \cup (UNION {Affected(p) \ (lost \cap {p}) : p \in Of("changed")})
                   \cup (UNION {Affected(p) : p \in Of("created")})
        resets == ChangeResets(kind, lost) \/ resolves
        advances == \/ Of("rejected") # {} \/ Of("created") # {}
                    \/ source \ overlay # {} \/ touched # {}
        compatible == /\ ~resets /\ Of("changed") = batch
                      /\ batch \subseteq known \cap regular
        marked == MarkChanged(MarkRemoved(changes, removed), changed)
        reset == IF resets THEN Reset(marked) ELSE marked
    IN  /\ changes.revision < MaxRevision
        /\ resolves => Of("created") # {}
        /\ changes' = IF advances THEN Advance(reset, IF compatible THEN root ELSE None)
                      ELSE reset
        /\ cached' = Invalidated(batch)
        /\ \E resolved \in SUBSET Untouched(touched) :
              /\ resolves <=> resolved # {}
              /\ closures' = Untouched(touched) \ resolved
        /\ catalog' = IF Of("rejected") # {} \/ ~catalog.loaded
                      THEN [loaded |-> FALSE, paths |-> {}]
                      ELSE [catalog EXCEPT !.paths =
                               (@ \ (lost \cup (Of("deleted") \ overlay)))
                               \cup (Of("created") \cap regular)]
        /\ Announce((UNION {{p} \cup Names(p) : p \in batch}) \ overlay)
        /\ UNCHANGED overlay

\* workspaceFilesChanged with rootDirty: everything on disk under the root.
RootDirty ==
    LET known == (catalog.paths \cup cached) \ overlay
    IN  /\ changes.revision < MaxRevision
        /\ changes' = Reset(Advance(MarkRemoved(changes, known), None))
        /\ cached' = {} /\ closures' = {}
        /\ catalog' = [loaded |-> FALSE, paths |-> {}]
        /\ Announce(Paths \ overlay)
        /\ UNCHANGED overlay

\* refreshProjectMembership: `found` is a new scan, `differs` the members whose
\* identity on disk is another one than the catalog recorded.
RefreshMembership(found, differs) ==
    LET gone == catalog.paths \ found
        touched == UNION {Affected(p) : p \in gone \cup differs}
        removed == gone \cup UNION {Affected(p) : p \in gone}
        changed == differs \cup UNION {Affected(p) : p \in differs}
        resets == \/ \E p \in gone : Affected(p) # {}
                  \/ \E p \in differs : Affected(p) \ {p} # {}
        marked == MarkChanged(MarkRemoved(changes, removed), changed)
        reset == IF resets THEN Reset(marked) ELSE marked
    IN  /\ changes.revision < MaxRevision
        /\ catalog.loaded
        /\ overlay \cap catalog.paths \subseteq found
        /\ (found \ catalog.paths) \ overlay \subseteq differs
        /\ changes' = IF gone \cup differs # {} THEN Advance(reset, None) ELSE reset
        /\ cached' = Invalidated(gone \cup differs)
        /\ closures' = Untouched(touched)
        /\ catalog' = [catalog EXCEPT !.paths = found]
        /\ Announce(gone \cup differs \cup touched)
        /\ UNCHANGED overlay

\* store: an overlay takes the place of the disk document of the same path.
Replaced(p, documents) == documents \ {p}

\* sync: the first one makes p an overlay; one that is another name of a file
\* takes the file over from the recorded closure.
Sync(p) ==
    LET takesOver == p \notin overlay /\ IsAlias(p) /\ Names(p) # {}
    IN  /\ changes.revision < MaxRevision
        /\ changes' = IF takesOver THEN Advance(Reset(changes), None) ELSE changes
        /\ overlay' = overlay \cup {p}
        /\ cached' = Replaced(p, IF takesOver THEN Invalidated({p}) ELSE cached)
        /\ closures' = IF takesOver THEN Untouched(Names(p)) ELSE closures
        /\ catalog' = IF catalog.loaded THEN [catalog EXCEPT !.paths = @ \cup {p}] ELSE catalog
        /\ Announce({p} \cup (IF takesOver THEN Names(p) ELSE {}))

\* close: p's text comes from the disk again; `onDisk` says whether it can.
Close(p, root, onDisk) ==
    LET touched == Names(p) \ (overlay \ {p})
        resets == touched \ {p} # {}
        marked == MarkChanged(changes, {p} \cup touched)
        compatible == root # None /\ ~IsAlias(p) /\ ~resets
    IN  /\ changes.revision < MaxRevision
        /\ p \in overlay
        /\ changes' = Advance(IF resets THEN Reset(marked) ELSE marked,
                              IF compatible THEN root ELSE None)
        /\ overlay' = overlay \ {p}
        /\ cached' = Invalidated({p})
        /\ closures' = Untouched(touched)
        /\ catalog' = IF catalog.loaded /\ ~onDisk
                      THEN [catalog EXCEPT !.paths = @ \ {p}] ELSE catalog
        /\ Announce({p} \cup touched)

-----------------------------------------------------------------------------
(* DocumentStore.prepare and the contexts.                                 *)

\* evict: the least recently used disk documents beyond the limit that the view
\* does not need.
Evictable(documents, evicted) ==
    LET Fits(gone) == Cardinality((overlay \cup cached \cup documents) \ gone) <= MaxCached
    IN  /\ \A p \in evicted : ~Fits(evicted \ {p})
        /\ Fits(evicted) \/ evicted = cached \ documents

\* prepareFromCurrent: load the closure of the current document, and the whole
\* catalog if asked for, then hand the pending notifications to this view.
Prepare(k, root, found, members, evicted) ==
    LET loads == [loaded |-> TRUE, paths |-> IF catalog.loaded THEN catalog.paths
                                             ELSE overlay \cup {p \in Paths : ~IsAlias(p)}]
        documents == overlay \cup found.paths \cup (IF members THEN loads.paths ELSE {})
    IN  /\ view[k] = None
        /\ changes' = Taken(changes)
        /\ evicted \cap documents = {} /\ Evictable(documents, evicted)
        /\ closures' = {f \in closures : f.owner \notin evicted \cup {found.owner}} \cup {found}
        /\ cached' = (cached \cup (documents \ overlay)) \ evicted
        /\ catalog' = IF members THEN loads ELSE catalog
        /\ view' = [view EXCEPT ![k] =
              [root |-> root, revision |-> changes.revision, epoch |-> changes.resetEpoch,
               reset |-> changes.resetRequested, changed |-> changes.changed,
               removed |-> changes.removed, delta |-> Delta(changes),
               deltas |-> History(changes), documents |-> documents,
               members |-> IF members THEN loads.paths ELSE {}, overlay |-> overlay,
               behind |-> {}]]
        /\ UNCHANGED <<overlay, context>>

\* Mutant of Chain: only the ends of the history are compared.
ChainOfEnds(v, revision) ==
    IF v.deltas # <<>> /\ Head(v.deltas).from <= revision /\ Last(v.deltas).to = v.revision
    THEN {Last(v.deltas)} ELSE {}

\* synchronizeContextDelta: the deltas that lead from a revision to the view's,
\* or none if they have a gap, another spelling of the root, or stop short.
Chain(v, revision) ==
    LET starts == {i \in DOMAIN v.deltas : v.deltas[i].from = revision}
        start == CHOOSE i \in starts : \A j \in starts : i <= j
        used == {i \in start .. Len(v.deltas) :
                    \A j \in start .. i - 1 : v.deltas[j].to # v.revision}
    IN  IF /\ starts # {}
           /\ \A i \in used : /\ v.deltas[i].root = v.root
                              /\ v.deltas[i].from = IF i = start THEN revision
                                                    ELSE v.deltas[i - 1].to
                              /\ v.deltas[i].to > v.deltas[i].from
                              /\ v.deltas[i].to <= v.revision
           /\ \E i \in used : v.deltas[i].to = v.revision
        THEN {v.deltas[i] : i \in used} ELSE {}

\* The compiler inputs that a context may have: all paths without explicit roots.
Scopes(c) == IF c \in Scoped THEN SUBSET Paths ELSE {Paths}

\* The view as one context sees it: the paths to invalidate, the part of them in
\* its scope, where its delta starts, and the documents delivered with it.
Synchronized(v, c, scope, readable) ==
    LET chain == IF v.revision = context[c].revision \/ v.reset THEN {}
                 ELSE Chain(v, context[c].revision)
        all == UNION {d.changed : d \in chain}
        inScope == all \cap scope
        missing == inScope \ v.documents
        reads == /\ readable /\ v.removed = {} /\ missing \subseteq v.members
                 /\ \A p \in missing : ~IsAlias(p) /\ Aliases(p) \cap v.overlay = {}
    IN  IF chain = {}
        THEN [contentChanged |-> v.changed, changed |-> v.changed, documents |-> v.documents,
              from |-> IF v.delta = None \/ v.delta.root # v.root THEN None ELSE v.delta.from]
        ELSE [contentChanged |-> all, changed |-> inScope, from |-> context[c].revision,
              documents |-> v.documents \cup (IF reads THEN missing ELSE {})]

\* hasCompleteDiskDelta: the view lists and delivers all that changed.
Complete(v, w, c) ==
    /\ w.from # None /\ w.from = context[c].revision
    /\ v.removed = {}
    /\ w.changed # {} \/ c \in Scoped
    /\ w.changed \subseteq w.documents

\* typeContextResetReason: may the context be kept for this view?
Reused(v, w, c) ==
    /\ ~v.reset
    /\ context[c].epoch = v.epoch
    /\ \/ context[c].revision = v.revision
       \/ c \in Reusing /\ Complete(v, w, c)

Holds(k, c) == view[k] # None /\ view[k].root = RootOf[c]

\* prepareContextEntry for a live context that is kept: the engine drops what
\* the view lists and takes over the documents it delivers.
Reuse(k, c, scope, readable) ==
    LET v == view[k]
        w == Synchronized(v, c, scope, readable)
    IN  /\ Holds(k, c) /\ context[c].live /\ Reused(v, w, c)
        /\ context' = [context EXCEPT ![c] =
              [live |-> TRUE, epoch |-> v.epoch, revision |-> v.revision,
               behind |-> (@.behind \ (w.contentChanged \cup v.removed \cup w.documents))
                          \cup (v.behind \cap v.documents)]]
        /\ UNCHANGED <<changes, store, view>>

\* The engine throws after it dropped what the view lists: the entry keeps the
\* identity it had.
ReuseFails(k, c, scope, readable) ==
    LET w == Synchronized(view[k], c, scope, readable)
    IN  /\ Holds(k, c) /\ context[c].live /\ Reused(view[k], w, c)
        /\ context' = [context EXCEPT ![c].behind =
                          @ \ (w.contentChanged \cup view[k].removed)]
        /\ UNCHANGED <<changes, store, view>>

\* prepareContextEntry for a context that is new or retired: built from the view.
Rebuild(k, c, scope, readable) ==
    LET v == view[k]
    IN  /\ Holds(k, c)
        /\ context[c].live => ~Reused(v, Synchronized(v, c, scope, readable), c)
        /\ context' = [context EXCEPT ![c] =
              [live |-> TRUE, epoch |-> v.epoch, revision |-> v.revision,
               behind |-> v.behind \cap v.documents]]
        /\ UNCHANGED <<changes, store, view>>

\* A preparation that fails, or an eviction by the coordinator, removes a context.
RemoveContext(c) ==
    /\ context[c].live
    /\ context' = [context EXCEPT ![c] = [live |-> FALSE, epoch |-> 0, revision |-> 0,
                                          behind |-> {}]]
    /\ UNCHANGED <<changes, store, view>>

\* The request ends, having used its view or not.
Drop(k) ==
    /\ view[k] # None
    /\ view' = [view EXCEPT ![k] = None]
    /\ UNCHANGED <<changes, store, context>>

-----------------------------------------------------------------------------
Init ==
    /\ changes = NoChanges
    /\ overlay = {} /\ cached = {} /\ closures = {}
    /\ catalog = [loaded |-> FALSE, paths |-> {}]
    /\ context = [c \in Contexts |-> [live |-> FALSE, epoch |-> 0, revision |-> 0,
                                      behind |-> {}]]
    /\ view = [k \in Requests |-> None]

Batches == {ps \in SUBSET Paths : ps # {} /\ Cardinality(ps) <= MaxBatch}

Next ==
    \/ \E root \in LexicalRoots, batch \in Batches : \E kind \in [batch -> Events],
          regular \in SUBSET batch, resolves \in BOOLEAN :
            FilesChanged(root, kind, regular, resolves)
    \/ RootDirty
    \/ \E found, differs \in SUBSET Paths :
            differs \subseteq found \ overlay /\ RefreshMembership(found, differs)
    \/ \E p \in Editable : Sync(p)
    \/ \E p \in Editable, root \in LexicalRoots \cup {None}, onDisk \in BOOLEAN :
            Close(p, root, onDisk)
    \/ \E k \in Requests, root \in LexicalRoots, found \in Closures, members \in Catalogs,
          evicted \in SUBSET cached : Prepare(k, root, found, members, evicted)
    \/ \E k \in Requests, c \in Contexts : \E scope \in Scopes(c), readable \in BOOLEAN :
            Reuse(k, c, scope, readable) \/ ReuseFails(k, c, scope, readable)
            \/ Rebuild(k, c, scope, readable)
    \/ \E c \in Contexts : RemoveContext(c)
    \/ \E k \in Requests : Drop(k)

Spec == Init /\ [][Next]_vars

-----------------------------------------------------------------------------
(* Properties.                                                             *)

Deltas == [root : LexicalRoots, from : Nat, to : Nat, changed : SUBSET Paths]

\* Every variable keeps its shape, and no path has both a disk document and an
\* overlay (DocumentStore.store replaces one by the other).
TypeOK ==
    /\ changes \in [revision : Nat, resetEpoch : Nat, resetRequested : BOOLEAN,
                    changed : SUBSET Paths, removed : SUBSET Paths,
                    span : {None} \cup [root : LexicalRoots, from : Nat, to : Nat],
                    spanBlocked : BOOLEAN, history : Seq(Deltas)]
    /\ overlay \subseteq Paths /\ cached \subseteq Paths \ overlay /\ closures \subseteq Closures
    /\ catalog \in [loaded : BOOLEAN, paths : SUBSET Paths]
    /\ context \in [Contexts -> [live : BOOLEAN, epoch : Nat, revision : Nat,
                                 behind : SUBSET Paths]]
    /\ view \in [Requests -> {None} \cup
            [root : LexicalRoots, revision : Nat, epoch : Nat, reset : BOOLEAN,
             changed : SUBSET Paths, removed : SUBSET Paths, delta : {None} \cup Deltas,
             deltas : Seq(Deltas), documents : SUBSET Paths, members : SUBSET Paths,
             overlay : SUBSET Paths, behind : SUBSET Paths]]

\* Whatever view a request holds, and however late it comes to use it, a context
\* that is kept for it lacks no change that the view has, but those that the
\* view lists or delivers: another request having taken the notification first,
\* a failed preparation, a trimmed history or an overflow never hides one
\* (WorkspaceContentChanges, synchronizeContextDelta, typeContextResetReason).
ReusedContextsAreCurrent ==
    \A k \in Requests, c \in Contexts : \A scope \in Scopes(c), readable \in BOOLEAN :
        (Holds(k, c) /\ context[c].live) =>
            LET w == Synchronized(view[k], c, scope, readable)
            IN  Reused(view[k], w, c) =>
                    context[c].behind \ view[k].behind
                        \subseteq w.contentChanged \cup w.documents

\* The resident fast path answers from a context without preparing it, on equal
\* epochs and revisions: then only open documents, which the view carries, can
\* have moved (withResidentReferenceContext).
ResidentContextsAreCurrent ==
    \A k \in Requests, c \in Contexts :
        /\ Holds(k, c) /\ context[c].live /\ ~view[k].reset
        /\ context[c].epoch = view[k].epoch /\ context[c].revision = view[k].revision
        => context[c].behind \ view[k].behind \subseteq view[k].overlay

\* The history is a contiguous chain under one spelling that ends where the
\* pending span begins, or at the current revision, within both of its limits.
HistoryIsChain ==
    LET h == changes.history IN
    /\ Len(h) <= MaxHistory /\ PathCount(h) <= MaxChanged
    /\ \A i \in DOMAIN h : h[i].from < h[i].to
    /\ \A i \in 1 .. Len(h) - 1 : h[i].to = h[i + 1].from /\ h[i].root = h[i + 1].root
    /\ h # <<>> => Last(h).to = IF changes.span = None THEN changes.revision
                                ELSE changes.span.from

\* A compiler context is only used again for a view it is current for, on the
\* ordinary and on the resident path, and the history it is judged by has no gap.
ContextsAreCurrent == ReusedContextsAreCurrent /\ ResidentContextsAreCurrent /\ HistoryIsChain
=============================================================================
