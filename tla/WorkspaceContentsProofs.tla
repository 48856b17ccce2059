---------------------- MODULE WorkspaceContentsProofs ----------------------
(***************************************************************************)
(* Proofs about the document store and the admission of compiler contexts  *)
(* (WorkspaceContents): however late a request uses its view, a context    *)
(* that is kept for it lacks no change, for any number of paths, contexts  *)
(* and requests and any limits.                                            *)
(***************************************************************************)
EXTENDS WorkspaceContents, WellFoundedInduction, TLAPS

-----------------------------------------------------------------------------
(* What is assumed of the constants.                                       *)

Spans == [root : LexicalRoots, from : Nat, to : Nat]
ChangesType ==
    [revision : Nat, resetEpoch : Nat, resetRequested : BOOLEAN, changed : SUBSET Paths,
     removed : SUBSET Paths, span : {None} \cup Spans, spanBlocked : BOOLEAN, history : Seq(Deltas)]
ContextType == [live : BOOLEAN, epoch : Nat, revision : Nat, behind : SUBSET Paths]
ViewType ==
    [root : LexicalRoots, revision : Nat, epoch : Nat, reset : BOOLEAN, changed : SUBSET Paths,
     removed : SUBSET Paths, delta : {None} \cup Deltas, deltas : Seq(Deltas),
     documents : SUBSET Paths, members : SUBSET Paths, overlay : SUBSET Paths,
     behind : SUBSET Paths]

\* Constants have their types, limits are numbers, and None is no root, span,
\* delta or view.
Parameters ==
    /\ Physical \in [Paths -> Paths]
    /\ \A f \in Closures : f.paths \subseteq Paths
    /\ Editable \subseteq Paths /\ Catalogs \subseteq BOOLEAN
    /\ MaxChanged \in Nat /\ MaxHistory \in Nat
    /\ None \notin LexicalRoots \cup Spans \cup Deltas \cup ViewType

-----------------------------------------------------------------------------
(* The inductive invariant.  A holder is a context or a view: a revision,   *)
(* an epoch, and the paths it is behind with.                               *)

\* What the deltas of a history from the i-th on list.
Since(h, i) == UNION {h[j].changed : j \in i .. Len(h)}

\* A history is in order, and contiguous under one spelling of the root.
Ordered(h) ==
    /\ \A i \in DOMAIN h : h[i].from < h[i].to
    /\ \A i, j \in DOMAIN h : i < j => h[i].to <= h[j].from
    /\ \A i \in 1 .. Len(h) - 1 : h[i].to = h[i + 1].from /\ h[i].root = h[i + 1].root

Limited(h) == Len(h) <= MaxHistory /\ PathCount(h) <= MaxChanged

\* RootChanges: whatever blocks the span or asks for a reset forgot the history.
ChangesInv(ch) ==
    /\ ch \in ChangesType
    /\ Ordered(ch.history) /\ Limited(ch.history)
    /\ ch.history # <<>> => Last(ch.history).to = IF ch.span = None THEN ch.revision ELSE ch.span.from
    /\ ch.span # None => ch.span.from < ch.span.to /\ ch.span.to = ch.revision
    /\ ch.spanBlocked => ch.span = None /\ ch.history = <<>>
    /\ ch.resetRequested => ch.history = <<>>
    /\ ch.removed # {} => ch.spanBlocked

\* What x is behind with is open in the editor, or listed by the notifications
\* and deltas that lead on from its revision.
Told(x, ch, open) ==
    x.epoch = ch.resetEpoch =>
        /\ x.revision = ch.revision => x.behind \subseteq open
        /\ ch.span # None /\ ch.span.from = x.revision => x.behind \subseteq ch.changed \cup open
        /\ \A i \in DOMAIN ch.history : ch.history[i].from = x.revision =>
              x.behind \subseteq Since(ch.history, i) \cup open
                                 \cup (IF ch.span = None THEN {} ELSE ch.changed)

HolderInv(x, ch, open) ==
    /\ x.revision <= ch.revision /\ x.epoch <= ch.resetEpoch
    /\ ch.resetRequested => x.epoch < ch.resetEpoch
    /\ Told(x, ch, open)

\* The same for a view, whenever it is used.
Listed(x, v) ==
    x.epoch = v.epoch /\ ~v.reset =>
        /\ x.revision = v.revision => x.behind \ v.behind \subseteq v.overlay
        /\ v.delta # None /\ v.delta.from = x.revision => x.behind \ v.behind \subseteq v.changed \cup v.overlay
        /\ \A i \in DOMAIN v.deltas : v.deltas[i].from = x.revision /\ Last(v.deltas).to = v.revision =>
              x.behind \ v.behind \subseteq Since(v.deltas, i) \cup v.overlay

ViewInv(v) ==
    /\ Ordered(v.deltas) /\ v.overlay \subseteq v.documents
    /\ v.deltas # <<>> => Last(v.deltas).to <= v.revision

ContentsInv ==
    /\ TypeOK /\ ChangesInv(changes)
    /\ \A c \in Contexts : context[c].live => HolderInv(context[c], changes, overlay)
    /\ \A k \in Requests : view[k] # None =>
          /\ HolderInv(view[k], changes, overlay) /\ ViewInv(view[k])
          /\ \A c \in Contexts : context[c].live => Listed(context[c], view[k])
          /\ \A l \in Requests : view[l] # None => Listed(view[l], view[k])

-----------------------------------------------------------------------------
(* Histories.                                                               *)

\* An empty history lists no path.
LEMMA PathCountEmpty == PathCount(<<>>) = 0
<1> DEFINE op(d, n) == Cardinality(d.changed) + n
           step(g) == [s \in SUBSET {} |->
                          IF s = {} THEN 0
                          ELSE op(<<>>[CHOOSE x \in s : TRUE], g[s \ {CHOOSE x \in s : TRUE}])]
           iter == CHOOSE iter : iter = step(iter)
<1>1. DOMAIN <<>> = {}
  OBVIOUS
<1>2. PathCount(<<>>) = iter[{}]
  BY <1>1 DEF PathCount, FoldSeq, FoldFunction, FoldFunctionOnSet, MapThenFoldSet
<1>3. \E g : g = step(g)
  <2> WITNESS [s \in SUBSET {} |-> 0]
  <2> QED OBVIOUS
<1>4. iter = step(iter)
  BY <1>3, Zenon
<1>5. iter[{}] = 0
  BY <1>4
<1> QED BY <1>2, <1>5

\* The empty history is in order and within the limits.
LEMMA EmptyHistory ==
    ASSUME Parameters
    PROVE  Ordered(<<>>) /\ Limited(<<>>) /\ <<>> \in Seq(Deltas)
<1>1. Len(<<>>) = 0 /\ DOMAIN <<>> = {}
  OBVIOUS
<1>2. <<>> \in Seq(Deltas)
  OBVIOUS
<1> QED BY <1>1, <1>2, PathCountEmpty DEF Ordered, Limited, Parameters

\* A set of numbers that is not empty has a least element.
LEMMA LeastNumber ==
    ASSUME NEW S, S \subseteq Nat, S # {}
    PROVE  \E n \in S : \A m \in S : n <= m
<1> DEFINE R == OpToRel(<, Nat)
<1>1. PICK x \in S : \A y \in S : ~(<<y, x>> \in R)
  BY NatLessThanWellFounded, WFMin
<1>2. \A y \in S : <<y, x>> \in R <=> y < x
  BY DEF OpToRel
<1> HIDE DEF R
<1>3. \A y \in S : ~(y < x)
  BY <1>1, <1>2
<1> QED BY <1>3

\* trim keeps a suffix, and what it keeps is within the limits.
LEMMA TrimSuffix ==
    ASSUME Parameters, NEW h \in Seq(Deltas)
    PROVE  \E i \in 1 .. Len(h) + 1 : Trim(h) = SubSeq(h, i, Len(h)) /\ Limited(Trim(h))
<1> DEFINE Fits(i) == Len(SubSeq(h, i, Len(h))) <= MaxHistory
                      /\ PathCount(SubSeq(h, i, Len(h))) <= MaxChanged
           Good == {i \in 1 .. Len(h) + 1 : Fits(i)}
           first == CHOOSE i \in 1 .. Len(h) + 1 : Fits(i) /\ \A j \in 1 .. i - 1 : ~Fits(j)
<1>1. Len(h) \in Nat
  OBVIOUS
<1>2. SubSeq(h, Len(h) + 1, Len(h)) = <<>>
  BY <1>1
<1>3. Fits(Len(h) + 1)
  BY <1>2, EmptyHistory DEF Limited
<1> HIDE DEF Fits
<1>4. \E i \in Good : \A j \in Good : i <= j
  <2>1. Good \subseteq Nat /\ Good # {}
    BY <1>1, <1>3
  <2> QED BY <2>1, LeastNumber
<1>5. \E i \in 1 .. Len(h) + 1 : Fits(i) /\ \A j \in 1 .. i - 1 : ~Fits(j)
  BY <1>4, <1>1
<1>6. first \in 1 .. Len(h) + 1 /\ Fits(first)
  BY <1>5
<1>7. Trim(h) = SubSeq(h, first, Len(h))
  BY DEF Trim, Fits
<1> HIDE DEF first
<1> QED BY <1>6, <1>7 DEF Fits, Limited

-----------------------------------------------------------------------------
(* Notifications.                                                           *)

\* m is a with the paths rs marked as removed and ps as changed: nothing more
\* while a reset is requested, and all of it or a fresh reset otherwise.
Marked(a, m, rs, ps) ==
    /\ m \in ChangesType
    /\ m.revision = a.revision /\ m.span = a.span /\ m.spanBlocked = a.spanBlocked
    /\ \/ a.resetRequested /\ m = a
       \/ /\ ~a.resetRequested /\ ~m.resetRequested
          /\ m.resetEpoch = a.resetEpoch /\ m.history = a.history
          /\ m.changed = a.changed \cup ps /\ m.removed = a.removed \cup rs
       \/ /\ ~a.resetRequested /\ m.resetRequested
          /\ m.resetEpoch = a.resetEpoch + 1 /\ m.history = <<>>
          /\ m.removed \subseteq a.removed \cup rs

\* Marking nothing changes nothing.
LEMMA MarkNothing ==
    ASSUME NEW a \in ChangesType
    PROVE  Marked(a, a, {}, {})
BY DEF Marked, ChangesType

\* What a reset writes has the type of the notifications.
LEMMA ResetTyped ==
    ASSUME NEW m \in ChangesType, NEW q \in BOOLEAN, NEW e \in Nat, NEW h \in Seq(Deltas)
    PROVE  [m EXCEPT !.resetRequested = q, !.resetEpoch = e, !.history = h] \in ChangesType
BY DEF ChangesType

\* A reset is a mark of any kind, and leaves a reset requested.
LEMMA MarkReset ==
    ASSUME NEW a \in ChangesType, NEW m, NEW rs, NEW ps, Marked(a, m, rs, ps)
    PROVE  Marked(a, Reset(m), rs, ps) /\ Reset(m).resetRequested
<1>1. CASE m.resetRequested
  BY <1>1 DEF Reset
<1>2. CASE ~m.resetRequested
  <2> DEFINE r == [m EXCEPT !.resetRequested = TRUE, !.resetEpoch = @ + 1, !.history = <<>>]
  <2>1. Reset(m) = r
    BY <1>2 DEF Reset
  <2>2. m \in ChangesType /\ m.resetEpoch = a.resetEpoch /\ ~a.resetRequested
        /\ m.removed = a.removed \cup rs
    BY <1>2 DEF Marked
  <2>3. <<>> \in Seq(Deltas)
    OBVIOUS
  <2>4. r.resetRequested /\ r.resetEpoch = m.resetEpoch + 1 /\ r.history = <<>>
        /\ r.removed = m.removed /\ r.revision = m.revision /\ r.span = m.span
        /\ r.spanBlocked = m.spanBlocked
    BY <2>2 DEF ChangesType
  <2>5. r \in ChangesType
    <3>1. m.resetEpoch + 1 \in Nat
      BY <2>2 DEF ChangesType
    <3> QED BY <2>2, <2>3, <3>1, ResetTyped
  <2> HIDE DEF r
  <2> QED BY <1>2, <2>1, <2>2, <2>4, <2>5 DEF Marked
<1> QED BY <1>1, <1>2

\* Marking removed paths.
LEMMA MarkRemoves ==
    ASSUME NEW a \in ChangesType, NEW rs \in SUBSET Paths
    PROVE  Marked(a, MarkRemoved(a, rs), rs, {})
<1>1. CASE a.resetRequested
  BY <1>1 DEF MarkRemoved, Marked
<1>2. CASE ~a.resetRequested /\ Cardinality(a.removed \cup rs) > MaxRemoved
  <2> DEFINE m == [a EXCEPT !.removed = {}]
             r == [m EXCEPT !.resetRequested = TRUE, !.resetEpoch = @ + 1, !.history = <<>>]
  <2>1. MarkRemoved(a, rs) = r
    BY <1>2 DEF MarkRemoved, Reset, ChangesType
  <2>3. <<>> \in Seq(Deltas)
    OBVIOUS
  <2>4. r.resetRequested /\ r.resetEpoch = a.resetEpoch + 1 /\ r.history = <<>>
        /\ r.removed = {} /\ r.revision = a.revision /\ r.span = a.span
        /\ r.spanBlocked = a.spanBlocked
    BY DEF ChangesType
  <2>5. m \in ChangesType
    BY DEF ChangesType
  <2> HIDE DEF m
  <2>6. r \in ChangesType
    <3>1. m.resetEpoch + 1 \in Nat
      BY <2>5 DEF ChangesType
    <3> QED BY <2>3, <2>5, <3>1, ResetTyped
  <2> HIDE DEF r
  <2> QED BY <1>2, <2>1, <2>4, <2>6 DEF Marked
<1>3. CASE ~a.resetRequested /\ ~(Cardinality(a.removed \cup rs) > MaxRemoved)
  <2> DEFINE m == [a EXCEPT !.removed = @ \cup rs]
  <2>1. MarkRemoved(a, rs) = m
    BY <1>3 DEF MarkRemoved
  <2>2. m \in ChangesType /\ m.resetRequested = a.resetRequested /\ m.resetEpoch = a.resetEpoch
        /\ m.history = a.history /\ m.changed = a.changed \cup {} /\ m.removed = a.removed \cup rs
        /\ m.revision = a.revision /\ m.span = a.span /\ m.spanBlocked = a.spanBlocked
    BY DEF ChangesType
  <2> HIDE DEF m
  <2> QED BY <1>3, <2>1, <2>2 DEF Marked
<1> QED BY <1>1, <1>2, <1>3

\* Marking changed paths after removed ones.
LEMMA MarkChanges ==
    ASSUME NEW a \in ChangesType, NEW b, NEW rs, NEW ps \in SUBSET Paths, Marked(a, b, rs, {})
    PROVE  Marked(a, MarkChanged(b, ps), rs, ps)
<1>0. b \in ChangesType
  BY DEF Marked
<1>1. CASE b.resetRequested
  BY <1>1 DEF MarkChanged, Marked
<1>2. CASE ~b.resetRequested /\ Cardinality(b.changed \cup ps) > MaxChanged
  <2> DEFINE m == [b EXCEPT !.changed = {}]
             r == [m EXCEPT !.resetRequested = TRUE, !.resetEpoch = @ + 1, !.history = <<>>]
  <2>1. MarkChanged(b, ps) = r
    BY <1>0, <1>2 DEF MarkChanged, Reset, ChangesType
  <2>3. <<>> \in Seq(Deltas)
    OBVIOUS
  <2>4. r.resetRequested /\ r.resetEpoch = b.resetEpoch + 1 /\ r.history = <<>>
        /\ r.removed = b.removed /\ r.revision = b.revision /\ r.span = b.span
        /\ r.spanBlocked = b.spanBlocked
    BY <1>0 DEF ChangesType
  <2>5. m \in ChangesType
    BY <1>0 DEF ChangesType
  <2> HIDE DEF m
  <2>6. r \in ChangesType
    <3>1. m.resetEpoch + 1 \in Nat
      BY <2>5 DEF ChangesType
    <3> QED BY <2>3, <2>5, <3>1, ResetTyped
  <2> HIDE DEF r
  <2> QED BY <1>2, <2>1, <2>4, <2>6 DEF Marked
<1>3. CASE ~b.resetRequested /\ ~(Cardinality(b.changed \cup ps) > MaxChanged)
  <2> DEFINE m == [b EXCEPT !.changed = @ \cup ps]
  <2>1. MarkChanged(b, ps) = m
    BY <1>3 DEF MarkChanged
  <2>2. m \in ChangesType /\ m.resetRequested = b.resetRequested /\ m.resetEpoch = b.resetEpoch
        /\ m.history = b.history /\ m.changed = b.changed \cup ps /\ m.removed = b.removed
        /\ m.revision = b.revision /\ m.span = b.span /\ m.spanBlocked = b.spanBlocked
    BY <1>0 DEF ChangesType
  <2> HIDE DEF m
  <2> QED BY <1>3, <2>1, <2>2 DEF Marked
<1> QED BY <1>1, <1>2, <1>3

-----------------------------------------------------------------------------
(* What a notification may do to the record of changes.  The paths ps were  *)
(* announced; the open documents were o1 and are o2.                        *)

\* No revision is needed: open documents answer for all that changed.
Quiet(a, b, ps, o1, o2) ==
    /\ b.revision = a.revision /\ b.resetEpoch = a.resetEpoch
    /\ b.resetRequested = a.resetRequested /\ b.span = a.span /\ b.history = a.history
    /\ a.changed \subseteq b.changed /\ o1 \cup ps \subseteq o2

\* A new reset epoch: whoever is of an older one has to start again.
Restarted(a, b) == b.resetEpoch > a.resetEpoch /\ b.revision >= a.revision

\* A new revision that no delta leads to.
Barred(a, b) ==
    /\ b.revision > a.revision /\ b.resetEpoch = a.resetEpoch
    /\ b.resetRequested = a.resetRequested /\ b.span = None /\ b.history = <<>>

\* A new revision that the pending span, and its paths, lead to.
Extended(a, b, ps, o1, o2) ==
    /\ b.revision = a.revision + 1 /\ b.resetEpoch = a.resetEpoch
    /\ ~a.resetRequested /\ ~b.resetRequested /\ b.history = a.history
    /\ b.span # None
    /\ b.span.from = IF a.span = None THEN a.revision ELSE a.span.from
    /\ a.changed \cup ps \cup (o1 \ o2) \subseteq b.changed

Outcome(a, b, ps, o1, o2) ==
    /\ ChangesInv(b)
    /\ \/ Quiet(a, b, ps, o1, o2) \/ Restarted(a, b)
       \/ Barred(a, b) \/ Extended(a, b, ps, o1, o2)

\* A blocked advance leaves a barrier and forgets the span.
LEMMA AdvanceBlocked ==
    ASSUME Parameters, NEW a, ChangesInv(a), NEW m, NEW rs, NEW ps, Marked(a, m, rs, ps),
           NEW root,
           \/ root = None \/ m.spanBlocked \/ m.resetRequested
           \/ m.span # None /\ m.span.root # root
    PROVE  LET b == Advance(m, root)
           IN  /\ ChangesInv(b) /\ b.span = None /\ b.spanBlocked
               /\ b.resetRequested = m.resetRequested
               /\ Barred(a, b) \/ Restarted(a, b)
<1> DEFINE b == [m EXCEPT !.revision = m.revision + 1, !.span = None, !.spanBlocked = TRUE,
                          !.history = <<>>]
<1>1. Advance(m, root) = b
  BY DEF Advance
<1>2. m \in ChangesType /\ a \in ChangesType /\ m.revision = a.revision
  BY DEF Marked, ChangesInv
<1>3. <<>> \in Seq(Deltas)
  OBVIOUS
<1>4. b \in ChangesType
  <2>1. m.revision + 1 \in Nat
    BY <1>2 DEF ChangesType
  <2>2. \A r \in Nat, h \in Seq(Deltas), q \in BOOLEAN, s \in {None} \cup Spans :
           [m EXCEPT !.revision = r, !.span = s, !.spanBlocked = q, !.history = h] \in ChangesType
    BY <1>2 DEF ChangesType
  <2> QED BY <2>1, <2>2, <1>3
<1>5. b.revision = a.revision + 1 /\ b.span = None /\ b.spanBlocked /\ b.history = <<>>
      /\ b.resetEpoch = m.resetEpoch /\ b.resetRequested = m.resetRequested
  BY <1>2 DEF ChangesType
<1> HIDE DEF b
<1>6. a.revision \in Nat /\ a.resetEpoch \in Nat
      /\ a.resetRequested \in BOOLEAN /\ m.resetRequested \in BOOLEAN
  BY <1>2 DEF ChangesType
<1>7. ChangesInv(b)
  BY <1>4, <1>5, EmptyHistory DEF ChangesInv
<1>8. Barred(a, b) \/ Restarted(a, b)
  <2>1. \/ m.resetEpoch = a.resetEpoch /\ m.resetRequested = a.resetRequested
        \/ m.resetEpoch = a.resetEpoch + 1
    BY <1>6 DEF Marked
  <2> QED BY <2>1, <1>5, <1>6 DEF Barred, Restarted
<1> QED BY <1>1, <1>5, <1>7, <1>8

\* advance: the span lists all that was announced, or there is a barrier.
LEMMA Advances ==
    ASSUME Parameters, NEW a, ChangesInv(a), NEW m, NEW rs, NEW ps, Marked(a, m, rs, ps),
           NEW root \in LexicalRoots \cup {None}, NEW qs, NEW o1, NEW o2,
           root # None => rs = {} /\ qs \cup (o1 \ o2) \subseteq ps
    PROVE  Outcome(a, Advance(m, root), qs, o1, o2)
<1>1. CASE \/ root = None \/ m.spanBlocked \/ m.resetRequested
           \/ m.span # None /\ m.span.root # root
  BY <1>1, AdvanceBlocked DEF Outcome
<1>2. CASE ~(\/ root = None \/ m.spanBlocked \/ m.resetRequested
             \/ m.span # None /\ m.span.root # root)
  <2>1. root \in LexicalRoots /\ root # None /\ ~m.spanBlocked /\ ~m.resetRequested
        /\ rs = {} /\ qs \cup (o1 \ o2) \subseteq ps
    BY <1>2
  <2>2. /\ m \in ChangesType /\ a \in ChangesType
        /\ m.revision = a.revision /\ m.span = a.span /\ m.spanBlocked = a.spanBlocked
        /\ ~a.resetRequested /\ m.resetEpoch = a.resetEpoch /\ m.history = a.history
        /\ m.changed = a.changed \cup ps /\ m.removed = a.removed
    BY <2>1 DEF Marked, ChangesInv
  <2>3. a.revision \in Nat /\ (a.span # None => a.span \in Spans)
    BY <2>2 DEF ChangesType
  <2> DEFINE from == IF a.span = None THEN a.revision ELSE a.span.from
             span == [root |-> root, to |-> m.revision + 1, from |-> from]
             b == [m EXCEPT !.revision = m.revision + 1, !.span = span]
  <2>4. Advance(m, root) = b
    BY <1>2, <2>2 DEF Advance
  <2>5. from \in Nat /\ from < a.revision + 1
    BY <2>3 DEF ChangesInv, Spans
  <2>6. span \in Spans /\ span.from = from /\ span.to = a.revision + 1
    BY <2>1, <2>2, <2>3, <2>5 DEF Spans
  <2> HIDE DEF span
  <2>7. b \in ChangesType
    <3>1. \A r \in Nat, s \in {None} \cup Spans :
             [m EXCEPT !.revision = r, !.span = s] \in ChangesType
      BY <2>2 DEF ChangesType
    <3>2. m.revision + 1 \in Nat /\ span \in {None} \cup Spans
      BY <2>2, <2>3, <2>6
    <3> QED BY <3>1, <3>2, Zenon
  <2>8. b.revision = a.revision + 1 /\ b.span = span /\ b.resetEpoch = a.resetEpoch
        /\ b.history = a.history /\ b.changed = a.changed \cup ps /\ b.removed = a.removed
    BY <2>2 DEF ChangesType
  <2>9. ~b.spanBlocked /\ ~b.resetRequested
    BY <2>1, <2>2 DEF ChangesType
  <2>10. span # None
    BY <2>6 DEF Parameters
  <2> HIDE DEF b
  <2>11. a.removed = {} /\ ~a.spanBlocked
    BY <2>1, <2>2 DEF ChangesInv
  <2>12. a.history # <<>> => Last(a.history).to = from
    BY DEF ChangesInv
  <2> HIDE DEF from
  <2>13. ChangesInv(b)
    BY <2>5, <2>6, <2>7, <2>8, <2>9, <2>10, <2>11, <2>12 DEF ChangesInv
  <2>14. Extended(a, b, qs, o1, o2)
    BY <2>1, <2>2, <2>6, <2>8, <2>9, <2>10 DEF Extended, from
  <2> QED BY <2>4, <2>13, <2>14 DEF Outcome
<1> QED BY <1>1, <1>2

\* Marks without an advance, when nothing that needs one was announced.
LEMMA MarksOnly ==
    ASSUME Parameters, NEW a, ChangesInv(a), NEW m, NEW ps, NEW qs, NEW o1, NEW o2,
           Marked(a, m, {}, ps), o1 \cup qs \subseteq o2
    PROVE  Outcome(a, m, qs, o1, o2)
<1>1. m \in ChangesType /\ a \in ChangesType
  BY DEF Marked, ChangesInv
<1>2. CASE m.resetEpoch = a.resetEpoch + 1 /\ m.history = <<>> /\ m.removed \subseteq a.removed
  <2>1. Restarted(a, m)
    BY <1>1, <1>2 DEF Restarted, Marked, ChangesType
  <2>2. ChangesInv(m)
    BY <1>1, <1>2, EmptyHistory DEF ChangesInv, Marked
  <2> QED BY <2>1, <2>2 DEF Outcome
<1>3. CASE m.history = a.history /\ m.removed = a.removed /\ a.changed \subseteq m.changed
           /\ m.resetEpoch = a.resetEpoch /\ m.resetRequested = a.resetRequested
  <2>1. Quiet(a, m, qs, o1, o2)
    BY <1>3 DEF Quiet, Marked
  <2>2. ChangesInv(m)
    BY <1>1, <1>3 DEF ChangesInv, Marked
  <2> QED BY <2>1, <2>2 DEF Outcome
<1>4. a.resetRequested \in BOOLEAN /\ m.resetRequested \in BOOLEAN
  BY <1>1 DEF ChangesType
<1> QED BY <1>2, <1>3, <1>4 DEF Marked

\* A reset after a barrier.
LEMMA ResetAfterBarrier ==
    ASSUME Parameters, NEW a, ChangesInv(a), NEW c, ChangesInv(c), c.span = None, c.spanBlocked,
           Barred(a, c) \/ Restarted(a, c), NEW qs, NEW o1, NEW o2
    PROVE  Outcome(a, Reset(c), qs, o1, o2)
<1> DEFINE b == Reset(c)
<1>1. c \in ChangesType /\ a \in ChangesType
  BY DEF ChangesInv
<1>2. Marked(c, b, {}, {})
  BY <1>1, MarkNothing, MarkReset
<1> HIDE DEF b
<1>3. CASE b = c
  BY <1>3 DEF Outcome, b
<1>4. CASE b.resetEpoch = c.resetEpoch + 1 /\ b.history = <<>> /\ b.removed \subseteq c.removed
  <2>1. ChangesInv(b)
    BY <1>1, <1>2, <1>4, EmptyHistory DEF ChangesInv, Marked
  <2>2. Restarted(a, b)
    BY <1>1, <1>2, <1>4 DEF Restarted, Barred, Marked, ChangesType
  <2> QED BY <2>1, <2>2 DEF Outcome, b
<1>5. b.resetRequested
  BY <1>1, MarkNothing, MarkReset DEF b
<1> QED BY <1>2, <1>3, <1>4, <1>5 DEF Marked

-----------------------------------------------------------------------------
(* Holders.                                                                 *)

\* A holder stays one whatever a notification does, if it falls behind with no
\* more than was announced.
LEMMA HolderStep ==
    ASSUME NEW a, ChangesInv(a), NEW b, NEW ps, NEW o1, NEW o2, Outcome(a, b, ps, o1, o2),
           NEW x, HolderInv(x, a, o1), x.revision \in Nat, x.epoch \in Nat,
           NEW y, y.revision = x.revision, y.epoch = x.epoch, y.behind \subseteq x.behind \cup ps
    PROVE  HolderInv(y, b, o2)
<1>1. a.revision \in Nat /\ a.resetEpoch \in Nat /\ b.revision \in Nat /\ b.resetEpoch \in Nat
      /\ a.resetRequested \in BOOLEAN /\ b.resetRequested \in BOOLEAN
  BY DEF ChangesInv, Outcome, ChangesType
<1>2. CASE Quiet(a, b, ps, o1, o2)
  <2>1. Told(y, b, o2)
    BY <1>2 DEF Quiet, HolderInv, Told
  <2> QED BY <1>2, <2>1 DEF Quiet, HolderInv
<1>3. CASE Restarted(a, b)
  BY <1>1, <1>3 DEF Restarted, HolderInv, Told
<1>4. CASE Barred(a, b)
  BY <1>1, <1>4 DEF Barred, HolderInv, Told
<1>5. CASE Extended(a, b, ps, o1, o2)
  <2>1. y.revision <= b.revision /\ y.revision # b.revision /\ y.epoch <= b.resetEpoch
        /\ ~b.resetRequested
    BY <1>1, <1>5 DEF Extended, HolderInv
  <2>2. x.epoch = a.resetEpoch /\ b.span.from = x.revision => x.behind \subseteq a.changed \cup o1
    BY <1>5 DEF Extended, HolderInv, Told
  <2>3. x.epoch = a.resetEpoch =>
           \A i \in DOMAIN b.history : b.history[i].from = x.revision =>
              x.behind \subseteq Since(b.history, i) \cup o1 \cup a.changed
    BY <1>5 DEF Extended, HolderInv, Told
  <2>4. a.changed \cup ps \cup (o1 \ o2) \subseteq b.changed /\ b.span # None
        /\ b.resetEpoch = a.resetEpoch
    BY <1>5 DEF Extended
  <2>5. Told(y, b, o2)
    BY <2>1, <2>2, <2>3, <2>4 DEF Told
  <2> QED BY <2>1, <2>5 DEF HolderInv
<1> QED BY <1>2, <1>3, <1>4, <1>5 DEF Outcome

\* What has the identity of a holder and is behind with less is one too.
LEMMA HolderSmaller ==
    ASSUME NEW ch, NEW open, NEW x, HolderInv(x, ch, open),
           NEW y, y.revision = x.revision, y.epoch = x.epoch, y.behind \subseteq x.behind
    PROVE  HolderInv(y, ch, open)
<1>1. Told(y, ch, open)
  BY DEF HolderInv, Told
<1> QED BY <1>1 DEF HolderInv

\* A view serves a holder of the same identity that lacks no more than before.
LEMMA ListedSmaller ==
    ASSUME NEW x, NEW v, Listed(x, v), NEW y, NEW u,
           y.revision = x.revision, y.epoch = x.epoch,
           y.behind \ u.behind \subseteq x.behind \ v.behind,
           u.epoch = v.epoch, u.reset = v.reset, u.revision = v.revision, u.overlay = v.overlay,
           u.delta = v.delta, u.changed = v.changed, u.deltas = v.deltas
    PROVE  Listed(y, u)
BY DEF Listed

\* Announcing paths to everybody leaves every view listing what it listed.
LEMMA AnnounceListed ==
    ASSUME NEW x, NEW v, Listed(x, v), NEW ps, NEW y, NEW u,
           y.revision = x.revision, y.epoch = x.epoch, y.behind = x.behind \cup ps,
           u.epoch = v.epoch, u.reset = v.reset, u.revision = v.revision, u.overlay = v.overlay,
           u.delta = v.delta, u.changed = v.changed, u.deltas = v.deltas,
           u.behind = v.behind \cup ps
    PROVE  Listed(y, u)
<1>1. y.behind \ u.behind \subseteq x.behind \ v.behind
  OBVIOUS
<1> QED BY <1>1, ListedSmaller

-----------------------------------------------------------------------------
(* The operations that change texts.                                        *)

StoreType ==
    /\ overlay \subseteq Paths /\ cached \subseteq Paths \ overlay /\ closures \subseteq Closures
    /\ catalog \in [loaded : BOOLEAN, paths : SUBSET Paths]

\* The invariant, holder by holder.
ContextsInv == \A c \in Contexts : context[c].live => HolderInv(context[c], changes, overlay)
ViewsInv ==
    \A k \in Requests : view[k] # None =>
        HolderInv(view[k], changes, overlay) /\ ViewInv(view[k])
ContextsListed ==
    \A k \in Requests, c \in Contexts :
        view[k] # None /\ context[c].live => Listed(context[c], view[k])
ViewsListed ==
    \A k, l \in Requests : view[k] # None /\ view[l] # None => Listed(view[l], view[k])

\* The parts of the invariant make up the whole of it.
LEMMA InvParts ==
    ContentsInv <=> /\ ChangesInv(changes) /\ StoreType
                       /\ context \in [Contexts -> ContextType]
                       /\ view \in [Requests -> {None} \cup ViewType]
                       /\ ContextsInv /\ ViewsInv /\ ContextsListed /\ ViewsListed
<1>1. TypeOK <=> /\ changes \in ChangesType /\ StoreType
                 /\ context \in [Contexts -> ContextType]
                 /\ view \in [Requests -> {None} \cup ViewType]
  BY DEF TypeOK, ChangesType, Spans, StoreType, ContextType, ViewType
<1>2. ChangesInv(changes) => changes \in ChangesType
  BY DEF ChangesInv
<1> QED BY <1>1, <1>2 DEF ContentsInv, ContextsInv, ViewsInv, ContextsListed, ViewsListed

\* The same of the next state.
LEMMA InvPartsNext ==
    ContentsInv' <=> /\ ChangesInv(changes') /\ StoreType'
                     /\ context' \in [Contexts -> ContextType]
                     /\ view' \in [Requests -> {None} \cup ViewType]
                     /\ ContextsInv' /\ ViewsInv' /\ ContextsListed' /\ ViewsListed'
<1>1. TypeOK' <=> /\ changes' \in ChangesType /\ StoreType'
                  /\ context' \in [Contexts -> ContextType]
                  /\ view' \in [Requests -> {None} \cup ViewType]
  BY DEF TypeOK, ChangesType, Spans, StoreType, ContextType, ViewType
<1>2. ChangesInv(changes') => changes' \in ChangesType
  BY DEF ChangesInv
<1> QED BY <1>1, <1>2 DEF ContentsInv, ContextsInv, ViewsInv, ContextsListed, ViewsListed

\* A change that is announced to every holder and recorded keeps the invariant.
LEMMA Announcement ==
    ASSUME Parameters, ContentsInv, NEW ps \in SUBSET Paths, Announce(ps), StoreType',
           Outcome(changes, changes', ps, overlay, overlay')
    PROVE  ContentsInv'
<1>1. /\ ChangesInv(changes) /\ context \in [Contexts -> ContextType]
      /\ view \in [Requests -> {None} \cup ViewType]
      /\ ContextsInv /\ ViewsInv /\ ContextsListed /\ ViewsListed
  BY InvParts
<1>2. ChangesInv(changes')
  BY DEF Outcome
<1>3. ASSUME NEW c \in Contexts
      PROVE  /\ context'[c] = [context[c] EXCEPT !.behind = @ \cup ps]
             /\ context[c] \in ContextType /\ context'[c] \in ContextType
             /\ context'[c].live = context[c].live /\ context'[c].epoch = context[c].epoch
             /\ context'[c].revision = context[c].revision
             /\ context'[c].behind = context[c].behind \cup ps
             /\ context[c].epoch \in Nat /\ context[c].revision \in Nat
  <2>1. context'[c] = [context[c] EXCEPT !.behind = @ \cup ps] /\ context[c] \in ContextType
    BY <1>1 DEF Announce
  <2> QED BY <2>1 DEF ContextType
<1>4. ASSUME NEW k \in Requests
      PROVE  /\ view'[k] = None <=> view[k] = None
             /\ view[k] # None =>
                  /\ view[k] \in ViewType /\ view'[k] \in ViewType
                  /\ view'[k].behind = view[k].behind \cup ps
                  /\ view'[k].epoch = view[k].epoch /\ view'[k].reset = view[k].reset
                  /\ view'[k].revision = view[k].revision /\ view'[k].overlay = view[k].overlay
                  /\ view'[k].delta = view[k].delta /\ view'[k].changed = view[k].changed
                  /\ view'[k].deltas = view[k].deltas /\ view'[k].documents = view[k].documents
                  /\ view[k].epoch \in Nat /\ view[k].revision \in Nat
  <2>1. view[k] = None => view'[k] = None
    BY DEF Announce
  <2>2. CASE view[k] # None
    <3>1. view[k] \in ViewType /\ view'[k] = [view[k] EXCEPT !.behind = @ \cup ps]
      BY <1>1, <2>2 DEF Announce
    <3>2. view'[k] \in ViewType
      BY <3>1 DEF ViewType
    <3>3. view'[k] # None
      BY <3>2 DEF Parameters
    <3> QED BY <3>1, <3>2, <3>3, <2>2 DEF ViewType
  <2> QED BY <2>1, <2>2
<1>5. context' \in [Contexts -> ContextType]
  <2>1. context' = [c \in Contexts |-> context'[c]]
    BY DEF Announce
  <2> QED BY <1>3, <2>1
<1>6. view' \in [Requests -> {None} \cup ViewType]
  <2>1. view' = [k \in Requests |-> view'[k]]
    BY DEF Announce
  <2>2. \A k \in Requests : view'[k] \in {None} \cup ViewType
    BY <1>4
  <2> QED BY <2>1, <2>2
<1>7. ContextsInv'
  <2> SUFFICES ASSUME NEW c \in Contexts, context'[c].live
               PROVE  HolderInv(context'[c], changes', overlay')
    BY DEF ContextsInv
  <2>1. HolderInv(context[c], changes, overlay)
    BY <1>1, <1>3 DEF ContextsInv
  <2>2. /\ context'[c].epoch = context[c].epoch /\ context'[c].revision = context[c].revision
        /\ context'[c].behind \subseteq context[c].behind \cup ps
        /\ context[c].epoch \in Nat /\ context[c].revision \in Nat
    BY <1>3
  <2> QED BY <1>1, <2>1, <2>2, HolderStep
<1>8. ViewsInv'
  <2> SUFFICES ASSUME NEW k \in Requests, view'[k] # None
               PROVE  HolderInv(view'[k], changes', overlay') /\ ViewInv(view'[k])
    BY DEF ViewsInv
  <2>1. view[k] # None /\ HolderInv(view[k], changes, overlay) /\ ViewInv(view[k])
    BY <1>1, <1>4 DEF ViewsInv
  <2>2. HolderInv(view'[k], changes', overlay')
    <3>1. /\ view'[k].epoch = view[k].epoch /\ view'[k].revision = view[k].revision
          /\ view'[k].behind \subseteq view[k].behind \cup ps
          /\ view[k].epoch \in Nat /\ view[k].revision \in Nat
      BY <1>4, <2>1
    <3> QED BY <1>1, <2>1, <3>1, HolderStep
  <2>3. ViewInv(view'[k])
    BY <1>4, <2>1 DEF ViewInv
  <2> QED BY <2>2, <2>3
<1>9. ContextsListed'
  <2> SUFFICES ASSUME NEW k \in Requests, NEW c \in Contexts, view'[k] # None, context'[c].live
               PROVE  Listed(context'[c], view'[k])
    BY DEF ContextsListed
  <2>1. view[k] # None /\ Listed(context[c], view[k])
    BY <1>1, <1>3, <1>4 DEF ContextsListed
  <2>2. /\ context'[c].epoch = context[c].epoch /\ context'[c].revision = context[c].revision
        /\ context'[c].behind = context[c].behind \cup ps
    BY <1>3
  <2>3. /\ view'[k].epoch = view[k].epoch /\ view'[k].reset = view[k].reset
        /\ view'[k].revision = view[k].revision /\ view'[k].overlay = view[k].overlay
        /\ view'[k].delta = view[k].delta /\ view'[k].changed = view[k].changed
        /\ view'[k].deltas = view[k].deltas /\ view'[k].behind = view[k].behind \cup ps
    BY <2>1, <1>4
  <2> QED BY <2>1, <2>2, <2>3, AnnounceListed
<1>10. ViewsListed'
  <2> SUFFICES ASSUME NEW k \in Requests, NEW l \in Requests, view'[k] # None, view'[l] # None
               PROVE  Listed(view'[l], view'[k])
    BY DEF ViewsListed
  <2>1. view[k] # None /\ view[l] # None /\ Listed(view[l], view[k])
    BY <1>1, <1>4 DEF ViewsListed
  <2>2. /\ view'[l].epoch = view[l].epoch /\ view'[l].revision = view[l].revision
        /\ view'[l].behind = view[l].behind \cup ps
    BY <2>1, <1>4
  <2>3. /\ view'[k].epoch = view[k].epoch /\ view'[k].reset = view[k].reset
        /\ view'[k].revision = view[k].revision /\ view'[k].overlay = view[k].overlay
        /\ view'[k].delta = view[k].delta /\ view'[k].changed = view[k].changed
        /\ view'[k].deltas = view[k].deltas /\ view'[k].behind = view[k].behind \cup ps
    BY <2>1, <1>4
  <2> QED BY <2>1, <2>2, <2>3, AnnounceListed
<1> QED BY <1>2, <1>5, <1>6, <1>7, <1>8, <1>9, <1>10, InvPartsNext

\* Names are paths, and invalidation only takes away.
LEMMA StoreHelpers ==
    /\ \A p : Names(p) \subseteq Paths /\ Affected(p) \subseteq Paths
    /\ \A ps : Invalidated(ps) \subseteq cached
    /\ \A ps : Untouched(ps) \subseteq closures
<1>1. \A p : Names(p) \subseteq Paths
  <2>1. \A p : Aliases(p) \subseteq Paths
    BY DEF Aliases
  <2> QED BY <2>1, Zenon DEF Names
<1>2. \A p : Affected(p) \subseteq Names(p)
  BY DEF Affected
<1>3. \A ps : Invalidated(ps) \subseteq cached
  BY DEF Invalidated
<1>4. \A ps : Untouched(ps) \subseteq closures
  BY DEF Untouched
<1> QED BY <1>1, <1>2, <1>3, <1>4

\* workspaceFilesChanged without rootDirty.
LEMMA FilesStep ==
    ASSUME Parameters, ContentsInv, NEW root \in LexicalRoots, NEW batch \in SUBSET Paths,
           NEW kind \in [batch -> Events], NEW regular \in SUBSET batch,
           NEW resolves \in BOOLEAN, FilesChanged(root, kind, regular, resolves)
    PROVE  ContentsInv'
<1>0. DOMAIN kind = batch
  OBVIOUS
<1> DEFINE Of(k) == {p \in batch : kind[p] = k}
           source == batch \ Of("rejected")
           known == (source \ overlay) \cap (cached \cup catalog.paths)
           lost == (source \ (Of("deleted") \cup overlay \cup regular)) \cap catalog.paths
           touched == UNION {Affected(p) : p \in batch}
           removed == lost \cup (UNION {Affected(p) : p \in Of("deleted") \cup Of("rejected")})
                      \cup {p \in Of("deleted") \ overlay : p \in known \/ Affected(p) # {}}
                      \cup (IF catalog.loaded THEN Of("rejected") ELSE {})
           changed == (Of("changed") \ (overlay \cup lost))
                      \cup (UNION {Affected(p) \ (lost \cap {p}) : p \in Of("changed")})
                      \cup (UNION {Affected(p) : p \in Of("created")})
           resets == ChangeResets(kind, lost) \/ resolves
           advances == \/ Of("rejected") # {} \/ Of("created") # {}
                       \/ source \ overlay # {} \/ touched # {}
           compatible == /\ ~resets /\ Of("changed") = batch
                         /\ batch \subseteq known \cap regular
           marked == MarkChanged(MarkRemoved(changes, removed), changed)
           reset == IF resets THEN Reset(marked) ELSE marked
           said == (UNION {{p} \cup Names(p) : p \in batch}) \ overlay
<1>1. /\ resolves => Of("created") # {}
      /\ changes' = IF advances THEN Advance(reset, IF compatible THEN root ELSE None) ELSE reset
      /\ cached' = Invalidated(batch) /\ overlay' = overlay
      /\ \E resolved \in SUBSET Untouched(touched) : closures' = Untouched(touched) \ resolved
      /\ catalog' = IF Of("rejected") # {} \/ ~catalog.loaded
                    THEN [loaded |-> FALSE, paths |-> {}]
                    ELSE [catalog EXCEPT !.paths = (@ \ (lost \cup (Of("deleted") \ overlay)))
                                                   \cup (Of("created") \cap regular)]
      /\ Announce(said)
  BY <1>0 DEF FilesChanged
<1>2. ChangesInv(changes) /\ changes \in ChangesType /\ StoreType
  BY InvParts DEF ChangesInv
<1>3. catalog.paths \in SUBSET Paths /\ catalog.loaded \in BOOLEAN
  BY <1>2 DEF StoreType
<1>4. StoreType'
  <2>1. overlay' \subseteq Paths /\ cached' \subseteq Paths \ overlay' /\ closures' \subseteq Closures
    BY <1>1, <1>2, StoreHelpers DEF StoreType
  <2>2. catalog' \in [loaded : BOOLEAN, paths : SUBSET Paths]
    BY <1>1, <1>2, <1>3 DEF StoreType
  <2> QED BY <2>1, <2>2 DEF StoreType
<1>5. said \in SUBSET Paths /\ removed \in SUBSET Paths /\ changed \in SUBSET Paths
  <2>1. \A p \in batch : p \in Paths /\ Names(p) \subseteq Paths /\ Affected(p) \subseteq Paths
    BY StoreHelpers
  <2>2. lost \subseteq Paths /\ \A k : Of(k) \subseteq batch
    BY <1>3
  <2>3. said \subseteq Paths
    BY <2>1
  <2> HIDE DEF Of, lost
  <2>4. removed \subseteq Paths
    BY <2>1, <2>2, ZenonT(60)
  <2>5. changed \subseteq Paths
    BY <2>1, <2>2, Zenon
  <2> QED BY <2>3, <2>4, <2>5
<1>6. Marked(changes, reset, removed, changed)
  <2> HIDE DEF removed, changed, resets
  <2>1. Marked(changes, marked, removed, changed)
    BY <1>2, <1>5, MarkRemoves, MarkChanges
  <2> QED BY <1>2, <2>1, MarkReset
<1>7. CASE advances
  <2>1. compatible => removed = {} /\ said \subseteq changed
    <3> SUFFICES ASSUME compatible PROVE removed = {} /\ said \subseteq changed
      OBVIOUS
    <3>1. lost = {} /\ Of("changed") = batch /\ batch \subseteq known
      BY DEF ChangeResets
    <3>2. Of("deleted") = {} /\ Of("rejected") = {}
      <4>1. \A p \in batch : kind[p] = "changed"
        BY <3>1
      <4> QED BY <4>1, Zenon
    <3>3. removed = {}
      BY <3>1, <3>2
    <3>4. \A p \in batch : Names(p) \ overlay = Affected(p)
      BY DEF Affected
    <3>5. said \subseteq UNION {{p} \cup Affected(p) : p \in batch}
          /\ batch \cap overlay = {}
      <4>1. batch \cap overlay = {}
        BY <3>1
      <4> QED BY <4>1, <3>4
    <3>6. batch \subseteq changed /\ \A p \in batch : Affected(p) \subseteq changed
      BY <3>1, <3>5
    <3> QED BY <3>3, <3>5, <3>6
  <2> HIDE DEF advances, compatible, removed, changed, reset, said
  <2>2. PICK spelled \in LexicalRoots \cup {None} :
           /\ changes' = Advance(reset, spelled)
           /\ spelled # None => compatible
    BY <1>1, <1>7
  <2>3. Outcome(changes, changes', said, overlay, overlay')
    BY <1>1, <1>2, <1>6, <2>1, <2>2, Advances
  <2> QED BY <1>1, <1>4, <1>5, <2>3, Announcement
<1>8. CASE ~advances
  <2>1. Of("rejected") = {} /\ Of("created") = {} /\ batch \subseteq overlay
        /\ \A p \in batch : Affected(p) = {}
    BY <1>8
  <2>2. lost = {} /\ removed = {} /\ changed = {} /\ said = {}
    <3>1. lost = {}
      BY <2>1
    <3>2. removed = {}
      BY <2>1, <3>1
    <3>3. changed = {}
      BY <2>1, <3>1
    <3>4. said = {}
      <4>1. \A p \in batch : p \in overlay /\ Names(p) \subseteq overlay
        BY <2>1 DEF Affected
      <4> QED BY <4>1, Zenon
    <3> QED BY <3>1, <3>2, <3>3, <3>4
  <2> HIDE DEF removed, changed, reset, said
  <2>3. changes' = reset
    BY <1>1, <1>8
  <2>4. Outcome(changes, changes', said, overlay, overlay')
    BY <1>1, <1>2, <1>6, <2>2, <2>3, MarksOnly
  <2> QED BY <1>1, <1>4, <1>5, <2>4, Announcement
<1> QED BY <1>7, <1>8

\* workspaceFilesChanged with rootDirty.
LEMMA RootStep ==
    ASSUME Parameters, ContentsInv, RootDirty
    PROVE  ContentsInv'
<1> DEFINE known == (catalog.paths \cup cached) \ overlay
           marked == MarkRemoved(changes, known)
<1>1. ChangesInv(changes) /\ changes \in ChangesType /\ StoreType
  BY InvParts DEF ChangesInv
<1>2. known \in SUBSET Paths
  BY <1>1 DEF StoreType
<1>3. /\ changes' = Reset(Advance(marked, None)) /\ Announce(Paths \ overlay)
      /\ cached' = {} /\ closures' = {} /\ overlay' = overlay
      /\ catalog' = [loaded |-> FALSE, paths |-> {}]
  BY DEF RootDirty
<1>4. StoreType'
  BY <1>1, <1>3 DEF StoreType
<1> HIDE DEF known
<1>5. Marked(changes, marked, known, {})
  BY <1>1, <1>2, MarkRemoves
<1> HIDE DEF marked
<1>6. Outcome(changes, changes', Paths \ overlay, overlay, overlay')
  <2> DEFINE barrier == Advance(marked, None)
  <2>1. /\ ChangesInv(barrier) /\ barrier.span = None /\ barrier.spanBlocked
        /\ Barred(changes, barrier) \/ Restarted(changes, barrier)
    BY <1>1, <1>5, AdvanceBlocked
  <2> HIDE DEF barrier
  <2> QED BY <1>1, <1>3, <2>1, ResetAfterBarrier DEF barrier
<1>7. Paths \ overlay \in SUBSET Paths
  OBVIOUS
<1> QED BY <1>3, <1>4, <1>6, <1>7, Announcement

\* refreshProjectMembership.
LEMMA RefreshStep ==
    ASSUME Parameters, ContentsInv, NEW found \in SUBSET Paths, NEW differs \in SUBSET Paths,
           RefreshMembership(found, differs)
    PROVE  ContentsInv'
<1> DEFINE gone == catalog.paths \ found
           touched == UNION {Affected(p) : p \in gone \cup differs}
           removed == gone \cup UNION {Affected(p) : p \in gone}
           changed == differs \cup UNION {Affected(p) : p \in differs}
           resets == \/ \E p \in gone : Affected(p) # {}
                     \/ \E p \in differs : Affected(p) \ {p} # {}
           marked == MarkChanged(MarkRemoved(changes, removed), changed)
           reset == IF resets THEN Reset(marked) ELSE marked
           said == gone \cup differs \cup touched
<1>1. ChangesInv(changes) /\ changes \in ChangesType /\ StoreType
  BY InvParts DEF ChangesInv
<1>2. /\ changes' = IF gone \cup differs # {} THEN Advance(reset, None) ELSE reset
      /\ cached' = Invalidated(gone \cup differs) /\ closures' = Untouched(touched)
      /\ catalog' = [catalog EXCEPT !.paths = found] /\ Announce(said) /\ overlay' = overlay
  BY DEF RefreshMembership
<1>3. catalog.paths \in SUBSET Paths
  BY <1>1 DEF StoreType
<1>4. StoreType'
  <2>1. overlay' \subseteq Paths /\ cached' \subseteq Paths \ overlay' /\ closures' \subseteq Closures
    BY <1>1, <1>2, StoreHelpers DEF StoreType
  <2>2. catalog' \in [loaded : BOOLEAN, paths : SUBSET Paths]
    BY <1>1, <1>2 DEF StoreType
  <2> QED BY <2>1, <2>2 DEF StoreType
<1>5. said \in SUBSET Paths /\ removed \in SUBSET Paths /\ changed \in SUBSET Paths
  <2>1. \A p : Affected(p) \subseteq Paths
    BY StoreHelpers
  <2>2. gone \subseteq Paths
    BY <1>3
  <2> QED BY <2>1, <2>2
<1>6. gone \cup differs = {} => removed = {} /\ said = {}
  OBVIOUS
<1>7. Marked(changes, reset, removed, changed)
  <2> HIDE DEF removed, changed, resets
  <2>1. Marked(changes, marked, removed, changed)
    BY <1>1, <1>5, MarkRemoves, MarkChanges
  <2> QED BY <1>1, <2>1, MarkReset
<1> HIDE DEF removed, changed, said, gone, reset
<1>8. CASE gone \cup differs # {}
  <2>1. Outcome(changes, changes', said, overlay, overlay')
    BY <1>1, <1>2, <1>7, <1>8, Advances
  <2> QED BY <1>2, <1>4, <1>5, <2>1, Announcement
<1>9. CASE gone \cup differs = {}
  <2>1. changes' = reset /\ overlay' = overlay
    BY <1>2, <1>9
  <2>2. Outcome(changes, changes', said, overlay, overlay')
    BY <1>1, <1>6, <1>7, <1>9, <2>1, MarksOnly
  <2> QED BY <1>2, <1>4, <1>5, <2>2, Announcement
<1> QED BY <1>8, <1>9

\* sync: an open document answers for itself; one that takes a file over under
\* another name leaves a barrier.
LEMMA SyncStep ==
    ASSUME Parameters, ContentsInv, NEW p \in Paths, Sync(p)
    PROVE  ContentsInv'
<1> DEFINE takesOver == p \notin overlay /\ IsAlias(p) /\ Names(p) # {}
           said == {p} \cup (IF takesOver THEN Names(p) ELSE {})
<1>1. ChangesInv(changes) /\ changes \in ChangesType /\ StoreType
  BY InvParts DEF ChangesInv
<1>2. /\ changes' = IF takesOver THEN Advance(Reset(changes), None) ELSE changes
      /\ overlay' = overlay \cup {p}
      /\ cached' = Replaced(p, IF takesOver THEN Invalidated({p}) ELSE cached)
      /\ closures' = IF takesOver THEN Untouched(Names(p)) ELSE closures
      /\ catalog' = IF catalog.loaded THEN [catalog EXCEPT !.paths = @ \cup {p}] ELSE catalog
      /\ Announce(said)
  BY DEF Sync
<1>3. StoreType'
  <2>1. overlay' \subseteq Paths /\ cached' \subseteq Paths \ overlay' /\ closures' \subseteq Closures
    BY <1>1, <1>2, StoreHelpers DEF StoreType, Replaced
  <2>2. catalog' \in [loaded : BOOLEAN, paths : SUBSET Paths]
    BY <1>1, <1>2 DEF StoreType
  <2> QED BY <2>1, <2>2 DEF StoreType
<1>4. said \in SUBSET Paths
  BY StoreHelpers
<1>5. CASE takesOver
  <2>1. Marked(changes, Reset(changes), {}, {})
    BY <1>1, MarkNothing, MarkReset
  <2> HIDE DEF said
  <2>2. Outcome(changes, changes', said, overlay, overlay')
    BY <1>1, <1>2, <1>5, <2>1, Advances
  <2> QED BY <1>2, <1>3, <1>4, <2>2, Announcement
<1>6. CASE ~takesOver
  <2>1. changes' = changes /\ overlay \cup said \subseteq overlay'
    BY <1>2, <1>6
  <2>2. Marked(changes, changes, {}, {})
    BY <1>1, MarkNothing
  <2> HIDE DEF said
  <2>3. Outcome(changes, changes', said, overlay, overlay')
    BY <1>1, <2>1, <2>2, MarksOnly
  <2> QED BY <1>2, <1>3, <1>4, <2>3, Announcement
<1> QED BY <1>5, <1>6

\* close: the path and its names on disk are marked before the revision.
LEMMA CloseStep ==
    ASSUME Parameters, ContentsInv, NEW p \in Paths, NEW root \in LexicalRoots \cup {None},
           NEW onDisk \in BOOLEAN, Close(p, root, onDisk)
    PROVE  ContentsInv'
<1> DEFINE touched == Names(p) \ (overlay \ {p})
           resets == touched \ {p} # {}
           said == {p} \cup touched
           marked == MarkChanged(changes, said)
           reset == IF resets THEN Reset(marked) ELSE marked
           compatible == root # None /\ ~IsAlias(p) /\ ~resets
<1>1. ChangesInv(changes) /\ changes \in ChangesType /\ StoreType
  BY InvParts DEF ChangesInv
<1>2. /\ changes' = Advance(reset, IF compatible THEN root ELSE None)
      /\ overlay' = overlay \ {p} /\ cached' = Invalidated({p}) /\ closures' = Untouched(touched)
      /\ catalog' = IF catalog.loaded /\ ~onDisk THEN [catalog EXCEPT !.paths = @ \ {p}] ELSE catalog
      /\ Announce(said)
  BY DEF Close
<1>3. StoreType'
  <2>1. overlay' \subseteq Paths /\ cached' \subseteq Paths \ overlay' /\ closures' \subseteq Closures
    BY <1>1, <1>2, StoreHelpers DEF StoreType
  <2>2. catalog' \in [loaded : BOOLEAN, paths : SUBSET Paths]
    BY <1>1, <1>2 DEF StoreType
  <2> QED BY <2>1, <2>2 DEF StoreType
<1>4. said \in SUBSET Paths /\ overlay \ overlay' \subseteq said
  BY <1>2, StoreHelpers
<1> HIDE DEF said, resets
<1>5. Marked(changes, reset, {}, said)
  <2>1. Marked(changes, marked, {}, said)
    BY <1>1, <1>4, MarkNothing, MarkChanges
  <2> QED BY <1>1, <2>1, MarkReset
<1> HIDE DEF reset, compatible
<1>6. PICK spelled \in LexicalRoots \cup {None} : changes' = Advance(reset, spelled)
  BY <1>2
<1>7. Outcome(changes, changes', said, overlay, overlay')
  BY <1>1, <1>4, <1>5, <1>6, Advances
<1> QED BY <1>2, <1>3, <1>4, <1>7, Announcement

-----------------------------------------------------------------------------
(* take: the pending notifications become a delta of the history.           *)

\* A suffix of an ordered history is ordered.
LEMMA SuffixOrdered ==
    ASSUME NEW h \in Seq(Deltas), Ordered(h), NEW i \in 1 .. Len(h) + 1
    PROVE  LET t == SubSeq(h, i, Len(h))
           IN  /\ t \in Seq(Deltas) /\ Len(t) = Len(h) - i + 1 /\ Ordered(t)
               /\ \A j \in 1 .. Len(t) : t[j] = h[i + j - 1]
<1> DEFINE t == SubSeq(h, i, Len(h))
<1>1. Len(h) \in Nat /\ \A j \in 1 .. Len(h) : h[j] \in Deltas
  OBVIOUS
<1>2. t \in Seq(Deltas) /\ Len(t) = Len(h) - i + 1 /\ \A j \in 1 .. Len(t) : t[j] = h[i + j - 1]
  BY <1>1
<1> HIDE DEF t
<1>3. DOMAIN t = 1 .. Len(t) /\ DOMAIN h = 1 .. Len(h) /\ Len(t) \in Nat
  BY <1>2
<1>4. \A j \in 1 .. Len(t) : i + j - 1 \in 1 .. Len(h)
  BY <1>1, <1>2
<1>5. \A j \in DOMAIN t : t[j].from < t[j].to
  BY <1>2, <1>3, <1>4 DEF Ordered
<1>6. \A j, k \in DOMAIN t : j < k => t[j].to <= t[k].from
  <2> SUFFICES ASSUME NEW j \in 1 .. Len(t), NEW k \in 1 .. Len(t), j < k
               PROVE  t[j].to <= t[k].from
    BY <1>3
  <2>1. i + j - 1 < i + k - 1 /\ i + j - 1 \in DOMAIN h /\ i + k - 1 \in DOMAIN h
    BY <1>1, <1>3, <1>4
  <2> QED BY <2>1, <1>2 DEF Ordered
<1>7. \A j \in 1 .. Len(t) - 1 : t[j].to = t[j + 1].from /\ t[j].root = t[j + 1].root
  <2> SUFFICES ASSUME NEW j \in 1 .. Len(t) - 1
               PROVE  t[j].to = t[j + 1].from /\ t[j].root = t[j + 1].root
    OBVIOUS
  <2>1. i + j - 1 \in 1 .. Len(h) - 1 /\ j \in 1 .. Len(t) /\ j + 1 \in 1 .. Len(t)
        /\ i + (j + 1) - 1 = (i + j - 1) + 1
    BY <1>1, <1>2, <1>3
  <2>2. t[j] = h[i + j - 1] /\ t[j + 1] = h[(i + j - 1) + 1]
    BY <1>2, <2>1, SMTT(60)
  <2> QED BY <2>1, <2>2 DEF Ordered
<1> QED BY <1>2, <1>5, <1>6, <1>7 DEF Ordered, t

\* A delta that starts where a history ends, under the same spelling, extends it.
LEMMA AppendOrdered ==
    ASSUME NEW h \in Seq(Deltas), Ordered(h), NEW d \in Deltas, d.from < d.to,
           h # <<>> => Last(h).to = d.from /\ Last(h).root = d.root
    PROVE  Ordered(Append(h, d))
<1> DEFINE t == Append(h, d)
           n == Len(h)
<1>1. n \in Nat /\ Len(t) = n + 1 /\ t[n + 1] = d /\ (\A j \in 1 .. n : t[j] = h[j])
      /\ DOMAIN t = 1 .. n + 1 /\ DOMAIN h = 1 .. n
  OBVIOUS
<1>2. n > 0 => h[n].to = d.from /\ h[n].root = d.root
  BY <1>1 DEF Last
<1>3. \A j \in 1 .. n : h[j].from \in Nat /\ h[j].to \in Nat
  <2>1. \A j \in 1 .. n : h[j] \in Deltas
    OBVIOUS
  <2> QED BY <2>1 DEF Deltas
<1>0. n \in Nat
  OBVIOUS
<1> HIDE DEF t, n
<1>4. \A j \in DOMAIN t : t[j].from < t[j].to
  BY <1>1 DEF Ordered
<1>5. \A j \in 1 .. n : h[j].to <= d.from
  <2> SUFFICES ASSUME NEW j \in 1 .. n PROVE h[j].to <= d.from
    OBVIOUS
  <2>1. CASE j = n
    BY <2>1, <1>1, <1>2, <1>3
  <2>2. CASE j < n
    <3>1. n \in DOMAIN h /\ j \in DOMAIN h
      BY <1>1
    <3>2. h[j].to <= h[n].from /\ h[n].from < h[n].to
      BY <2>2, <3>1 DEF Ordered
    <3> QED BY <1>1, <1>2, <1>3, <2>2, <3>2
  <2> QED BY <2>1, <2>2, <1>0
<1>6. \A j, k \in DOMAIN t : j < k => t[j].to <= t[k].from
  <2> SUFFICES ASSUME NEW j \in 1 .. n + 1, NEW k \in 1 .. n + 1, j < k
               PROVE  t[j].to <= t[k].from
    BY <1>1
  <2>1. CASE k = n + 1
    <3>1. j \in 1 .. n
      BY <2>1, <1>1
    <3> QED BY <1>1, <1>5, <2>1, <3>1
  <2>2. CASE k < n + 1
    <3>1. j \in DOMAIN h /\ k \in DOMAIN h
      BY <2>2, <1>1
    <3> QED BY <1>1, <3>1 DEF Ordered
  <2> QED BY <1>1, <2>1, <2>2
<1>7. \A j \in 1 .. Len(t) - 1 : t[j].to = t[j + 1].from /\ t[j].root = t[j + 1].root
  <2> SUFFICES ASSUME NEW j \in 1 .. n
               PROVE  t[j].to = t[j + 1].from /\ t[j].root = t[j + 1].root
    BY <1>1
  <2>1. CASE j = n
    BY <2>1, <1>1, <1>2
  <2>2. CASE j < n
    <3>1. j \in 1 .. n - 1 /\ j + 1 \in 1 .. n
      BY <1>1, <2>2
    <3>2. h[j].to = h[j + 1].from /\ h[j].root = h[j + 1].root
      BY <3>1 DEF Ordered, n
    <3> QED BY <1>1, <3>1, <3>2
  <2> QED BY <2>1, <2>2, <1>0
<1> QED BY <1>4, <1>6, <1>7 DEF Ordered, t

\* What a take publishes, and the history after it.
LEMMA HistoryTaken ==
    ASSUME Parameters, NEW a, ChangesInv(a)
    PROVE  LET h == History(a)
           IN  /\ h \in Seq(Deltas) /\ Ordered(h) /\ Limited(h)
               /\ h # <<>> => Last(h).to = a.revision
               /\ Delta(a) = None => h = a.history /\ (a.resetRequested \/ a.span = None)
               /\ Delta(a) # None =>
                     /\ a.span # None /\ Delta(a) \in Deltas
                     /\ Delta(a).from = a.span.from /\ Delta(a).changed = a.changed
                     /\ \A i \in DOMAIN h :
                          \/ h[i].from = a.span.from /\ a.changed \subseteq Since(h, i)
                          \/ \E j \in DOMAIN a.history :
                                /\ h[i].from = a.history[j].from
                                /\ Since(a.history, j) \cup a.changed \subseteq Since(h, i)
<1> DEFINE h == History(a)
           d == Delta(a)
           g == a.history
<1>1. a \in ChangesType /\ g \in Seq(Deltas) /\ Ordered(g) /\ Limited(g)
  BY DEF ChangesInv, ChangesType
<1>2. CASE d = None
  <2>1. h = g
    BY <1>2 DEF History
  <2>2. a.span = None \/ a.resetRequested \/ a.removed # {}
    <3> SUFFICES ASSUME a.span # None, ~a.resetRequested, a.removed = {} PROVE FALSE
      OBVIOUS
    <3>1. a.span \in Spans /\ a.changed \in SUBSET Paths
      BY <1>1 DEF ChangesType
    <3>2. d \in Deltas
      BY <3>1 DEF Delta, Deltas, Spans
    <3> QED BY <1>2, <3>2 DEF Parameters
  <2>3. a.resetRequested \/ a.span = None
    BY <2>2 DEF ChangesInv
  <2>4. g # <<>> => Last(g).to = a.revision
    BY <2>3 DEF ChangesInv
  <2> QED BY <1>1, <1>2, <2>1, <2>3, <2>4
<1>3. CASE d # None
  <2>1. a.span # None /\ ~a.resetRequested /\ a.removed = {}
        /\ d = [root |-> a.span.root, from |-> a.span.from, to |-> a.span.to, changed |-> a.changed]
    BY <1>3 DEF Delta
  <2>2. a.span \in Spans /\ a.changed \in SUBSET Paths /\ a.revision \in Nat
    BY <1>1, <2>1 DEF ChangesType
  <2>3. d \in Deltas /\ d.from = a.span.from /\ d.changed = a.changed /\ d.to = a.revision
        /\ d.from < d.to /\ d.root = a.span.root
    BY <2>1, <2>2 DEF ChangesInv, Deltas, Spans
  <2> HIDE DEF d
  <2>4. PICK joined \in {g, <<>>} :
           /\ h = Trim(Append(joined, d))
           /\ joined # <<>> => Last(joined).to = d.from /\ Last(joined).root = d.root
    <3> DEFINE cut == g # <<>> /\ (Last(g).to # d.from \/ Last(g).root # d.root)
    <3>1. h = Trim(Append(IF cut THEN <<>> ELSE g, d))
      BY <1>3 DEF History, d
    <3>2. CASE cut
      BY <3>1, <3>2
    <3>3. CASE ~cut
      BY <3>1, <3>3
    <3> QED BY <3>2, <3>3
  <2> DEFINE t == Append(joined, d)
             n == Len(joined)
  <2>5. joined \in Seq(Deltas) /\ Ordered(joined)
    BY <1>1, EmptyHistory
  <2>6. t \in Seq(Deltas) /\ Ordered(t) /\ n \in Nat /\ Len(t) = n + 1 /\ t[n + 1] = d
        /\ \A j \in 1 .. n : t[j] = joined[j]
    BY <2>3, <2>4, <2>5, AppendOrdered
  <2> HIDE DEF t
  <2>7. PICK i \in 1 .. Len(t) + 1 : h = SubSeq(t, i, Len(t)) /\ Limited(h)
    BY <2>4, <2>6, TrimSuffix DEF t
  <2> HIDE DEF h, n
  <2>8. /\ h \in Seq(Deltas) /\ Len(h) = Len(t) - i + 1 /\ Ordered(h)
        /\ \A j \in 1 .. Len(h) : h[j] = t[i + j - 1]
    BY <2>6, <2>7, SuffixOrdered
  <2>9. DOMAIN h = 1 .. Len(h) /\ Len(h) \in Nat
    BY <2>8
  <2>10. h # <<>> => Last(h).to = a.revision
    <3> SUFFICES ASSUME h # <<>> PROVE Last(h).to = a.revision
      OBVIOUS
    <3>1. Len(h) \in 1 .. Len(h) /\ i + Len(h) - 1 = n + 1
      BY <2>6, <2>8, <2>9
    <3> QED BY <2>3, <2>6, <2>8, <3>1 DEF Last
  <2>11. ASSUME NEW k \in DOMAIN h
         PROVE  \/ h[k].from = a.span.from /\ a.changed \subseteq Since(h, k)
                \/ \E j \in DOMAIN g :
                      /\ h[k].from = g[j].from
                      /\ Since(g, j) \cup a.changed \subseteq Since(h, k)
    <3>1. k \in 1 .. Len(h) /\ Len(h) \in k .. Len(h) /\ i + Len(h) - 1 = n + 1
          /\ Len(h) \in 1 .. Len(h)
      BY <2>6, <2>8, <2>9
    <3>2. h[Len(h)] = d
      BY <2>6, <2>8, <3>1
    <3>3. a.changed \subseteq Since(h, k)
      BY <2>3, <3>1, <3>2 DEF Since
    <3>4. CASE i + k - 1 = n + 1
      <4>1. h[k] = d
        BY <2>6, <2>8, <3>1, <3>4
      <4> QED BY <2>3, <3>3, <4>1
    <3>5. CASE i + k - 1 # n + 1
      <4> DEFINE j == i + k - 1
      <4>0. j \in 1 .. n
        <5>1. n \in Nat /\ i \in Nat /\ i >= 1 /\ k \in Nat /\ k >= 1 /\ Len(h) \in Nat
              /\ k <= Len(h) /\ i + Len(h) - 1 = n + 1
          BY <2>6, <2>9, <3>1
        <5> QED BY <5>1, <3>5, SMTT(60)
      <4>1. j \in 1 .. n /\ h[k] = joined[j]
        BY <2>6, <2>8, <3>1, <4>0
      <4>2. joined = g
        BY <4>1, <2>5 DEF n
      <4>3. DOMAIN g = 1 .. n /\ Len(g) = n
        BY <1>1, <4>2 DEF n
      <4>4. ASSUME NEW m \in j .. n
            PROVE  g[m].changed \subseteq Since(h, k)
        <5>1. m - i + 1 \in k .. Len(h) /\ i + (m - i + 1) - 1 = m /\ m \in 1 .. n
          BY <2>6, <2>8, <3>1, <4>1
        <5>2. h[m - i + 1] = g[m]
          BY <2>6, <2>8, <3>1, <4>2, <5>1
        <5> QED BY <5>1, <5>2 DEF Since
      <4>5. Since(g, j) \subseteq Since(h, k)
        BY <4>3, <4>4 DEF Since
      <4> QED BY <3>3, <4>1, <4>2, <4>3, <4>5
    <3> QED BY <3>4, <3>5
  <2> QED BY <1>3, <2>1, <2>3, <2>7, <2>8, <2>10, <2>11 DEF h, d
<1> QED BY <1>2, <1>3

\* The record of changes after a take.
LEMMA TakenInv ==
    ASSUME Parameters, NEW a, ChangesInv(a)
    PROVE  LET b == Taken(a)
           IN  /\ ChangesInv(b) /\ b.revision = a.revision /\ b.resetEpoch = a.resetEpoch
               /\ b.span = None /\ b.history = History(a) /\ ~b.resetRequested
<1> DEFINE b == Taken(a)
           h == History(a)
<1>1. a \in ChangesType
  BY DEF ChangesInv
<1>2. h \in Seq(Deltas) /\ Ordered(h) /\ Limited(h) /\ (h # <<>> => Last(h).to = a.revision)
  BY HistoryTaken
<1> HIDE DEF h
<1>3. b = [a EXCEPT !.history = h, !.changed = {}, !.removed = {}, !.resetRequested = FALSE,
                    !.span = None, !.spanBlocked = FALSE]
  BY DEF Taken, h
<1> HIDE DEF b
<1>4. b.revision = a.revision /\ b.resetEpoch = a.resetEpoch /\ b.span = None /\ b.history = h
      /\ b.removed = {}
  BY <1>1, <1>3 DEF ChangesType
<1>5. ~b.resetRequested /\ ~b.spanBlocked
  BY <1>1, <1>3 DEF ChangesType
<1>6. b \in ChangesType
  <2>1. \A g \in Seq(Deltas), c, r \in SUBSET Paths, q, w \in BOOLEAN, s \in {None} \cup Spans :
           [a EXCEPT !.history = g, !.changed = c, !.removed = r, !.resetRequested = q,
                     !.span = s, !.spanBlocked = w] \in ChangesType
    BY <1>1 DEF ChangesType
  <2>2. {} \in SUBSET Paths /\ FALSE \in BOOLEAN /\ None \in {None} \cup Spans
    OBVIOUS
  <2> QED BY <1>2, <1>3, <2>1, <2>2, Zenon
<1>7. ChangesInv(b)
  BY <1>2, <1>4, <1>5, <1>6 DEF ChangesInv
<1> QED BY <1>4, <1>5, <1>7 DEF b, h

\* The history after a take tells every holder what it is behind with.
LEMMA TakenTells ==
    ASSUME Parameters, NEW a, ChangesInv(a), NEW open, NEW x, HolderInv(x, a, open),
           x.epoch = a.resetEpoch, x.epoch \in Nat
    PROVE  /\ ~a.resetRequested
           /\ x.revision = a.revision => x.behind \subseteq open
           /\ Delta(a) # None /\ Delta(a).from = x.revision => x.behind \subseteq a.changed \cup open
           /\ \A i \in DOMAIN History(a) : History(a)[i].from = x.revision =>
                 x.behind \subseteq Since(History(a), i) \cup open
<1> DEFINE h == History(a)
<1>1. ~a.resetRequested
  <2>1. ~(x.epoch < a.resetEpoch)
    OBVIOUS
  <2> QED BY <2>1 DEF HolderInv
<1>2. /\ x.revision = a.revision => x.behind \subseteq open
      /\ a.span # None /\ a.span.from = x.revision => x.behind \subseteq a.changed \cup open
      /\ \A i \in DOMAIN a.history : a.history[i].from = x.revision =>
            x.behind \subseteq Since(a.history, i) \cup open
                               \cup (IF a.span = None THEN {} ELSE a.changed)
  BY DEF HolderInv, Told
<1>3. /\ Delta(a) = None => h = a.history /\ a.span = None
      /\ Delta(a) # None =>
            /\ a.span # None /\ Delta(a).from = a.span.from
            /\ \A i \in DOMAIN h :
                 \/ h[i].from = a.span.from /\ a.changed \subseteq Since(h, i)
                 \/ \E j \in DOMAIN a.history :
                       /\ h[i].from = a.history[j].from
                       /\ Since(a.history, j) \cup a.changed \subseteq Since(h, i)
  BY <1>1, HistoryTaken
<1> HIDE DEF h
<1>4. ASSUME NEW i \in DOMAIN h, h[i].from = x.revision
      PROVE  x.behind \subseteq Since(h, i) \cup open
  <2>1. CASE Delta(a) = None
    BY <1>2, <1>3, <1>4, <2>1
  <2>2. CASE Delta(a) # None
    <3>1. CASE h[i].from = a.span.from /\ a.changed \subseteq Since(h, i)
      BY <1>2, <1>3, <1>4, <2>2, <3>1
    <3>2. ASSUME NEW j \in DOMAIN a.history, h[i].from = a.history[j].from,
                 Since(a.history, j) \cup a.changed \subseteq Since(h, i)
          PROVE  x.behind \subseteq Since(h, i) \cup open
      BY <1>2, <1>3, <1>4, <2>2, <3>2
    <3> QED BY <1>3, <2>2, <3>1, <3>2
  <2> QED BY <2>1, <2>2
<1> QED BY <1>1, <1>2, <1>3, <1>4 DEF h

\* A holder survives a take, and the view that took the notifications serves it.
LEMMA TakenServes ==
    ASSUME Parameters, NEW a, ChangesInv(a), NEW open, NEW x, HolderInv(x, a, open),
           x.epoch \in Nat, x.revision \in Nat,
           NEW v, v.epoch = a.resetEpoch, v.revision = a.revision, v.overlay = open,
           v.delta = Delta(a), v.deltas = History(a), v.changed = a.changed
    PROVE  HolderInv(x, Taken(a), open) /\ Listed(x, v)
<1> DEFINE b == Taken(a)
<1>1. /\ ChangesInv(b) /\ b.revision = a.revision /\ b.resetEpoch = a.resetEpoch
      /\ b.span = None /\ b.history = History(a) /\ ~b.resetRequested
  BY TakenInv
<1> HIDE DEF b
<1>2. Told(x, b, open)
  BY <1>1, TakenTells DEF Told
<1>3. HolderInv(x, b, open)
  BY <1>1, <1>2 DEF HolderInv
<1>4. Listed(x, v)
  <2> SUFFICES ASSUME x.epoch = v.epoch PROVE Listed(x, v)
    BY DEF Listed
  <2>1. /\ x.revision = a.revision => x.behind \subseteq open
        /\ Delta(a) # None /\ Delta(a).from = x.revision => x.behind \subseteq a.changed \cup open
        /\ \A i \in DOMAIN v.deltas : v.deltas[i].from = x.revision =>
              x.behind \subseteq Since(v.deltas, i) \cup open
    BY TakenTells
  <2> QED BY <2>1 DEF Listed
<1> QED BY <1>3, <1>4 DEF b

\* prepareFromCurrent: the view that takes the notifications serves every holder.
LEMMA PrepareStep ==
    ASSUME Parameters, ContentsInv, NEW k \in Requests, NEW root \in LexicalRoots,
           NEW found \in Closures, NEW members \in BOOLEAN, NEW evicted,
           Prepare(k, root, found, members, evicted)
    PROVE  ContentsInv'
<1> DEFINE loads == [loaded |-> TRUE, paths |-> IF catalog.loaded THEN catalog.paths
                                                ELSE overlay \cup {p \in Paths : ~IsAlias(p)}]
           documents == overlay \cup found.paths \cup (IF members THEN loads.paths ELSE {})
           scanned == IF members THEN loads.paths ELSE {}
           v == [root |-> root, revision |-> changes.revision, epoch |-> changes.resetEpoch,
                 reset |-> changes.resetRequested, changed |-> changes.changed,
                 removed |-> changes.removed, delta |-> Delta(changes),
                 deltas |-> History(changes), documents |-> documents,
                 members |-> scanned, overlay |-> overlay, behind |-> {}]
<1>1. /\ ChangesInv(changes) /\ changes \in ChangesType /\ StoreType
      /\ context \in [Contexts -> ContextType] /\ view \in [Requests -> {None} \cup ViewType]
      /\ ContextsInv /\ ViewsInv /\ ContextsListed /\ ViewsListed
  BY InvParts DEF ChangesInv
<1>2. /\ changes' = Taken(changes)
      /\ closures' = {f \in closures : f.owner \notin evicted \cup {found.owner}} \cup {found}
      /\ cached' = (cached \cup (documents \ overlay)) \ evicted
      /\ catalog' = IF members THEN loads ELSE catalog
      /\ view' = [view EXCEPT ![k] = v]
      /\ overlay' = overlay /\ context' = context
  BY DEF Prepare
<1>3. overlay \in SUBSET Paths /\ catalog.paths \in SUBSET Paths /\ catalog.loaded \in BOOLEAN
      /\ found.paths \in SUBSET Paths
  BY <1>1 DEF StoreType, Parameters
<1>4. loads \in [loaded : BOOLEAN, paths : SUBSET Paths] /\ documents \in SUBSET Paths
      /\ scanned \in SUBSET Paths /\ overlay \subseteq documents
  BY <1>3
<1> HIDE DEF loads, documents, scanned
<1>5. StoreType'
  BY <1>1, <1>2, <1>3, <1>4 DEF StoreType
<1>6. /\ ChangesInv(changes') /\ changes'.revision = changes.revision
      /\ changes'.resetEpoch = changes.resetEpoch /\ ~changes'.resetRequested
  BY <1>1, <1>2, TakenInv
<1>7. History(changes) \in Seq(Deltas) /\ Ordered(History(changes))
      /\ Delta(changes) \in {None} \cup Deltas
      /\ (History(changes) # <<>> => Last(History(changes)).to = changes.revision)
  BY <1>1, HistoryTaken
<1>8. /\ v.root = root /\ v.revision = changes.revision /\ v.epoch = changes.resetEpoch
      /\ v.reset = changes.resetRequested /\ v.changed = changes.changed
      /\ v.removed = changes.removed /\ v.delta = Delta(changes)
      /\ v.deltas = History(changes) /\ v.documents = documents /\ v.members = scanned
      /\ v.overlay = overlay /\ v.behind = {}
  OBVIOUS
<1>9. v \in ViewType
  <2>1. \A e, r \in Nat, q \in BOOLEAN, c, m, ds, ms, o, z \in SUBSET Paths,
           d \in {None} \cup Deltas, h \in Seq(Deltas) :
          [root |-> root, revision |-> r, epoch |-> e, reset |-> q, changed |-> c, removed |-> m,
           delta |-> d, deltas |-> h, documents |-> ds, members |-> ms, overlay |-> o,
           behind |-> z] \in ViewType
    BY DEF ViewType
  <2>2. changes.revision \in Nat /\ changes.resetEpoch \in Nat /\ changes.resetRequested \in BOOLEAN
        /\ changes.changed \in SUBSET Paths /\ changes.removed \in SUBSET Paths
        /\ {} \in SUBSET Paths
    BY <1>1 DEF ChangesType
  <2> QED BY <1>3, <1>4, <1>7, <2>1, <2>2, Zenon
<1> HIDE DEF v
<1>10. v # None
  BY <1>9 DEF Parameters
<1>11. \A l \in Requests : view'[l] = IF l = k THEN v ELSE view[l]
  BY <1>1, <1>2
<1>12. view' \in [Requests -> {None} \cup ViewType] /\ context' \in [Contexts -> ContextType]
  BY <1>1, <1>2, <1>9
<1>13. ASSUME NEW x, HolderInv(x, changes, overlay), x.epoch \in Nat, x.revision \in Nat
       PROVE  HolderInv(x, changes', overlay') /\ Listed(x, v)
  BY <1>1, <1>2, <1>8, <1>13, TakenServes
<1>14. ContextsInv' /\ \A c \in Contexts : context[c].live => Listed(context[c], v)
  <2>1. ASSUME NEW c \in Contexts, context[c].live
        PROVE  HolderInv(context[c], changes', overlay') /\ Listed(context[c], v)
    <3>1. HolderInv(context[c], changes, overlay) /\ context[c] \in ContextType
      BY <1>1, <2>1 DEF ContextsInv
    <3>2. context[c].epoch \in Nat /\ context[c].revision \in Nat
      BY <3>1 DEF ContextType
    <3> QED BY <1>13, <3>1, <3>2
  <2> QED BY <1>2, <2>1 DEF ContextsInv
<1>15. ASSUME NEW l \in Requests, view[l] # None
       PROVE  HolderInv(view[l], changes', overlay') /\ Listed(view[l], v)
  <2>1. HolderInv(view[l], changes, overlay) /\ view[l] \in ViewType
    BY <1>1, <1>15 DEF ViewsInv
  <2>2. view[l].epoch \in Nat /\ view[l].revision \in Nat
    BY <2>1 DEF ViewType
  <2> QED BY <1>13, <2>1, <2>2
<1>16. HolderInv(v, changes', overlay') /\ ViewInv(v)
  <2>1. changes.revision \in Nat /\ changes.resetEpoch \in Nat
    BY <1>1 DEF ChangesType
  <2>2. Told(v, changes', overlay')
    BY <1>8 DEF Told
  <2>3. HolderInv(v, changes', overlay')
    BY <1>6, <1>8, <2>1, <2>2 DEF HolderInv
  <2>4. ViewInv(v)
    BY <1>4, <1>7, <1>8, <2>1 DEF ViewInv
  <2> QED BY <2>3, <2>4
<1>17. \A u : Listed(v, u)
  BY <1>8 DEF Listed
<1>18. ViewsInv'
  <2> SUFFICES ASSUME NEW l \in Requests, view'[l] # None
               PROVE  HolderInv(view'[l], changes', overlay') /\ ViewInv(view'[l])
    BY DEF ViewsInv
  <2>1. CASE l = k
    BY <1>11, <1>16, <2>1
  <2>2. CASE l # k
    BY <1>1, <1>11, <1>15, <2>2 DEF ViewsInv
  <2> QED BY <2>1, <2>2
<1>19. ContextsListed'
  BY <1>1, <1>2, <1>11, <1>14 DEF ContextsListed
<1>20. ViewsListed'
  <2> SUFFICES ASSUME NEW l \in Requests, NEW m \in Requests, view'[l] # None, view'[m] # None
               PROVE  Listed(view'[m], view'[l])
    BY DEF ViewsListed
  <2>1. CASE m = k
    BY <1>11, <1>17, <2>1
  <2>2. CASE m # k /\ l = k
    BY <1>11, <1>15, <2>2
  <2>3. CASE m # k /\ l # k
    BY <1>1, <1>11, <2>3 DEF ViewsListed
  <2> QED BY <2>1, <2>2, <2>3
<1> QED BY <1>5, <1>6, <1>12, <1>14, <1>18, <1>19, <1>20, InvPartsNext

-----------------------------------------------------------------------------
(* Contexts that are kept.                                                  *)

\* The deltas that synchronizeContextDelta joins are all of the history from
\* the one that starts at the context's revision on.
LEMMA ChainListed ==
    ASSUME NEW v \in ViewType, ViewInv(v), NEW r, Chain(v, r) # {}
    PROVE  \E i \in DOMAIN v.deltas :
              /\ v.deltas[i].from = r /\ Last(v.deltas).to = v.revision
              /\ Since(v.deltas, i) \subseteq UNION {d.changed : d \in Chain(v, r)}
<1> DEFINE h == v.deltas
           n == Len(h)
           starts == {i \in DOMAIN h : h[i].from = r}
           start == CHOOSE i \in starts : \A j \in starts : i <= j
           used == {i \in start .. n : \A j \in start .. i - 1 : h[j].to # v.revision}
<1>1. h \in Seq(Deltas) /\ v.revision \in Nat /\ Ordered(h)
      /\ (h # <<>> => Last(h).to <= v.revision)
  BY DEF ViewType, ViewInv
<1>2. n \in Nat /\ DOMAIN h = 1 .. n /\ \A i \in 1 .. n : h[i] \in Deltas
  BY <1>1
<1>3. \A i \in 1 .. n : h[i].from \in Nat /\ h[i].to \in Nat /\ h[i].from < h[i].to
  BY <1>1, <1>2 DEF Deltas, Ordered
<1>4. /\ starts # {} /\ (\E i \in used : h[i].to = v.revision)
      /\ Chain(v, r) = {h[i] : i \in used}
  BY DEF Chain
<1>5. start \in starts
  <2>1. starts \subseteq Nat
    BY <1>2
  <2>2. \E i \in starts : \A j \in starts : i <= j
    BY <1>4, <2>1, LeastNumber
  <2> QED BY <2>2
<1> HIDE DEF start, h
<1>6. start \in 1 .. n /\ h[start].from = r
  BY <1>2, <1>5
<1>7. PICK i \in used : h[i].to = v.revision
  BY <1>4
<1>8. h # <<>> /\ h[n].to <= v.revision
  BY <1>1, <1>2, <1>6 DEF Last
<1>9. i \in 1 .. n /\ i >= start
  BY <1>2, <1>6
<1>10. i = n
  <2>0. i \in Nat /\ n \in Nat /\ i <= n
    BY <1>2, <1>9
  <2> HIDE DEF n
  <2> SUFFICES ASSUME i < n PROVE FALSE
    BY <2>0
  <2>1. n \in 1 .. n
    BY <1>2, <1>9
  <2>2. h[i].to <= h[n].from
    BY <1>1, <1>2, <1>9, <2>1 DEF Ordered
  <2> QED BY <1>1, <1>3, <1>7, <1>8, <1>9, <2>1, <2>2
<1>11. \A m \in start .. n : m \in used
  <2> SUFFICES ASSUME NEW m \in start .. n PROVE m \in used
    OBVIOUS
  <2>1. \A j \in start .. n - 1 : h[j].to # v.revision
    BY <1>7, <1>10
  <2>2. \A j \in start .. m - 1 : j \in start .. n - 1
    BY <1>2, <1>6
  <2> QED BY <2>1, <2>2
<1> HIDE DEF used
<1>12. Since(h, start) \subseteq UNION {d.changed : d \in Chain(v, r)}
  BY <1>4, <1>11 DEF Since
<1>13. Last(h).to = v.revision
  BY <1>7, <1>10 DEF Last
<1> QED BY <1>2, <1>6, <1>12, <1>13 DEF h

\* A context that is kept lacks nothing but what the view lists or delivers.
LEMMA KeptIsCurrent ==
    ASSUME Parameters, NEW c \in Contexts, context[c] \in ContextType,
           NEW v \in ViewType, ViewInv(v), Listed(context[c], v), NEW scope, NEW readable,
           NEW w, w = Synchronized(v, c, scope, readable), Reused(v, w, c)
    PROVE  context[c].behind \ v.behind \subseteq w.contentChanged \cup w.documents
<1> DEFINE x == context[c]
           lacks == x.behind \ v.behind
           chain == IF v.revision = x.revision \/ v.reset THEN {} ELSE Chain(v, x.revision)
           all == UNION {d.changed : d \in chain}
           inScope == all \cap scope
           missing == inScope \ v.documents
           reads == /\ readable /\ v.removed = {} /\ missing \subseteq v.members
                    /\ \A p \in missing : ~IsAlias(p) /\ Aliases(p) \cap v.overlay = {}
<1>1. ~v.reset /\ x.epoch = v.epoch /\ v.overlay \subseteq v.documents
      /\ (x.revision = v.revision \/ Complete(v, w, c))
  BY DEF Reused, ViewInv
<1>2. /\ x.revision = v.revision => lacks \subseteq v.overlay
      /\ v.delta # None /\ v.delta.from = x.revision => lacks \subseteq v.changed \cup v.overlay
      /\ \A i \in DOMAIN v.deltas : v.deltas[i].from = x.revision /\ Last(v.deltas).to = v.revision =>
            lacks \subseteq Since(v.deltas, i) \cup v.overlay
  BY <1>1 DEF Listed
<1>3. w = IF chain = {}
          THEN [contentChanged |-> v.changed, changed |-> v.changed, documents |-> v.documents,
                from |-> IF v.delta = None \/ v.delta.root # v.root THEN None ELSE v.delta.from]
          ELSE [contentChanged |-> all, changed |-> inScope, from |-> x.revision,
                documents |-> v.documents \cup (IF reads THEN missing ELSE {})]
  BY DEF Synchronized
<1> HIDE DEF lacks, inScope, missing, reads
<1>4. CASE chain = {}
  <2> HIDE DEF chain, all
  <2>1. w.contentChanged = v.changed /\ w.documents = v.documents
        /\ w.from = IF v.delta = None \/ v.delta.root # v.root THEN None ELSE v.delta.from
    BY <1>3, <1>4
  <2>2. CASE x.revision = v.revision
    BY <1>1, <1>2, <2>1, <2>2 DEF lacks
  <2>3. CASE Complete(v, w, c)
    <3>1. v.delta # None /\ v.delta.from = x.revision
      BY <2>1, <2>3 DEF Complete
    <3> QED BY <1>1, <1>2, <2>1, <3>1 DEF lacks
  <2> QED BY <1>1, <2>2, <2>3
<1>5. CASE chain # {}
  <2>1. chain = Chain(v, x.revision)
    BY <1>5
  <2>2. w.contentChanged = all /\ v.documents \subseteq w.documents
    <3> HIDE DEF chain, all
    <3> QED BY <1>3, <1>5
  <2>3. PICK i \in DOMAIN v.deltas :
           /\ v.deltas[i].from = x.revision /\ Last(v.deltas).to = v.revision
           /\ Since(v.deltas, i) \subseteq all
    <3> HIDE DEF x
    <3> QED BY <1>5, <2>1, ChainListed
  <2> HIDE DEF all, chain
  <2>4. lacks \subseteq all \cup v.overlay
    BY <1>2, <2>3
  <2> QED BY <1>1, <2>2, <2>4 DEF lacks
<1> QED BY <1>4, <1>5

\* A context that becomes what a view is, and lacks no more than the view, and
\* every context that lacks less than it did, keep the invariant.
LEMMA ContextStep ==
    ASSUME Parameters, ContentsInv, UNCHANGED <<changes, store, view>>,
           NEW c \in Contexts, NEW y \in ContextType, context' = [context EXCEPT ![c] = y],
           \/ ~y.live
           \/ /\ context[c].live /\ y.epoch = context[c].epoch
              /\ y.revision = context[c].revision /\ y.behind \subseteq context[c].behind
           \/ \E k \in Requests :
                 /\ view[k] # None /\ y.epoch = view[k].epoch
                 /\ y.revision = view[k].revision /\ y.behind \subseteq view[k].behind
    PROVE  ContentsInv'
<1>1. /\ ChangesInv(changes) /\ StoreType
      /\ context \in [Contexts -> ContextType] /\ view \in [Requests -> {None} \cup ViewType]
      /\ ContextsInv /\ ViewsInv /\ ContextsListed /\ ViewsListed
  BY InvParts
<1>2. changes' = changes /\ overlay' = overlay /\ cached' = cached /\ catalog' = catalog
      /\ closures' = closures /\ view' = view
  BY DEF store
<1>3. \A e \in Contexts : context'[e] = IF e = c THEN y ELSE context[e]
  BY <1>1
<1>4. context' \in [Contexts -> ContextType]
  BY <1>1
<1>5. y.live => HolderInv(y, changes, overlay) /\ \A l \in Requests : view[l] # None => Listed(y, view[l])
  <2> SUFFICES ASSUME y.live
               PROVE  /\ HolderInv(y, changes, overlay)
                      /\ \A l \in Requests : view[l] # None => Listed(y, view[l])
    OBVIOUS
  <2>1. PICK x : /\ HolderInv(x, changes, overlay)
                 /\ \A l \in Requests : view[l] # None => Listed(x, view[l])
                 /\ y.epoch = x.epoch /\ y.revision = x.revision /\ y.behind \subseteq x.behind
    <3>1. CASE /\ context[c].live /\ y.epoch = context[c].epoch
               /\ y.revision = context[c].revision /\ y.behind \subseteq context[c].behind
      BY <1>1, <3>1 DEF ContextsInv, ContextsListed
    <3>2. CASE \E k \in Requests :
                 /\ view[k] # None /\ y.epoch = view[k].epoch
                 /\ y.revision = view[k].revision /\ y.behind \subseteq view[k].behind
      <4>1. PICK k \in Requests :
                 /\ view[k] # None /\ y.epoch = view[k].epoch
                 /\ y.revision = view[k].revision /\ y.behind \subseteq view[k].behind
        BY <3>2
      <4>2. HolderInv(view[k], changes, overlay)
            /\ \A l \in Requests : view[l] # None => Listed(view[k], view[l])
        BY <1>1, <4>1 DEF ViewsInv, ViewsListed
      <4> QED BY <4>1, <4>2
    <3> QED BY <3>1, <3>2
  <2>2. HolderInv(y, changes, overlay)
    BY <2>1, HolderSmaller
  <2>3. ASSUME NEW l \in Requests, view[l] # None PROVE Listed(y, view[l])
    <3>1. Listed(x, view[l]) /\ y.behind \ view[l].behind \subseteq x.behind \ view[l].behind
      BY <2>1, <2>3
    <3> QED BY <2>1, <3>1, ListedSmaller
  <2> QED BY <2>2, <2>3
<1>6. ContextsInv'
  BY <1>1, <1>2, <1>3, <1>5 DEF ContextsInv
<1>7. ContextsListed'
  BY <1>1, <1>2, <1>3, <1>5 DEF ContextsListed
<1>8. ViewsInv' /\ ViewsListed' /\ StoreType'
  BY <1>1, <1>2 DEF ViewsInv, ViewsListed, StoreType
<1> QED BY <1>1, <1>2, <1>4, <1>6, <1>7, <1>8, InvPartsNext

\* prepareContextEntry for a context that is kept.
LEMMA ReuseStep ==
    ASSUME Parameters, ContentsInv, NEW k \in Requests, NEW c \in Contexts, NEW scope,
           NEW readable, Reuse(k, c, scope, readable) \/ ReuseFails(k, c, scope, readable)
    PROVE  ContentsInv'
<1> DEFINE v == view[k]
           w == Synchronized(v, c, scope, readable)
           x == context[c]
<1>1. /\ v # None /\ x.live /\ Reused(v, w, c) /\ UNCHANGED <<changes, store, view>>
      /\ \/ context' = [context EXCEPT ![c] =
              [live |-> TRUE, epoch |-> v.epoch, revision |-> v.revision,
               behind |-> (x.behind \ (w.contentChanged \cup v.removed \cup w.documents))
                          \cup (v.behind \cap v.documents)]]
         \/ context' = [context EXCEPT ![c] =
               [x EXCEPT !.behind = x.behind \ (w.contentChanged \cup v.removed)]]
  <2>1. context \in [Contexts -> ContextType]
    BY InvParts
  <2> QED BY <2>1 DEF Reuse, ReuseFails, Holds
<1>2. v \in ViewType /\ x \in ContextType /\ ViewInv(v) /\ Listed(x, v)
  BY <1>1, InvParts DEF ViewsInv, ContextsListed
<1>3. x.behind \ v.behind \subseteq w.contentChanged \cup w.documents
  BY <1>1, <1>2, KeptIsCurrent
<1> HIDE DEF w
<1>4. CASE context' = [context EXCEPT ![c] =
              [live |-> TRUE, epoch |-> v.epoch, revision |-> v.revision,
               behind |-> (x.behind \ (w.contentChanged \cup v.removed \cup w.documents))
                          \cup (v.behind \cap v.documents)]]
  <2> DEFINE behind == (x.behind \ (w.contentChanged \cup v.removed \cup w.documents))
                       \cup (v.behind \cap v.documents)
             y == [live |-> TRUE, epoch |-> v.epoch, revision |-> v.revision, behind |-> behind]
  <2>1. behind \subseteq v.behind
    BY <1>3
  <2>2. v.behind \in SUBSET Paths /\ v.epoch \in Nat /\ v.revision \in Nat
    BY <1>2 DEF ViewType
  <2> HIDE DEF behind
  <2>3. y \in ContextType /\ y.epoch = v.epoch /\ y.revision = v.revision /\ y.behind = behind
    BY <2>1, <2>2 DEF ContextType
  <2>4. context' = [context EXCEPT ![c] = y]
    BY <1>4 DEF behind
  <2> HIDE DEF y
  <2> QED BY <1>1, <2>1, <2>3, <2>4, ContextStep
<1>5. CASE context' = [context EXCEPT ![c] =
               [x EXCEPT !.behind = x.behind \ (w.contentChanged \cup v.removed)]]
  <2> DEFINE y == [x EXCEPT !.behind = x.behind \ (w.contentChanged \cup v.removed)]
  <2>1. y \in ContextType /\ y.epoch = x.epoch /\ y.revision = x.revision
        /\ y.behind \subseteq x.behind
    BY <1>2 DEF ContextType
  <2>2. context' = [context EXCEPT ![c] = y]
    BY <1>5
  <2> HIDE DEF y
  <2> QED BY <1>1, <2>1, <2>2, ContextStep
<1> QED BY <1>1, <1>4, <1>5

\* prepareContextEntry for a context that is built from the view.
LEMMA RebuildStep ==
    ASSUME Parameters, ContentsInv, NEW k \in Requests, NEW c \in Contexts, NEW scope,
           NEW readable, Rebuild(k, c, scope, readable)
    PROVE  ContentsInv'
<1> DEFINE v == view[k]
           y == [live |-> TRUE, epoch |-> v.epoch, revision |-> v.revision,
                 behind |-> v.behind \cap v.documents]
<1>1. v # None /\ UNCHANGED <<changes, store, view>> /\ context' = [context EXCEPT ![c] = y]
  BY DEF Rebuild, Holds
<1>2. v \in ViewType
  BY <1>1, InvParts
<1>3. v.behind \in SUBSET Paths /\ v.epoch \in Nat /\ v.revision \in Nat
  BY <1>2 DEF ViewType
<1>4. y \in ContextType /\ y.epoch = v.epoch /\ y.revision = v.revision
      /\ y.behind \subseteq v.behind
  BY <1>3 DEF ContextType
<1> HIDE DEF y
<1> QED BY <1>1, <1>4, ContextStep

\* A context is removed, or a request ends.
LEMMA RemovalStep ==
    ASSUME Parameters, ContentsInv,
           (\E c \in Contexts : RemoveContext(c)) \/ (\E k \in Requests : Drop(k))
    PROVE  ContentsInv'
<1>1. ASSUME NEW c \in Contexts, RemoveContext(c) PROVE ContentsInv'
  <2> DEFINE y == [live |-> FALSE, epoch |-> 0, revision |-> 0, behind |-> {}]
  <2>1. UNCHANGED <<changes, store, view>> /\ context' = [context EXCEPT ![c] = y]
    BY <1>1 DEF RemoveContext
  <2>2. y \in ContextType /\ ~y.live
    BY DEF ContextType
  <2> HIDE DEF y
  <2> QED BY <2>1, <2>2, ContextStep
<1>2. ASSUME NEW k \in Requests, Drop(k) PROVE ContentsInv'
  <2>1. /\ ChangesInv(changes) /\ StoreType
        /\ context \in [Contexts -> ContextType] /\ view \in [Requests -> {None} \cup ViewType]
        /\ ContextsInv /\ ViewsInv /\ ContextsListed /\ ViewsListed
    BY InvParts
  <2>2. changes' = changes /\ overlay' = overlay /\ cached' = cached /\ catalog' = catalog
        /\ closures' = closures /\ context' = context /\ view' = [view EXCEPT ![k] = None]
    BY <1>2 DEF Drop, store
  <2>3. \A l \in Requests : view'[l] = IF l = k THEN None ELSE view[l]
    BY <2>1, <2>2
  <2>4. view' \in [Requests -> {None} \cup ViewType]
    BY <2>1, <2>2
  <2>5. ContextsInv' /\ StoreType'
    BY <2>1, <2>2 DEF ContextsInv, StoreType
  <2>6. ViewsInv' /\ ContextsListed'
    BY <2>1, <2>2, <2>3 DEF ViewsInv, ContextsListed
  <2>7. ViewsListed'
    BY <2>1, <2>3 DEF ViewsListed
  <2> QED BY <2>1, <2>2, <2>4, <2>5, <2>6, <2>7, InvPartsNext
<1> QED BY <1>1, <1>2

-----------------------------------------------------------------------------
(* The theorems.                                                            *)

\* The record of changes, the views and the contexts agree in every reachable
\* state: whatever a context or a view is behind with is open in the editor, or
\* listed by the notifications and deltas that lead on from its revision.
THEOREM ContentsAreTold ==
    ASSUME Parameters
    PROVE  Spec => []ContentsInv
<1>1. Init => ContentsInv
  <2> SUFFICES ASSUME Init PROVE ContentsInv
    OBVIOUS
  <2>1. ChangesInv(changes)
    <3>1. <<>> \in Seq(Deltas)
      OBVIOUS
    <3>2. changes = NoChanges
      BY DEF Init
    <3>3. NoChanges \in ChangesType
      BY <3>1 DEF NoChanges, ChangesType
    <3> QED BY <3>2, <3>3, EmptyHistory DEF NoChanges, ChangesInv
  <2>2. StoreType
    BY DEF Init, StoreType
  <2>3. context \in [Contexts -> ContextType] /\ \A c \in Contexts : ~context[c].live
    BY DEF Init, ContextType
  <2>4. view \in [Requests -> {None} \cup ViewType] /\ \A k \in Requests : view[k] = None
    BY DEF Init
  <2> QED BY <2>1, <2>2, <2>3, <2>4, InvParts
          DEF ContextsInv, ViewsInv, ContextsListed, ViewsListed
<1>2. ContentsInv /\ [Next]_vars => ContentsInv'
  <2> SUFFICES ASSUME ContentsInv, [Next]_vars PROVE ContentsInv'
    OBVIOUS
  <2>0. Editable \subseteq Paths /\ Catalogs \subseteq BOOLEAN
    BY DEF Parameters
  <2>1. ASSUME NEW root \in LexicalRoots, NEW batch \in Batches, NEW kind \in [batch -> Events],
               NEW regular \in SUBSET batch, NEW resolves \in BOOLEAN,
               FilesChanged(root, kind, regular, resolves)
        PROVE  ContentsInv'
    <3>1. batch \in SUBSET Paths
      BY DEF Batches
    <3> QED BY <2>1, <3>1, FilesStep
  <2>2. CASE RootDirty
    BY <2>2, RootStep
  <2>3. ASSUME NEW found \in SUBSET Paths, NEW differs \in SUBSET Paths,
               RefreshMembership(found, differs)
        PROVE  ContentsInv'
    BY <2>3, RefreshStep
  <2>4. ASSUME NEW p \in Editable, Sync(p) PROVE ContentsInv'
    BY <2>0, <2>4, SyncStep
  <2>5. ASSUME NEW p \in Editable, NEW root \in LexicalRoots \cup {None},
               NEW onDisk \in BOOLEAN, Close(p, root, onDisk)
        PROVE  ContentsInv'
    BY <2>0, <2>5, CloseStep
  <2>6. ASSUME NEW k \in Requests, NEW root \in LexicalRoots, NEW found \in Closures,
               NEW members \in Catalogs, NEW evicted \in SUBSET cached,
               Prepare(k, root, found, members, evicted)
        PROVE  ContentsInv'
    BY <2>0, <2>6, PrepareStep
  <2>7. ASSUME NEW k \in Requests, NEW c \in Contexts, NEW scope \in Scopes(c),
               NEW readable \in BOOLEAN,
               \/ Reuse(k, c, scope, readable) \/ ReuseFails(k, c, scope, readable)
               \/ Rebuild(k, c, scope, readable)
        PROVE  ContentsInv'
    BY <2>7, ReuseStep, RebuildStep
  <2>8. CASE (\E c \in Contexts : RemoveContext(c)) \/ (\E k \in Requests : Drop(k))
    BY <2>8, RemovalStep
  <2>9. CASE UNCHANGED vars
    <3>1. /\ ChangesInv(changes) /\ StoreType
          /\ context \in [Contexts -> ContextType] /\ view \in [Requests -> {None} \cup ViewType]
          /\ ContextsInv /\ ViewsInv /\ ContextsListed /\ ViewsListed
      BY InvParts
    <3>2. changes' = changes /\ overlay' = overlay /\ cached' = cached /\ catalog' = catalog
          /\ closures' = closures /\ context' = context /\ view' = view
      BY <2>9 DEF vars, store
    <3>3. StoreType' /\ ContextsInv' /\ ViewsInv' /\ ContextsListed' /\ ViewsListed'
      BY <3>1, <3>2 DEF StoreType, ContextsInv, ViewsInv, ContextsListed, ViewsListed
    <3> QED BY <3>1, <3>2, <3>3, InvPartsNext
  <2> QED BY <2>1, <2>2, <2>3, <2>4, <2>5, <2>6, <2>7, <2>8, <2>9 DEF Next
<1> QED BY <1>1, <1>2, PTL DEF Spec

\* Every variable of the store, the contexts and the views keeps its shape, and
\* no path has both a disk document and an overlay.
THEOREM ContentsTypes ==
    ASSUME Parameters
    PROVE  Spec => []TypeOK
BY ContentsAreTold, PTL DEF ContentsInv

\* A compiler context that is kept for a view, however late the view is used and
\* whoever took the notifications, lacks no change that the view does not list
\* or deliver (synchronizeContextDelta, typeContextResetReason).
THEOREM KeptContextsAreCurrent ==
    ASSUME Parameters
    PROVE  Spec => []ReusedContextsAreCurrent
<1>1. ContentsInv => ReusedContextsAreCurrent
  <2> SUFFICES ASSUME ContentsInv, NEW k \in Requests, NEW c \in Contexts,
                      NEW scope \in Scopes(c), NEW readable \in BOOLEAN,
                      Holds(k, c), context[c].live,
                      Reused(view[k], Synchronized(view[k], c, scope, readable), c)
               PROVE  LET w == Synchronized(view[k], c, scope, readable)
                      IN  context[c].behind \ view[k].behind
                              \subseteq w.contentChanged \cup w.documents
    BY DEF ReusedContextsAreCurrent
  <2>1. view[k] # None
    BY DEF Holds
  <2>2. view[k] \in ViewType /\ context[c] \in ContextType /\ ViewInv(view[k])
        /\ Listed(context[c], view[k])
    BY <2>1, InvParts DEF ViewsInv, ContextsListed
  <2> QED BY <2>2, KeptIsCurrent
<1> QED BY <1>1, ContentsAreTold, PTL

\* The resident fast path answers only from a context that lacks nothing but
\* open documents, which the view carries (withResidentReferenceContext).
THEOREM ResidentAnswersAreCurrent ==
    ASSUME Parameters
    PROVE  Spec => []ResidentContextsAreCurrent
<1>1. ContentsInv => ResidentContextsAreCurrent
  <2> SUFFICES ASSUME ContentsInv, NEW k \in Requests, NEW c \in Contexts,
                      Holds(k, c), context[c].live, ~view[k].reset,
                      context[c].epoch = view[k].epoch, context[c].revision = view[k].revision
               PROVE  context[c].behind \ view[k].behind \subseteq view[k].overlay
    BY DEF ResidentContextsAreCurrent
  <2>1. Listed(context[c], view[k])
    BY InvParts DEF Holds, ContextsListed
  <2> QED BY <2>1 DEF Listed
<1> QED BY <1>1, ContentsAreTold, PTL

\* The history of deltas is contiguous under one spelling of the root, ends
\* where the pending span begins or at the current revision, and stays within
\* both limits (WorkspaceContentChanges.take, trim).
THEOREM DeltasAreContiguous ==
    ASSUME Parameters
    PROVE  Spec => []HistoryIsChain
<1>1. ContentsInv => HistoryIsChain
  BY InvParts DEF ChangesInv, Ordered, Limited, HistoryIsChain
<1> QED BY <1>1, ContentsAreTold, PTL

\* Whichever path prepares a compiler context, and however late, the context is
\* current for the view it is used for (synchronizeContextDelta,
\* typeContextResetReason, withResidentReferenceContext), for any paths,
\* spellings, contexts, requests and limits.
THEOREM UsedContextsAreCurrent ==
    ASSUME Parameters
    PROVE  Spec => []ContextsAreCurrent
BY KeptContextsAreCurrent, ResidentAnswersAreCurrent, DeltasAreContiguous, PTL DEF ContextsAreCurrent
=============================================================================
