------------------------ MODULE WorkerSupervisorProofs ------------------------
(***************************************************************************)
(* The supervisor of the semantic worker keeps its promises for any number *)
(* of documents, files, requests and mutations and any limits: none is     *)
(* orphaned, no protocol fault happens without a cause, what is resolved   *)
(* was applied, what is published is fresh, and a quiet worker has what    *)
(* the editor has.  All of it follows from one inductive invariant.  The   *)
(* last part adds that the queues are sound: the byte and source counters  *)
(* that the limits are compared with count what is queued.                 *)
(***************************************************************************)
EXTENDS WorkerSupervisor, SequenceTheorems, FiniteSetTheorems, WellFoundedInduction, TLAPS

-----------------------------------------------------------------------------
(* Shapes.  The byte and source counters are integers here: that they count *)
(* what is queued is the subject of the last part.                          *)

Queues ==
    [mutations : Seq(Mutations), bytes : Int, reads : Seq(Reqs), sources : [Docs -> Int],
     readBytes : Int, bypassed : Reqs \cup {None}, active : Reqs \cup Mutations \cup {None},
     detached : Reqs \cup {None}, applied : Nat, generation : Nat]

Lives ==
    [disposed : BOOLEAN, failure : {"none", "worker-unavailable", "restart-required"},
     cause : {"none", "overflow", "send", "exit", "protocol"},
     listening : BOOLEAN, term : {"no", "asked", "done"},
     deadline : {"no", "armed", "fired"}, failWait : BOOLEAN,
     dispose : {"no", "draining", "terminating", "done"}]

Records ==
    [state : {"idle", "queued", "sent", "settled"}, version : Nat, generation : Nat,
     cell : Cells, required : Nat, outcome : Codes \cup {"ok"}]

Views == [docs : [Docs -> Nat], files : [Files -> BOOLEAN], dirty : BOOLEAN]

\* A mutation record: of one document, or of files; its newest edit is known.
Formed(m) ==
    /\ IF m.kind = "files" THEN m.doc = None
       ELSE m.doc \in Docs /\ m.changes = <<>> /\ m.dirty = FALSE
    /\ \E e \in m.edits : \A x \in m.edits : x <= e

FormedMutations == {m \in Mutations : Formed(m)}

Commissions ==
    [type : {"request"}, id : Reqs, required : Nat, version : Nat]
    \cup [type : {"mutation"}, revision : Nat, mutation : FormedMutations]

Replies ==
    [type : {"ack"}, revision : Nat]
    \cup [type : {"response"}, id : Reqs, required : Nat, version : Nat, ok : BOOLEAN,
          code : Codes, from : Views, to : Views]

Assignments == [id : Reqs, required : Nat, version : Nat, from : Views]

Workers ==
    [mode : {"up", "hung", "quarantined", "dead", "fatal"}, revision : Nat,
     docs : [Docs -> Nat], files : [Files -> BOOLEAN], dirty : BOOLEAN,
     applied : SUBSET EditIds, run : Assignments \cup {None}, ref : Assignments \cup {None}]

EditStates == {"none", "pending", "resolved", "rejected"}

-----------------------------------------------------------------------------
(* The parts of the invariant, as predicates of a state in the middle of a  *)
(* handler: queue q, life l, records rq, promises ed, channels ib and ob,   *)
(* worker w, editor c.  Every handler first reaches such a state and then   *)
(* pumps.                                                                   *)

QueueInv(q) ==
    /\ q \in Queues
    /\ \A i, j \in DOMAIN q.reads : q.reads[i] = q.reads[j] => i = j
    /\ \A i \in DOMAIN q.mutations : Formed(q.mutations[i])
    /\ \A i, j \in DOMAIN q.mutations : i # j => q.mutations[i].edits \cap q.mutations[j].edits = {}
    /\ IsMutation(q.active) =>
          Formed(q.active) /\ \A i \in DOMAIN q.mutations : q.active.edits \cap q.mutations[i].edits = {}
    /\ q.active \in Reqs => Method[q.active] # "references"
    /\ q.detached # None => Method[q.detached] = "references"

\* Every unsettled promise belongs to the queue or the lane that settles it.
OwnInv(q, rq, ed) ==
    /\ rq \in [Reqs -> Records] /\ ed \in [EditIds -> EditStates]
    /\ \A r \in Reqs : rq[r].state = "queued" <=> r \in ToSet(q.reads)
    /\ \A r \in Reqs : rq[r].state = "sent" <=> r \in Running(q)
    /\ {e \in EditIds : ed[e] = "pending"} = PendingEdits(q) \cup ActiveEdits(q)
    /\ \E k \in 0 .. MaxEdits : \A e \in EditIds : ed[e] # "none" <=> e <= k

Drained(q) == q = DrainAll(q)
Released(q) == q.active = None /\ q.detached = None

LifeInv(l, q) ==
    /\ l \in Lives /\ l.cause # "protocol"
    /\ ~l.listening => l.disposed
    /\ l.failure # "none" => l.disposed
    /\ l.failWait => ~l.listening
    /\ l.dispose # "no" => l.disposed
    /\ l.dispose \in {"terminating", "done"} => ~l.listening /\ Released(q)
    /\ l.disposed => Drained(q)

\* The messages of the two lanes.
OnSerialIn(x) == x.type = "mutation" \/ (x.type = "request" /\ Method[x.id] # "references")
OnSerialOut(x) == x.type = "ack" \/ (x.type = "response" /\ Method[x.id] # "references")
SerialIn(ib) == {i \in DOMAIN ib : OnSerialIn(ib[i])}
DetachedIn(ib) == DOMAIN ib \ SerialIn(ib)
SerialOut(ob) == {i \in DOMAIN ob : OnSerialOut(ob[i])}
DetachedOut(ob) == DOMAIN ob \ SerialOut(ob)

\* A lane's command is in one place: on its way, with the worker or on its way back.
Single(in, job, out) ==
    /\ \A i, j \in in : i = j
    /\ \A i, j \in out : i = j
    /\ in # {} => out = {} /\ job = None
    /\ out # {} => job = None

LanesInv(ib, ob, w) ==
    /\ ib \in Seq(Commissions) /\ ob \in Seq(Replies) /\ w \in Workers
    /\ w.run # None => Method[w.run.id] # "references"
    /\ w.ref # None => Method[w.ref.id] = "references"
    /\ Single(SerialIn(ib), w.run, SerialOut(ob))
    /\ Single(DetachedIn(ib), w.ref, DetachedOut(ob))

\* x carries the identity of a request that occupies a lane.
Matches(x, q, rq) ==
    /\ x.id \in Running(q)
    /\ x.required = rq[x.id].required /\ x.version = rq[x.id].version

\* While the supervisor listens, whatever is under way answers or asks for what a lane holds.
MatchInv(q, rq, ib, ob, w) ==
    /\ \A i \in DOMAIN ib : IF ib[i].type = "mutation" THEN q.active = ib[i].mutation
                            ELSE Matches(ib[i], q, rq)
    /\ \A i \in DOMAIN ob : IF ob[i].type = "ack" THEN IsMutation(q.active)
                            ELSE Matches(ob[i], q, rq)
    /\ w.run # None => Matches(w.run, q, rq)
    /\ w.ref # None => Matches(w.ref, q, rq)

Acked(ob) == \E i \in DOMAIN ob : ob[i].type = "ack"

\* Revisions are contiguous across the channel, also after a shutdown.
RevisionInv(q, ib, ob, w) ==
    /\ \A i \in DOMAIN ib : ib[i].type = "mutation" => ib[i].revision = q.applied + 1
    /\ \A i \in DOMAIN ob : ob[i].type = "ack" => ob[i].revision = q.applied + 1
    /\ w.revision = q.applied + (IF Acked(ob) THEN 1 ELSE 0)
    /\ w.mode # "fatal"

\* What was resolved, and what is acknowledged, is at the worker.
AppliedInv(q, l, ed, ob, w) ==
    /\ \A e \in EditIds : ed[e] = "resolved" => e \in w.applied
    /\ l.listening /\ Acked(ob) => q.active.edits \subseteq w.applied

\* A request whose cell is active has seen no mutation since it was sent.
FreshInv(q, l, rq, ob, w) ==
    l.listening =>
        /\ \A r \in Running(q) : rq[r].cell = "active" =>
              q.mutations = <<>> /\ ~IsMutation(q.active) /\ ~l.disposed
        /\ w.run # None /\ rq[w.run.id].cell = "active" => w.run.from = View(w)
        /\ w.ref # None /\ rq[w.ref.id].cell = "active" => w.ref.from = View(w)
        /\ \A i \in DOMAIN ob : ob[i].type = "response" /\ rq[ob[i].id].cell = "active" =>
              ob[i].from = View(w) /\ ob[i].to = View(w)

\* The mutation in the serial lane has not been applied.
Unapplied(q, ob) == IsMutation(q.active) /\ ~Acked(ob)
LastIn(i, S) == i \in S /\ \A j \in S : j <= i
About(q, d) == {i \in DOMAIN q.mutations : q.mutations[i].doc = d}
Mentions(q, f) == {i \in DOMAIN q.mutations : f \in DOMAIN q.mutations[i].changes}
Text(m) == IF m.kind = "close" THEN 0 ELSE Version(m)

\* The editor's text of d is the last one waiting, or the worker's.
DocConv(q, ob, w, c, d) ==
    /\ \A i \in DOMAIN q.mutations : LastIn(i, About(q, d)) => c.docs[d] = Text(q.mutations[i])
    /\ About(q, d) = {} =>
          c.docs[d] = IF Unapplied(q, ob) /\ q.active.doc = d THEN Text(q.active) ELSE w.docs[d]

\* A file that is gone is last mentioned as deleted, or unknown to the worker.
FileConv(q, ob, w, c, f) ==
    ~c.files[f] =>
        /\ \A i \in DOMAIN q.mutations : LastIn(i, Mentions(q, f)) => q.mutations[i].changes[f] = "deleted"
        /\ Mentions(q, f) = {} =>
              IF Unapplied(q, ob) /\ f \in DOMAIN q.active.changes
              THEN q.active.changes[f] = "deleted" ELSE ~w.files[f]

DirtyConv(q, ob, w, c) ==
    c.dirty <=> \/ w.dirty
                \/ Unapplied(q, ob) /\ q.active.dirty
                \/ \E i \in DOMAIN q.mutations : q.mutations[i].dirty

\* The worker is behind the editor by what waits, and by nothing else.
ConvInv(q, l, ob, w, c) ==
    /\ c \in Views
    /\ ~l.disposed =>
         /\ \A d \in Docs : DocConv(q, ob, w, c, d)
         /\ \A f \in Files : FileConv(q, ob, w, c, f)
         /\ DirtyConv(q, ob, w, c)

Inv(q, l, rq, ed, ib, ob, w, c) ==
    /\ QueueInv(q) /\ OwnInv(q, rq, ed) /\ LifeInv(l, q)
    /\ LanesInv(ib, ob, w) /\ RevisionInv(q, ib, ob, w)
    /\ l.listening => MatchInv(q, rq, ib, ob, w)
    /\ AppliedInv(q, l, ed, ob, w)
    /\ FreshInv(q, l, rq, ob, w)
    /\ ConvInv(q, l, ob, w, c)

SupervisorInv == Inv(queue, life, req, edit, inbox, outbox, worker, client)

-----------------------------------------------------------------------------
(* Numbers and sequences.                                                  *)

\* Every non-empty set of naturals has a least element.
LEMMA LeastNatural ==
  ASSUME NEW T \in SUBSET Nat, T # {}
  PROVE  \E x \in T : \A y \in T : x <= y
<1> DEFINE R == {ss \in Nat \X Nat : ss[1] < ss[2]}
<1>1. IsWellFoundedOn(R, Nat)
  BY NatLessThanWellFounded DEF OpToRel
<1>2. PICK x \in T : \A y \in T : ~ (<<y, x>> \in R)
  BY <1>1, WFMin, Zenon
<1>3. ASSUME NEW y \in T PROVE ~(y < x)
  BY <1>2, <1>3
<1>4. QED
  BY <1>3

\* A non-empty set of naturals with an upper bound has a greatest element.
LEMMA GreatestNatural ==
  ASSUME NEW T \in SUBSET Nat, T # {}, NEW n \in Nat, \A x \in T : x <= n
  PROVE  \E x \in T : \A y \in T : y <= x
<1> DEFINE U == {n - x : x \in T}
<1>1. U \in SUBSET Nat /\ U # {}
  <2>1. ASSUME NEW x \in T PROVE n - x \in Nat
    OBVIOUS
  <2>2. QED
    BY <2>1
<1>2. PICK u \in U : \A v \in U : u <= v
  BY <1>1, LeastNatural
<1>3. PICK x \in T : u = n - x
  BY <1>2
<1>4. ASSUME NEW y \in T PROVE y <= x
  BY <1>2, <1>3
<1>5. QED
  BY <1>4

\* What Max and Min of the library choose.
LEMMA MaxOf ==
  ASSUME NEW S \in SUBSET Int, NEW e \in S, \A x \in S : x <= e
  PROVE  Max(S) = e
<1>1. \E x \in S : \A y \in S : x >= y
  OBVIOUS
<1>2. Max(S) \in S /\ \A y \in S : Max(S) >= y
  BY <1>1 DEF Max
<1>3. Max(S) >= e /\ Max(S) <= e /\ Max(S) \in Int
  BY <1>2
<1>4. QED
  BY <1>3

\* A bounded-below set of naturals has its minimum.
LEMMA MinIn ==
  ASSUME NEW S \in SUBSET Nat, S # {}
  PROVE  Min(S) \in S
BY LeastNatural DEF Min

\* A bounded non-empty set of naturals has its maximum.
LEMMA MaxIn ==
  ASSUME NEW S \in SUBSET Nat, S # {}, NEW n \in Nat, \A x \in S : x <= n
  PROVE  Max(S) \in S /\ \A x \in S : x <= Max(S)
BY GreatestNatural DEF Max

\* A read is taken out at its place and the ones behind it move up.
LEMMA ReadSpliced ==
  ASSUME NEW s \in Seq(Reqs), NEW r \in ToSet(s), NEW t, t = RemoveAt(s, IndexOf(s, r))
  PROVE  /\ t \in Seq(Reqs) /\ Len(t) = Len(s) - 1
         /\ \E k \in 1 .. Len(s) :
               /\ s[k] = r
               /\ \A i \in 1 .. Len(t) : t[i] = IF i < k THEN s[i] ELSE s[i + 1]
<1>1. PICK k \in DOMAIN s : k = IndexOf(s, r) /\ s[k] = r
  BY DEF IndexOf, ToSet
<1>2. k \in 1 .. Len(s) /\ Len(s) \in Nat /\ DOMAIN s = 1 .. Len(s)
  BY <1>1
<1> DEFINE a == SubSeq(s, 1, k - 1)
           b == SubSeq(s, k + 1, Len(s))
<1>3. /\ a \in Seq(Reqs) /\ Len(a) = k - 1
      /\ \A i \in 1 .. k - 1 : a[i] = s[i]
  BY <1>2, SubSeqProperties
<1>4. /\ b \in Seq(Reqs) /\ Len(b) = Len(s) - k
      /\ \A i \in 1 .. Len(s) - k : b[i] = s[k + i]
  BY <1>2, SubSeqProperties
<1> HIDE DEF a, b
<1>5. t = a \o b
  BY <1>1 DEF RemoveAt, a, b
<1>6. /\ t \in Seq(Reqs) /\ Len(t) = Len(s) - 1
      /\ \A i \in 1 .. Len(t) : t[i] = IF i < k THEN s[i] ELSE s[i + 1]
  <2>1. /\ t \in Seq(Reqs) /\ Len(t) = Len(a) + Len(b)
        /\ \A i \in 1 .. Len(a) + Len(b) : t[i] = IF i <= Len(a) THEN a[i] ELSE b[i - Len(a)]
    <3>1. /\ a \o b \in Seq(Reqs) /\ Len(a \o b) = Len(a) + Len(b)
          /\ \A i \in 1 .. Len(a) + Len(b) : (a \o b)[i] = IF i <= Len(a) THEN a[i] ELSE b[i - Len(a)]
      BY <1>3, <1>4, ConcatProperties
    <3>2. QED
      BY <1>5, <3>1, Zenon
  <2>2. Len(t) = Len(s) - 1
    BY <2>1, <1>2, <1>3, <1>4
  <2>3. ASSUME NEW i \in 1 .. Len(t) PROVE t[i] = IF i < k THEN s[i] ELSE s[i + 1]
    <3>1. CASE i < k
      BY <3>1, <2>1, <2>2, <1>2, <1>3, <1>4
    <3>2. CASE ~(i < k)
      <4>1. t[i] = b[i - (k - 1)]
        BY <3>2, <2>1, <2>2, <1>2, <1>3, <1>4
      <4>2. i - (k - 1) \in 1 .. Len(s) - k /\ k + (i - (k - 1)) = i + 1
        BY <3>2, <2>2, <1>2
      <4>3. QED
        BY <3>2, <4>1, <4>2, <1>4
    <3>3. QED
      BY <3>1, <3>2
  <2>4. QED
    BY <2>1, <2>2, <2>3
<1>7. QED
  BY <1>1, <1>2, <1>6

\* A read leaves the queue: the others stay, in their order and once.
LEMMA ReadRemoved ==
  ASSUME NEW s \in Seq(Reqs), NEW r \in ToSet(s),
         \A i, j \in DOMAIN s : s[i] = s[j] => i = j
  PROVE  /\ RemoveAt(s, IndexOf(s, r)) \in Seq(Reqs)
         /\ ToSet(RemoveAt(s, IndexOf(s, r))) = ToSet(s) \ {r}
         /\ \A i, j \in DOMAIN RemoveAt(s, IndexOf(s, r)) :
               RemoveAt(s, IndexOf(s, r))[i] = RemoveAt(s, IndexOf(s, r))[j] => i = j
<1>1. PICK t : t = RemoveAt(s, IndexOf(s, r))
  OBVIOUS
<1>2. PICK k \in 1 .. Len(s) : s[k] = r /\ \A i \in 1 .. Len(t) : t[i] = IF i < k THEN s[i] ELSE s[i + 1]
  BY <1>1, ReadSpliced
<1>3. t \in Seq(Reqs) /\ Len(t) = Len(s) - 1 /\ Len(s) \in Nat /\ DOMAIN s = 1 .. Len(s)
  BY <1>1, ReadSpliced
<1>4. DOMAIN t = 1 .. Len(s) - 1
  BY <1>2, <1>3
<1>5. ASSUME NEW i \in DOMAIN t, NEW j \in DOMAIN t, t[i] = t[j] PROVE i = j
  <2> DEFINE at(x) == IF x < k THEN x ELSE x + 1
  <2>1. t[i] = s[at(i)] /\ t[j] = s[at(j)]
    BY <1>5, <1>4, <1>2, <1>3
  <2>2. at(i) \in DOMAIN s /\ at(j) \in DOMAIN s
    BY <1>5, <1>4, <1>3
  <2>3. at(i) = at(j)
    BY <2>1, <2>2, <1>5
  <2>4. QED
    BY <2>3, <1>5, <1>4, <1>3
<1>6. ASSUME NEW i \in DOMAIN t PROVE t[i] \in ToSet(s) /\ t[i] # r
  <2>1. t[i] = IF i < k THEN s[i] ELSE s[i + 1]
    BY <1>6, <1>4, <1>2, <1>3
  <2>2. i \in 1 .. Len(s) /\ i + 1 \in 1 .. Len(s)
    BY <1>6, <1>4, <1>3
  <2>3. QED
    BY <2>1, <2>2, <1>2, <1>3 DEF ToSet
<1>7. ASSUME NEW i \in DOMAIN s, s[i] # r PROVE s[i] \in ToSet(t)
  <2>1. CASE i < k
    BY <2>1, <1>7, <1>3, <1>2, <1>4 DEF ToSet
  <2>2. CASE i > k
    <3>1. i - 1 \in DOMAIN t /\ t[i - 1] = s[i]
      BY <2>2, <1>3, <1>2, <1>4
    <3>2. QED
      BY <3>1 DEF ToSet
  <2>3. QED
    BY <2>1, <2>2, <1>7, <1>2, <1>3
<1>8. ToSet(t) = ToSet(s) \ {r}
  BY <1>6, <1>7 DEF ToSet
<1>9. QED
  BY <1>2, <1>3, <1>1, <1>5, <1>8

\* A read of the wanted classes is found where there is one.
LEMMA FirstOfIn ==
  ASSUME NEW s \in Seq(Reqs), NEW S, FirstOf(s, S) # 0
  PROVE  FirstOf(s, S) \in DOMAIN s /\ Rank(s[FirstOf(s, S)]) \in S
<1> DEFINE found == {i \in DOMAIN s : Rank(s[i]) \in S}
<1>1. found \in SUBSET Nat
  OBVIOUS
<1>2. FirstOf(s, S) = IF found = {} THEN 0 ELSE Min(found)
  BY DEF FirstOf
<1>3. found # {} => Min(found) \in found
  BY <1>1, MinIn
<1>4. QED
  BY <1>2, <1>3

\* Without a global at its head, the queue has a best read before the first global.
LEMMA BestIn ==
  ASSUME NEW s \in Seq(Reqs), s # <<>>, ~(Rank(s[1]) < 0)
  PROVE  BestAheadOfGlobal(s) \in DOMAIN s
<1> DEFINE global == FirstOf(s, {-1})
           end == IF global = 0 THEN Len(s) ELSE global - 1
           found == {i \in DOMAIN s : Rank(s[i]) \in {-1}}
<1>1. Len(s) \in Nat /\ Len(s) >= 1 /\ DOMAIN s = 1 .. Len(s)
  BY EmptySeq, LenProperties
<1>2. global = 0 \/ (global \in DOMAIN s /\ Rank(s[global]) = -1)
  BY FirstOfIn
<1>3. end \in 1 .. Len(s)
  BY <1>1, <1>2
<1> HIDE DEF global, end
<1>4. \A j \in 1 .. end : Rank(s[j]) \in -1 .. 3
  BY DEF Rank, Priority
<1> DEFINE K == {3 - Rank(s[j]) : j \in 1 .. end}
<1>5. K \in SUBSET Nat /\ K # {}
  BY <1>3, <1>4
<1>6. PICK b \in 1 .. end : \A j \in 1 .. end : Rank(s[j]) <= Rank(s[b])
  <2>1. PICK x \in K : \A y \in K : x <= y
    BY <1>5, LeastNatural
  <2>2. PICK b \in 1 .. end : x = 3 - Rank(s[b])
    BY <2>1
  <2>3. ASSUME NEW j \in 1 .. end PROVE Rank(s[j]) <= Rank(s[b])
    <3>1. 3 - Rank(s[b]) <= 3 - Rank(s[j])
      BY <2>1, <2>2
    <3>2. Rank(s[b]) \in -1 .. 3 /\ Rank(s[j]) \in -1 .. 3
      BY <1>4
    <3>3. QED
      BY <3>1, <3>2
  <2>4. QED
    BY <2>3
<1> DEFINE J == {j \in 1 .. end : Rank(s[j]) = Rank(s[b])}
<1>7. J \in SUBSET Nat /\ J # {}
  BY <1>6
<1>8. PICK i \in J : \A j \in J : i <= j
  BY <1>7, LeastNatural
<1>9. \A j \in 1 .. end : Rank(s[j]) < Rank(s[i]) \/ (Rank(s[j]) = Rank(s[i]) /\ i <= j)
  BY <1>4, <1>6, <1>8
<1>10. BestAheadOfGlobal(s) = CHOOSE x \in 1 .. end :
            \A j \in 1 .. end : Rank(s[j]) < Rank(s[x])
                                \/ (Rank(s[j]) = Rank(s[x]) /\ x <= j)
  BY DEF BestAheadOfGlobal, global, end
<1>11. BestAheadOfGlobal(s) \in 1 .. end
  BY <1>8, <1>9, <1>10
<1>12. QED
  BY <1>11, <1>3, <1>1

-----------------------------------------------------------------------------
(* What the pump may do to a queue: nothing but the bypass mark, or one      *)
(* command from the head of its queue into the free lane it belongs to.      *)

Rest(q, p) == p \in Queues /\ p.applied = q.applied /\ p.generation = q.generation

Skips(q, p) ==
    /\ Rest(q, p) /\ p.mutations = q.mutations /\ p.reads = q.reads
    /\ p.active = q.active /\ p.detached = q.detached

SendsMutation(q, p) ==
    /\ Rest(q, p) /\ q.active = None /\ q.mutations # <<>>
    /\ p.active = Head(q.mutations) /\ p.mutations = Tail(q.mutations)
    /\ p.reads = q.reads /\ p.detached = q.detached

TakesRead(q, p, r) ==
    /\ Rest(q, p) /\ q.active = None /\ q.mutations = <<>> /\ p.mutations = <<>>
    /\ r \in ToSet(q.reads) /\ ToSet(p.reads) = ToSet(q.reads) \ {r}
    /\ \A i, j \in DOMAIN p.reads : p.reads[i] = p.reads[j] => i = j

SendsSerial(q, p, r) ==
    /\ TakesRead(q, p, r) /\ Method[r] # "references"
    /\ p.active = r /\ p.detached = q.detached

SendsDetached(q, p, r) ==
    /\ TakesRead(q, p, r) /\ Method[r] = "references"
    /\ p.active = None /\ q.detached = None /\ p.detached = r

\* A read that is taken out of a well-formed queue.
LEMMA ReadReleased ==
  ASSUME NEW q, QueueInv(q), NEW r \in ToSet(q.reads), NEW x \in Reqs \cup {None},
         NEW p, p = ReleaseRead([q EXCEPT !.bypassed = x], r)
  PROVE  /\ p \in Queues /\ p.mutations = q.mutations /\ p.active = q.active
         /\ p.detached = q.detached /\ p.applied = q.applied /\ p.generation = q.generation
         /\ ToSet(p.reads) = ToSet(q.reads) \ {r}
         /\ \A i, j \in DOMAIN p.reads : p.reads[i] = p.reads[j] => i = j
<1>1. q \in Queues /\ r \in Reqs /\ Target[r] \in Docs /\ Weight[r] \in Nat
  BY ConstantsAssumption DEF QueueInv, Queues, ToSet
<1>2. PICK s : s = RemoveAt(q.reads, IndexOf(q.reads, r))
  OBVIOUS
<1>3. /\ s \in Seq(Reqs) /\ ToSet(s) = ToSet(q.reads) \ {r}
      /\ \A i, j \in DOMAIN s : s[i] = s[j] => i = j
  BY <1>1, <1>2, ReadRemoved DEF QueueInv, Queues
<1>4. PICK o : o = [q.sources EXCEPT ![Target[r]] = @ - 1]
  OBVIOUS
<1>5. o \in [Docs -> Int]
  BY <1>1, <1>4 DEF Queues
<1>6. PICK y \in Reqs \cup {None} : y = IF x = r THEN None ELSE x
  OBVIOUS
<1>7. p = [q EXCEPT !.reads = s, !.sources = o, !.readBytes = q.readBytes - Weight[r], !.bypassed = y]
  BY <1>1, <1>2, <1>4, <1>6 DEF ReleaseRead, Queues
<1>8. q.readBytes - Weight[r] \in Int
  BY <1>1 DEF Queues
<1>9. PICK n \in Int : n = q.readBytes - Weight[r]
  BY <1>8
<1>10. p = [q EXCEPT !.reads = s, !.sources = o, !.readBytes = n, !.bypassed = y]
  BY <1>7, <1>9
<1>11. p \in Queues
  BY <1>1, <1>3, <1>5, <1>6, <1>9, <1>10 DEF Queues
<1>12. p.reads = s /\ p.mutations = q.mutations /\ p.active = q.active
       /\ p.detached = q.detached /\ p.applied = q.applied /\ p.generation = q.generation
  BY <1>1, <1>10 DEF Queues
<1>13. QED
  BY <1>3, <1>11, <1>12

\* What the lane policy takes is queued; a busy detached lane gets no reference.
LEMMA TakeNextIn ==
  ASSUME NEW s \in Seq(Reqs), s # <<>>, NEW detached \in BOOLEAN,
         NEW bypassed \in Reqs \cup {None},
         NEW next, next = TakeNext(s, detached, bypassed)
  PROVE  /\ next.bypassed \in Reqs \cup {None}
         /\ next.request # None => /\ next.request \in ToSet(s)
                                   /\ detached => Method[next.request] # "references"
<1>1. 1 \in DOMAIN s /\ s[1] \in Reqs /\ s[1] \in ToSet(s)
  BY EmptySeq, LenProperties DEF ToSet
<1>2. CASE detached
  <2>1. PICK i : i = FirstOf(s, 1 .. 3)
    OBVIOUS
  <2>2. next = [request |-> IF i = 0 THEN None ELSE s[i],
                bypassed |-> IF s[1] = bypassed THEN bypassed ELSE None]
    BY <1>2, <2>1 DEF TakeNext
  <2>3. i # 0 => i \in DOMAIN s /\ Rank(s[i]) \in 1 .. 3
    BY <2>1, FirstOfIn
  <2>4. i # 0 => s[i] \in ToSet(s) /\ Method[s[i]] # "references"
    BY <2>3 DEF ToSet, Rank, Priority
  <2>5. next.bypassed \in Reqs \cup {None}
    BY <1>1, <2>2
  <2>6. next.request = IF i = 0 THEN None ELSE s[i]
    BY <2>2
  <2>7. QED
    BY <2>4, <2>5, <2>6
<1>3. CASE ~detached
  <2>1. CASE Rank(s[1]) < 0 \/ s[1] = bypassed
    <3>1. next = [request |-> s[1], bypassed |-> None]
      BY <1>3, <2>1 DEF TakeNext
    <3>2. QED
      BY <1>1, <1>3, <3>1
  <2>2. CASE ~(Rank(s[1]) < 0 \/ s[1] = bypassed)
    <3>1. PICK b : b = s[BestAheadOfGlobal(s)]
      OBVIOUS
    <3>2. next = [request |-> b, bypassed |-> IF b = s[1] THEN None ELSE s[1]]
      BY <1>3, <2>2, <3>1 DEF TakeNext
    <3>3. BestAheadOfGlobal(s) \in DOMAIN s
      BY <2>2, BestIn
    <3>4. b \in ToSet(s)
      BY <3>1, <3>3 DEF ToSet
    <3>5. QED
      BY <1>1, <1>3, <3>2, <3>4
  <2>3. QED
    BY <2>1, <2>2
<1>4. QED
  BY <1>2, <1>3

\* One iteration of the pump.
LEMMA PumpOnceCases ==
  ASSUME NEW q, QueueInv(q), NEW p, p = PumpOnce(q)
  PROVE  \/ Skips(q, p)
         \/ SendsMutation(q, p)
         \/ \E r \in Reqs : SendsSerial(q, p, r) \/ SendsDetached(q, p, r)
<1>1. q \in Queues
  BY DEF QueueInv
<1>2. CASE q.active # None
  BY <1>1, <1>2 DEF PumpOnce, Skips, Rest
<1>3. CASE q.active = None /\ q.mutations # <<>>
  <2>1. PICK m, s, n : m = Head(q.mutations) /\ s = Tail(q.mutations) /\ n = q.bytes - m.bytes
    OBVIOUS
  <2>2. m \in Mutations /\ s \in Seq(Mutations)
    BY <1>1, <1>3, <2>1, HeadTailProperties DEF Queues
  <2>3. n \in Int
    BY <1>1, <2>1, <2>2 DEF Queues, Mutations
  <2>4. p = [q EXCEPT !.active = m, !.mutations = s, !.bytes = n]
    BY <1>1, <1>3, <2>1 DEF PumpOnce, Queues
  <2>5. p \in Queues
    BY <1>1, <2>2, <2>3, <2>4 DEF Queues
  <2>6. p.active = m /\ p.mutations = s /\ p.reads = q.reads /\ p.detached = q.detached
        /\ p.applied = q.applied /\ p.generation = q.generation
    BY <1>1, <2>4 DEF Queues
  <2>7. SendsMutation(q, p)
    BY <1>3, <2>1, <2>5, <2>6 DEF SendsMutation, Rest
  <2>8. QED
    BY <2>7
<1>4. CASE q.active = None /\ q.mutations = <<>> /\ q.reads = <<>>
  <2>1. p = [q EXCEPT !.bypassed = None]
    BY <1>4 DEF PumpOnce
  <2>2. Skips(q, p)
    BY <1>1, <2>1 DEF Skips, Rest, Queues
  <2>3. QED
    BY <2>2
<1>5. CASE q.active = None /\ q.mutations = <<>> /\ q.reads # <<>>
  <2>1. PICK next : next = TakeNext(q.reads, q.detached # None, q.bypassed)
    OBVIOUS
  <2>2. /\ next.bypassed \in Reqs \cup {None}
        /\ next.request # None => /\ next.request \in ToSet(q.reads)
                                  /\ q.detached # None => Method[next.request] # "references"
    <3>1. q.reads \in Seq(Reqs) /\ q.bypassed \in Reqs \cup {None} /\ (q.detached # None) \in BOOLEAN
      BY <1>1 DEF Queues
    <3>2. QED
      BY <1>5, <2>1, <3>1, TakeNextIn
  <2>3. PICK x, r : x = next.bypassed /\ r = next.request
    OBVIOUS
  <2>4. CASE r = None
    <3>1. p = [q EXCEPT !.bypassed = x]
      BY <1>5, <2>1, <2>3, <2>4 DEF PumpOnce
    <3>2. Skips(q, p)
      BY <1>1, <2>2, <2>3, <3>1 DEF Skips, Rest, Queues
    <3>3. QED
      BY <3>2
  <2>5. CASE r # None
    <3>1. PICK s : s = ReleaseRead([q EXCEPT !.bypassed = x], r)
      OBVIOUS
    <3>2. r \in ToSet(q.reads) /\ x \in Reqs \cup {None} /\ r \in Reqs
      BY <1>1, <2>2, <2>3, <2>5 DEF Queues, ToSet
    <3>3. /\ s \in Queues /\ s.mutations = q.mutations /\ s.active = q.active
          /\ s.detached = q.detached /\ s.applied = q.applied /\ s.generation = q.generation
          /\ ToSet(s.reads) = ToSet(q.reads) \ {r}
          /\ \A i, j \in DOMAIN s.reads : s.reads[i] = s.reads[j] => i = j
      BY <3>1, <3>2, ReadReleased
    <3>4. CASE Method[r] = "references"
      <4>1. p = [s EXCEPT !.detached = r]
        BY <1>5, <2>1, <2>3, <2>5, <3>1, <3>4 DEF PumpOnce
      <4>2. p \in Queues
        BY <3>2, <3>3, <4>1 DEF Queues
      <4>3. /\ p.mutations = s.mutations /\ p.active = s.active /\ p.detached = r
            /\ p.applied = s.applied /\ p.generation = s.generation /\ p.reads = s.reads
        BY <3>3, <4>1 DEF Queues
      <4>4. q.detached = None
        BY <2>2, <2>3, <2>5, <3>4
      <4>5. SendsDetached(q, p, r)
        BY <1>5, <3>2, <3>3, <3>4, <4>2, <4>3, <4>4 DEF SendsDetached, TakesRead, Rest
      <4>6. QED
        BY <3>2, <4>5
    <3>5. CASE Method[r] # "references"
      <4>1. p = [s EXCEPT !.active = r]
        BY <1>5, <2>1, <2>3, <2>5, <3>1, <3>5 DEF PumpOnce
      <4>2. p \in Queues
        BY <3>2, <3>3, <4>1 DEF Queues
      <4>3. /\ p.mutations = s.mutations /\ p.active = r /\ p.detached = s.detached
            /\ p.applied = s.applied /\ p.generation = s.generation /\ p.reads = s.reads
        BY <3>3, <4>1 DEF Queues
      <4>4. SendsSerial(q, p, r)
        BY <1>5, <3>2, <3>3, <3>5, <4>2, <4>3 DEF SendsSerial, TakesRead, Rest
      <4>5. QED
        BY <3>2, <4>4
    <3>6. QED
      BY <3>4, <3>5
  <2>6. QED
    BY <2>4, <2>5
<1>6. QED
  BY <1>2, <1>3, <1>4, <1>5

-----------------------------------------------------------------------------
(* Lanes and channels.                                                     *)

\* A mutation record is neither a request nor None.
LEMMA MutationsApart ==
  ASSUME NEW m \in Mutations
  PROVE  IsMutation(m) /\ m \notin Reqs /\ m # None
BY ConstantsAssumption DEF IsMutation

\* None is no request, no document and no mutation, and a request is no mutation.
LEMMA NoneApart ==
  /\ None \notin Reqs /\ None \notin Docs /\ ~IsMutation(None)
  /\ \A r \in Reqs : ~IsMutation(r) /\ r # None
BY ConstantsAssumption DEF IsMutation

\* The serial lane holds a mutation exactly when its content is a mutation record.
LEMMA ActiveMutation ==
  ASSUME NEW q, QueueInv(q)
  PROVE  IsMutation(q.active) <=> q.active \in Mutations
BY MutationsApart, NoneApart DEF QueueInv, Queues, IsMutation

\* A free serial lane has nothing under way.
LEMMA IdleSerial ==
  ASSUME NEW q, NEW rq, NEW ib, NEW ob, NEW w, QueueInv(q), LanesInv(ib, ob, w),
         MatchInv(q, rq, ib, ob, w), q.active = None
  PROVE  SerialIn(ib) = {} /\ SerialOut(ob) = {} /\ w.run = None /\ ~Acked(ob)
<1>1. \A r \in Running(q) : Method[r] = "references"
  BY NoneApart DEF Running, QueueInv
<1>2. ASSUME NEW i \in SerialIn(ib) PROVE FALSE
  <2>1. i \in DOMAIN ib /\ OnSerialIn(ib[i]) /\ ib[i] \in Commissions
    BY <1>2 DEF SerialIn, LanesInv
  <2>2. CASE ib[i].type = "mutation"
    <3>1. ib[i].mutation \in Mutations /\ q.active = ib[i].mutation
      BY <2>1, <2>2 DEF Commissions, FormedMutations, MatchInv
    <3>2. QED
      BY <3>1, MutationsApart
  <2>3. CASE ib[i].type # "mutation"
    <3>1. Matches(ib[i], q, rq) /\ Method[ib[i].id] # "references"
      BY <2>1, <2>3 DEF MatchInv, OnSerialIn
    <3>2. QED
      BY <3>1, <1>1 DEF Matches
  <2>4. QED
    BY <2>2, <2>3
<1>3. ASSUME NEW i \in DOMAIN ob, ob[i].type = "ack" PROVE FALSE
  BY <1>3, NoneApart DEF MatchInv
<1>4. ASSUME NEW i \in SerialOut(ob) PROVE FALSE
  <2>1. i \in DOMAIN ob /\ OnSerialOut(ob[i])
    BY <1>4 DEF SerialOut
  <2>2. ob[i].type # "ack"
    BY <1>3, <2>1
  <2>3. Matches(ob[i], q, rq) /\ Method[ob[i].id] # "references"
    BY <2>1, <2>2 DEF MatchInv, OnSerialOut
  <2>4. QED
    BY <2>3, <1>1 DEF Matches
<1>5. w.run = None
  BY <1>1 DEF MatchInv, LanesInv, Matches
<1>6. QED
  BY <1>2, <1>3, <1>4, <1>5 DEF Acked

\* A free detached lane has nothing under way.
LEMMA IdleDetached ==
  ASSUME NEW q, NEW rq, NEW ib, NEW ob, NEW w, QueueInv(q), LanesInv(ib, ob, w),
         MatchInv(q, rq, ib, ob, w), q.detached = None
  PROVE  DetachedIn(ib) = {} /\ DetachedOut(ob) = {} /\ w.ref = None
<1>1. \A r \in Running(q) : Method[r] # "references"
  BY NoneApart DEF Running, QueueInv
<1>2. ASSUME NEW i \in DetachedIn(ib) PROVE FALSE
  <2>1. i \in DOMAIN ib /\ ~OnSerialIn(ib[i]) /\ ib[i] \in Commissions
    BY <1>2 DEF DetachedIn, SerialIn, LanesInv
  <2>2. ib[i].type # "mutation" /\ Method[ib[i].id] = "references"
    BY <2>1 DEF OnSerialIn, Commissions
  <2>3. QED
    BY <1>1, <2>1, <2>2 DEF MatchInv, Matches
<1>3. ASSUME NEW i \in DetachedOut(ob) PROVE FALSE
  <2>1. i \in DOMAIN ob /\ ~OnSerialOut(ob[i]) /\ ob[i] \in Replies
    BY <1>3 DEF DetachedOut, SerialOut, LanesInv
  <2>2. ob[i].type # "ack" /\ Method[ob[i].id] = "references"
    BY <2>1 DEF OnSerialOut, Replies
  <2>3. QED
    BY <1>1, <2>1, <2>2 DEF MatchInv, Matches
<1>4. w.ref = None
  BY <1>1 DEF MatchInv, LanesInv, Matches
<1>5. QED
  BY <1>2, <1>3, <1>4

\* Appending, index by index.
LEMMA Appended ==
  ASSUME NEW S, NEW s \in Seq(S), NEW x \in S, NEW t, t = Append(s, x)
  PROVE  /\ t \in Seq(S) /\ Len(t) = Len(s) + 1 /\ Len(s) \in Nat
         /\ DOMAIN s = 1 .. Len(s) /\ DOMAIN t = DOMAIN s \cup {Len(s) + 1}
         /\ Len(s) + 1 \notin DOMAIN s
         /\ \A i \in DOMAIN s : t[i] = s[i]
         /\ t[Len(s) + 1] = x
<1>1. /\ t \in Seq(S) /\ Len(t) = Len(s) + 1 /\ t[Len(s) + 1] = x
      /\ \A i \in 1 .. Len(s) : t[i] = s[i]
  BY AppendProperties
<1>2. Len(s) \in Nat /\ DOMAIN s = 1 .. Len(s) /\ DOMAIN t = 1 .. Len(t)
  BY <1>1, LenProperties
<1>3. QED
  BY <1>1, <1>2

\* Taking the head off, index by index.
LEMMA Beheaded ==
  ASSUME NEW S, NEW s \in Seq(S), s # <<>>, NEW t, t = Tail(s)
  PROVE  /\ t \in Seq(S) /\ Head(s) \in S /\ Head(s) = s[1] /\ 1 \in DOMAIN s
         /\ \A i \in DOMAIN t : i \in Nat /\ i >= 1 /\ i + 1 \in DOMAIN s /\ t[i] = s[i + 1]
         /\ \A i \in DOMAIN s : i \in Nat /\ i >= 1 /\ (i = 1 \/ (i - 1 \in DOMAIN t /\ t[i - 1] = s[i]))
<1>1. /\ Head(s) \in S /\ t \in Seq(S) /\ Len(t) = Len(s) - 1
      /\ \A i \in 1 .. Len(t) : t[i] = s[i + 1]
  BY HeadTailProperties
<1>2. Len(s) \in Nat /\ DOMAIN s = 1 .. Len(s) /\ DOMAIN t = 1 .. Len(t) /\ Len(s) # 0
  BY <1>1, LenProperties, EmptySeq
<1>3. Head(s) = s[1]
  OBVIOUS
<1>4. ASSUME NEW i \in DOMAIN s, i # 1 PROVE i - 1 \in DOMAIN t /\ t[i - 1] = s[i]
  <2>1. i - 1 \in 1 .. Len(t) /\ (i - 1) + 1 = i
    BY <1>4, <1>2, <1>1
  <2>2. QED
    BY <2>1, <1>1, <1>2
<1>5. QED
  BY <1>1, <1>2, <1>3, <1>4

\* A command is sent on a free lane.
LEMMA SentSerial ==
  ASSUME NEW ib, NEW ob, NEW w, LanesInv(ib, ob, w), NEW x \in Commissions, OnSerialIn(x),
         SerialIn(ib) = {}, SerialOut(ob) = {}, w.run = None,
         NEW t, t = Append(ib, x)
  PROVE  LanesInv(t, ob, w)
<1>1. /\ t \in Seq(Commissions) /\ Len(ib) \in Nat
      /\ DOMAIN t = DOMAIN ib \cup {Len(ib) + 1} /\ Len(ib) + 1 \notin DOMAIN ib
      /\ \A i \in DOMAIN ib : t[i] = ib[i]
      /\ t[Len(ib) + 1] = x
  BY Appended DEF LanesInv
<1>2. SerialIn(t) = {Len(ib) + 1}
  BY <1>1 DEF SerialIn
<1>3. DetachedIn(t) = DetachedIn(ib)
  BY <1>1, <1>2 DEF DetachedIn
<1>4. Single(SerialIn(t), w.run, SerialOut(ob))
  BY <1>2 DEF Single
<1>5. QED
  BY <1>1, <1>3, <1>4 DEF LanesInv

\* A reference request sent on a free detached lane is the only one under way there.
LEMMA SentDetached ==
  ASSUME NEW ib, NEW ob, NEW w, LanesInv(ib, ob, w), NEW x \in Commissions, ~OnSerialIn(x),
         DetachedIn(ib) = {}, DetachedOut(ob) = {}, w.ref = None,
         NEW t, t = Append(ib, x)
  PROVE  LanesInv(t, ob, w)
<1>1. /\ t \in Seq(Commissions) /\ Len(ib) \in Nat
      /\ DOMAIN t = DOMAIN ib \cup {Len(ib) + 1} /\ Len(ib) + 1 \notin DOMAIN ib
      /\ \A i \in DOMAIN ib : t[i] = ib[i]
      /\ t[Len(ib) + 1] = x
  BY Appended DEF LanesInv
<1>2. SerialIn(t) = SerialIn(ib)
  <2>1. \A i \in DOMAIN ib : OnSerialIn(t[i]) <=> OnSerialIn(ib[i])
    BY <1>1
  <2>2. ~OnSerialIn(t[Len(ib) + 1])
    BY <1>1
  <2>3. QED
    BY <1>1, <2>1, <2>2 DEF SerialIn
<1>3. DetachedIn(t) = {Len(ib) + 1}
  <2>1. SerialIn(ib) = DOMAIN ib
    BY DEF DetachedIn, SerialIn
  <2>2. QED
    BY <1>1, <1>2, <2>1 DEF DetachedIn
<1>4. Single(DetachedIn(t), w.ref, DetachedOut(ob))
  BY <1>3 DEF Single
<1>5. QED
  BY <1>1, <1>2, <1>4 DEF LanesInv

\* Only the mutations that wait, the unapplied one and the worker's inputs matter.
LEMMA ConvSame ==
  ASSUME NEW q, NEW p, NEW l, NEW l2, NEW ob, NEW ob2, NEW w, NEW w2, NEW c,
         ConvInv(q, l, ob, w, c), p.mutations = q.mutations,
         Unapplied(p, ob2) <=> Unapplied(q, ob), Unapplied(q, ob) => p.active = q.active,
         View(w2) = View(w), ~l2.disposed => ~l.disposed
  PROVE  ConvInv(p, l2, ob2, w2, c)
<1>1. w2.docs = w.docs /\ w2.files = w.files /\ w2.dirty = w.dirty
  BY DEF View
<1>2. ASSUME NEW d \in Docs, DocConv(q, ob, w, c, d) PROVE DocConv(p, ob2, w2, c, d)
  BY <1>1, <1>2 DEF DocConv, About
<1>3. ASSUME NEW f \in Files, FileConv(q, ob, w, c, f) PROVE FileConv(p, ob2, w2, c, f)
  BY <1>1, <1>3 DEF FileConv, Mentions
<1>4. DirtyConv(q, ob, w, c) => DirtyConv(p, ob2, w2, c)
  BY <1>1 DEF DirtyConv
<1>5. QED
  BY <1>2, <1>3, <1>4 DEF ConvInv

-----------------------------------------------------------------------------
(* The pump keeps the invariant: whatever it does, with or without the       *)
(* message arriving in the worker's inbox (a throwing send leaves the        *)
(* command in its lane and nothing in the channel).                          *)

\* Before the disposal the life cycle says nothing of the queue.
LEMMA UndisposedLife ==
  ASSUME NEW l, NEW q, NEW p, LifeInv(l, q), ~l.disposed
  PROVE  LifeInv(l, p) /\ l.listening /\ l.failure = "none" /\ l.dispose = "no"
<1>1. l.listening /\ l.failure = "none" /\ l.dispose = "no"
  BY DEF LifeInv, Lives
<1>2. QED
  BY <1>1 DEF LifeInv

\* An iteration that sends nothing.
LEMMA SkipKeeps ==
  ASSUME NEW q, NEW p, NEW l, NEW rq, NEW ed, NEW ib, NEW ob, NEW w, NEW c,
         Inv(q, l, rq, ed, ib, ob, w, c), ~l.disposed, Skips(q, p)
  PROVE  Inv(p, l, rq, ed, ib, ob, w, c)
<1> USE DEF Skips, Rest
<1>1. QueueInv(p)
  BY DEF Inv, QueueInv
<1>2. Running(p) = Running(q) /\ PendingEdits(p) = PendingEdits(q) /\ ActiveEdits(p) = ActiveEdits(q)
  BY DEF Running, PendingEdits, ActiveEdits
<1>3. OwnInv(p, rq, ed)
  BY <1>2 DEF Inv, OwnInv
<1>4. LifeInv(l, p) /\ l.listening
  BY UndisposedLife DEF Inv
<1>5. RevisionInv(p, ib, ob, w) /\ AppliedInv(p, l, ed, ob, w)
  BY DEF Inv, RevisionInv, AppliedInv
<1>6. MatchInv(p, rq, ib, ob, w)
  BY <1>2, <1>4 DEF Inv, MatchInv, Matches
<1>7. FreshInv(p, l, rq, ob, w)
  BY <1>2 DEF Inv, FreshInv
<1>8. ConvInv(p, l, ob, w, c)
  BY ConvSame DEF Inv, Unapplied
<1>9. QED
  BY <1>1, <1>3, <1>4, <1>5, <1>6, <1>7, <1>8 DEF Inv

\* The mutation at the head enters the serial lane.
LEMMA MutationKeeps ==
  ASSUME NEW q, NEW p, NEW l, NEW rq, NEW ed, NEW ib, NEW ob, NEW w, NEW c,
         Inv(q, l, rq, ed, ib, ob, w, c), ~l.disposed, SendsMutation(q, p),
         NEW x, x = [type |-> "mutation", revision |-> q.applied + 1, mutation |-> p.active],
         NEW t, t = ib \/ t = Append(ib, x)
  PROVE  Inv(p, l, rq, ed, t, ob, w, c)
<1>1. /\ q \in Queues /\ p \in Queues /\ q.mutations \in Seq(Mutations) /\ q.mutations # <<>>
      /\ p.applied = q.applied /\ q.applied \in Nat
      /\ p.mutations = Tail(q.mutations) /\ p.active = Head(q.mutations)
      /\ p.reads = q.reads /\ p.detached = q.detached /\ q.active = None
  BY DEF Inv, QueueInv, Queues, SendsMutation, Rest
<1>2. /\ p.mutations \in Seq(Mutations) /\ p.active \in Mutations
      /\ p.active = q.mutations[1] /\ 1 \in DOMAIN q.mutations
      /\ \A i \in DOMAIN p.mutations : i \in Nat /\ i >= 1 /\ i + 1 \in DOMAIN q.mutations
                                       /\ p.mutations[i] = q.mutations[i + 1]
      /\ \A i \in DOMAIN q.mutations : i \in Nat /\ i >= 1 /\ (i = 1 \/ (i - 1 \in DOMAIN p.mutations
                                       /\ p.mutations[i - 1] = q.mutations[i]))
  BY <1>1, Beheaded
<1>3. LifeInv(l, p) /\ l.listening /\ l.failure = "none" /\ l.dispose = "no"
  BY UndisposedLife DEF Inv
<1>4. QueueInv(q) /\ LanesInv(ib, ob, w) /\ MatchInv(q, rq, ib, ob, w)
  BY <1>3 DEF Inv
<1>5. SerialIn(ib) = {} /\ SerialOut(ob) = {} /\ w.run = None /\ ~Acked(ob)
  BY <1>1, <1>4, IdleSerial
<1>6. IsMutation(p.active) /\ p.active \notin Reqs /\ p.active # None /\ ~IsMutation(q.active)
  BY <1>1, <1>2, MutationsApart, NoneApart
<1>7. QueueInv(p)
  <2>1. \A i \in DOMAIN p.mutations : Formed(p.mutations[i])
    BY <1>2, <1>4 DEF QueueInv
  <2>2. ASSUME NEW i \in DOMAIN p.mutations, NEW j \in DOMAIN p.mutations, i # j
        PROVE  p.mutations[i].edits \cap p.mutations[j].edits = {}
    <3>1. i + 1 # j + 1 /\ i + 1 \in DOMAIN q.mutations /\ j + 1 \in DOMAIN q.mutations
      BY <1>2, <2>2
    <3>2. q.mutations[i + 1].edits \cap q.mutations[j + 1].edits = {}
      BY <1>4, <3>1 DEF QueueInv
    <3>3. QED
      BY <1>2, <3>2
  <2>3. Formed(p.active)
    BY <1>2, <1>4 DEF QueueInv
  <2>4. ASSUME NEW i \in DOMAIN p.mutations
        PROVE  p.active.edits \cap p.mutations[i].edits = {}
    <3>1. i + 1 # 1 /\ i + 1 \in DOMAIN q.mutations
      BY <1>2
    <3>2. q.mutations[1].edits \cap q.mutations[i + 1].edits = {}
      BY <1>2, <1>4, <3>1 DEF QueueInv
    <3>3. QED
      BY <1>2, <3>2
  <2>5. QED
    BY <1>1, <1>4, <1>6, <2>1, <2>2, <2>3, <2>4 DEF QueueInv
<1>8. Running(p) = Running(q)
  BY <1>1, <1>6, NoneApart DEF Running
<1>9. PendingEdits(p) \cup ActiveEdits(p) = PendingEdits(q) \cup ActiveEdits(q)
  <2>1. ToSet(q.mutations) = {p.active} \cup ToSet(p.mutations)
    BY <1>2 DEF ToSet
  <2>2. ActiveEdits(p) = p.active.edits /\ ActiveEdits(q) = {}
    BY <1>6 DEF ActiveEdits
  <2>3. QED
    BY <2>1, <2>2 DEF PendingEdits
<1>10. OwnInv(p, rq, ed)
  BY <1>1, <1>8, <1>9 DEF Inv, OwnInv
<1>11. x \in Commissions /\ OnSerialIn(x) /\ ib \in Seq(Commissions)
  <2>1. p.active \in FormedMutations
    BY <1>2, <1>6, <1>7 DEF FormedMutations, QueueInv
  <2>2. QED
    BY <1>1, <1>4, <2>1 DEF Commissions, OnSerialIn, LanesInv
<1>12. LanesInv(t, ob, w)
  BY <1>4, <1>5, <1>11, SentSerial
<1>13. \A i \in DOMAIN t : (i \in DOMAIN ib /\ t[i] = ib[i]) \/ t[i] = x
  BY <1>11, Appended
<1>14. RevisionInv(p, t, ob, w)
  BY <1>1, <1>13 DEF Inv, RevisionInv
<1>15. MatchInv(p, rq, t, ob, w)
  <2>1. \A y : Matches(y, q, rq) => Matches(y, p, rq)
    BY <1>8 DEF Matches
  <2>2. ASSUME NEW i \in DOMAIN ib PROVE ib[i].type # "mutation" /\ Matches(ib[i], p, rq)
    <3>1. ib[i].type # "mutation"
      BY <1>5, <2>2 DEF SerialIn, OnSerialIn
    <3>2. QED
      BY <1>4, <2>1, <3>1 DEF MatchInv
  <2>3. \A i \in DOMAIN ob : ob[i].type # "ack"
    BY <1>5 DEF Acked
  <2>4. \A i \in DOMAIN t : IF t[i].type = "mutation" THEN p.active = t[i].mutation
                            ELSE Matches(t[i], p, rq)
    BY <1>13, <2>2
  <2>5. QED
    BY <1>4, <2>1, <2>3, <2>4 DEF MatchInv
<1>16. AppliedInv(p, l, ed, ob, w)
  BY <1>5 DEF Inv, AppliedInv
<1>17. FreshInv(p, l, rq, ob, w)
  BY <1>1, <1>3, <1>8 DEF Inv, FreshInv
<1>18. ~Unapplied(q, ob) /\ Unapplied(p, ob)
  BY <1>5, <1>6 DEF Unapplied
<1>19. ConvInv(q, l, ob, w, c) /\ c \in Views
  BY DEF Inv, ConvInv
<1>20. ASSUME NEW d \in Docs PROVE DocConv(p, ob, w, c, d)
  <2>1. DocConv(q, ob, w, c, d)
    BY <1>19 DEF ConvInv
  <2>2. ASSUME NEW i \in DOMAIN p.mutations, LastIn(i, About(p, d))
        PROVE  c.docs[d] = Text(p.mutations[i])
    <3>1. i + 1 \in DOMAIN q.mutations /\ q.mutations[i + 1] = p.mutations[i] /\ i + 1 \in About(q, d)
      BY <1>2, <2>2 DEF LastIn, About
    <3>2. ASSUME NEW j \in About(q, d) PROVE j <= i + 1
      <4>1. j \in DOMAIN q.mutations /\ j \in Nat /\ q.mutations[j].doc = d
        BY <1>2, <3>2 DEF About
      <4>2. j = 1 \/ j - 1 \in About(p, d)
        BY <1>2, <4>1 DEF About
      <4>3. j = 1 \/ j - 1 <= i
        BY <2>2, <4>2 DEF LastIn
      <4>4. QED
        BY <1>2, <4>1, <4>3
    <3>3. LastIn(i + 1, About(q, d))
      BY <3>1, <3>2 DEF LastIn
    <3>4. QED
      BY <2>1, <3>1, <3>3 DEF DocConv
  <2>3. ASSUME About(p, d) = {}
        PROVE  c.docs[d] = IF p.active.doc = d THEN Text(p.active) ELSE w.docs[d]
    <3>1. About(q, d) \subseteq {1}
      BY <1>2, <2>3 DEF About
    <3>2. CASE p.active.doc = d
      <4>1. LastIn(1, About(q, d))
        BY <1>2, <3>1, <3>2 DEF LastIn, About
      <4>2. QED
        BY <1>2, <2>1, <3>2, <4>1 DEF DocConv
    <3>3. CASE p.active.doc # d
      <4>1. About(q, d) = {}
        BY <1>2, <3>1, <3>3 DEF About
      <4>2. QED
        BY <1>18, <2>1, <3>3, <4>1 DEF DocConv
    <3>4. QED
      BY <3>2, <3>3
  <2>4. QED
    BY <1>18, <2>2, <2>3 DEF DocConv
<1>21. ASSUME NEW f \in Files PROVE FileConv(p, ob, w, c, f)
  <2> SUFFICES ASSUME ~c.files[f]
               PROVE  /\ \A i \in DOMAIN p.mutations : LastIn(i, Mentions(p, f)) =>
                              p.mutations[i].changes[f] = "deleted"
                      /\ Mentions(p, f) = {} =>
                            IF f \in DOMAIN p.active.changes
                            THEN p.active.changes[f] = "deleted" ELSE ~w.files[f]
    BY <1>18 DEF FileConv
  <2>1. FileConv(q, ob, w, c, f)
    BY <1>19 DEF ConvInv
  <2>2. ASSUME NEW i \in DOMAIN p.mutations, LastIn(i, Mentions(p, f))
        PROVE  p.mutations[i].changes[f] = "deleted"
    <3>1. i + 1 \in DOMAIN q.mutations /\ q.mutations[i + 1] = p.mutations[i] /\ i + 1 \in Mentions(q, f)
      BY <1>2, <2>2 DEF LastIn, Mentions
    <3>2. ASSUME NEW j \in Mentions(q, f) PROVE j <= i + 1
      <4>1. j \in DOMAIN q.mutations /\ j \in Nat /\ f \in DOMAIN q.mutations[j].changes
        BY <1>2, <3>2 DEF Mentions
      <4>2. j = 1 \/ j - 1 \in Mentions(p, f)
        BY <1>2, <4>1 DEF Mentions
      <4>3. j = 1 \/ j - 1 <= i
        BY <2>2, <4>2 DEF LastIn
      <4>4. QED
        BY <1>2, <4>1, <4>3
    <3>3. LastIn(i + 1, Mentions(q, f))
      BY <3>1, <3>2 DEF LastIn
    <3>4. QED
      BY <2>1, <3>1, <3>3 DEF FileConv
  <2>3. ASSUME Mentions(p, f) = {}
        PROVE  IF f \in DOMAIN p.active.changes
               THEN p.active.changes[f] = "deleted" ELSE ~w.files[f]
    <3>1. Mentions(q, f) \subseteq {1}
      BY <1>2, <2>3 DEF Mentions
    <3>2. CASE f \in DOMAIN p.active.changes
      <4>1. LastIn(1, Mentions(q, f))
        BY <1>2, <3>1, <3>2 DEF LastIn, Mentions
      <4>2. QED
        BY <1>2, <2>1, <3>2, <4>1 DEF FileConv
    <3>3. CASE f \notin DOMAIN p.active.changes
      <4>1. Mentions(q, f) = {}
        BY <1>2, <3>1, <3>3 DEF Mentions
      <4>2. QED
        BY <1>18, <2>1, <3>3, <4>1 DEF FileConv
    <3>4. QED
      BY <3>2, <3>3
  <2>4. QED
    BY <2>2, <2>3
<1>22. DirtyConv(p, ob, w, c)
  <2>1. DirtyConv(q, ob, w, c)
    BY <1>19 DEF ConvInv
  <2>2. (\E i \in DOMAIN q.mutations : q.mutations[i].dirty)
          <=> (p.active.dirty \/ \E i \in DOMAIN p.mutations : p.mutations[i].dirty)
    BY <1>2
  <2>3. QED
    BY <1>18, <2>1, <2>2 DEF DirtyConv
<1>23. ConvInv(p, l, ob, w, c)
  BY <1>19, <1>20, <1>21, <1>22 DEF ConvInv
<1>24. QED
  BY <1>3, <1>7, <1>10, <1>12, <1>14, <1>15, <1>16, <1>17, <1>23 DEF Inv

\* The records after r was sent at revision n.
SentRecord(rq, r, n) ==
    [y \in Reqs |-> IF y = r THEN [rq[y] EXCEPT !.state = "sent", !.required = n] ELSE rq[y]]

\* A read enters the lane it belongs to.
LEMMA ReadKeeps ==
  ASSUME NEW q, NEW p, NEW l, NEW rq, NEW ed, NEW ib, NEW ob, NEW w, NEW c,
         Inv(q, l, rq, ed, ib, ob, w, c), ~l.disposed,
         NEW r \in Reqs, SendsSerial(q, p, r) \/ SendsDetached(q, p, r),
         NEW rq2, rq2 = SentRecord(rq, r, q.applied),
         NEW x, x = [type |-> "request", id |-> r, required |-> q.applied,
                     version |-> rq[r].version],
         NEW t, t = ib \/ t = Append(ib, x)
  PROVE  Inv(p, l, rq2, ed, t, ob, w, c)
<1>1. /\ q \in Queues /\ p \in Queues /\ p.applied = q.applied /\ q.applied \in Nat
      /\ q.mutations = <<>> /\ p.mutations = <<>> /\ q.active = None
      /\ r \in ToSet(q.reads) /\ ToSet(p.reads) = ToSet(q.reads) \ {r}
      /\ \A i, j \in DOMAIN p.reads : p.reads[i] = p.reads[j] => i = j
      /\ \/ Method[r] # "references" /\ p.active = r /\ p.detached = q.detached
         \/ Method[r] = "references" /\ p.active = None /\ q.detached = None /\ p.detached = r
  BY DEF Inv, QueueInv, Queues, SendsSerial, SendsDetached, TakesRead, Rest
<1>2. LifeInv(l, p) /\ l.listening
  BY UndisposedLife DEF Inv
<1>3. QueueInv(q) /\ LanesInv(ib, ob, w) /\ MatchInv(q, rq, ib, ob, w) /\ OwnInv(q, rq, ed)
  BY <1>2 DEF Inv
<1>4. SerialIn(ib) = {} /\ SerialOut(ob) = {} /\ w.run = None /\ ~Acked(ob)
  BY <1>1, <1>3, IdleSerial
<1>5. ~IsMutation(p.active) /\ ~IsMutation(q.active) /\ r # None /\ None \notin Reqs
  BY <1>1, NoneApart
<1>6. QueueInv(p)
  BY <1>1, <1>3, <1>5 DEF QueueInv
<1>7. rq \in [Reqs -> Records] /\ rq[r].state = "queued"
  BY <1>1, <1>3 DEF OwnInv
<1>8. r \notin Running(q) /\ Running(p) = Running(q) \cup {r}
  <2>1. r \notin Running(q)
    BY <1>3, <1>7 DEF OwnInv
  <2>2. QED
    BY <1>1, <1>5, <2>1 DEF Running
<1>9. /\ rq2 \in [Reqs -> Records] /\ rq2[r].state = "sent" /\ rq2[r].required = q.applied
      /\ rq2[r].version = rq[r].version
      /\ \A y \in Reqs : y # r => rq2[y] = rq[y]
      /\ \A y \in Reqs : rq2[y].cell = rq[y].cell
  <2>1. \A y \in Reqs : rq2[y] = IF y = r THEN [rq[y] EXCEPT !.state = "sent", !.required = q.applied]
                                 ELSE rq[y]
    BY DEF SentRecord
  <2>2. rq[r] \in Records
    BY <1>7
  <2>3. PICK n \in Nat : n = q.applied
    BY <1>1
  <2>4. rq2[r] = [rq[r] EXCEPT !.state = "sent", !.required = n]
    BY <2>1, <2>3
  <2>5. /\ rq2[r] \in Records /\ rq2[r].state = "sent" /\ rq2[r].required = n
        /\ rq2[r].version = rq[r].version /\ rq2[r].cell = rq[r].cell
    BY <2>2, <2>4 DEF Records
  <2>6. \A y \in Reqs : rq2[y] \in Records
    BY <1>7, <2>1, <2>5
  <2>7. rq2 \in [Reqs -> Records]
    BY <2>6 DEF SentRecord
  <2>8. QED
    BY <2>1, <2>3, <2>5, <2>7
<1>10. OwnInv(p, rq2, ed)
  <2>1. \A y \in Reqs : rq2[y].state = "queued" <=> y \in ToSet(p.reads)
    BY <1>1, <1>3, <1>9 DEF OwnInv
  <2>2. \A y \in Reqs : rq2[y].state = "sent" <=> y \in Running(p)
    BY <1>3, <1>8, <1>9 DEF OwnInv
  <2>3. PendingEdits(p) = PendingEdits(q) /\ ActiveEdits(p) = ActiveEdits(q)
    BY <1>1, <1>5 DEF PendingEdits, ActiveEdits
  <2>4. QED
    BY <1>3, <1>9, <2>1, <2>2, <2>3 DEF OwnInv
<1>11. x \in Commissions /\ (OnSerialIn(x) <=> Method[r] # "references")
       /\ ib \in Seq(Commissions) /\ x.type = "request" /\ x.id = r
       /\ x.required = q.applied /\ x.version = rq[r].version
  BY <1>1, <1>3, <1>7 DEF Commissions, OnSerialIn, LanesInv, Records
<1>12. LanesInv(t, ob, w)
  <2>1. CASE Method[r] # "references"
    BY <1>3, <1>4, <1>11, <2>1, SentSerial
  <2>2. CASE Method[r] = "references"
    <3>1. DetachedIn(ib) = {} /\ DetachedOut(ob) = {} /\ w.ref = None
      BY <1>1, <1>3, <2>2, IdleDetached
    <3>2. QED
      BY <1>3, <1>11, <2>2, <3>1, SentDetached
  <2>3. QED
    BY <2>1, <2>2
<1>13. \A i \in DOMAIN t : (i \in DOMAIN ib /\ t[i] = ib[i]) \/ t[i] = x
  BY <1>11, Appended
<1>14. RevisionInv(p, t, ob, w)
  BY <1>1, <1>11, <1>13 DEF Inv, RevisionInv
<1>15. MatchInv(p, rq2, t, ob, w)
  <2>1. ASSUME NEW y, Matches(y, q, rq) PROVE Matches(y, p, rq2)
    <3>1. y.id \in Reqs /\ y.id # r /\ y.id \in Running(p)
      BY <1>8, <2>1 DEF Matches, Running
    <3>2. QED
      BY <1>9, <2>1, <3>1 DEF Matches
  <2>2. ASSUME NEW i \in DOMAIN ib PROVE ib[i].type # "mutation" /\ Matches(ib[i], p, rq2)
    <3>1. ib[i].type # "mutation"
      BY <1>4, <2>2 DEF SerialIn, OnSerialIn
    <3>2. QED
      BY <1>3, <2>1, <3>1 DEF MatchInv
  <2>3. Matches(x, p, rq2)
    BY <1>8, <1>9, <1>11 DEF Matches
  <2>4. \A i \in DOMAIN ob : ob[i].type # "ack"
    BY <1>4 DEF Acked
  <2>5. \A i \in DOMAIN t : t[i].type # "mutation" /\ Matches(t[i], p, rq2)
    BY <1>11, <1>13, <2>2, <2>3
  <2>6. QED
    BY <1>3, <2>1, <2>4, <2>5 DEF MatchInv
<1>16. AppliedInv(p, l, ed, ob, w)
  BY <1>4 DEF Inv, AppliedInv
<1>17. FreshInv(p, l, rq2, ob, w)
  <2>1. \A i \in DOMAIN ob : ob[i].type = "response" => ob[i].id \in Reqs
    BY <1>3 DEF LanesInv, Replies
  <2>2. w.ref # None => w.ref.id \in Reqs
    BY <1>3 DEF LanesInv, Workers, Assignments
  <2>3. FreshInv(q, l, rq, ob, w)
    BY DEF Inv
  <2>4. QED
    BY <1>1, <1>2, <1>4, <1>5, <1>9, <2>1, <2>2, <2>3 DEF FreshInv
<1>18. ConvInv(p, l, ob, w, c)
  <2>1. ~Unapplied(p, ob) /\ ~Unapplied(q, ob)
    BY <1>5 DEF Unapplied
  <2>2. QED
    BY <1>1, <2>1, ConvSame DEF Inv
<1>19. QED
  BY <1>2, <1>6, <1>10, <1>12, <1>14, <1>15, <1>16, <1>17, <1>18 DEF Inv

\* Short sequences.
LEMMA Singletons ==
  ASSUME NEW a, NEW b
  PROVE  /\ <<>> \o <<a>> = <<a>> /\ <<a>> \o <<>> = <<a>> /\ <<a>> \o <<b>> = <<a, b>>
         /\ ToSet(<<>>) = {} /\ ToSet(<<a>>) = {a} /\ ToSet(<<a, b>>) = {a, b}
         /\ Front(<<a>>) = <<>> /\ Front(<<a, b>>) = <<a>>
         /\ <<a>> # <<>> /\ <<a, b>> # <<>>
<1> DEFINE T == {a, b}
<1>0. /\ <<a>> \in Seq(T) /\ <<b>> \in Seq(T) /\ <<a, b>> \in Seq(T)
      /\ Len(<<a>>) = 1 /\ Len(<<b>>) = 1 /\ Len(<<a, b>>) = 2
      /\ <<a>>[1] = a /\ <<b>>[1] = b /\ <<a, b>>[1] = a /\ <<a, b>>[2] = b
  OBVIOUS
<1> HIDE DEF T
<1>1. <<>> \o <<a>> = <<a>> /\ <<a>> \o <<>> = <<a>> /\ <<a>> \o <<b>> = <<a, b>>
  <2>1. <<>> \o <<a>> = <<a>> /\ <<a>> \o <<>> = <<a>>
    BY <1>0, ConcatEmptySeq
  <2>2. PICK u, v, s, t : u = <<a>> /\ v = <<b>> /\ s = <<a, b>> /\ t = u \o v
    OBVIOUS
  <2>3. u \in Seq(T) /\ v \in Seq(T) /\ Len(u) = 1 /\ Len(v) = 1 /\ u[1] = a /\ v[1] = b
    BY <1>0, <2>2
  <2>4. s \in Seq(T) /\ Len(s) = 2 /\ s[1] = a /\ s[2] = b
    BY <1>0, <2>2
  <2>5. /\ u \o v \in Seq(T) /\ Len(u \o v) = Len(u) + Len(v)
        /\ \A i \in 1 .. Len(u) + Len(v) : (u \o v)[i] = IF i <= Len(u) THEN u[i] ELSE v[i - Len(u)]
    BY <2>3, ConcatProperties
  <2>6. t \in Seq(T) /\ Len(t) = 2 /\ t[1] = a /\ t[2] = b
    BY <2>2, <2>3, <2>5
  <2>7. \A i \in 1 .. Len(t) : t[i] = s[i]
    BY <2>4, <2>6
  <2>8. t = s
    BY <2>4, <2>6, <2>7, SeqEqual
  <2>9. QED
    BY <2>1, <2>2, <2>8
<1>2. ToSet(<<>>) = {} /\ ToSet(<<a>>) = {a} /\ ToSet(<<a, b>>) = {a, b}
  BY DEF ToSet
<1>3. Len(<<a>>) = 1 /\ Len(<<a, b>>) = 2
  OBVIOUS
<1>4. Front(<<a>>) = <<>>
  BY <1>3 DEF Front
<1>5. Front(<<a, b>>) = <<a>>
  <2>1. PICK u, s, t : u = <<a>> /\ s = <<a, b>> /\ t = SubSeq(s, 1, 1)
    OBVIOUS
  <2>2. u \in Seq(T) /\ Len(u) = 1 /\ u[1] = a /\ s \in Seq(T) /\ Len(s) = 2 /\ s[1] = a
    BY <1>0, <2>1
  <2>3. t \in Seq(T) /\ Len(t) = 1 /\ t[1] = a
    <3>1. \A i \in 1 .. 1 : s[i] \in T
      BY <2>2
    <3>2. /\ t \in Seq(T) /\ Len(t) = IF 1 <= 1 THEN 1 - 1 + 1 ELSE 0
          /\ \A i \in 1 .. 1 - 1 + 1 : t[i] = s[1 + i - 1]
      BY <2>1, <3>1, SubSeqProperties
    <3>3. QED
      BY <2>2, <3>2
  <2>4. \A i \in 1 .. Len(t) : t[i] = u[i]
    BY <2>2, <2>3
  <2>5. t = u
    BY <2>2, <2>3, <2>4, SeqEqual
  <2>6. Front(s) = SubSeq(s, 1, Len(s) - 1) /\ Len(s) - 1 = 1
    BY <2>2 DEF Front
  <2>7. Front(s) = t
    BY <2>1, <2>6, Zenon
  <2>8. QED
    BY <2>1, <2>5, <2>7, Zenon
<1>6. <<a>> # <<>> /\ <<a, b>> # <<>>
  OBVIOUS
<1>7. QED
  BY <1>1, <1>2, <1>4, <1>5, <1>6

\* A channel with one more message behind it.
LEMMA Extended ==
  ASSUME NEW S, NEW s \in Seq(S), NEW a \in S, NEW b \in S
  PROVE  /\ s \o <<>> = s /\ s \o <<a>> = Append(s, a)
         /\ s \o <<a, b>> = Append(Append(s, a), b)
<1>1. s \o <<>> = s /\ s \o <<a>> = Append(s, a)
  OBVIOUS
<1>2. <<a>> \in Seq(S) /\ <<b>> \in Seq(S)
  OBVIOUS
<1>3. (s \o <<a>>) \o <<b>> = s \o <<a, b>>
  <2>1. <<a>> \o <<b>> = <<a, b>>
    BY Singletons
  <2>2. (s \o <<a>>) \o <<b>> = s \o (<<a>> \o <<b>>)
    BY <1>2, ConcatAssociative
  <2>3. QED
    BY <2>1, <2>2, Zenon
<1>4. Append(s, a) \in Seq(S) /\ Append(Append(s, a), b) = Append(s, a) \o <<b>>
  BY AppendProperties, AppendIsConcat
<1>5. QED
  BY <1>1, <1>3, <1>4

\* The messages of one or two commands.
LEMMA WireLists ==
  ASSUME NEW q, NEW rq, NEW a, NEW b
  PROVE  /\ Wires(q, rq, <<>>) = <<>>
         /\ Wires(q, rq, <<a>>) = <<Wire(q, rq, a)>>
         /\ Wires(q, rq, <<a, b>>) = <<Wire(q, rq, a), Wire(q, rq, b)>>
<1>1. Wires(q, rq, <<>>) = <<>>
  <2>1. PICK s : s = Wires(q, rq, <<>>)
    OBVIOUS
  <2>2. DOMAIN s = 1 .. 0 /\ s = [i \in 1 .. 0 |-> s[i]]
    BY <2>1 DEF Wires
  <2>3. s \in [1 .. 0 -> {}]
    BY <2>2
  <2>4. s \in Seq({})
    BY <2>3, SeqDef
  <2>5. Len(s) = 0
    BY <2>2, <2>4, LenProperties
  <2>6. QED
    BY <2>1, <2>4, <2>5, EmptySeq
<1>2. Wires(q, rq, <<a>>) = <<Wire(q, rq, a)>>
  BY DEF Wires
<1>3. Wires(q, rq, <<a, b>>) = <<Wire(q, rq, a), Wire(q, rq, b)>>
  BY DEF Wires
<1>4. QED
  BY <1>1, <1>2, <1>3

\* What is recorded of the commands that were sent.
LEMMA MarkedNone ==
  ASSUME NEW q, NEW rq \in [Reqs -> Records]
  PROVE  MarkSent(q, rq, <<>>) = rq
BY Singletons DEF MarkSent

\* Sending a mutation marks no request.
LEMMA MarkedMutation ==
  ASSUME NEW q, NEW rq \in [Reqs -> Records], NEW m \in Mutations
  PROVE  MarkSent(q, rq, <<m>>) = rq
<1>1. ToSet(<<m>>) = {m} /\ m \notin Reqs
  BY Singletons, MutationsApart
<1>2. QED
  BY <1>1 DEF MarkSent

\* Sending one request marks its record.
LEMMA MarkedRead ==
  ASSUME NEW q, NEW rq \in [Reqs -> Records], NEW r \in Reqs
  PROVE  MarkSent(q, rq, <<r>>) = SentRecord(rq, r, q.applied)
<1>1. ToSet(<<r>>) = {r}
  BY Singletons
<1>2. QED
  BY <1>1 DEF MarkSent, SentRecord

\* Sending two requests marks both records.
LEMMA MarkedReads ==
  ASSUME NEW q, NEW rq \in [Reqs -> Records], NEW r \in Reqs, NEW s \in Reqs, r # s
  PROVE  MarkSent(q, rq, <<r, s>>) = SentRecord(SentRecord(rq, r, q.applied), s, q.applied)
<1>1. ToSet(<<r, s>>) = {r, s}
  BY Singletons
<1>2. ASSUME NEW y \in Reqs
      PROVE  MarkSent(q, rq, <<r, s>>)[y] = SentRecord(SentRecord(rq, r, q.applied), s, q.applied)[y]
  BY <1>1 DEF MarkSent, SentRecord
<1>3. QED
  BY <1>2 DEF MarkSent, SentRecord

\* One iteration of the pump, with the message it sends and without.
LEMMA PumpOnceKeeps ==
  ASSUME NEW q, NEW l, NEW rq, NEW ed, NEW ib, NEW ob, NEW w, NEW c,
         Inv(q, l, rq, ed, ib, ob, w, c), ~l.disposed,
         NEW p, p = PumpOnce(q), NEW cmds, cmds = Commands(q, p)
  PROVE  /\ Inv(p, l, MarkSent(q, rq, cmds), ed, ib \o Wires(q, rq, cmds), ob, w, c)
         /\ cmds # <<>> =>
              Inv(p, l, MarkSent(q, rq, cmds), ed, ib \o Wires(q, rq, Front(cmds)), ob, w, c)
<1>1. QueueInv(q) /\ rq \in [Reqs -> Records] /\ ib \in Seq(Commissions) /\ q.applied \in Nat
  BY DEF Inv, OwnInv, LanesInv, QueueInv, Queues
<1>2. CASE Skips(q, p)
  <2>1. cmds = <<>>
    BY <1>2, Singletons DEF Commands, Skips
  <2>2. MarkSent(q, rq, cmds) = rq /\ Wires(q, rq, cmds) = <<>>
    BY <1>1, <2>1, MarkedNone, WireLists
  <2>3. ib \o <<>> = ib
    BY <1>1, ConcatEmptySeq
  <2>4. Inv(p, l, rq, ed, ib, ob, w, c)
    BY <1>2, SkipKeeps
  <2>5. QED
    BY <2>1, <2>2, <2>3, <2>4
<1>3. CASE SendsMutation(q, p)
  <2>1. PICK m : m = p.active
    OBVIOUS
  <2>2. m \in Mutations /\ q.active = None /\ p.detached = q.detached /\ m # None /\ m \notin Reqs
    <3>1. q.mutations \in Seq(Mutations) /\ q.mutations # <<>> /\ m = Head(q.mutations)
      BY <1>1, <1>3, <2>1 DEF SendsMutation, QueueInv, Queues
    <3>2. m \in Mutations
      BY <3>1, HeadTailProperties
    <3>3. QED
      BY <1>3, <3>2, MutationsApart DEF SendsMutation
  <2>3. cmds = <<m>>
    BY <2>1, <2>2, Singletons DEF Commands
  <2>4. PICK x : x = [type |-> "mutation", revision |-> q.applied + 1, mutation |-> m]
    OBVIOUS
  <2>5. Wire(q, rq, m) = x
    BY <2>2, <2>4 DEF Wire
  <2>6. Wires(q, rq, cmds) = <<x>> /\ Wires(q, rq, Front(cmds)) = <<>>
    <3>1. Front(<<m>>) = <<>>
      BY Singletons, Zenon
    <3>2. Wires(q, rq, <<m>>) = <<Wire(q, rq, m)>> /\ Wires(q, rq, <<>>) = <<>>
      BY WireLists, Zenon
    <3>3. QED
      BY <2>3, <2>5, <3>1, <3>2, Zenon
  <2>7. x \in Commissions
    <3>1. q.mutations \in Seq(Mutations) /\ q.mutations # <<>> /\ m = Head(q.mutations)
      BY <1>1, <1>3, <2>1 DEF SendsMutation, QueueInv, Queues
    <3>2. m = q.mutations[1] /\ 1 \in DOMAIN q.mutations
      BY <3>1, Beheaded
    <3>3. m \in FormedMutations
      BY <1>1, <2>2, <3>2 DEF FormedMutations, QueueInv
    <3>4. QED
      BY <1>1, <2>4, <3>3 DEF Commissions
  <2>8. ib \o <<x>> = Append(ib, x) /\ ib \o <<>> = ib
    BY <1>1, <2>7, Extended
  <2>9. MarkSent(q, rq, cmds) = rq
    BY <1>1, <2>2, <2>3, MarkedMutation
  <2>10. Inv(p, l, rq, ed, Append(ib, x), ob, w, c) /\ Inv(p, l, rq, ed, ib, ob, w, c)
    BY <1>3, <2>1, <2>4, MutationKeeps
  <2>11. QED
    BY <2>6, <2>8, <2>9, <2>10
<1>4. ASSUME NEW r \in Reqs, SendsSerial(q, p, r) \/ SendsDetached(q, p, r)
      PROVE  /\ Inv(p, l, MarkSent(q, rq, cmds), ed, ib \o Wires(q, rq, cmds), ob, w, c)
             /\ Inv(p, l, MarkSent(q, rq, cmds), ed, ib \o Wires(q, rq, Front(cmds)), ob, w, c)
  <2>1. r # None
    BY NoneApart
  <2>2. \/ p.active = r /\ q.active = None /\ p.detached = q.detached
        \/ p.active = None /\ q.active = None /\ p.detached = r /\ q.detached = None
    BY <1>4 DEF SendsSerial, SendsDetached, TakesRead
  <2>3. cmds = <<r>>
    BY <2>1, <2>2, Singletons DEF Commands
  <2>4. PICK x : x = [type |-> "request", id |-> r, required |-> q.applied, version |-> rq[r].version]
    OBVIOUS
  <2>5. Wire(q, rq, r) = x
    BY <2>4 DEF Wire
  <2>6. Wires(q, rq, cmds) = <<x>> /\ Wires(q, rq, Front(cmds)) = <<>>
    <3>1. Front(<<r>>) = <<>>
      BY Singletons, Zenon
    <3>2. Wires(q, rq, <<r>>) = <<Wire(q, rq, r)>> /\ Wires(q, rq, <<>>) = <<>>
      BY WireLists, Zenon
    <3>3. QED
      BY <2>3, <2>5, <3>1, <3>2, Zenon
  <2>7. x \in Commissions
    BY <1>1, <2>4 DEF Commissions, Records
  <2>8. ib \o <<x>> = Append(ib, x) /\ ib \o <<>> = ib
    BY <1>1, <2>7, Extended
  <2>9. PICK rq2 : rq2 = SentRecord(rq, r, q.applied)
    OBVIOUS
  <2>10. MarkSent(q, rq, cmds) = rq2
    BY <1>1, <2>3, <2>9, MarkedRead
  <2>11. Inv(p, l, rq2, ed, Append(ib, x), ob, w, c) /\ Inv(p, l, rq2, ed, ib, ob, w, c)
    BY <1>4, <2>4, <2>9, ReadKeeps
  <2>12. QED
    BY <2>6, <2>8, <2>10, <2>11
<1>5. QED
  BY <1>1, <1>2, <1>3, <1>4, PumpOnceCases

\* The pump as a whole: after a detached reference the serial lane is filled too.
LEMMA PumpKeeps ==
  ASSUME NEW q, NEW l, NEW rq, NEW ed, NEW ib, NEW ob, NEW w, NEW c,
         Inv(q, l, rq, ed, ib, ob, w, c), ~l.disposed,
         NEW p \in {PumpOnce(q), Pump(q)}, NEW cmds, cmds = Commands(q, p)
  PROVE  /\ Inv(p, l, MarkSent(q, rq, cmds), ed, ib \o Wires(q, rq, cmds), ob, w, c)
         /\ cmds # <<>> =>
              Inv(p, l, MarkSent(q, rq, cmds), ed, ib \o Wires(q, rq, Front(cmds)), ob, w, c)
<1>1. QueueInv(q) /\ rq \in [Reqs -> Records] /\ ib \in Seq(Commissions) /\ q.applied \in Nat
  BY DEF Inv, OwnInv, LanesInv, QueueInv, Queues
<1>2. PICK s : s = PumpOnce(q)
  OBVIOUS
<1>3. CASE p = s
  BY <1>2, <1>3, PumpOnceKeeps
<1>4. CASE p # s
  <2>1. s.detached # q.detached /\ p = PumpOnce(s)
    BY <1>2, <1>4 DEF Pump
  <2>2. PICK r \in Reqs : SendsDetached(q, s, r)
    BY <1>1, <1>2, <2>1, PumpOnceCases DEF Skips, SendsMutation, SendsSerial
  <2>3. PICK x : x = [type |-> "request", id |-> r, required |-> q.applied, version |-> rq[r].version]
    OBVIOUS
  <2>4. PICK rq2, t : rq2 = SentRecord(rq, r, q.applied) /\ t = Append(ib, x)
    OBVIOUS
  <2>5. Inv(s, l, rq2, ed, t, ob, w, c)
    BY <2>2, <2>3, <2>4, ReadKeeps
  <2>6. x \in Commissions /\ Wire(q, rq, r) = x /\ t = ib \o <<x>>
    <3>1. x \in Commissions
      BY <1>1, <2>3 DEF Commissions, Records
    <3>2. QED
      BY <1>1, <2>3, <2>4, <3>1, Extended DEF Wire
  <2>7. /\ r # None /\ s.detached = r /\ q.detached = None /\ s.active = None /\ q.active = None
        /\ s.mutations = <<>> /\ ToSet(s.reads) = ToSet(q.reads) \ {r} /\ s.applied = q.applied
    BY <2>2, NoneApart DEF SendsDetached, TakesRead, Rest
  <2>8. QueueInv(s) /\ rq2 \in [Reqs -> Records] /\ t \in Seq(Commissions)
    BY <2>5 DEF Inv, OwnInv, LanesInv
  <2>9. CASE Skips(s, p)
    <3>1. cmds = <<r>>
      BY <2>7, <2>9, Singletons DEF Commands, Skips
    <3>2. MarkSent(q, rq, cmds) = rq2 /\ Wires(q, rq, cmds) = <<x>> /\ Wires(q, rq, Front(cmds)) = <<>>
      <4>1. MarkSent(q, rq, <<r>>) = rq2
        BY <1>1, <2>4, MarkedRead
      <4>2. Front(<<r>>) = <<>>
        BY Singletons, Zenon
      <4>3. Wires(q, rq, <<r>>) = <<Wire(q, rq, r)>> /\ Wires(q, rq, <<>>) = <<>>
        BY WireLists, Zenon
      <4>4. QED
        BY <2>6, <3>1, <4>1, <4>2, <4>3, Zenon
    <3>3. ib \o <<>> = ib
      BY <1>1, ConcatEmptySeq
    <3>4. Inv(s, l, rq2, ed, ib, ob, w, c)
      BY <2>2, <2>3, <2>4, ReadKeeps
    <3>5. Inv(p, l, rq2, ed, t, ob, w, c) /\ Inv(p, l, rq2, ed, ib, ob, w, c)
      BY <2>5, <2>9, <3>4, SkipKeeps
    <3>6. QED
      BY <2>6, <3>2, <3>3, <3>5
  <2>10. ASSUME NEW y \in Reqs, SendsSerial(s, p, y)
         PROVE  /\ Inv(p, l, MarkSent(q, rq, cmds), ed, ib \o Wires(q, rq, cmds), ob, w, c)
                /\ Inv(p, l, MarkSent(q, rq, cmds), ed, ib \o Wires(q, rq, Front(cmds)), ob, w, c)
    <3>1. p.active = y /\ p.detached = r /\ y \in ToSet(s.reads) /\ y # r /\ y # None
      BY <2>7, <2>10, NoneApart DEF SendsSerial, TakesRead
    <3>2. cmds = <<r, y>>
      BY <2>7, <3>1, Singletons DEF Commands
    <3>3. PICK z : z = [type |-> "request", id |-> y, required |-> s.applied, version |-> rq2[y].version]
      OBVIOUS
    <3>4. rq2[y] = rq[y]
      BY <2>4, <3>1 DEF SentRecord
    <3>5. z \in Commissions /\ Wire(q, rq, y) = z
      <4>1. z \in Commissions
        BY <1>1, <2>7, <2>8, <3>3 DEF Commissions, Records
      <4>2. QED
        BY <2>7, <3>3, <3>4, <4>1 DEF Wire
    <3>6. Wires(q, rq, cmds) = <<x, z>> /\ Wires(q, rq, Front(cmds)) = <<x>>
      <4>1. Front(<<r, y>>) = <<r>>
        BY Singletons, Zenon
      <4>2. /\ Wires(q, rq, <<r>>) = <<Wire(q, rq, r)>>
            /\ Wires(q, rq, <<r, y>>) = <<Wire(q, rq, r), Wire(q, rq, y)>>
        BY WireLists, ZenonT(60)
      <4>3. QED
        BY <2>6, <3>2, <3>5, <4>1, <4>2, Zenon
    <3>7. ib \o <<x, z>> = Append(t, z)
      BY <1>1, <2>4, <2>6, <3>5, Extended
    <3>8. PICK rq3 : rq3 = SentRecord(rq2, y, s.applied)
      OBVIOUS
    <3>9. MarkSent(q, rq, cmds) = rq3
      BY <1>1, <2>4, <2>7, <3>1, <3>2, <3>8, MarkedReads
    <3>10. Inv(p, l, rq3, ed, Append(t, z), ob, w, c) /\ Inv(p, l, rq3, ed, t, ob, w, c)
      BY <2>5, <2>10, <3>3, <3>8, ReadKeeps
    <3>11. QED
      BY <2>6, <3>6, <3>7, <3>9, <3>10
  <2>11. QED
    BY <2>1, <2>7, <2>8, <2>9, <2>10, PumpOnceCases DEF SendsMutation, SendsDetached
<1>5. QED
  BY <1>3, <1>4

-----------------------------------------------------------------------------
(* Draining, clearing the lanes and shutting down.                          *)

\* A drained queue keeps its lanes and has nothing waiting.
LEMMA DrainedQueue ==
  ASSUME NEW q, QueueInv(q), NEW p, p = DrainAll(q)
  PROVE  /\ QueueInv(p) /\ Drained(p) /\ p.mutations = <<>> /\ p.reads = <<>>
         /\ p.active = q.active /\ p.detached = q.detached /\ p.applied = q.applied
         /\ Running(p) = Running(q) /\ ActiveEdits(p) = ActiveEdits(q) /\ PendingEdits(p) = {}
<1>1. q \in Queues
  BY DEF QueueInv
<1>2. PICK o : o = NoSources
  OBVIOUS
<1>3. o \in [Docs -> Int]
  BY <1>2 DEF NoSources
<1>4. p = [q EXCEPT !.reads = <<>>, !.sources = o, !.readBytes = 0, !.bypassed = None,
                    !.mutations = <<>>, !.bytes = 0]
  <2>1. p = [[q EXCEPT !.reads = <<>>, !.sources = o, !.readBytes = 0, !.bypassed = None]
                EXCEPT !.mutations = <<>>, !.bytes = 0]
    BY <1>2 DEF DrainAll, DrainReads
  <2>2. QED
    BY <1>1, <2>1 DEF Queues
<1>5. p \in Queues
  <2>1. PICK a \in Seq(Mutations), b \in Seq(Reqs), z \in Int, n \in Reqs \cup {None} :
           a = <<>> /\ b = <<>> /\ z = 0 /\ n = None
    <3>1. <<>> \in Seq(Mutations) /\ <<>> \in Seq(Reqs)
      BY EmptySeq, Zenon
    <3>2. 0 \in Int /\ None \in Reqs \cup {None}
      OBVIOUS
    <3>3. QED
      BY <3>1, <3>2, Zenon
  <2>2. p = [q EXCEPT !.reads = b, !.sources = o, !.readBytes = z, !.bypassed = n,
                      !.mutations = a, !.bytes = z]
    BY <1>4, <2>1
  <2>3. QED
    BY <1>1, <1>3, <2>2 DEF Queues
<1>6. /\ p.mutations = <<>> /\ p.reads = <<>> /\ p.sources = o /\ p.readBytes = 0
      /\ p.bypassed = None /\ p.bytes = 0
      /\ p.active = q.active /\ p.detached = q.detached /\ p.applied = q.applied
  BY <1>1, <1>4 DEF Queues
<1>7. p = [p EXCEPT !.reads = <<>>, !.sources = o, !.readBytes = 0, !.bypassed = None,
                    !.mutations = <<>>, !.bytes = 0]
  BY <1>5, <1>6 DEF Queues
<1>8. Drained(p)
  BY <1>2, <1>5, <1>7 DEF Drained, DrainAll, DrainReads, Queues
<1>9. DOMAIN p.mutations = {} /\ DOMAIN p.reads = {}
  BY <1>6
<1>10. QueueInv(p)
  BY <1>5, <1>6, <1>9 DEF QueueInv
<1>11. Running(p) = Running(q) /\ ActiveEdits(p) = ActiveEdits(q)
  BY <1>6 DEF Running, ActiveEdits
<1>12. PendingEdits(p) = {}
  BY <1>6, Singletons DEF PendingEdits
<1>13. QED
  BY <1>6, <1>8, <1>10, <1>11, <1>12

\* A queue with both lanes emptied.
LEMMA ClearedQueue ==
  ASSUME NEW q, QueueInv(q), NEW p, p = ClearLanes(q)
  PROVE  /\ QueueInv(p) /\ p.mutations = q.mutations /\ p.reads = q.reads
         /\ p.active = None /\ p.detached = None /\ p.applied = q.applied
         /\ Running(p) = {} /\ ActiveEdits(p) = {} /\ PendingEdits(p) = PendingEdits(q)
         /\ Drained(q) => Drained(p)
<1>1. q \in Queues
  BY DEF QueueInv
<1>2. p \in Queues
  BY <1>1 DEF ClearLanes, Queues
<1>3. /\ p.mutations = q.mutations /\ p.reads = q.reads /\ p.sources = q.sources
      /\ p.readBytes = q.readBytes /\ p.bypassed = q.bypassed /\ p.bytes = q.bytes
      /\ p.active = None /\ p.detached = None /\ p.applied = q.applied
      /\ p.generation = q.generation
  BY <1>1 DEF ClearLanes, Queues
<1>4. ~IsMutation(None) /\ None \notin Reqs
  BY NoneApart
<1>5. QueueInv(p)
  BY <1>2, <1>3, <1>4 DEF QueueInv
<1>6. Running(p) = {} /\ ActiveEdits(p) = {} /\ PendingEdits(p) = PendingEdits(q)
  BY <1>3, <1>4 DEF Running, ActiveEdits, PendingEdits
<1>7. ASSUME Drained(q) PROVE Drained(p)
  <2>1. PICK o : o = NoSources
    OBVIOUS
  <2>2. q = [q EXCEPT !.reads = <<>>, !.sources = o, !.readBytes = 0, !.bypassed = None,
                      !.mutations = <<>>, !.bytes = 0]
    BY <1>1, <1>7, <2>1 DEF Drained, DrainAll, DrainReads, Queues
  <2>3. /\ q.mutations = <<>> /\ q.reads = <<>> /\ q.sources = o /\ q.readBytes = 0
        /\ q.bypassed = None /\ q.bytes = 0
    BY <1>1, <2>2 DEF Queues
  <2>4. p = [p EXCEPT !.reads = <<>>, !.sources = o, !.readBytes = 0, !.bypassed = None,
                      !.mutations = <<>>, !.bytes = 0]
    BY <1>2, <1>3, <2>3 DEF Queues
  <2>5. QED
    BY <1>2, <2>1, <2>4 DEF Drained, DrainAll, DrainReads, Queues
<1>8. QED
  BY <1>3, <1>5, <1>6, <1>7

\* A drained queue has nothing waiting.
LEMMA DrainedIsEmpty ==
  ASSUME NEW q, QueueInv(q), Drained(q)
  PROVE  q.mutations = <<>> /\ q.reads = <<>> /\ ToSet(q.reads) = {} /\ PendingEdits(q) = {}
<1>1. PICK p : p = DrainAll(q)
  OBVIOUS
<1>2. p = q /\ p.mutations = <<>> /\ p.reads = <<>> /\ PendingEdits(p) = {}
  BY <1>1, DrainedQueue DEF Drained
<1>3. QED
  BY <1>2, Singletons

\* Waiting and active edits are apart.
LEMMA EditsApart ==
  ASSUME NEW q, QueueInv(q)
  PROVE  PendingEdits(q) \cap ActiveEdits(q) = {}
<1>1. ASSUME NEW e, e \in PendingEdits(q), e \in ActiveEdits(q) PROVE FALSE
  <2>1. PICK i \in DOMAIN q.mutations : e \in q.mutations[i].edits
    BY <1>1 DEF PendingEdits, ToSet
  <2>2. IsMutation(q.active) /\ e \in q.active.edits
    BY <1>1 DEF ActiveEdits
  <2>3. QED
    BY <2>1, <2>2 DEF QueueInv
<1>2. QED
  BY <1>1

\* What cancelling and settling leave of a record.
LEMMA CancelledRecords ==
  ASSUME NEW rq \in [Reqs -> Records], NEW S, NEW reason \in Cells
  PROVE  /\ Cancel(rq, S, reason) \in [Reqs -> Records]
         /\ \A r \in Reqs : /\ Cancel(rq, S, reason)[r].state = rq[r].state
                            /\ Cancel(rq, S, reason)[r].version = rq[r].version
                            /\ Cancel(rq, S, reason)[r].generation = rq[r].generation
                            /\ Cancel(rq, S, reason)[r].required = rq[r].required
                            /\ Cancel(rq, S, reason)[r].cell =
                                  IF r \in S /\ rq[r].cell = "active" THEN reason ELSE rq[r].cell
<1>1. PICK c : c = Cancel(rq, S, reason)
  OBVIOUS
<1>2. ASSUME NEW r \in Reqs
      PROVE  /\ c[r] \in Records /\ c[r].state = rq[r].state
             /\ c[r].version = rq[r].version /\ c[r].generation = rq[r].generation
             /\ c[r].required = rq[r].required
             /\ c[r].cell = IF r \in S /\ rq[r].cell = "active" THEN reason ELSE rq[r].cell
  <2>1. rq[r] \in Records
    OBVIOUS
  <2>2. c[r] = IF r \in S /\ rq[r].cell = "active" THEN [rq[r] EXCEPT !.cell = reason] ELSE rq[r]
    BY <1>1 DEF Cancel
  <2>3. QED
    BY <2>1, <2>2 DEF Records
<1>3. c \in [Reqs -> Records]
  BY <1>1, <1>2 DEF Cancel
<1>4. QED
  BY <1>1, <1>2, <1>3, Zenon

\* The records rq2 are rq with those of S settled somehow.
Settled(rq, S, rq2) ==
    /\ rq2 \in [Reqs -> Records]
    /\ \A r \in Reqs : /\ rq2[r].state = IF r \in S THEN "settled" ELSE rq[r].state
                       /\ rq2[r].version = rq[r].version /\ rq2[r].required = rq[r].required
                       /\ rq2[r].generation = rq[r].generation

SameCells(rq, rq2) == \A r \in Reqs : rq2[r].cell = rq[r].cell

\* Settlement changes the state and the outcome of the records of S and nothing else.
LEMMA SettledRecords ==
  ASSUME NEW rq \in [Reqs -> Records], NEW S, NEW out \in [Reqs -> Codes \cup {"ok"}], NEW rq2,
         rq2 = [r \in Reqs |-> IF r \in S THEN [rq[r] EXCEPT !.state = "settled", !.outcome = out[r]]
                               ELSE rq[r]]
  PROVE  Settled(rq, S, rq2) /\ SameCells(rq, rq2)
<1>1. ASSUME NEW r \in Reqs
      PROVE  /\ rq2[r] \in Records
             /\ rq2[r].state = IF r \in S THEN "settled" ELSE rq[r].state
             /\ rq2[r].version = rq[r].version /\ rq2[r].required = rq[r].required
             /\ rq2[r].generation = rq[r].generation /\ rq2[r].cell = rq[r].cell
  <2>1. rq[r] \in Records
    OBVIOUS
  <2>2. PICK o \in Codes \cup {"ok"} : o = out[r]
    OBVIOUS
  <2>3. rq2[r] = IF r \in S THEN [rq[r] EXCEPT !.state = "settled", !.outcome = o] ELSE rq[r]
    BY <2>2
  <2>4. QED
    BY <2>1, <2>2, <2>3 DEF Records
<1>2. rq2 \in [Reqs -> Records]
  BY <1>1
<1>3. QED
  BY <1>1, <1>2 DEF Settled, SameCells

\* Cancelling first changes nothing of who owns what.
LEMMA SettledAfterCancel ==
  ASSUME NEW rq \in [Reqs -> Records], NEW T, NEW reason \in Cells, NEW S, NEW rq2,
         Settled(Cancel(rq, T, reason), S, rq2)
  PROVE  Settled(rq, S, rq2)
BY CancelledRecords DEF Settled

\* The promises of S and E are settled together with the records that own them.
LEMMA OwnSettled ==
  ASSUME NEW q, NEW p, NEW rq, NEW rq2, NEW ed, NEW ed2, NEW S, NEW E,
         NEW status \in {"resolved", "rejected"},
         OwnInv(q, rq, ed), Settled(rq, S, rq2), ed2 = SettleEdits(ed, E, status),
         ToSet(p.reads) = ToSet(q.reads) \ S, Running(p) = Running(q) \ S,
         E \subseteq PendingEdits(q) \cup ActiveEdits(q),
         PendingEdits(p) \cup ActiveEdits(p) = (PendingEdits(q) \cup ActiveEdits(q)) \ E
  PROVE  OwnInv(p, rq2, ed2)
<1>1. ed \in [EditIds -> EditStates] /\ \A e \in EditIds : ed2[e] = IF e \in E THEN status ELSE ed[e]
  BY DEF OwnInv, SettleEdits
<1>2. ed2 \in [EditIds -> EditStates]
  BY <1>1 DEF SettleEdits, EditStates
<1>3. \A e \in EditIds : e \in E => ed[e] = "pending"
  BY DEF OwnInv
<1>4. \A e \in EditIds : ed2[e] # "none" <=> ed[e] # "none"
  BY <1>1, <1>3
<1>5. {e \in EditIds : ed2[e] = "pending"} = {e \in EditIds : ed[e] = "pending"} \ E
  BY <1>1
<1>6. {e \in EditIds : ed2[e] = "pending"} = PendingEdits(p) \cup ActiveEdits(p)
  BY <1>5 DEF OwnInv
<1>7. \E k \in 0 .. MaxEdits : \A e \in EditIds : ed2[e] # "none" <=> e <= k
  BY <1>4 DEF OwnInv
<1>8. \A r \in Reqs : rq2[r].state = "queued" <=> r \in ToSet(p.reads)
  BY DEF OwnInv, Settled
<1>9. \A r \in Reqs : rq2[r].state = "sent" <=> r \in Running(p)
  BY DEF OwnInv, Settled
<1>10. rq2 \in [Reqs -> Records]
  BY DEF Settled
<1>11. QED
  BY <1>2, <1>6, <1>7, <1>8, <1>9, <1>10 DEF OwnInv

\* A supervisor that no longer listens only has to own what is unsettled.
LEMMA ClosedKeeps ==
  ASSUME NEW q, NEW p, NEW l, NEW l2, NEW rq, NEW rq2, NEW ed, NEW ed2, NEW ib, NEW ob, NEW w, NEW c,
         Inv(q, l, rq, ed, ib, ob, w, c), QueueInv(p), p.applied = q.applied,
         LifeInv(l2, p), ~l2.listening, OwnInv(p, rq2, ed2),
         \A e \in EditIds : ed2[e] = "resolved" => ed[e] = "resolved"
  PROVE  Inv(p, l2, rq2, ed2, ib, ob, w, c)
<1>1. l2.disposed
  BY DEF LifeInv
<1>2. RevisionInv(p, ib, ob, w)
  BY DEF Inv, RevisionInv
<1>3. AppliedInv(p, l2, ed2, ob, w) /\ FreshInv(p, l2, rq2, ob, w) /\ ConvInv(p, l2, ob, w, c)
  BY <1>1 DEF Inv, AppliedInv, FreshInv, ConvInv
<1>4. QED
  BY <1>2, <1>3 DEF Inv

\* #fail and #beginFatalShutdown.
LEMMA ShutDownKeeps ==
  ASSUME NEW q, NEW rq, NEW ed, NEW ib, NEW ob, NEW w, NEW c,
         Inv(q, life, rq, ed, ib, ob, w, c),
         NEW failure \in {"worker-unavailable", "restart-required"},
         NEW cause \in {"overflow", "send", "exit"}, NEW terminal \in BOOLEAN,
         ShutDown(q, rq, ed, failure, cause, terminal)
  PROVE  Inv(queue', life', req', edit', ib, ob, w, c)
<1>1. QueueInv(q) /\ OwnInv(q, rq, ed) /\ LifeInv(life, q) /\ rq \in [Reqs -> Records]
  BY DEF Inv, OwnInv
<1>2. PICK l2 : l2 = life'
  OBVIOUS
<1>3. /\ l2 \in Lives /\ l2.disposed /\ ~l2.listening /\ l2.failure = failure
      /\ l2.cause = cause /\ l2.failWait = ~terminal /\ l2.dispose = life.dispose
  <2>1. life \in Lives
    BY <1>1 DEF LifeInv
  <2>2. PICK tm \in {"no", "asked", "done"} : tm = IF life.term = "no" THEN "asked" ELSE life.term
    BY <2>1 DEF Lives
  <2>3. PICK dl \in {"no", "armed", "fired"} : dl = IF life.deadline = "no" THEN "armed" ELSE life.deadline
    BY <2>1 DEF Lives
  <2>4. PICK fw \in BOOLEAN : fw = ~terminal
    OBVIOUS
  <2>5. l2 = [life EXCEPT !.listening = FALSE, !.term = tm, !.deadline = dl, !.disposed = TRUE,
                          !.failure = failure, !.cause = cause, !.failWait = fw]
    <3>1. Terminating(life) = [life EXCEPT !.listening = FALSE, !.term = tm]
      BY <2>1, <2>2 DEF Terminating, Lives
    <3>2. Armed(Terminating(life)) = [life EXCEPT !.listening = FALSE, !.term = tm, !.deadline = dl]
      BY <2>1, <2>3, <3>1 DEF Armed, Lives
    <3>3. QED
      BY <1>2, <2>1, <2>4, <3>2 DEF ShutDown, ShutLife, Lives
  <2>6. l2 \in Lives
    BY <2>1, <2>5 DEF Lives
  <2>7. /\ l2.disposed = TRUE /\ l2.listening = FALSE /\ l2.failure = failure /\ l2.cause = cause
        /\ l2.failWait = fw /\ l2.dispose = life.dispose
    BY <2>1, <2>5 DEF Lives
  <2>8. QED
    BY <2>4, <2>6, <2>7
<1>4. PICK cancelled : cancelled = Cancel(rq, Running(q) \cup ToSet(q.reads), "supervisor-disposing")
  OBVIOUS
<1>5. cancelled \in [Reqs -> Records]
  BY <1>1, <1>4, CancelledRecords DEF Cells
<1>6. PICK drained : drained = Settle(cancelled, ToSet(q.reads), LAMBDA r: failure)
  OBVIOUS
<1>7. Settled(rq, ToSet(q.reads), drained)
  <2>1. PICK out : out = [r \in Reqs |-> failure]
    OBVIOUS
  <2>2. out \in [Reqs -> Codes \cup {"ok"}]
    BY <2>1 DEF Codes
  <2>3. drained = [r \in Reqs |-> IF r \in ToSet(q.reads)
                                   THEN [cancelled[r] EXCEPT !.state = "settled", !.outcome = out[r]]
                                   ELSE cancelled[r]]
    BY <1>6, <2>1 DEF Settle
  <2>4. Settled(cancelled, ToSet(q.reads), drained)
    BY <1>5, <2>2, <2>3, SettledRecords
  <2>5. QED
    BY <1>1, <1>4, <2>4, SettledAfterCancel DEF Cells
<1>8. PICK s : s = DrainAll(q)
  OBVIOUS
<1>9. /\ QueueInv(s) /\ Drained(s) /\ s.mutations = <<>> /\ s.reads = <<>>
      /\ s.active = q.active /\ s.detached = q.detached /\ s.applied = q.applied
      /\ Running(s) = Running(q) /\ ActiveEdits(s) = ActiveEdits(q) /\ PendingEdits(s) = {}
      /\ ToSet(s.reads) = {}
  BY <1>1, <1>8, DrainedQueue, Singletons
<1>10. ToSet(q.reads) \cap Running(q) = {}
  BY <1>1 DEF OwnInv, Running
<1>11. PendingEdits(q) \cap ActiveEdits(q) = {}
  BY <1>1, EditsApart
<1>a. PICK ed2, D, R, A, B : /\ ed2 = edit' /\ D = ToSet(q.reads) /\ R = Running(q)
                            /\ A = PendingEdits(q) /\ B = ActiveEdits(q)
  OBVIOUS
<1>12. CASE ~terminal
  <2>1. queue' = s /\ req' = drained /\ edit' = SettleEdits(ed, PendingEdits(q), "rejected")
    BY <1>4, <1>6, <1>8, <1>12 DEF ShutDown
  <2>2. OwnInv(s, drained, ed2)
    <3>1. ToSet(s.reads) = ToSet(q.reads) \ ToSet(q.reads) /\ Running(s) = Running(q) \ ToSet(q.reads)
      BY <1>9, <1>10
    <3>2. PendingEdits(s) \cup ActiveEdits(s) = (PendingEdits(q) \cup ActiveEdits(q)) \ PendingEdits(q)
      BY <1>9, <1>11
    <3>3. /\ Settled(rq, D, drained) /\ ed2 = SettleEdits(ed, A, "rejected")
          /\ ToSet(s.reads) = ToSet(q.reads) \ D /\ Running(s) = Running(q) \ D
          /\ A \subseteq PendingEdits(q) \cup ActiveEdits(q)
          /\ PendingEdits(s) \cup ActiveEdits(s) = (PendingEdits(q) \cup ActiveEdits(q)) \ A
      BY <1>7, <1>a, <2>1, <3>1, <3>2
    <3>4. QED
      BY <1>1, <3>3, OwnSettled
  <2>3. LifeInv(l2, s)
    BY <1>1, <1>3, <1>9, <1>12 DEF LifeInv, Released
  <2>4. \A e \in EditIds : ed2[e] = "resolved" => ed[e] = "resolved"
    BY <1>a, <2>1 DEF SettleEdits
  <2>5. Inv(s, l2, drained, ed2, ib, ob, w, c)
    BY <1>3, <1>9, <2>2, <2>3, <2>4, ClosedKeeps
  <2>6. QED
    BY <1>2, <1>a, <2>1, <2>5
<1>13. CASE terminal
  <2>1. PICK p : p = ClearLanes(s)
    OBVIOUS
  <2>2. /\ queue' = p /\ req' = SettleFailure(drained, Running(q), failure)
        /\ edit' = SettleEdits(ed, PendingEdits(q) \cup ActiveEdits(q), "rejected")
    BY <1>4, <1>6, <1>8, <1>13, <2>1 DEF ShutDown
  <2>3. /\ QueueInv(p) /\ p.reads = <<>> /\ p.active = None /\ p.detached = None
        /\ p.applied = q.applied /\ Running(p) = {} /\ ActiveEdits(p) = {}
        /\ PendingEdits(p) = {} /\ Drained(p) /\ ToSet(p.reads) = {}
    BY <1>9, <2>1, ClearedQueue
  <2>4. PICK rq3 : rq3 = req'
    OBVIOUS
  <2>5. Settled(rq, ToSet(q.reads) \cup Running(q), rq3)
    <3>1. PICK out : out = [r \in Reqs |-> IF drained[r].cell \in {"client-cancelled", "content-modified"}
                                            THEN CancellationError(drained[r].cell) ELSE failure]
      OBVIOUS
    <3>2. out \in [Reqs -> Codes \cup {"ok"}]
      BY <3>1 DEF Codes, CancellationError
    <3>3. rq3 = [r \in Reqs |-> IF r \in Running(q)
                                 THEN [drained[r] EXCEPT !.state = "settled", !.outcome = out[r]]
                                 ELSE drained[r]]
      BY <2>2, <2>4, <3>1 DEF SettleFailure, Settle
    <3>a. drained \in [Reqs -> Records]
      BY <1>7 DEF Settled
    <3>4. Settled(drained, Running(q), rq3)
      BY <3>a, <3>2, <3>3, SettledRecords
    <3>5. QED
      BY <1>7, <3>4 DEF Settled
  <2>6. OwnInv(p, rq3, ed2)
    <3>1. /\ ToSet(p.reads) = ToSet(q.reads) \ (ToSet(q.reads) \cup Running(q))
          /\ Running(p) = Running(q) \ (ToSet(q.reads) \cup Running(q))
      BY <2>3
    <3>2. PendingEdits(p) \cup ActiveEdits(p) =
             (PendingEdits(q) \cup ActiveEdits(q)) \ (PendingEdits(q) \cup ActiveEdits(q))
      BY <2>3
    <3>3. /\ Settled(rq, D \cup R, rq3) /\ ed2 = SettleEdits(ed, A \cup B, "rejected")
          /\ ToSet(p.reads) = ToSet(q.reads) \ (D \cup R) /\ Running(p) = Running(q) \ (D \cup R)
          /\ A \cup B \subseteq PendingEdits(q) \cup ActiveEdits(q)
          /\ PendingEdits(p) \cup ActiveEdits(p) = (PendingEdits(q) \cup ActiveEdits(q)) \ (A \cup B)
      BY <1>a, <2>2, <2>5, <3>1, <3>2
    <3>4. PICK S, E : S = D \cup R /\ E = A \cup B
      OBVIOUS
    <3>5. /\ Settled(rq, S, rq3) /\ ed2 = SettleEdits(ed, E, "rejected")
          /\ ToSet(p.reads) = ToSet(q.reads) \ S /\ Running(p) = Running(q) \ S
          /\ E \subseteq PendingEdits(q) \cup ActiveEdits(q)
          /\ PendingEdits(p) \cup ActiveEdits(p) = (PendingEdits(q) \cup ActiveEdits(q)) \ E
      BY <3>3, <3>4
    <3>6. QED
      BY <1>1, <3>5, OwnSettled
  <2>7. LifeInv(l2, p)
    BY <1>1, <1>3, <1>13, <2>3 DEF LifeInv, Released
  <2>8. \A e \in EditIds : ed2[e] = "resolved" => ed[e] = "resolved"
    BY <1>a, <2>2 DEF SettleEdits
  <2>9. Inv(p, l2, rq3, ed2, ib, ob, w, c)
    BY <1>3, <2>3, <2>6, <2>7, <2>8, ClosedKeeps
  <2>10. QED
    BY <1>2, <1>a, <2>2, <2>4, <2>9
<1>14. QED
  BY <1>12, <1>13

\* The trailing pump of a handler.
LEMMA PumpAfterKeeps ==
  ASSUME NEW q, NEW rq, NEW ed, NEW ob, NEW w, NEW c,
         Inv(q, life, rq, ed, inbox, ob, w, c), PumpAfter(q, rq, ed)
  PROVE  Inv(queue', life', req', edit', inbox', ob, w, c)
<1>1. QueueInv(q) /\ rq \in [Reqs -> Records] /\ inbox \in Seq(Commissions)
  BY DEF Inv, OwnInv, LanesInv
<1>2. CASE life.disposed
  <2>1. \E cmds \in {Commands(q, q)} :
           /\ queue' = q /\ req' = MarkSent(q, rq, cmds)
           /\ inbox' = inbox \o Wires(q, rq, cmds) /\ edit' = ed /\ life' = life
    BY <1>2 DEF PumpAfter
  <2>2. Commands(q, q) = <<>>
    BY Singletons DEF Commands
  <2>3. MarkSent(q, rq, <<>>) = rq /\ Wires(q, rq, <<>>) = <<>> /\ inbox \o <<>> = inbox
    BY <1>1, MarkedNone, WireLists, ConcatEmptySeq
  <2>4. queue' = q /\ req' = rq /\ inbox' = inbox /\ edit' = ed /\ life' = life
    BY <2>1, <2>2, <2>3
  <2>5. QED
    BY <2>4
<1>3. CASE ~life.disposed
  <2>1. CASE \E p \in {Pump(q)} : \E cmds \in {Commands(q, p)} :
               /\ queue' = p
               /\ req' = MarkSent(q, rq, cmds)
               /\ inbox' = inbox \o Wires(q, rq, cmds)
               /\ edit' = ed
               /\ UNCHANGED life
    <3>1. PICK p, cmds : /\ p = Pump(q) /\ cmds = Commands(q, p)
                         /\ queue' = p /\ req' = MarkSent(q, rq, cmds)
                         /\ inbox' = inbox \o Wires(q, rq, cmds) /\ edit' = ed /\ life' = life
      BY <2>1
    <3>2. Inv(p, life, MarkSent(q, rq, cmds), ed, inbox \o Wires(q, rq, cmds), ob, w, c)
      BY <1>3, <3>1, PumpKeeps
    <3>3. QED
      BY <3>1, <3>2
  <2>2. CASE \E p \in {PumpOnce(q), Pump(q)} : \E cmds \in {Commands(q, p)} :
               /\ cmds # <<>>
               /\ inbox' = inbox \o Wires(q, rq, Front(cmds))
               /\ ShutDown(p, MarkSent(q, rq, cmds), ed, "worker-unavailable", "send", FALSE)
    <3>1. PICK p, cmds :
               /\ p \in {PumpOnce(q), Pump(q)} /\ cmds = Commands(q, p) /\ cmds # <<>>
               /\ inbox' = inbox \o Wires(q, rq, Front(cmds))
               /\ ShutDown(p, MarkSent(q, rq, cmds), ed, "worker-unavailable", "send", FALSE)
      BY <2>2
    <3>2. PICK rq2, t : rq2 = MarkSent(q, rq, cmds) /\ t = inbox \o Wires(q, rq, Front(cmds))
      OBVIOUS
    <3>3. Inv(p, life, rq2, ed, t, ob, w, c)
      BY <1>3, <3>1, <3>2, PumpKeeps
    <3>4. Inv(queue', life', req', edit', t, ob, w, c)
      BY <3>1, <3>2, <3>3, ShutDownKeeps
    <3>5. QED
      BY <3>1, <3>2, <3>4
  <2>3. QED
    BY <1>3, <2>1, <2>2 DEF PumpAfter
<1>4. QED
  BY <1>2, <1>3

-----------------------------------------------------------------------------
(* The supervisor's steps that do not pump.                                 *)

\* Matching looks at the lanes and at the identity of the records in them.
LEMMA MatchSame ==
  ASSUME NEW q, NEW p, NEW rq, NEW rq2, NEW ib, NEW ob, NEW w, MatchInv(q, rq, ib, ob, w),
         p.active = q.active, p.detached = q.detached,
         \A r \in Reqs : rq2[r].version = rq[r].version /\ rq2[r].required = rq[r].required
  PROVE  MatchInv(p, rq2, ib, ob, w)
<1>1. Running(p) = Running(q) /\ Running(q) \subseteq Reqs
  BY DEF Running
<1>2. \A y : Matches(y, q, rq) => Matches(y, p, rq2)
  BY <1>1 DEF Matches
<1>3. QED
  BY <1>2 DEF MatchInv

\* Freshness is about active cells.
LEMMA FreshSame ==
  ASSUME NEW q, NEW p, NEW l, NEW rq, NEW rq2, NEW ob, NEW w, NEW ib, FreshInv(q, l, rq, ob, w),
         LanesInv(ib, ob, w), Running(p) \subseteq Running(q), p.mutations = q.mutations,
         IsMutation(p.active) => IsMutation(q.active),
         \A r \in Reqs : rq2[r].cell = "active" => rq[r].cell = "active"
  PROVE  FreshInv(p, l, rq2, ob, w)
<1>1. \A i \in DOMAIN ob : ob[i].type = "response" => ob[i].id \in Reqs
  BY DEF LanesInv, Replies
<1>2. (w.run # None => w.run.id \in Reqs) /\ (w.ref # None => w.ref.id \in Reqs)
  BY DEF LanesInv, Workers, Assignments
<1>3. Running(p) \subseteq Reqs
  BY DEF Running
<1>4. QED
  BY <1>1, <1>2, <1>3 DEF FreshInv

\* Initially nothing is queued, sent or applied.
LEMMA InitInv == Init => SupervisorInv
<1> SUFFICES ASSUME Init PROVE Inv(queue, life, req, edit, inbox, outbox, worker, client)
  BY DEF SupervisorInv
<1> USE DEF Init
<1>1. MaxEdits \in Nat /\ None \notin Reqs
  BY ConstantsAssumption
<1>2. QueueInv(queue)
  <2>1. PICK a \in Seq(Mutations), b \in Seq(Reqs), o \in [Docs -> Int] :
           a = <<>> /\ b = <<>> /\ o = NoSources
    <3>1. <<>> \in Seq(Mutations) /\ <<>> \in Seq(Reqs)
      BY EmptySeq, Zenon
    <3>2. NoSources \in [Docs -> Int]
      BY DEF NoSources
    <3>3. QED
      BY <3>1, <3>2, Zenon
  <2>2. queue = [mutations |-> a, bytes |-> 0, reads |-> b, sources |-> o,
                 readBytes |-> 0, bypassed |-> None, active |-> None, detached |-> None,
                 applied |-> 0, generation |-> 0]
    BY <2>1
  <2>3. queue \in Queues
    BY <2>2 DEF Queues
  <2>4. DOMAIN queue.reads = {} /\ DOMAIN queue.mutations = {} /\ queue.active = None
        /\ queue.detached = None
    BY <2>1, <2>2
  <2>5. ~IsMutation(None) /\ None \notin Reqs
    BY NoneApart
  <2>6. QED
    BY <2>3, <2>4, <2>5 DEF QueueInv
<1>3. Running(queue) = {} /\ PendingEdits(queue) = {} /\ ActiveEdits(queue) = {} /\ ToSet(queue.reads) = {}
  <2>1. ToSet(<<>>) = {}
    BY Singletons
  <2>2. QED
    BY <2>1, NoneApart DEF Running, PendingEdits, ActiveEdits
<1>4. OwnInv(queue, req, edit)
  <2>1. \A r \in Reqs : req[r] \in Records /\ req[r].state = "idle"
    BY DEF Records, Cells, Codes
  <2>2. req \in [Reqs -> Records]
    BY <2>1
  <2>3. edit \in [EditIds -> EditStates] /\ \A e \in EditIds : edit[e] = "none"
    BY DEF EditStates
  <2>4. \A e \in EditIds : edit[e] # "none" <=> e <= 0
    BY <2>3 DEF EditIds
  <2>5. QED
    BY <1>1, <1>3, <2>1, <2>2, <2>3, <2>4 DEF OwnInv
<1>5. LifeInv(life, queue)
  BY DEF LifeInv, Lives
<1>6. DOMAIN inbox = {} /\ DOMAIN outbox = {}
  OBVIOUS
<1>7. client \in Views
  BY DEF Views
<1>8. LanesInv(inbox, outbox, worker)
  <2>1. inbox \in Seq(Commissions) /\ outbox \in Seq(Replies)
    BY EmptySeq
  <2>2. client.docs \in [Docs -> Nat] /\ client.files \in [Files -> BOOLEAN]
    BY <1>7 DEF Views
  <2>3. worker \in Workers
    BY <2>2 DEF Workers
  <2>4. worker.run = None /\ worker.ref = None
    OBVIOUS
  <2>5. SerialIn(inbox) = {} /\ DetachedIn(inbox) = {} /\ SerialOut(outbox) = {} /\ DetachedOut(outbox) = {}
    BY <1>6 DEF SerialIn, DetachedIn, SerialOut, DetachedOut
  <2>6. QED
    BY <2>1, <2>3, <2>4, <2>5 DEF LanesInv, Single
<1>9. RevisionInv(queue, inbox, outbox, worker)
  BY <1>6 DEF RevisionInv, Acked
<1>10. MatchInv(queue, req, inbox, outbox, worker)
  BY <1>6 DEF MatchInv
<1>11. AppliedInv(queue, life, edit, outbox, worker)
  BY <1>6 DEF AppliedInv, Acked
<1>12. FreshInv(queue, life, req, outbox, worker)
  BY <1>3, <1>6 DEF FreshInv
<1>13. ConvInv(queue, life, outbox, worker, client)
  <2>1. ~Unapplied(queue, outbox) /\ DOMAIN queue.mutations = {}
    BY NoneApart DEF Unapplied
  <2>2. worker.docs = client.docs /\ worker.files = client.files /\ worker.dirty = client.dirty
    OBVIOUS
  <2>3. \A d \in Docs : DocConv(queue, outbox, worker, client, d)
    BY <2>1, <2>2 DEF DocConv
  <2>4. \A f \in Files : FileConv(queue, outbox, worker, client, f)
    BY <2>1, <2>2 DEF FileConv
  <2>5. DirtyConv(queue, outbox, worker, client)
    BY <2>1, <2>2 DEF DirtyConv
  <2>6. QED
    BY <1>7, <2>3, <2>4, <2>5 DEF ConvInv
<1>14. QED
  BY <1>2, <1>4, <1>5, <1>8, <1>9, <1>10, <1>11, <1>12, <1>13 DEF Inv

\* Steps of the life cycle alone.
LEMMA LifeKeeps ==
  ASSUME NEW q, NEW l, NEW l2, NEW rq, NEW ed, NEW ib, NEW ob, NEW w, NEW c,
         Inv(q, l, rq, ed, ib, ob, w, c), LifeInv(l2, q),
         l2.disposed = l.disposed, l2.listening => l.listening
  PROVE  Inv(q, l2, rq, ed, ib, ob, w, c)
<1>1. AppliedInv(q, l2, ed, ob, w) /\ FreshInv(q, l2, rq, ob, w)
  BY DEF Inv, AppliedInv, FreshInv
<1>2. ConvInv(q, l2, ob, w, c)
  BY DEF Inv, ConvInv
<1>3. QED
  BY <1>1, <1>2 DEF Inv

\* The end of termination, the deadline and the end of dispose.
LEMMA TimerKeeps ==
  ASSUME SupervisorInv, TerminateDone \/ DeadlineFires \/ DisposeDone
  PROVE  SupervisorInv'
<1>1. LifeInv(life, queue) /\ life \in Lives
  BY DEF SupervisorInv, Inv, LifeInv
<1>2. PICK l2 : l2 = life'
  OBVIOUS
<1>3. LifeInv(l2, queue) /\ l2.disposed = life.disposed /\ l2.listening = life.listening
  BY <1>1, <1>2 DEF TerminateDone, DeadlineFires, DisposeDone, LifeInv, Lives
<1>4. Inv(queue, l2, req, edit, inbox, outbox, worker, client)
  BY <1>3, LifeKeeps DEF SupervisorInv
<1>5. UNCHANGED <<queue, req, edit, inbox, outbox, worker, client>>
  BY DEF TerminateDone, DeadlineFires, DisposeDone
<1>6. QED
  BY <1>2, <1>4, <1>5 DEF SupervisorInv

\* dispose goes on once both lanes are free.
LEMMA DisposeDrainedKeeps ==
  ASSUME SupervisorInv, DisposeDrained
  PROVE  SupervisorInv'
<1>1. LifeInv(life, queue) /\ life \in Lives
  BY DEF SupervisorInv, Inv, LifeInv
<1>2. PICK l2, tm : l2 = life' /\ tm = IF life.term = "no" THEN "asked" ELSE life.term
  OBVIOUS
<1>3. tm \in {"no", "asked", "done"}
  BY <1>1, <1>2 DEF Lives
<1>4. l2 = [life EXCEPT !.listening = FALSE, !.term = tm, !.dispose = "terminating"]
  BY <1>1, <1>2 DEF DisposeDrained, Terminating, Lives
<1>5. /\ l2 \in Lives /\ l2.disposed = life.disposed /\ l2.listening = FALSE
      /\ l2.failure = life.failure /\ l2.cause = life.cause /\ l2.failWait = life.failWait
      /\ l2.dispose = "terminating"
  BY <1>1, <1>3, <1>4 DEF Lives
<1>6. Released(queue) /\ life.disposed
  BY <1>1 DEF DisposeDrained, Busy, Released, LifeInv
<1>7. LifeInv(l2, queue)
  BY <1>1, <1>5, <1>6 DEF LifeInv
<1>8. Inv(queue, l2, req, edit, inbox, outbox, worker, client)
  BY <1>5, <1>7, LifeKeeps DEF SupervisorInv
<1>9. UNCHANGED <<queue, req, edit, inbox, outbox, worker, client>>
  BY DEF DisposeDrained
<1>10. QED
  BY <1>2, <1>8, <1>9 DEF SupervisorInv

\* The endpoint's exit settles everything at once.
LEMMA ExitKeeps ==
  ASSUME SupervisorInv, EndpointExit
  PROVE  SupervisorInv'
<1>1. Inv(queue, life, req, edit, inbox, outbox, worker, client)
  BY DEF SupervisorInv
<1>2. ShutDown(queue, req, edit, "worker-unavailable", "exit", TRUE)
  BY DEF EndpointExit
<1>3. Inv(queue', life', req', edit', inbox, outbox, worker, client)
  BY <1>1, <1>2, ShutDownKeeps
<1>4. inbox' = inbox /\ outbox' = outbox /\ worker' = worker /\ client' = client
  BY DEF EndpointExit
<1>5. QED
  BY <1>3, <1>4 DEF SupervisorInv

\* The lanes of a supervisor that no longer listens are settled as failed.
LEMMA LanesSettledKeeps ==
  ASSUME NEW q, NEW l, NEW l2, NEW rq, NEW rq2, NEW ed, NEW ed2, NEW ib, NEW ob, NEW w, NEW c,
         NEW p, Inv(q, l, rq, ed, ib, ob, w, c), l.disposed,
         NEW failure \in Codes, rq2 = SettleFailure(rq, Running(q), failure),
         ed2 = SettleEdits(ed, ActiveEdits(q), "rejected"), p = ClearLanes(q),
         l2 \in Lives, ~l2.listening, l2.disposed, l2.cause = l.cause
  PROVE  Inv(p, l2, rq2, ed2, ib, ob, w, c)
<1>1. QueueInv(q) /\ OwnInv(q, rq, ed) /\ LifeInv(l, q) /\ rq \in [Reqs -> Records]
  BY DEF Inv, OwnInv
<1>2. /\ QueueInv(p) /\ p.reads = q.reads /\ p.active = None /\ p.detached = None
      /\ p.applied = q.applied /\ Running(p) = {} /\ ActiveEdits(p) = {}
      /\ PendingEdits(p) = PendingEdits(q)
      /\ Drained(q) => Drained(p)
  BY <1>1, ClearedQueue
<1>3. Drained(q)
  BY <1>1 DEF LifeInv
<1>4. ToSet(q.reads) = {} /\ PendingEdits(q) = {}
  BY <1>1, <1>3, DrainedIsEmpty
<1>5. PICK R, E : R = Running(q) /\ E = ActiveEdits(q)
  OBVIOUS
<1>6. Settled(rq, R, rq2)
  <2>1. PICK out : out = [r \in Reqs |-> IF rq[r].cell \in {"client-cancelled", "content-modified"}
                                          THEN CancellationError(rq[r].cell) ELSE failure]
    OBVIOUS
  <2>2. out \in [Reqs -> Codes \cup {"ok"}]
    BY <2>1 DEF Codes, CancellationError
  <2>3. rq2 = [r \in Reqs |-> IF r \in R THEN [rq[r] EXCEPT !.state = "settled", !.outcome = out[r]]
                               ELSE rq[r]]
    BY <1>5, <2>1 DEF SettleFailure, Settle
  <2>4. QED
    BY <1>1, <2>2, <2>3, SettledRecords
<1>7. OwnInv(p, rq2, ed2)
  <2>1. /\ ed2 = SettleEdits(ed, E, "rejected")
        /\ ToSet(p.reads) = ToSet(q.reads) \ R /\ Running(p) = Running(q) \ R
        /\ E \subseteq PendingEdits(q) \cup ActiveEdits(q)
        /\ PendingEdits(p) \cup ActiveEdits(p) = (PendingEdits(q) \cup ActiveEdits(q)) \ E
    BY <1>2, <1>4, <1>5
  <2>2. QED
    BY <1>1, <1>6, <2>1, OwnSettled
<1>8. LifeInv(l2, p)
  BY <1>1, <1>2, <1>3 DEF LifeInv, Released
<1>9. \A e \in EditIds : ed2[e] = "resolved" => ed[e] = "resolved"
  BY DEF SettleEdits
<1>10. QED
  BY <1>2, <1>7, <1>8, <1>9, ClosedKeeps

\* A failure settles its lanes after termination.
LEMMA SettleKeeps ==
  ASSUME SupervisorInv, SettleAfterTermination
  PROVE  SupervisorInv'
<1>1. Inv(queue, life, req, edit, inbox, outbox, worker, client) /\ LifeInv(life, queue) /\ life \in Lives
  BY DEF SupervisorInv, Inv, LifeInv
<1>2. life.failWait /\ ~life.listening /\ life.disposed
  BY <1>1 DEF SettleAfterTermination, LifeInv
<1>3. life.failure \in Codes
  BY <1>1 DEF Lives, Codes
<1>4. PICK p, rq2, ed2, l2, f : /\ p = queue' /\ rq2 = req' /\ ed2 = edit' /\ l2 = life' /\ f = life.failure
  OBVIOUS
<1>5. /\ p = ClearLanes(queue) /\ rq2 = SettleFailure(req, Running(queue), f)
      /\ ed2 = SettleEdits(edit, ActiveEdits(queue), "rejected") /\ f \in Codes
  BY <1>3, <1>4 DEF SettleAfterTermination
<1>6. l2 \in Lives /\ l2.listening = life.listening /\ l2.disposed = life.disposed /\ l2.cause = life.cause
  BY <1>1, <1>4 DEF SettleAfterTermination, Lives
<1>7. Inv(p, l2, rq2, ed2, inbox, outbox, worker, client)
  BY <1>1, <1>2, <1>5, <1>6, LanesSettledKeeps
<1>8. inbox' = inbox /\ outbox' = outbox /\ worker' = worker /\ client' = client
  BY DEF SettleAfterTermination
<1>9. QED
  BY <1>4, <1>7, <1>8 DEF SupervisorInv

\* dispose gives up on its lanes at the deadline.
LEMMA DisposeDeadlineKeeps ==
  ASSUME SupervisorInv, DisposeDeadline
  PROVE  SupervisorInv'
<1>1. Inv(queue, life, req, edit, inbox, outbox, worker, client) /\ LifeInv(life, queue) /\ life \in Lives
  BY DEF SupervisorInv, Inv, LifeInv
<1>2. life.dispose = "draining" /\ life.disposed
  BY <1>1 DEF DisposeDeadline, LifeInv
<1>3. PICK p, rq2, ed2, l2, tm : /\ p = queue' /\ rq2 = req' /\ ed2 = edit' /\ l2 = life'
                                /\ tm = IF life.term = "no" THEN "asked" ELSE life.term
  OBVIOUS
<1>4. /\ p = ClearLanes(queue) /\ rq2 = SettleFailure(req, Running(queue), "worker-unavailable")
      /\ ed2 = SettleEdits(edit, ActiveEdits(queue), "rejected") /\ "worker-unavailable" \in Codes
  BY <1>3 DEF DisposeDeadline, Codes
<1>5. tm \in {"no", "asked", "done"}
  BY <1>1, <1>3 DEF Lives
<1>6. l2 = [life EXCEPT !.listening = FALSE, !.term = tm, !.dispose = "done"]
  BY <1>1, <1>3 DEF DisposeDeadline, Terminating, Lives
<1>7. l2 \in Lives /\ l2.listening = FALSE /\ l2.disposed = life.disposed /\ l2.cause = life.cause
  BY <1>1, <1>5, <1>6 DEF Lives
<1>8. Inv(p, l2, rq2, ed2, inbox, outbox, worker, client)
  BY <1>1, <1>2, <1>4, <1>7, LanesSettledKeeps
<1>9. inbox' = inbox /\ outbox' = outbox /\ worker' = worker /\ client' = client
  BY DEF DisposeDeadline
<1>10. QED
  BY <1>3, <1>8, <1>9 DEF SupervisorInv

\* dispose: what waits is settled, what runs is revoked and waited for.
LEMMA DisposeKeeps ==
  ASSUME SupervisorInv, Dispose
  PROVE  SupervisorInv'
<1>1. /\ Inv(queue, life, req, edit, inbox, outbox, worker, client)
      /\ QueueInv(queue) /\ OwnInv(queue, req, edit) /\ LifeInv(life, queue) /\ life \in Lives
      /\ req \in [Reqs -> Records]
  BY DEF SupervisorInv, Inv, LifeInv, OwnInv
<1>2. PICK p, rq2, ed2, l2, D, E, T :
        /\ p = queue' /\ rq2 = req' /\ ed2 = edit' /\ l2 = life'
        /\ D = ToSet(queue.reads) /\ E = PendingEdits(queue)
        /\ T = Running(queue) \cup ToSet(queue.reads)
  OBVIOUS
<1>3. PICK cancelled : cancelled = Cancel(req, T, "supervisor-disposing")
  OBVIOUS
<1>4. /\ p = DrainAll(queue) /\ ed2 = SettleEdits(edit, E, "rejected")
      /\ rq2 = Settle(cancelled, D, LAMBDA r: "worker-unavailable")
  BY <1>2, <1>3 DEF Dispose
<1>5. /\ cancelled \in [Reqs -> Records]
      /\ \A r \in Reqs : r \in T => cancelled[r].cell # "active"
      /\ \A r \in Reqs : cancelled[r].cell = "active" => req[r].cell = "active"
  BY <1>1, <1>3, CancelledRecords DEF Cells
<1>6. Settled(cancelled, D, rq2) /\ SameCells(cancelled, rq2)
  <2>1. PICK out : out = [r \in Reqs |-> "worker-unavailable"]
    OBVIOUS
  <2>2. out \in [Reqs -> Codes \cup {"ok"}]
    BY <2>1 DEF Codes
  <2>3. rq2 = [r \in Reqs |-> IF r \in D THEN [cancelled[r] EXCEPT !.state = "settled", !.outcome = out[r]]
                               ELSE cancelled[r]]
    BY <1>4, <2>1 DEF Settle
  <2>4. QED
    BY <1>5, <2>2, <2>3, SettledRecords
<1>7. Settled(req, D, rq2)
  <2>1. "supervisor-disposing" \in Cells
    BY DEF Cells
  <2>2. QED
    BY <1>1, <1>3, <1>6, <2>1, SettledAfterCancel
<1>8. /\ QueueInv(p) /\ Drained(p) /\ p.mutations = <<>> /\ p.reads = <<>>
      /\ p.active = queue.active /\ p.detached = queue.detached /\ p.applied = queue.applied
      /\ Running(p) = Running(queue) /\ ActiveEdits(p) = ActiveEdits(queue) /\ PendingEdits(p) = {}
      /\ ToSet(p.reads) = {}
  BY <1>1, <1>4, DrainedQueue, Singletons
<1>9. OwnInv(p, rq2, ed2)
  <2>1. ToSet(queue.reads) \cap Running(queue) = {}
    BY <1>1 DEF OwnInv, Running
  <2>2. PendingEdits(queue) \cap ActiveEdits(queue) = {}
    BY <1>1, EditsApart
  <2>3. /\ ToSet(p.reads) = ToSet(queue.reads) \ D /\ Running(p) = Running(queue) \ D
        /\ E \subseteq PendingEdits(queue) \cup ActiveEdits(queue)
        /\ PendingEdits(p) \cup ActiveEdits(p) = (PendingEdits(queue) \cup ActiveEdits(queue)) \ E
    BY <1>2, <1>8, <2>1, <2>2
  <2>4. QED
    BY <1>1, <1>4, <1>7, <2>3, OwnSettled
<1>10. \A e \in EditIds : ed2[e] = "resolved" => edit[e] = "resolved"
  BY <1>4 DEF SettleEdits
<1>11. inbox' = inbox /\ outbox' = outbox /\ worker' = worker /\ client' = client /\ life.dispose = "no"
  BY DEF Dispose
<1>12. PICK dl \in {"no", "armed", "fired"}, tm \in {"no", "asked", "done"} :
          /\ dl = (IF life.deadline = "no" THEN "armed" ELSE life.deadline)
          /\ tm = (IF life.term = "no" THEN "asked" ELSE life.term)
  BY <1>1 DEF Lives
<1>13. CASE Busy
  <2>1. l2 = [life EXCEPT !.deadline = dl, !.disposed = TRUE, !.dispose = "draining"]
    BY <1>1, <1>2, <1>12, <1>13 DEF Dispose, DisposeLife, Armed, Lives
  <2>2. /\ l2 \in Lives /\ l2.disposed = TRUE /\ l2.dispose = "draining" /\ l2.listening = life.listening
        /\ l2.failure = life.failure /\ l2.cause = life.cause /\ l2.failWait = life.failWait
    BY <1>1, <1>12, <2>1 DEF Lives
  <2>3. LifeInv(l2, p)
    BY <1>1, <1>8, <2>2 DEF LifeInv
  <2>4. life.listening => MatchInv(p, rq2, inbox, outbox, worker)
    <3>1. \A r \in Reqs : rq2[r].version = req[r].version /\ rq2[r].required = req[r].required
      BY <1>7 DEF Settled
    <3>2. QED
      BY <1>1, <1>8, <3>1, MatchSame DEF Inv
  <2>5. AppliedInv(p, l2, ed2, outbox, worker)
    BY <1>1, <1>8, <1>10, <2>2 DEF Inv, AppliedInv
  <2>6. FreshInv(p, l2, rq2, outbox, worker)
    <3>1. ASSUME NEW r \in Running(p) PROVE r \in Reqs /\ rq2[r].cell # "active"
      <4>1. r \in Reqs /\ r \in T
        BY <1>2, <1>8, <3>1 DEF Running
      <4>2. QED
        BY <1>5, <1>6, <4>1 DEF SameCells
    <3>2. \A r \in Reqs : rq2[r].cell = "active" => req[r].cell = "active"
      BY <1>5, <1>6 DEF SameCells
    <3>3. LanesInv(inbox, outbox, worker) /\ FreshInv(queue, life, req, outbox, worker)
      BY <1>1 DEF Inv
    <3>4. /\ \A i \in DOMAIN outbox : outbox[i].type = "response" => outbox[i].id \in Reqs
          /\ (worker.run # None => worker.run.id \in Reqs) /\ (worker.ref # None => worker.ref.id \in Reqs)
      BY <3>3 DEF LanesInv, Replies, Workers, Assignments
    <3>5. QED
      BY <2>2, <3>1, <3>2, <3>3, <3>4 DEF FreshInv
  <2>7. RevisionInv(p, inbox, outbox, worker)
    BY <1>1, <1>8 DEF Inv, RevisionInv
  <2>8. ConvInv(p, l2, outbox, worker, client)
    BY <1>1, <2>2 DEF Inv, ConvInv
  <2>9. LanesInv(inbox, outbox, worker)
    BY <1>1 DEF Inv
  <2>10. Inv(p, l2, rq2, ed2, inbox, outbox, worker, client)
    BY <1>8, <1>9, <2>2, <2>3, <2>4, <2>5, <2>6, <2>7, <2>8, <2>9 DEF Inv
  <2>11. QED
    BY <1>2, <1>11, <2>10 DEF SupervisorInv
<1>14. CASE ~Busy
  <2>1. l2 = [life EXCEPT !.listening = FALSE, !.term = tm, !.deadline = dl, !.disposed = TRUE,
                          !.dispose = "terminating"]
    <3>1. Terminating(life) = [life EXCEPT !.listening = FALSE, !.term = tm]
      BY <1>1, <1>12 DEF Terminating, Lives
    <3>2. QED
      BY <1>1, <1>2, <1>12, <1>14, <3>1 DEF Dispose, DisposeLife, Armed, Lives
  <2>2. /\ l2 \in Lives /\ l2.disposed = TRUE /\ l2.dispose = "terminating" /\ l2.listening = FALSE
        /\ l2.failure = life.failure /\ l2.cause = life.cause /\ l2.failWait = life.failWait
    BY <1>1, <1>12, <2>1 DEF Lives
  <2>3. LifeInv(l2, p)
    BY <1>1, <1>8, <1>14, <2>2 DEF LifeInv, Released, Busy
  <2>4. Inv(p, l2, rq2, ed2, inbox, outbox, worker, client)
    BY <1>1, <1>8, <1>9, <1>10, <2>2, <2>3, ClosedKeeps
  <2>5. QED
    BY <1>2, <1>11, <2>4 DEF SupervisorInv
<1>15. QED
  BY <1>13, <1>14

\* The client cancels: a queued read settles now, a sent one keeps its lane.
LEMMA CancelKeeps ==
  ASSUME SupervisorInv, NEW r \in Reqs, CancelRequest(r)
  PROVE  SupervisorInv'
<1>1. /\ Inv(queue, life, req, edit, inbox, outbox, worker, client)
      /\ QueueInv(queue) /\ OwnInv(queue, req, edit) /\ LifeInv(life, queue) /\ life \in Lives
      /\ req \in [Reqs -> Records] /\ LanesInv(inbox, outbox, worker)
      /\ FreshInv(queue, life, req, outbox, worker)
  BY DEF SupervisorInv, Inv, LifeInv, OwnInv
<1>2. PICK cancelled, S : cancelled = Cancel(req, S, "client-cancelled") /\ S = {r}
  OBVIOUS
<1>3. /\ cancelled \in [Reqs -> Records]
      /\ \A y \in Reqs : /\ cancelled[y].state = req[y].state
                         /\ cancelled[y].version = req[y].version
                         /\ cancelled[y].required = req[y].required
                         /\ cancelled[y].cell = "active" => req[y].cell = "active"
  BY <1>1, <1>2, CancelledRecords DEF Cells
<1>4. life' = life /\ edit' = edit /\ inbox' = inbox /\ outbox' = outbox /\ worker' = worker /\ client' = client
  BY DEF CancelRequest
<1>5. CASE r \in ToSet(queue.reads)
  <2>1. PICK p, rq2 : p = queue' /\ rq2 = req'
    OBVIOUS
  <2>2. p = ReleaseRead(queue, r) /\ rq2 = Settle(cancelled, S, LAMBDA x: CancellationError(cancelled[x].cell))
    BY <1>2, <1>5, <2>1 DEF CancelRequest
  <2>3. ~life.disposed /\ life.listening
    BY <1>1, <1>5, DrainedIsEmpty DEF LifeInv
  <2>4. /\ p \in Queues /\ p.mutations = queue.mutations /\ p.active = queue.active
        /\ p.detached = queue.detached /\ p.applied = queue.applied /\ p.generation = queue.generation
        /\ ToSet(p.reads) = ToSet(queue.reads) \ {r}
        /\ \A i, j \in DOMAIN p.reads : p.reads[i] = p.reads[j] => i = j
    <3>1. PICK x \in Reqs \cup {None} : x = queue.bypassed
      BY <1>1 DEF QueueInv, Queues
    <3>2. [queue EXCEPT !.bypassed = x] = queue
      BY <1>1, <3>1 DEF QueueInv, Queues
    <3>3. p = ReleaseRead([queue EXCEPT !.bypassed = x], r)
      BY <2>2, <3>2
    <3>4. QueueInv(queue)
      BY <1>1
    <3>5. QED
      BY <1>5, <3>3, <3>4, ReadReleased
  <2>5. QueueInv(p)
    BY <1>1, <2>4 DEF QueueInv
  <2>6. Settled(cancelled, S, rq2) /\ SameCells(cancelled, rq2)
    <3>1. PICK out : out = [y \in Reqs |-> CancellationError(cancelled[y].cell)]
      OBVIOUS
    <3>2. out \in [Reqs -> Codes \cup {"ok"}]
      BY <3>1 DEF Codes, CancellationError
    <3>3. rq2 = [y \in Reqs |-> IF y \in S THEN [cancelled[y] EXCEPT !.state = "settled", !.outcome = out[y]]
                                 ELSE cancelled[y]]
      BY <2>2, <3>1 DEF Settle
    <3>4. QED
      BY <1>3, <3>2, <3>3, SettledRecords
  <2>7. Settled(req, S, rq2)
    <3>1. "client-cancelled" \in Cells
      BY DEF Cells
    <3>2. QED
      BY <1>1, <1>2, <2>6, <3>1, SettledAfterCancel
  <2>8. Running(p) = Running(queue) /\ PendingEdits(p) = PendingEdits(queue) /\ ActiveEdits(p) = ActiveEdits(queue)
    BY <2>4 DEF Running, PendingEdits, ActiveEdits
  <2>9. r \notin Running(queue)
    BY <1>1, <1>5 DEF OwnInv
  <2>10. OwnInv(p, rq2, edit)
    <3>1. \A y \in Reqs : rq2[y].state = "queued" <=> y \in ToSet(p.reads)
      BY <1>1, <1>2, <2>4, <2>7 DEF OwnInv, Settled
    <3>2. \A y \in Reqs : rq2[y].state = "sent" <=> y \in Running(p)
      BY <1>1, <1>2, <2>7, <2>8, <2>9 DEF OwnInv, Settled
    <3>3. rq2 \in [Reqs -> Records]
      BY <2>7 DEF Settled
    <3>4. QED
      BY <1>1, <2>8, <3>1, <3>2, <3>3 DEF OwnInv
  <2>11. LifeInv(life, p)
    BY <1>1, <2>3, UndisposedLife
  <2>12. MatchInv(p, rq2, inbox, outbox, worker)
    <3>1. \A y \in Reqs : rq2[y].version = req[y].version /\ rq2[y].required = req[y].required
      BY <2>7 DEF Settled
    <3>2. MatchInv(queue, req, inbox, outbox, worker)
      BY <1>1, <2>3 DEF Inv
    <3>3. QED
      BY <2>4, <3>1, <3>2, MatchSame
  <2>13. FreshInv(p, life, rq2, outbox, worker)
    <3>1. \A y \in Reqs : rq2[y].cell = "active" => req[y].cell = "active"
      BY <1>3, <2>6 DEF SameCells
    <3>2. QED
      BY <1>1, <2>4, <2>8, <3>1, FreshSame
  <2>14. RevisionInv(p, inbox, outbox, worker) /\ AppliedInv(p, life, edit, outbox, worker)
    BY <1>1, <2>4 DEF Inv, RevisionInv, AppliedInv
  <2>15. ConvInv(p, life, outbox, worker, client)
    BY <1>1, <2>4, ConvSame DEF Inv, Unapplied
  <2>16. Inv(p, life, rq2, edit, inbox, outbox, worker, client)
    BY <1>1, <2>5, <2>10, <2>11, <2>12, <2>13, <2>14, <2>15 DEF Inv
  <2>17. QED
    BY <1>4, <2>1, <2>16 DEF SupervisorInv
<1>6. CASE r \notin ToSet(queue.reads)
  <2>1. req' = cancelled /\ queue' = queue
    BY <1>2, <1>6 DEF CancelRequest
  <2>2. OwnInv(queue, cancelled, edit)
    BY <1>1, <1>3 DEF OwnInv
  <2>3. life.listening => MatchInv(queue, cancelled, inbox, outbox, worker)
    <3>1. \A y \in Reqs : cancelled[y].version = req[y].version /\ cancelled[y].required = req[y].required
      BY <1>3
    <3>2. QED
      BY <1>1, <3>1, MatchSame DEF Inv
  <2>4. FreshInv(queue, life, cancelled, outbox, worker)
    <3>1. \A y \in Reqs : cancelled[y].cell = "active" => req[y].cell = "active"
      BY <1>3
    <3>2. QED
      BY <1>1, <3>1, FreshSame
  <2>5. Inv(queue, life, cancelled, edit, inbox, outbox, worker, client)
    BY <1>1, <2>2, <2>3, <2>4 DEF Inv
  <2>6. QED
    BY <1>4, <2>1, <2>5 DEF SupervisorInv
<1>7. QED
  BY <1>5, <1>6

-----------------------------------------------------------------------------
(* The worker's steps.                                                     *)

\* Only the worker's revision, inputs and jobs matter.
LEMMA WorkerSame ==
  ASSUME NEW q, NEW l, NEW rq, NEW ed, NEW ib, NEW ob, NEW w, NEW w2, NEW c,
         Inv(q, l, rq, ed, ib, ob, w, c), w2 \in Workers, w2.mode # "fatal",
         w2.revision = w.revision, w2.applied = w.applied, View(w2) = View(w),
         w2.run \in {w.run, None}, w2.ref \in {w.ref, None}
  PROVE  Inv(q, l, rq, ed, ib, ob, w2, c)
<1>1. LanesInv(ib, ob, w2)
  BY DEF Inv, LanesInv, Single
<1>2. RevisionInv(q, ib, ob, w2) /\ AppliedInv(q, l, ed, ob, w2)
  BY DEF Inv, RevisionInv, AppliedInv
<1>3. l.listening => MatchInv(q, rq, ib, ob, w2)
  BY DEF Inv, MatchInv
<1>4. FreshInv(q, l, rq, ob, w2)
  BY DEF Inv, FreshInv
<1>5. ConvInv(q, l, ob, w2, c)
  BY ConvSame DEF Inv
<1>6. QED
  BY <1>1, <1>2, <1>3, <1>4, <1>5 DEF Inv

\* The worker takes the oldest message; its lane is then empty.
LaneTaken(q, l, rq, ob, w, t, x) ==
    /\ x \in Commissions
    /\ OnSerialIn(x) => SerialIn(t) = {} /\ SerialOut(ob) = {} /\ w.run = None
    /\ ~OnSerialIn(x) => DetachedIn(t) = {} /\ DetachedOut(ob) = {} /\ w.ref = None
    /\ l.listening => IF x.type = "mutation" THEN q.active = x.mutation ELSE Matches(x, q, rq)
    /\ x.type = "mutation" => x.revision = q.applied + 1

\* The worker takes the first message: its lane is then between the channels.
LEMMA HeadDropped ==
  ASSUME NEW q, NEW l, NEW rq, NEW ed, NEW ib, NEW ob, NEW w, NEW c,
         Inv(q, l, rq, ed, ib, ob, w, c), ib # <<>>, NEW t, t = Tail(ib), NEW x, x = Head(ib)
  PROVE  Inv(q, l, rq, ed, t, ob, w, c) /\ LaneTaken(q, l, rq, ob, w, t, x)
<1>1. LanesInv(ib, ob, w) /\ ib \in Seq(Commissions)
  BY DEF Inv, LanesInv
<1>2. /\ t \in Seq(Commissions) /\ x \in Commissions /\ x = ib[1] /\ 1 \in DOMAIN ib
      /\ \A i \in DOMAIN t : i \in Nat /\ i >= 1 /\ i + 1 \in DOMAIN ib /\ t[i] = ib[i + 1]
  BY <1>1, Beheaded
<1>3. /\ \A i \in SerialIn(t) : i \in Nat /\ i >= 1 /\ i + 1 \in SerialIn(ib)
      /\ \A i \in DetachedIn(t) : i \in Nat /\ i >= 1 /\ i + 1 \in DetachedIn(ib)
  BY <1>2 DEF SerialIn, DetachedIn
<1>4. Single(SerialIn(ib), w.run, SerialOut(ob)) /\ Single(DetachedIn(ib), w.ref, DetachedOut(ob))
  BY <1>1 DEF LanesInv
<1>5. Single(SerialIn(t), w.run, SerialOut(ob)) /\ Single(DetachedIn(t), w.ref, DetachedOut(ob))
  <2>1. \A i, j \in SerialIn(t) : i = j
    BY <1>3, <1>4 DEF Single
  <2>2. \A i, j \in DetachedIn(t) : i = j
    BY <1>3, <1>4 DEF Single
  <2>3. (SerialIn(t) # {} => SerialIn(ib) # {}) /\ (DetachedIn(t) # {} => DetachedIn(ib) # {})
    BY <1>3
  <2>4. QED
    BY <1>4, <2>1, <2>2, <2>3 DEF Single
<1>6. LanesInv(t, ob, w)
  BY <1>1, <1>2, <1>5 DEF LanesInv
<1>7. ASSUME OnSerialIn(x) PROVE SerialIn(t) = {} /\ SerialOut(ob) = {} /\ w.run = None
  <2>1. 1 \in SerialIn(ib)
    BY <1>2, <1>7 DEF SerialIn
  <2>2. ASSUME NEW i \in SerialIn(t) PROVE FALSE
    BY <1>3, <1>4, <2>1 DEF Single
  <2>3. QED
    BY <1>4, <2>1, <2>2 DEF Single
<1>8. ASSUME ~OnSerialIn(x) PROVE DetachedIn(t) = {} /\ DetachedOut(ob) = {} /\ w.ref = None
  <2>1. 1 \in DetachedIn(ib)
    BY <1>2, <1>8 DEF SerialIn, DetachedIn
  <2>2. ASSUME NEW i \in DetachedIn(t) PROVE FALSE
    BY <1>3, <1>4, <2>1 DEF Single
  <2>3. QED
    BY <1>4, <2>1, <2>2 DEF Single
<1>9. RevisionInv(q, t, ob, w)
  BY <1>2 DEF Inv, RevisionInv
<1>10. l.listening => MatchInv(q, rq, t, ob, w)
  BY <1>2 DEF Inv, MatchInv
<1>11. l.listening => IF x.type = "mutation" THEN q.active = x.mutation ELSE Matches(x, q, rq)
  BY <1>2 DEF Inv, MatchInv
<1>12. x.type = "mutation" => x.revision = q.applied + 1
  BY <1>2 DEF Inv, RevisionInv
<1>13. Inv(q, l, rq, ed, t, ob, w, c)
  BY <1>6, <1>9, <1>10 DEF Inv
<1>14. QED
  BY <1>2, <1>7, <1>8, <1>11, <1>12, <1>13 DEF LaneTaken

\* The channel t is ob with the message y behind it.
Posted(ob, y, t) ==
    /\ t \in Seq(Replies)
    /\ \A i \in DOMAIN t : (i \in DOMAIN ob /\ t[i] = ob[i]) \/ t[i] = y
    /\ \A i \in DOMAIN ob : i \in DOMAIN t /\ t[i] = ob[i]
    /\ \E n \in DOMAIN t :
          /\ t[n] = y
          /\ SerialOut(t) = IF OnSerialOut(y) THEN SerialOut(ob) \cup {n} ELSE SerialOut(ob)
          /\ DetachedOut(t) = IF OnSerialOut(y) THEN DetachedOut(ob) ELSE DetachedOut(ob) \cup {n}

\* A posted message is the only one of its lane on the way back.
LEMMA OutAppended ==
  ASSUME NEW ob \in Seq(Replies), NEW y \in Replies, NEW t, t = Append(ob, y)
  PROVE  Posted(ob, y, t)
<1>1. /\ t \in Seq(Replies) /\ DOMAIN t = DOMAIN ob \cup {Len(ob) + 1}
      /\ Len(ob) + 1 \notin DOMAIN ob
      /\ \A i \in DOMAIN ob : t[i] = ob[i]
      /\ t[Len(ob) + 1] = y
  BY Appended
<1>2. PICK n : n = Len(ob) + 1
  OBVIOUS
<1>3. DOMAIN t = DOMAIN ob \cup {n} /\ n \notin DOMAIN ob /\ t[n] = y
  BY <1>1, <1>2
<1>4. SerialOut(t) = IF OnSerialOut(y) THEN SerialOut(ob) \cup {n} ELSE SerialOut(ob)
  BY <1>1, <1>3 DEF SerialOut
<1>5. DetachedOut(t) = IF OnSerialOut(y) THEN DetachedOut(ob) ELSE DetachedOut(ob) \cup {n}
  <2>1. SerialOut(ob) \subseteq DOMAIN ob
    BY DEF SerialOut
  <2>2. QED
    BY <1>3, <1>4, <2>1 DEF DetachedOut
<1>6. QED
  BY <1>1, <1>3, <1>4, <1>5 DEF Posted

\* The worker answers a request whose lane is otherwise empty.
LEMMA ResponsePosted ==
  ASSUME NEW q, NEW l, NEW rq, NEW ed, NEW ib, NEW ob, NEW w, NEW c,
         Inv(q, l, rq, ed, ib, ob, w, c),
         NEW y \in Replies, y.type = "response", NEW t, t = Append(ob, y),
         Method[y.id] # "references" => SerialIn(ib) = {} /\ SerialOut(ob) = {} /\ w.run = None,
         Method[y.id] = "references" => DetachedIn(ib) = {} /\ DetachedOut(ob) = {} /\ w.ref = None,
         l.listening => Matches(y, q, rq),
         l.listening /\ rq[y.id].cell = "active" => y.from = View(w) /\ y.to = View(w)
  PROVE  Inv(q, l, rq, ed, ib, t, w, c)
<1>1. LanesInv(ib, ob, w) /\ ob \in Seq(Replies)
  BY DEF Inv, LanesInv
<1>2. OnSerialOut(y) <=> Method[y.id] # "references"
  BY DEF OnSerialOut
<1>a. Posted(ob, y, t)
  BY <1>1, OutAppended
<1>3. PICK n \in DOMAIN t :
        /\ t \in Seq(Replies)
        /\ \A i \in DOMAIN t : (i \in DOMAIN ob /\ t[i] = ob[i]) \/ t[i] = y
        /\ \A i \in DOMAIN ob : i \in DOMAIN t /\ t[i] = ob[i]
        /\ SerialOut(t) = IF OnSerialOut(y) THEN SerialOut(ob) \cup {n} ELSE SerialOut(ob)
        /\ DetachedOut(t) = IF OnSerialOut(y) THEN DetachedOut(ob) ELSE DetachedOut(ob) \cup {n}
  BY <1>a DEF Posted
<1>4. LanesInv(ib, t, w)
  <2>1. CASE Method[y.id] # "references"
    <3>1. SerialOut(t) = {n} /\ DetachedOut(t) = DetachedOut(ob) /\ SerialIn(ib) = {} /\ w.run = None
      BY <1>2, <1>3, <2>1
    <3>2. QED
      BY <1>1, <1>3, <3>1 DEF LanesInv, Single
  <2>2. CASE Method[y.id] = "references"
    <3>1. DetachedOut(t) = {n} /\ SerialOut(t) = SerialOut(ob) /\ DetachedIn(ib) = {} /\ w.ref = None
      BY <1>2, <1>3, <2>2
    <3>2. QED
      BY <1>1, <1>3, <3>1 DEF LanesInv, Single
  <2>3. QED
    BY <2>1, <2>2
<1>5. Acked(t) <=> Acked(ob)
  BY <1>3 DEF Acked
<1>6. RevisionInv(q, ib, t, w)
  <2>1. \A i \in DOMAIN t : t[i].type = "ack" => t[i].revision = q.applied + 1
    BY <1>3 DEF Inv, RevisionInv
  <2>2. QED
    BY <1>5, <2>1 DEF Inv, RevisionInv
<1>7. AppliedInv(q, l, ed, t, w)
  BY <1>5 DEF Inv, AppliedInv
<1>8. l.listening => MatchInv(q, rq, ib, t, w)
  BY <1>3 DEF Inv, MatchInv
<1>9. FreshInv(q, l, rq, t, w)
  BY <1>3 DEF Inv, FreshInv
<1>10. ConvInv(q, l, t, w, c)
  <2>1. ConvInv(q, l, ob, w, c)
    BY DEF Inv
  <2>2. Unapplied(q, t) <=> Unapplied(q, ob)
    BY <1>5 DEF Unapplied
  <2>3. QED
    BY <2>1, <2>2, ConvSame
<1>11. QED
  BY <1>4, <1>6, <1>7, <1>8, <1>9, <1>10 DEF Inv

\* The worker starts a request on the lane it belongs to.
LEMMA JobTaken ==
  ASSUME NEW q, NEW l, NEW rq, NEW ed, NEW ib, NEW ob, NEW w, NEW c,
         Inv(q, l, rq, ed, ib, ob, w, c), NEW j \in Assignments, NEW w2,
         w2 = IF Method[j.id] = "references" THEN [w EXCEPT !.ref = j] ELSE [w EXCEPT !.run = j],
         Method[j.id] # "references" => SerialIn(ib) = {} /\ SerialOut(ob) = {} /\ w.run = None,
         Method[j.id] = "references" => DetachedIn(ib) = {} /\ DetachedOut(ob) = {} /\ w.ref = None,
         l.listening => Matches(j, q, rq), j.from = View(w)
  PROVE  Inv(q, l, rq, ed, ib, ob, w2, c)
<1>1. LanesInv(ib, ob, w) /\ w \in Workers
  BY DEF Inv, LanesInv
<1>2. w2 \in Workers
  BY <1>1 DEF Workers
<1>3. /\ w2.mode = w.mode /\ w2.revision = w.revision /\ w2.applied = w.applied /\ View(w2) = View(w)
      /\ w2.run = IF Method[j.id] = "references" THEN w.run ELSE j
      /\ w2.ref = IF Method[j.id] = "references" THEN j ELSE w.ref
  BY <1>1 DEF Workers, View
<1>4. LanesInv(ib, ob, w2)
  BY <1>1, <1>2, <1>3 DEF LanesInv, Single
<1>5. RevisionInv(q, ib, ob, w2) /\ AppliedInv(q, l, ed, ob, w2)
  BY <1>3 DEF Inv, RevisionInv, AppliedInv
<1>6. l.listening => MatchInv(q, rq, ib, ob, w2)
  BY <1>3 DEF Inv, MatchInv
<1>7. FreshInv(q, l, rq, ob, w2)
  BY <1>3 DEF Inv, FreshInv
<1>8. ConvInv(q, l, ob, w2, c)
  <2>1. ConvInv(q, l, ob, w, c)
    BY DEF Inv
  <2>2. QED
    BY <1>3, <2>1, ConvSame
<1>9. QED
  BY <1>4, <1>5, <1>6, <1>7, <1>8 DEF Inv

\* A worker fault changes no data.
LEMMA FaultKeeps ==
  ASSUME SupervisorInv, NEW f \in Faults, WorkerFault(f)
  PROVE  SupervisorInv'
<1>1. Inv(queue, life, req, edit, inbox, outbox, worker, client) /\ worker \in Workers
  BY DEF SupervisorInv, Inv, LanesInv
<1>2. PICK w2 : w2 = worker'
  OBVIOUS
<1>3. w2 = [worker EXCEPT !.mode = f] /\ f \in {"hung", "quarantined", "dead"}
  BY <1>2, ConstantsAssumption DEF WorkerFault
<1>4. /\ w2 \in Workers /\ w2.mode = f /\ w2.revision = worker.revision /\ w2.applied = worker.applied
      /\ View(w2) = View(worker) /\ w2.run = worker.run /\ w2.ref = worker.ref
  BY <1>1, <1>3 DEF Workers, View
<1>5. Inv(queue, life, req, edit, inbox, outbox, w2, client)
  BY <1>1, <1>3, <1>4, WorkerSame
<1>6. UNCHANGED <<queue, life, req, edit, inbox, outbox, client>>
  BY DEF WorkerFault
<1>7. QED
  BY <1>2, <1>5, <1>6 DEF SupervisorInv

\* What a mutation makes of the worker.
LEMMA AppliedWorker ==
  ASSUME NEW w \in Workers, client \in Views, NEW m \in FormedMutations, NEW w2, w2 = Applied(w, m)
  PROVE  /\ w2 \in Workers /\ w2.mode = w.mode /\ w2.revision = w.revision + 1
         /\ w2.applied = w.applied \cup m.edits /\ w2.run = w.run /\ w2.ref = w.ref
         /\ w2.dirty = (w.dirty \/ m.dirty)
         /\ \A f \in Files : ~client.files[f] /\ w2.files[f] =>
               IF f \in DOMAIN m.changes THEN m.changes[f] # "deleted" ELSE w.files[f]
         /\ \A d \in Docs : w2.docs[d] = IF d = m.doc THEN Text(m) ELSE w.docs[d]
<1>1. m \in Mutations /\ Formed(m) /\ m.edits \subseteq EditIds /\ m.dirty \in BOOLEAN
  BY DEF FormedMutations, Mutations
<1>2. Version(m) \in Nat
  <2>1. PICK e \in m.edits : \A x \in m.edits : x <= e
    BY <1>1 DEF Formed
  <2>2. m.edits \subseteq Nat
    BY <1>1 DEF EditIds
  <2>3. Max(m.edits) = e
    BY <2>1, <2>2, MaxOf
  <2>4. QED
    BY <2>1, <2>2, <2>3 DEF Version
<1>3. PICK dd, ff, aa, rr, bb :
        /\ dd = [d \in Docs |-> IF d = m.doc THEN IF m.kind = "close" THEN 0 ELSE Version(m) ELSE w.docs[d]]
        /\ ff = MembersAfter(w.files, m) /\ aa = w.applied \cup m.edits /\ rr = w.revision + 1
        /\ bb = (w.dirty \/ m.dirty)
  OBVIOUS
<1>4. /\ w.docs \in [Docs -> Nat] /\ w.files \in [Files -> BOOLEAN] /\ w.applied \subseteq EditIds
      /\ w.revision \in Nat /\ w.dirty \in BOOLEAN /\ client.files \in [Files -> BOOLEAN]
  BY DEF Workers, Views
<1>5. dd \in [Docs -> Nat] /\ aa \in SUBSET EditIds /\ rr \in Nat
  BY <1>1, <1>2, <1>3, <1>4
<1>6. bb \in BOOLEAN
  BY <1>3, <1>4
<1>7. ff \in [Files -> BOOLEAN]
  <2>1. CASE m.dirty
    BY <1>3, <1>4, <2>1 DEF MembersAfter
  <2>2. CASE ~m.dirty
    <3>1. ff = [f \in Files |->
                  IF f \notin DOMAIN m.changes \/ m.changes[f] = "changed" THEN w.files[f]
                  ELSE m.changes[f] = "created"]
      BY <1>3, <2>2 DEF MembersAfter
    <3>2. QED
      BY <1>4, <3>1
  <2>3. QED
    BY <2>1, <2>2
<1>8. w2 = [w EXCEPT !.revision = rr, !.applied = aa, !.dirty = bb, !.files = ff, !.docs = dd]
  BY <1>3 DEF Applied, Workers
<1>9. w2 \in Workers
  BY <1>5, <1>6, <1>7, <1>8 DEF Workers
<1>10. /\ w2.mode = w.mode /\ w2.revision = rr /\ w2.applied = aa /\ w2.run = w.run /\ w2.ref = w.ref
       /\ w2.files = ff /\ w2.docs = dd
  BY <1>8 DEF Workers
<1>11. w2.dirty = bb
  BY <1>8 DEF Workers
<1>12. ASSUME NEW f \in Files, ~client.files[f], w2.files[f]
       PROVE  IF f \in DOMAIN m.changes THEN m.changes[f] # "deleted" ELSE w.files[f]
  <2>1. CASE m.dirty
    BY <1>3, <1>10, <1>12, <2>1 DEF MembersAfter
  <2>2. CASE ~m.dirty
    BY <1>3, <1>10, <1>12, <2>2 DEF MembersAfter
  <2>3. QED
    BY <2>1, <2>2
<1>13. \A d \in Docs : w2.docs[d] = IF d = m.doc THEN Text(m) ELSE w.docs[d]
  BY <1>3, <1>10 DEF Text
<1>14. w2.dirty = (w.dirty \/ m.dirty)
  BY <1>3, <1>11
<1>15. QED
  BY <1>3, <1>9, <1>10, <1>12, <1>13, <1>14

\* The worker applies the next revision and acknowledges it.
LEMMA AppliedKeeps ==
  ASSUME NEW t, Inv(queue, life, req, edit, t, outbox, worker, client),
         NEW m \in FormedMutations, NEW w2, w2 = Applied(worker, m), NEW ob2,
         ob2 = Append(outbox, [type |-> "ack", revision |-> queue.applied + 1]),
         SerialIn(t) = {}, SerialOut(outbox) = {}, worker.run = None,
         life.listening => queue.active = m
  PROVE  Inv(queue, life, req, edit, t, ob2, w2, client)
<1>1. /\ QueueInv(queue) /\ LifeInv(life, queue) /\ LanesInv(t, outbox, worker) /\ RevisionInv(queue, t, outbox, worker)
      /\ AppliedInv(queue, life, edit, outbox, worker) /\ FreshInv(queue, life, req, outbox, worker)
      /\ ConvInv(queue, life, outbox, worker, client) /\ worker \in Workers /\ client \in Views
      /\ outbox \in Seq(Replies) /\ queue.applied \in Nat
      /\ life.listening => MatchInv(queue, req, t, outbox, worker)
  BY DEF Inv, LanesInv, ConvInv, QueueInv, Queues
<1>2. /\ w2 \in Workers /\ w2.mode = worker.mode /\ w2.revision = worker.revision + 1
      /\ w2.applied = worker.applied \cup m.edits /\ w2.run = worker.run /\ w2.ref = worker.ref
      /\ w2.dirty = (worker.dirty \/ m.dirty)
      /\ \A f \in Files : ~client.files[f] /\ w2.files[f] =>
            IF f \in DOMAIN m.changes THEN m.changes[f] # "deleted" ELSE worker.files[f]
      /\ \A d \in Docs : w2.docs[d] = IF d = m.doc THEN Text(m) ELSE worker.docs[d]
  BY <1>1, AppliedWorker
<1>3. PICK y : y = [type |-> "ack", revision |-> queue.applied + 1]
  OBVIOUS
<1>4. y \in Replies /\ OnSerialOut(y) /\ y.type = "ack" /\ y.revision = queue.applied + 1
  BY <1>1, <1>3 DEF Replies, OnSerialOut
<1>5. Posted(outbox, y, ob2)
  BY <1>1, <1>3, <1>4, OutAppended
<1>6. PICK n \in DOMAIN ob2 :
        /\ ob2[n] = y /\ SerialOut(ob2) = {n} /\ DetachedOut(ob2) = DetachedOut(outbox)
  BY <1>4, <1>5 DEF Posted
<1>7. /\ ob2 \in Seq(Replies)
      /\ \A i \in DOMAIN ob2 : (i \in DOMAIN outbox /\ ob2[i] = outbox[i]) \/ ob2[i] = y
  BY <1>5 DEF Posted
<1>8. LanesInv(t, ob2, w2)
  BY <1>1, <1>2, <1>6, <1>7 DEF LanesInv, Single
<1>9. Acked(ob2) /\ ~Acked(outbox)
  <2>1. ~Acked(outbox)
    BY DEF Acked, SerialOut, OnSerialOut
  <2>2. QED
    BY <1>4, <1>6, <2>1 DEF Acked
<1>10. RevisionInv(queue, t, ob2, w2)
  <2>1. worker.revision = queue.applied /\ worker.mode # "fatal"
    BY <1>1, <1>9 DEF RevisionInv
  <2>2. \A i \in DOMAIN t : t[i].type # "mutation"
    BY DEF SerialIn, OnSerialIn
  <2>3. \A i \in DOMAIN ob2 : ob2[i].type = "ack" => ob2[i].revision = queue.applied + 1
    BY <1>1, <1>4, <1>7 DEF RevisionInv
  <2>4. QED
    BY <1>2, <1>9, <2>1, <2>2, <2>3 DEF RevisionInv
<1>11. life.listening => IsMutation(queue.active) /\ Unapplied(queue, outbox)
  <2>1. IsMutation(m)
    BY MutationsApart DEF FormedMutations
  <2>2. QED
    BY <1>9, <2>1 DEF Unapplied
<1>12. life.listening => MatchInv(queue, req, t, ob2, w2)
  BY <1>1, <1>2, <1>4, <1>7, <1>11 DEF MatchInv
<1>13. AppliedInv(queue, life, edit, ob2, w2)
  BY <1>1, <1>2 DEF AppliedInv
<1>14. FreshInv(queue, life, req, ob2, w2)
  <2> SUFFICES ASSUME life.listening PROVE FreshInv(queue, life, req, ob2, w2)
    BY DEF FreshInv
  <2>1. \A r \in Running(queue) : req[r].cell # "active"
    BY <1>1, <1>11 DEF FreshInv
  <2>2. worker.ref # None => worker.ref.id \in Running(queue)
    BY <1>1 DEF MatchInv, Matches
  <2>3. ASSUME NEW i \in DOMAIN ob2, ob2[i].type = "response" PROVE ob2[i].id \in Running(queue)
    <3>1. i \in DOMAIN outbox /\ ob2[i] = outbox[i]
      BY <1>4, <1>7, <2>3
    <3>2. QED
      BY <1>1, <2>3, <3>1 DEF MatchInv, Matches
  <2>4. QED
    BY <1>2, <2>1, <2>2, <2>3 DEF FreshInv
<1>15. ConvInv(queue, life, ob2, w2, client)
  <2> SUFFICES ASSUME ~life.disposed
               PROVE  /\ \A d \in Docs : DocConv(queue, ob2, w2, client, d)
                      /\ \A f \in Files : FileConv(queue, ob2, w2, client, f)
                      /\ DirtyConv(queue, ob2, w2, client)
    BY <1>1 DEF ConvInv
  <2>1. life.listening
    BY <1>1 DEF LifeInv
  <2>2. queue.active = m /\ Unapplied(queue, outbox) /\ ~Unapplied(queue, ob2)
    BY <1>9, <1>11, <2>1 DEF Unapplied
  <2>3. ASSUME NEW d \in Docs PROVE DocConv(queue, ob2, w2, client, d)
    <3>1. DocConv(queue, outbox, worker, client, d)
      BY <1>1 DEF ConvInv
    <3>2. QED
      BY <1>2, <2>2, <3>1 DEF DocConv
  <2>4. ASSUME NEW f \in Files PROVE FileConv(queue, ob2, w2, client, f)
    <3>1. FileConv(queue, outbox, worker, client, f)
      BY <1>1 DEF ConvInv
    <3>2. QED
      BY <1>2, <2>2, <3>1 DEF FileConv
  <2>5. DirtyConv(queue, ob2, w2, client)
    <3>1. DirtyConv(queue, outbox, worker, client)
      BY <1>1 DEF ConvInv
    <3>2. QED
      BY <1>2, <2>2, <3>1 DEF DirtyConv
  <2>6. QED
    BY <2>3, <2>4, <2>5
<1>16. QED
  BY <1>1, <1>8, <1>10, <1>12, <1>13, <1>14, <1>15 DEF Inv

\* The worker applies the mutation it is sent, in sequence, or drops it when quarantined.
LEMMA DispatchMutationKeeps ==
  ASSUME SupervisorInv, DispatchMutation
  PROVE  SupervisorInv'
<1>1. Inv(queue, life, req, edit, inbox, outbox, worker, client) /\ inbox # <<>>
  BY DEF SupervisorInv, DispatchMutation
<1>2. PICK t, x, w2, ob2 : t = Tail(inbox) /\ x = Head(inbox) /\ w2 = worker' /\ ob2 = outbox'
  OBVIOUS
<1>3. x.type = "mutation"
  BY <1>2 DEF DispatchMutation
<1>a. Inv(queue, life, req, edit, t, outbox, worker, client) /\ LaneTaken(queue, life, req, outbox, worker, t, x)
  BY <1>1, <1>2, HeadDropped
<1>4. /\ Inv(queue, life, req, edit, t, outbox, worker, client) /\ x \in Commissions
      /\ OnSerialIn(x) => SerialIn(t) = {} /\ SerialOut(outbox) = {} /\ worker.run = None
      /\ life.listening => queue.active = x.mutation
      /\ x.revision = queue.applied + 1
  BY <1>a, <1>3 DEF LaneTaken
<1>5. OnSerialIn(x) /\ x.mutation \in FormedMutations
  BY <1>3, <1>4 DEF OnSerialIn, Commissions
<1>6. worker.revision = queue.applied
  <2>1. ~Acked(outbox)
    BY <1>4, <1>5 DEF Acked, SerialOut, OnSerialOut
  <2>2. RevisionInv(queue, t, outbox, worker) /\ queue.applied \in Nat
    BY <1>4 DEF Inv, QueueInv, Queues
  <2>3. QED
    BY <2>1, <2>2 DEF RevisionInv
<1>7. inbox' = t /\ UNCHANGED <<queue, life, req, edit, client>>
  BY <1>2 DEF DispatchMutation
<1>8. CASE worker.mode = "quarantined"
  <2>1. worker' = worker /\ outbox' = outbox
    BY <1>8 DEF DispatchMutation
  <2>2. QED
    BY <1>4, <1>7, <2>1 DEF SupervisorInv
<1>9. CASE worker.mode # "quarantined"
  <2>1. w2 = Applied(worker, x.mutation) /\ ob2 = Append(outbox, [type |-> "ack", revision |-> x.revision])
    BY <1>2, <1>3, <1>4, <1>6, <1>9 DEF DispatchMutation
  <2>2. PICK m \in FormedMutations : m = x.mutation
    BY <1>5
  <2>3. /\ w2 = Applied(worker, m)
        /\ ob2 = Append(outbox, [type |-> "ack", revision |-> queue.applied + 1])
        /\ SerialIn(t) = {} /\ SerialOut(outbox) = {} /\ worker.run = None
        /\ life.listening => queue.active = m
    BY <1>3, <1>4, <1>5, <2>1, <2>2
  <2>4. Inv(queue, life, req, edit, t, ob2, w2, client)
    BY <1>4, <2>3, AppliedKeeps
  <2>5. QED
    BY <1>2, <1>7, <2>4 DEF SupervisorInv
<1>10. QED
  BY <1>8, <1>9

\* The worker refuses a request or starts it.
LEMMA DispatchRequestKeeps ==
  ASSUME SupervisorInv, DispatchRequest
  PROVE  SupervisorInv'
<1>1. Inv(queue, life, req, edit, inbox, outbox, worker, client) /\ inbox # <<>>
  BY DEF SupervisorInv, DispatchRequest
<1>2. PICK t, x, w2, ob2, j : /\ t = Tail(inbox) /\ x = Head(inbox) /\ w2 = worker' /\ ob2 = outbox'
                              /\ j = [id |-> x.id, required |-> x.required, version |-> x.version,
                                      from |-> View(worker)]
  OBVIOUS
<1>3. x.type = "request"
  BY <1>2 DEF DispatchRequest
<1>4. Inv(queue, life, req, edit, t, outbox, worker, client) /\ LaneTaken(queue, life, req, outbox, worker, t, x)
  BY <1>1, <1>2, HeadDropped
<1>5. x.id \in Reqs /\ x.required \in Nat /\ x.version \in Nat /\ (OnSerialIn(x) <=> Method[x.id] # "references")
  BY <1>3, <1>4 DEF LaneTaken, Commissions, OnSerialIn
<1>6. View(worker) \in Views
  BY <1>1 DEF Inv, LanesInv, Workers, View, Views
<1>7. j \in Assignments /\ j.id = x.id /\ j.from = View(worker) /\ j.required = x.required /\ j.version = x.version
  BY <1>2, <1>5, <1>6 DEF Assignments
<1>8. /\ Method[x.id] # "references" => SerialIn(t) = {} /\ SerialOut(outbox) = {} /\ worker.run = None
      /\ Method[x.id] = "references" => DetachedIn(t) = {} /\ DetachedOut(outbox) = {} /\ worker.ref = None
      /\ life.listening => Matches(j, queue, req)
  BY <1>3, <1>4, <1>5, <1>7 DEF LaneTaken, Matches
<1>9. inbox' = t /\ UNCHANGED <<queue, life, req, edit, client>>
  BY <1>2 DEF DispatchRequest
<1>10. \/ \E code \in {"restart-required", "content-modified"} :
             ob2 = Append(outbox, Response(j, FALSE, code)) /\ w2 = worker
       \/ w2 = (IF Method[x.id] = "references" THEN [worker EXCEPT !.ref = j] ELSE [worker EXCEPT !.run = j])
          /\ ob2 = outbox
  BY <1>2 DEF DispatchRequest
<1>11. CASE \E code \in {"restart-required", "content-modified"} :
             ob2 = Append(outbox, Response(j, FALSE, code)) /\ w2 = worker
  <2>1. PICK code \in {"restart-required", "content-modified"} :
             ob2 = Append(outbox, Response(j, FALSE, code)) /\ w2 = worker
    BY <1>11
  <2>2. PICK y : y = Response(j, FALSE, code)
    OBVIOUS
  <2>3. /\ y \in Replies /\ y.type = "response" /\ y.id = x.id /\ y.required = j.required
        /\ y.version = j.version /\ y.from = View(worker) /\ y.to = View(worker)
    BY <1>5, <1>6, <1>7, <2>2 DEF Response, Replies, Codes
  <2>4. life.listening => Matches(y, queue, req)
    BY <1>7, <1>8, <2>3 DEF Matches
  <2>5. ob2 = Append(outbox, y)
    BY <2>1, <2>2
  <2>6. /\ Method[y.id] # "references" => SerialIn(t) = {} /\ SerialOut(outbox) = {} /\ worker.run = None
        /\ Method[y.id] = "references" => DetachedIn(t) = {} /\ DetachedOut(outbox) = {} /\ worker.ref = None
    BY <1>8, <2>3
  <2>7. Inv(queue, life, req, edit, t, ob2, worker, client)
    BY <1>4, <2>3, <2>4, <2>5, <2>6, ResponsePosted
  <2>8. QED
    BY <1>2, <1>9, <2>1, <2>7 DEF SupervisorInv
<1>12. CASE w2 = (IF Method[x.id] = "references" THEN [worker EXCEPT !.ref = j] ELSE [worker EXCEPT !.run = j])
            /\ ob2 = outbox
  <2>1. /\ w2 = (IF Method[j.id] = "references" THEN [worker EXCEPT !.ref = j] ELSE [worker EXCEPT !.run = j])
        /\ Method[j.id] # "references" => SerialIn(t) = {} /\ SerialOut(outbox) = {} /\ worker.run = None
        /\ Method[j.id] = "references" => DetachedIn(t) = {} /\ DetachedOut(outbox) = {} /\ worker.ref = None
    BY <1>7, <1>8, <1>12
  <2>2. Inv(queue, life, req, edit, t, outbox, w2, client)
    BY <1>4, <1>7, <1>8, <2>1, JobTaken
  <2>3. QED
    BY <1>2, <1>9, <1>12, <2>2 DEF SupervisorInv
<1>13. QED
  BY <1>10, <1>11, <1>12

\* A request is answered from what it saw, and its lane is left.
LEMMA AnswerKeeps ==
  ASSUME SupervisorInv, NEW j, NEW rest, Answer(j, rest),
         \/ j = worker.run /\ rest = [worker EXCEPT !.run = None]
         \/ j = worker.ref /\ rest = [worker EXCEPT !.ref = None]
  PROVE  SupervisorInv'
<1>1. /\ Inv(queue, life, req, edit, inbox, outbox, worker, client) /\ worker \in Workers
      /\ LanesInv(inbox, outbox, worker) /\ worker.mode # "fatal" /\ OwnInv(queue, req, edit)
  BY DEF SupervisorInv, Inv, LanesInv, RevisionInv
<1>2. j # None /\ UNCHANGED <<queue, life, req, edit, inbox, client>> /\ worker' = rest
  BY DEF Answer
<1>3. /\ j \in Assignments
      /\ (j = worker.run /\ rest = [worker EXCEPT !.run = None] /\ Method[j.id] # "references")
         \/ (j = worker.ref /\ rest = [worker EXCEPT !.ref = None] /\ Method[j.id] = "references")
  BY <1>1, <1>2 DEF LanesInv, Workers
<1>4. /\ rest \in Workers /\ rest.mode = worker.mode /\ rest.revision = worker.revision
      /\ rest.applied = worker.applied /\ View(rest) = View(worker)
      /\ rest.run \in {worker.run, None} /\ rest.ref \in {worker.ref, None}
      /\ Method[j.id] # "references" => rest.run = None
      /\ Method[j.id] = "references" => rest.ref = None
  BY <1>1, <1>3 DEF Workers, View
<1>5. Inv(queue, life, req, edit, inbox, outbox, rest, client)
  BY <1>1, <1>4, WorkerSame
<1>6. /\ Method[j.id] # "references" => SerialIn(inbox) = {} /\ SerialOut(outbox) = {} /\ rest.run = None
      /\ Method[j.id] = "references" => DetachedIn(inbox) = {} /\ DetachedOut(outbox) = {} /\ rest.ref = None
  BY <1>1, <1>2, <1>3, <1>4 DEF LanesInv, Single
<1>7. life.listening => Matches(j, queue, req)
  BY <1>1, <1>2, <1>3 DEF Inv, MatchInv
<1>8. life.listening /\ req[j.id].cell = "active" => j.from = View(worker)
  BY <1>1, <1>2, <1>3 DEF Inv, FreshInv
<1>9. PICK ok \in BOOLEAN, code \in Codes : outbox' = Append(outbox, Response(j, ok, code))
  <2>1. CASE outbox' = Append(outbox, Response(j, TRUE, "none"))
    <3>1. "none" \in Codes
      BY DEF Codes
    <3>2. QED
      BY <2>1, <3>1
  <2>2. CASE outbox' = Append(outbox, Response(j, FALSE,
                        IF req[j.id].cell = "active" THEN "internal-error"
                        ELSE CancellationError(req[j.id].cell)))
    <3>1. (IF req[j.id].cell = "active" THEN "internal-error"
           ELSE CancellationError(req[j.id].cell)) \in Codes
      BY DEF Codes, CancellationError
    <3>2. QED
      BY <2>2, <3>1
  <2>3. QED
    BY <2>1, <2>2 DEF Answer
<1>10. PICK y, ob2 : y = Response(j, ok, code) /\ ob2 = Append(outbox, y)
  OBVIOUS
<1>11. View(worker) \in Views /\ j.from \in Views
  BY <1>1, <1>3 DEF Workers, View, Views, Assignments
<1>12. /\ y \in Replies /\ y.type = "response" /\ y.id = j.id /\ y.required = j.required
       /\ y.version = j.version /\ y.from = j.from /\ y.to = View(worker)
  BY <1>3, <1>10, <1>11 DEF Response, Replies, Assignments
<1>13. /\ Method[y.id] # "references" => SerialIn(inbox) = {} /\ SerialOut(outbox) = {} /\ rest.run = None
       /\ Method[y.id] = "references" => DetachedIn(inbox) = {} /\ DetachedOut(outbox) = {} /\ rest.ref = None
       /\ life.listening => Matches(y, queue, req)
       /\ life.listening /\ req[y.id].cell = "active" => y.from = View(rest) /\ y.to = View(rest)
  BY <1>4, <1>6, <1>7, <1>8, <1>12 DEF Matches
<1>14. Inv(queue, life, req, edit, inbox, ob2, rest, client)
  BY <1>5, <1>10, <1>12, <1>13, ResponsePosted
<1>15. QED
  BY <1>2, <1>9, <1>10, <1>14 DEF SupervisorInv

-----------------------------------------------------------------------------
(* Receiving from the worker.                                              *)

\* A change of the lanes alone leaves a drained queue drained.
LEMMA DrainedSame ==
  ASSUME NEW q \in Queues, NEW p \in Queues, Drained(q), p.mutations = q.mutations,
         p.bytes = q.bytes, p.reads = q.reads, p.sources = q.sources,
         p.readBytes = q.readBytes, p.bypassed = q.bypassed
  PROVE  Drained(p)
<1>1. PICK o : o = NoSources
  OBVIOUS
<1>2. q = [q EXCEPT !.reads = <<>>, !.sources = o, !.readBytes = 0, !.bypassed = None,
                    !.mutations = <<>>, !.bytes = 0]
  BY <1>1 DEF Drained, DrainAll, DrainReads, Queues
<1>3. /\ q.mutations = <<>> /\ q.reads = <<>> /\ q.sources = o /\ q.readBytes = 0
      /\ q.bypassed = None /\ q.bytes = 0
  BY <1>2 DEF Queues
<1>4. p = [p EXCEPT !.reads = <<>>, !.sources = o, !.readBytes = 0, !.bypassed = None,
                    !.mutations = <<>>, !.bytes = 0]
  BY <1>3 DEF Queues
<1>5. QED
  BY <1>1, <1>4 DEF Drained, DrainAll, DrainReads, Queues

\* The channel t is ob without its oldest message x, whose lane is then empty.
ReplyTaken(ib, ob, w, t, x) ==
    /\ LanesInv(ib, t, w) /\ x \in Replies /\ x = ob[1] /\ 1 \in DOMAIN ob
    /\ \A i \in DOMAIN t : \E k \in DOMAIN ob : t[i] = ob[k]
    /\ \A k \in DOMAIN ob : ob[k] = x \/ \E i \in DOMAIN t : t[i] = ob[k]
    /\ OnSerialOut(x) => SerialIn(ib) = {} /\ SerialOut(t) = {} /\ w.run = None
    /\ ~OnSerialOut(x) => DetachedIn(ib) = {} /\ DetachedOut(t) = {} /\ w.ref = None

\* The supervisor takes the first reply: nothing else of its lane is under way.
LEMMA ReplyDropped ==
  ASSUME NEW ib, NEW ob, NEW w, LanesInv(ib, ob, w), ob # <<>>, NEW t, t = Tail(ob), NEW x, x = Head(ob)
  PROVE  ReplyTaken(ib, ob, w, t, x)
<1>1. ob \in Seq(Replies)
  BY DEF LanesInv
<1>2. /\ t \in Seq(Replies) /\ x \in Replies /\ x = ob[1] /\ 1 \in DOMAIN ob
      /\ \A i \in DOMAIN t : i \in Nat /\ i >= 1 /\ i + 1 \in DOMAIN ob /\ t[i] = ob[i + 1]
      /\ \A i \in DOMAIN ob : i \in Nat /\ i >= 1 /\ (i = 1 \/ (i - 1 \in DOMAIN t /\ t[i - 1] = ob[i]))
  BY <1>1, Beheaded
<1>3. /\ \A i \in SerialOut(t) : i \in Nat /\ i >= 1 /\ i + 1 \in SerialOut(ob)
      /\ \A i \in DetachedOut(t) : i \in Nat /\ i >= 1 /\ i + 1 \in DetachedOut(ob)
  BY <1>2 DEF SerialOut, DetachedOut
<1>4. Single(SerialIn(ib), w.run, SerialOut(ob)) /\ Single(DetachedIn(ib), w.ref, DetachedOut(ob))
  BY DEF LanesInv
<1>5. Single(SerialIn(ib), w.run, SerialOut(t)) /\ Single(DetachedIn(ib), w.ref, DetachedOut(t))
  <2>1. \A i, j \in SerialOut(t) : i = j
    BY <1>3, <1>4 DEF Single
  <2>2. \A i, j \in DetachedOut(t) : i = j
    BY <1>3, <1>4 DEF Single
  <2>3. (SerialOut(t) # {} => SerialOut(ob) # {}) /\ (DetachedOut(t) # {} => DetachedOut(ob) # {})
    BY <1>3
  <2>4. QED
    BY <1>4, <2>1, <2>2, <2>3 DEF Single
<1>6. LanesInv(ib, t, w)
  BY <1>2, <1>5 DEF LanesInv
<1>7. ASSUME OnSerialOut(x) PROVE SerialIn(ib) = {} /\ SerialOut(t) = {} /\ w.run = None
  <2>1. 1 \in SerialOut(ob)
    BY <1>2, <1>7 DEF SerialOut
  <2>2. ASSUME NEW i \in SerialOut(t) PROVE FALSE
    BY <1>3, <1>4, <2>1 DEF Single
  <2>3. QED
    BY <1>4, <2>1, <2>2 DEF Single
<1>8. ASSUME ~OnSerialOut(x) PROVE DetachedIn(ib) = {} /\ DetachedOut(t) = {} /\ w.ref = None
  <2>1. 1 \in DetachedOut(ob)
    BY <1>2, <1>8 DEF SerialOut, DetachedOut
  <2>2. ASSUME NEW i \in DetachedOut(t) PROVE FALSE
    BY <1>3, <1>4, <2>1 DEF Single
  <2>3. QED
    BY <1>4, <2>1, <2>2 DEF Single
<1>9. \A i \in DOMAIN t : \E k \in DOMAIN ob : t[i] = ob[k]
  BY <1>2
<1>10. \A k \in DOMAIN ob : ob[k] = x \/ \E i \in DOMAIN t : t[i] = ob[k]
  BY <1>2
<1>11. QED
  BY <1>2, <1>6, <1>7, <1>8, <1>9, <1>10 DEF ReplyTaken

\* The state in which the acknowledgement of the active mutation pumps.
LEMMA AckKeeps ==
  ASSUME SupervisorInv, life.listening, outbox # <<>>, NEW t, t = Tail(outbox),
         NEW x, x = Head(outbox), x.type = "ack",
         NEW p, p = [queue EXCEPT !.active = None, !.applied = x.revision],
         NEW ed2, ed2 = SettleEdits(edit, ActiveEdits(queue), "resolved")
  PROVE  Inv(p, life, req, ed2, inbox, t, worker, client) /\ AnsweredBy(x) # None
<1>1. /\ QueueInv(queue) /\ OwnInv(queue, req, edit) /\ LifeInv(life, queue)
      /\ LanesInv(inbox, outbox, worker) /\ RevisionInv(queue, inbox, outbox, worker)
      /\ MatchInv(queue, req, inbox, outbox, worker) /\ AppliedInv(queue, life, edit, outbox, worker)
      /\ FreshInv(queue, life, req, outbox, worker) /\ ConvInv(queue, life, outbox, worker, client)
      /\ queue \in Queues /\ queue.applied \in Nat
  BY DEF SupervisorInv, Inv, QueueInv, Queues
<1>2. ReplyTaken(inbox, outbox, worker, t, x)
  BY <1>1, ReplyDropped
<1>3. /\ LanesInv(inbox, t, worker) /\ x = outbox[1] /\ 1 \in DOMAIN outbox
      /\ \A i \in DOMAIN t : \E k \in DOMAIN outbox : t[i] = outbox[k]
      /\ SerialIn(inbox) = {} /\ SerialOut(t) = {} /\ worker.run = None
  BY <1>2 DEF ReplyTaken, OnSerialOut
<1>4. IsMutation(queue.active) /\ x.revision = queue.applied + 1 /\ Acked(outbox)
  BY <1>1, <1>3 DEF MatchInv, RevisionInv, Acked
<1>5. AnsweredBy(x) # None
  BY <1>4 DEF AnsweredBy, IsMutation
<1>6. queue.active \notin Reqs /\ None \notin Reqs /\ ~IsMutation(None)
  BY <1>4, NoneApart DEF IsMutation
<1>7. ~Acked(t)
  BY <1>3 DEF Acked, SerialOut, OnSerialOut
<1>8. PICK n \in Nat : n = x.revision
  BY <1>1, <1>4
<1>9. p = [queue EXCEPT !.active = None, !.applied = n]
  BY <1>8
<1>10. p \in Queues
  BY <1>1, <1>9 DEF Queues
<1>11. /\ p.active = None /\ p.applied = queue.applied + 1 /\ p.mutations = queue.mutations
       /\ p.bytes = queue.bytes /\ p.reads = queue.reads /\ p.sources = queue.sources
       /\ p.readBytes = queue.readBytes /\ p.bypassed = queue.bypassed /\ p.detached = queue.detached
  BY <1>1, <1>4, <1>8, <1>9 DEF Queues
<1>12. QueueInv(p)
  BY <1>1, <1>6, <1>10, <1>11 DEF QueueInv
<1>13. Running(p) = Running(queue) /\ PendingEdits(p) = PendingEdits(queue) /\ ActiveEdits(p) = {}
       /\ ActiveEdits(queue) = queue.active.edits
  BY <1>4, <1>6, <1>11 DEF Running, PendingEdits, ActiveEdits
<1>14. OwnInv(p, req, ed2)
  <2>1. edit \in [EditIds -> EditStates]
        /\ \A e \in EditIds : ed2[e] = IF e \in ActiveEdits(queue) THEN "resolved" ELSE edit[e]
    BY <1>1 DEF OwnInv, SettleEdits
  <2>2. ed2 \in [EditIds -> EditStates]
    BY <2>1 DEF SettleEdits, EditStates
  <2>3. PendingEdits(queue) \cap ActiveEdits(queue) = {}
    BY <1>1, EditsApart
  <2>4. {e \in EditIds : ed2[e] = "pending"} = {e \in EditIds : edit[e] = "pending"} \ ActiveEdits(queue)
    BY <2>1
  <2>5. {e \in EditIds : ed2[e] = "pending"} = PendingEdits(p) \cup ActiveEdits(p)
    BY <1>1, <1>13, <2>3, <2>4 DEF OwnInv
  <2>6. \A e \in EditIds : e \in ActiveEdits(queue) => edit[e] = "pending"
    BY <1>1 DEF OwnInv
  <2>7. \A e \in EditIds : ed2[e] # "none" <=> edit[e] # "none"
    BY <2>1, <2>6
  <2>8. \E k \in 0 .. MaxEdits : \A e \in EditIds : ed2[e] # "none" <=> e <= k
    BY <1>1, <2>7 DEF OwnInv
  <2>9. QED
    BY <1>1, <1>11, <1>13, <2>2, <2>5, <2>8 DEF OwnInv
<1>15. LifeInv(life, p)
  <2>1. Drained(queue) => Drained(p)
    BY <1>1, <1>10, <1>11, DrainedSame
  <2>2. QED
    BY <1>1, <2>1 DEF LifeInv
<1>16. RevisionInv(p, inbox, t, worker)
  <2>1. \A i \in DOMAIN inbox : inbox[i].type # "mutation"
    BY <1>3 DEF SerialIn, OnSerialIn
  <2>2. \A i \in DOMAIN t : t[i].type # "ack"
    BY <1>7 DEF Acked
  <2>3. QED
    BY <1>1, <1>4, <1>7, <1>11, <2>1, <2>2 DEF RevisionInv
<1>17. MatchInv(p, req, inbox, t, worker)
  <2>1. \A y : Matches(y, queue, req) => Matches(y, p, req)
    BY <1>13 DEF Matches
  <2>2. \A i \in DOMAIN inbox : inbox[i].type # "mutation"
    BY <1>3 DEF SerialIn, OnSerialIn
  <2>3. \A i \in DOMAIN t : t[i].type # "ack"
    BY <1>7 DEF Acked
  <2>4. \A i \in DOMAIN t : Matches(t[i], queue, req)
    BY <1>1, <1>3, <2>3 DEF MatchInv
  <2>5. QED
    BY <1>1, <2>1, <2>2, <2>3, <2>4 DEF MatchInv
<1>18. AppliedInv(p, life, ed2, t, worker)
  BY <1>1, <1>4, <1>7, <1>13 DEF AppliedInv, SettleEdits
<1>19. FreshInv(p, life, req, t, worker)
  <2>1. \A r \in Running(p) : req[r].cell # "active"
    BY <1>1, <1>4, <1>13 DEF FreshInv
  <2>2. ASSUME NEW i \in DOMAIN t, t[i].type = "response", req[t[i].id].cell = "active"
        PROVE  t[i].from = View(worker) /\ t[i].to = View(worker)
    BY <1>1, <1>3, <2>2 DEF FreshInv
  <2>3. QED
    BY <1>1, <2>1, <2>2 DEF FreshInv
<1>20. ConvInv(p, life, t, worker, client)
  <2>1. ~Unapplied(queue, outbox) /\ ~Unapplied(p, t)
    BY <1>4, <1>6, <1>11 DEF Unapplied
  <2>2. QED
    BY <1>1, <1>11, <2>1, ConvSame, ZenonT(60)
<1>21. QED
  BY <1>3, <1>5, <1>12, <1>14, <1>15, <1>16, <1>17, <1>18, <1>19, <1>20, <1>1 DEF Inv

\* The state in which a response pumps.
LEMMA ResponseKeeps ==
  ASSUME SupervisorInv, life.listening, outbox # <<>>, NEW t, t = Tail(outbox),
         NEW x, x = Head(outbox), x.type # "ack", NEW r, r = x.id,
         NEW p, p = (IF r = queue.detached THEN [queue EXCEPT !.detached = None]
                     ELSE [queue EXCEPT !.active = None]),
         NEW S, S = {r}, NEW rq2, Settled(req, S, rq2), SameCells(req, rq2)
  PROVE  Inv(p, life, rq2, edit, inbox, t, worker, client)
<1>1. /\ QueueInv(queue) /\ OwnInv(queue, req, edit) /\ LifeInv(life, queue)
      /\ LanesInv(inbox, outbox, worker) /\ RevisionInv(queue, inbox, outbox, worker)
      /\ MatchInv(queue, req, inbox, outbox, worker) /\ AppliedInv(queue, life, edit, outbox, worker)
      /\ FreshInv(queue, life, req, outbox, worker) /\ ConvInv(queue, life, outbox, worker, client)
      /\ queue \in Queues /\ edit \in [EditIds -> EditStates]
  BY DEF SupervisorInv, Inv, QueueInv, OwnInv
<1>2. ReplyTaken(inbox, outbox, worker, t, x)
  BY <1>1, ReplyDropped
<1>3. /\ LanesInv(inbox, t, worker) /\ x \in Replies /\ x = outbox[1] /\ 1 \in DOMAIN outbox
      /\ \A i \in DOMAIN t : \E k \in DOMAIN outbox : t[i] = outbox[k]
      /\ \A k \in DOMAIN outbox : outbox[k] = x \/ \E i \in DOMAIN t : t[i] = outbox[k]
  BY <1>2 DEF ReplyTaken
<1>4. x.type = "response" /\ r \in Reqs /\ (OnSerialOut(x) <=> Method[r] # "references")
  BY <1>3 DEF Replies, OnSerialOut
<1>5. r \in Running(queue) /\ r # None
  BY <1>1, <1>3, <1>4, NoneApart DEF MatchInv, Matches
<1>6. /\ Method[r] # "references" => SerialIn(inbox) = {} /\ SerialOut(t) = {} /\ worker.run = None
      /\ Method[r] = "references" => DetachedIn(inbox) = {} /\ DetachedOut(t) = {} /\ worker.ref = None
  BY <1>2, <1>4 DEF ReplyTaken
<1>7. Acked(t) <=> Acked(outbox)
  BY <1>3, <1>4 DEF Acked
<1>8. p \in Queues
  BY <1>1 DEF Queues
<1>9. /\ p.mutations = queue.mutations /\ p.applied = queue.applied
      /\ p.bytes = queue.bytes /\ p.reads = queue.reads /\ p.sources = queue.sources
      /\ p.readBytes = queue.readBytes /\ p.bypassed = queue.bypassed
      /\ p.detached = (IF r = queue.detached THEN None ELSE queue.detached)
      /\ p.active = (IF r = queue.detached THEN queue.active ELSE None)
  BY <1>1 DEF Queues
<1>10. /\ None \notin Reqs /\ ~IsMutation(None) /\ ~IsMutation(r)
       /\ (r = queue.detached <=> Method[r] = "references")
       /\ (r # queue.detached => queue.active = r)
  <2>1. None \notin Reqs /\ ~IsMutation(None) /\ ~IsMutation(r)
    BY <1>4, NoneApart
  <2>2. QED
    BY <1>1, <1>4, <1>5, <2>1 DEF QueueInv, Running
<1>11. QueueInv(p)
  BY <1>1, <1>8, <1>9, <1>10 DEF QueueInv
<1>12. /\ Running(p) = Running(queue) \ {r} /\ PendingEdits(p) = PendingEdits(queue)
       /\ ActiveEdits(p) = ActiveEdits(queue)
  <2>1. queue.active = r => r # queue.detached
    BY <1>1, <1>4, <1>10 DEF QueueInv
  <2>2. Running(p) = Running(queue) \ {r}
    BY <1>4, <1>9, <1>10, <2>1 DEF Running
  <2>3. QED
    BY <1>9, <1>10, <2>2 DEF PendingEdits, ActiveEdits
<1>13. OwnInv(p, rq2, edit)
  <2>1. r \notin ToSet(queue.reads)
    BY <1>1, <1>4, <1>5 DEF OwnInv
  <2>2. \A y \in Reqs : rq2[y].state = "queued" <=> y \in ToSet(p.reads)
    BY <1>1, <1>9, <2>1 DEF OwnInv, Settled
  <2>3. \A y \in Reqs : rq2[y].state = "sent" <=> y \in Running(p)
    BY <1>1, <1>12, SMTT(60) DEF OwnInv, Settled
  <2>4. rq2 \in [Reqs -> Records]
    BY DEF Settled
  <2>5. QED
    BY <1>1, <1>12, <2>2, <2>3, <2>4 DEF OwnInv
<1>14. LifeInv(life, p)
  <2>1. Drained(queue) => Drained(p)
    BY <1>1, <1>8, <1>9, DrainedSame
  <2>2. QED
    BY <1>1, <2>1 DEF LifeInv
<1>15. RevisionInv(p, inbox, t, worker)
  <2>1. \A i \in DOMAIN t : t[i].type = "ack" => t[i].revision = queue.applied + 1
    BY <1>1, <1>3 DEF RevisionInv
  <2>2. QED
    BY <1>1, <1>7, <1>9, <2>1 DEF RevisionInv
<1>16. MatchInv(p, rq2, inbox, t, worker)
  <2>1. ASSUME NEW y, Matches(y, queue, req), y.id # r PROVE Matches(y, p, rq2)
    <3>1. y.id \in Reqs
      BY <2>1 DEF Matches, Running
    <3>2. QED
      BY <1>12, <2>1, <3>1 DEF Matches, Settled
  <2>2. ASSUME NEW i \in DOMAIN inbox
        PROVE  IF inbox[i].type = "mutation" THEN p.active = inbox[i].mutation ELSE Matches(inbox[i], p, rq2)
    <3>0. inbox[i] \in Commissions
      BY <1>1 DEF LanesInv
    <3>1. CASE inbox[i].type = "mutation"
      <4>1. SerialIn(inbox) # {}
        BY <3>1 DEF SerialIn, OnSerialIn
      <4>2. QED
        BY <1>1, <1>6, <1>9, <1>10, <3>1, <4>1 DEF MatchInv
    <3>2. CASE inbox[i].type # "mutation"
      <4>1. Matches(inbox[i], queue, req) /\ inbox[i].type = "request"
        BY <1>1, <3>0, <3>2 DEF MatchInv, Commissions
      <4>2. inbox[i].id # r
        <5>1. i \in SerialIn(inbox) <=> Method[inbox[i].id] # "references"
          BY <4>1 DEF SerialIn, OnSerialIn
        <5>2. i \in SerialIn(inbox) \/ i \in DetachedIn(inbox)
          BY DEF DetachedIn
        <5>3. QED
          BY <1>6, <5>1, <5>2 DEF DetachedIn
      <4>3. QED
        BY <2>1, <3>2, <4>1, <4>2
    <3>3. QED
      BY <3>1, <3>2
  <2>3. ASSUME NEW i \in DOMAIN t
        PROVE  IF t[i].type = "ack" THEN IsMutation(p.active) ELSE Matches(t[i], p, rq2)
    <3>0. t[i] \in Replies
      BY <1>3 DEF LanesInv
    <3>1. CASE t[i].type = "ack"
      <4>1. SerialOut(t) # {} /\ IsMutation(queue.active)
        BY <1>1, <1>3, <3>1 DEF SerialOut, OnSerialOut, MatchInv
      <4>2. QED
        BY <1>6, <1>9, <1>10, <3>1, <4>1
    <3>2. CASE t[i].type # "ack"
      <4>1. Matches(t[i], queue, req) /\ t[i].type = "response"
        BY <1>1, <1>3, <3>0, <3>2 DEF MatchInv, Replies
      <4>2. t[i].id # r
        <5>1. i \in SerialOut(t) <=> Method[t[i].id] # "references"
          BY <4>1 DEF SerialOut, OnSerialOut
        <5>2. i \in SerialOut(t) \/ i \in DetachedOut(t)
          BY DEF DetachedOut
        <5>3. QED
          BY <1>6, <5>1, <5>2 DEF DetachedOut
      <4>3. QED
        BY <2>1, <3>2, <4>1, <4>2
    <3>3. QED
      BY <3>1, <3>2
  <2>4. (worker.run # None => Matches(worker.run, p, rq2)) /\ (worker.ref # None => Matches(worker.ref, p, rq2))
    <3>1. (worker.run # None => worker.run.id # r) /\ (worker.ref # None => worker.ref.id # r)
      BY <1>1, <1>6 DEF LanesInv
    <3>2. QED
      BY <1>1, <2>1, <3>1 DEF MatchInv
  <2>5. QED
    BY <2>2, <2>3, <2>4 DEF MatchInv
<1>17. AppliedInv(p, life, edit, t, worker)
  <2>1. Acked(t) => p.active = queue.active
    BY <1>6, <1>9, <1>10 DEF Acked, SerialOut, OnSerialOut
  <2>2. QED
    BY <1>1, <1>7, <2>1 DEF AppliedInv
<1>18. FreshInv(p, life, rq2, t, worker)
  <2>1. FreshInv(queue, life, req, t, worker)
    BY <1>1, <1>3 DEF FreshInv
  <2>2. \A y \in Reqs : rq2[y].cell = "active" => req[y].cell = "active"
    BY DEF SameCells
  <2>3. Running(p) \subseteq Running(queue) /\ (IsMutation(p.active) => IsMutation(queue.active))
    BY <1>9, <1>10, <1>12
  <2>4. QED
    BY <1>3, <1>9, <2>1, <2>2, <2>3, FreshSame
<1>19. ConvInv(p, life, t, worker, client)
  <2>1. (Unapplied(p, t) <=> Unapplied(queue, outbox)) /\ (Unapplied(queue, outbox) => p.active = queue.active)
    BY <1>7, <1>9, <1>10 DEF Unapplied
  <2>2. QED
    BY <1>1, <1>9, <2>1, ConvSame
<1>20. QED
  BY <1>3, <1>11, <1>13, <1>14, <1>15, <1>16, <1>17, <1>18, <1>19 DEF Inv

\* The record of r is settled with outcome o.
OneSettled(rq, r, o) ==
    [y \in Reqs |-> IF y \in {r} THEN [rq[y] EXCEPT !.state = "settled", !.outcome = o] ELSE rq[y]]

\* Settlement of one record.
LEMMA OneSettledRecords ==
  ASSUME NEW rq \in [Reqs -> Records], NEW r, NEW o \in Codes \cup {"ok"}
  PROVE  Settled(rq, {r}, OneSettled(rq, r, o)) /\ SameCells(rq, OneSettled(rq, r, o))
<1>1. PICK S, rq2 : S = {r} /\ rq2 = OneSettled(rq, r, o)
  OBVIOUS
<1>2. PICK out : out = [y \in Reqs |-> o]
  OBVIOUS
<1>3. out \in [Reqs -> Codes \cup {"ok"}]
  BY <1>2
<1>4. rq2 = [y \in Reqs |-> IF y \in S THEN [rq[y] EXCEPT !.state = "settled", !.outcome = out[y]] ELSE rq[y]]
  BY <1>1, <1>2 DEF OneSettled
<1>5. Settled(rq, S, rq2) /\ SameCells(rq, rq2)
  BY <1>3, <1>4, SettledRecords
<1>6. QED
  BY <1>1, <1>5

\* What #settleRequest reports for response x of request r.
Outcome(x, r) ==
    IF req[r].cell # "active" THEN CancellationError(req[r].cell) ELSE IF x.ok THEN "ok" ELSE x.code

\* What a response makes of the records, and that it answers a lane.
LEMMA ResponseSettles ==
  ASSUME SupervisorInv, life.listening, outbox # <<>>, NEW x, x = Head(outbox), x.type # "ack",
         NEW r, r = x.id
  PROVE  /\ Settled(req, {r}, OneSettled(req, r, Outcome(x, r)))
         /\ SameCells(req, OneSettled(req, r, Outcome(x, r))) /\ AnsweredBy(x) # None
         /\ r \in Running(queue) /\ x = outbox[1] /\ 1 \in DOMAIN outbox /\ x \in Replies
         /\ x.type = "response"
<1>1. /\ LanesInv(inbox, outbox, worker) /\ MatchInv(queue, req, inbox, outbox, worker)
      /\ req \in [Reqs -> Records]
  BY DEF SupervisorInv, Inv, OwnInv
<1>2. x = outbox[1] /\ 1 \in DOMAIN outbox /\ x \in Replies
  <2>1. PICK t : t = Tail(outbox)
    OBVIOUS
  <2>2. ReplyTaken(inbox, outbox, worker, t, x)
    BY <1>1, <2>1, ReplyDropped
  <2>3. QED
    BY <2>2 DEF ReplyTaken
<1>3. x.type = "response" /\ Matches(x, queue, req) /\ x.code \in Codes /\ x.ok \in BOOLEAN
  BY <1>1, <1>2 DEF Replies, MatchInv
<1>4. r \in Running(queue) /\ AnsweredBy(x) = x.id /\ r # None
  BY <1>3, NoneApart DEF Matches, AnsweredBy, Running
<1>5. Outcome(x, r) \in Codes \cup {"ok"}
  BY <1>3 DEF Outcome, Codes, CancellationError
<1>6. Settled(req, {r}, OneSettled(req, r, Outcome(x, r))) /\ SameCells(req, OneSettled(req, r, Outcome(x, r)))
  BY <1>1, <1>5, OneSettledRecords
<1>7. QED
  BY <1>2, <1>3, <1>4, <1>6

\* Every reply answers a lane, which is freed and pumped.
LEMMA ReceiveKeeps ==
  ASSUME SupervisorInv, Receive
  PROVE  SupervisorInv'
<1>1. outbox # <<>> /\ life.listening /\ outbox' = Tail(outbox) /\ worker' = worker /\ client' = client
  BY DEF Receive
<1>2. PICK x, t : x = Head(outbox) /\ t = Tail(outbox)
  OBVIOUS
<1>3. CASE x.type = "ack"
  <2>1. PICK p, ed2 : /\ p = [queue EXCEPT !.active = None, !.applied = x.revision]
                      /\ ed2 = SettleEdits(edit, ActiveEdits(queue), "resolved")
    OBVIOUS
  <2>2. Inv(p, life, req, ed2, inbox, t, worker, client) /\ AnsweredBy(x) # None
    BY <1>1, <1>2, <1>3, <2>1, AckKeeps
  <2>3. PumpAfter(p, req, ed2)
    BY <1>2, <1>3, <2>1, <2>2 DEF Receive, ReceiveAck
  <2>4. Inv(queue', life', req', edit', inbox', t, worker, client)
    BY <2>2, <2>3, PumpAfterKeeps
  <2>5. QED
    BY <1>1, <1>2, <2>4 DEF SupervisorInv
<1>4. CASE x.type # "ack"
  <2>1. PICK r, S : r = x.id /\ S = {r}
    OBVIOUS
  <2>2. PICK p, rq2 :
           /\ p = (IF r = queue.detached THEN [queue EXCEPT !.detached = None]
                   ELSE [queue EXCEPT !.active = None])
           /\ rq2 = OneSettled(req, r, Outcome(x, r))
    OBVIOUS
  <2>3. Settled(req, S, rq2) /\ SameCells(req, rq2) /\ AnsweredBy(x) # None
    BY <1>1, <1>2, <1>4, <2>1, <2>2, ResponseSettles
  <2>4. Inv(p, life, rq2, edit, inbox, t, worker, client)
    BY <1>1, <1>2, <1>4, <2>1, <2>2, <2>3, ResponseKeeps
  <2>5. PumpAfter(p, rq2, edit)
    <3>1. ReceiveResponse(x, r)
      BY <1>2, <1>4, <2>1, <2>3 DEF Receive
    <3>2. QED
      BY <2>2, <3>1, Zenon DEF ReceiveResponse, Settle, OneSettled, Outcome
  <2>6. Inv(queue', life', req', edit', inbox', t, worker, client)
    BY <2>4, <2>5, PumpAfterKeeps
  <2>7. QED
    BY <1>1, <1>2, <2>6 DEF SupervisorInv
<1>5. QED
  BY <1>3, <1>4

-----------------------------------------------------------------------------
(* Requests.                                                               *)

\* A request that occupies no lane gets a new record.
LEMMA RecordReplaced ==
  ASSUME SupervisorInv, ~life.disposed, NEW r \in Reqs, r \notin Running(queue),
         NEW rq2, \A y \in Reqs : y # r => rq2[y] = req[y],
         NEW p, QueueInv(p), p.mutations = queue.mutations, p.active = queue.active,
         p.detached = queue.detached, p.applied = queue.applied, OwnInv(p, rq2, edit)
  PROVE  Inv(p, life, rq2, edit, inbox, outbox, worker, client)
<1>1. /\ Inv(queue, life, req, edit, inbox, outbox, worker, client)
      /\ LanesInv(inbox, outbox, worker) /\ LifeInv(life, queue)
      /\ ConvInv(queue, life, outbox, worker, client)
  BY DEF SupervisorInv, Inv
<1>2. LifeInv(life, p) /\ life.listening
  BY <1>1, UndisposedLife
<1>3. MatchInv(queue, req, inbox, outbox, worker) /\ FreshInv(queue, life, req, outbox, worker)
  BY <1>1, <1>2 DEF Inv
<1>4. Running(p) = Running(queue) /\ \A y \in Running(queue) : y \in Reqs /\ rq2[y] = req[y]
  BY DEF Running
<1>5. \A y : Matches(y, queue, req) => Matches(y, p, rq2) /\ y.id \in Running(queue)
  BY <1>4 DEF Matches
<1>6. MatchInv(p, rq2, inbox, outbox, worker)
  BY <1>3, <1>5 DEF MatchInv
<1>7. FreshInv(p, life, rq2, outbox, worker)
  <2>1. \A i \in DOMAIN outbox : outbox[i].type = "response" => outbox[i].id \in Running(queue)
    BY <1>3, <1>5 DEF MatchInv
  <2>2. (worker.run # None => worker.run.id \in Running(queue)) /\ (worker.ref # None => worker.ref.id \in Running(queue))
    BY <1>3, <1>5 DEF MatchInv
  <2>3. QED
    BY <1>3, <1>4, <2>1, <2>2 DEF FreshInv
<1>8. RevisionInv(p, inbox, outbox, worker) /\ AppliedInv(p, life, edit, outbox, worker)
  BY <1>1 DEF Inv, RevisionInv, AppliedInv
<1>9. ConvInv(p, life, outbox, worker, client)
  BY <1>1, ConvSame DEF Unapplied
<1>10. QED
  BY <1>1, <1>2, <1>6, <1>7, <1>8, <1>9 DEF Inv

\* A read joins the queue.
LEMMA ReadAdded ==
  ASSUME NEW q, QueueInv(q), NEW r \in Reqs, r \notin ToSet(q.reads), NEW p, p = AddRead(q, r)
  PROVE  /\ QueueInv(p) /\ p.mutations = q.mutations /\ p.active = q.active
         /\ p.detached = q.detached /\ p.applied = q.applied
         /\ ToSet(p.reads) = ToSet(q.reads) \cup {r}
<1>1. q \in Queues /\ Target[r] \in Docs /\ Weight[r] \in Nat /\ q.reads \in Seq(Reqs)
  BY ConstantsAssumption DEF QueueInv, Queues
<1>2. PICK s, o, n : /\ s = Append(q.reads, r) /\ o = [q.sources EXCEPT ![Target[r]] = @ + 1]
                     /\ n = q.readBytes + Weight[r]
  OBVIOUS
<1>3. /\ s \in Seq(Reqs) /\ Len(q.reads) \in Nat
      /\ DOMAIN s = DOMAIN q.reads \cup {Len(q.reads) + 1} /\ Len(q.reads) + 1 \notin DOMAIN q.reads
      /\ \A i \in DOMAIN q.reads : s[i] = q.reads[i]
      /\ s[Len(q.reads) + 1] = r
  BY <1>1, <1>2, Appended
<1>4. o \in [Docs -> Int] /\ n \in Int
  BY <1>1, <1>2 DEF Queues
<1>5. p = [q EXCEPT !.reads = s, !.sources = o, !.readBytes = n]
  BY <1>1, <1>2 DEF AddRead, Queues
<1>6. p \in Queues
  BY <1>1, <1>3, <1>4, <1>5 DEF Queues
<1>7. /\ p.reads = s /\ p.mutations = q.mutations /\ p.active = q.active
      /\ p.detached = q.detached /\ p.applied = q.applied
  BY <1>1, <1>5 DEF Queues
<1>8. ToSet(s) = ToSet(q.reads) \cup {r}
  BY <1>3 DEF ToSet
<1>9. \A i, j \in DOMAIN s : s[i] = s[j] => i = j
  <2>1. \A i \in DOMAIN q.reads : q.reads[i] # r
    BY DEF ToSet
  <2>2. \A i, j \in DOMAIN q.reads : q.reads[i] = q.reads[j] => i = j
    BY DEF QueueInv
  <2>3. QED
    BY <1>3, <2>1, <2>2
<1>10. QueueInv(p)
  BY <1>6, <1>7, <1>9 DEF QueueInv
<1>11. QED
  BY <1>7, <1>8, <1>10

\* A request is refused, queued or sent.
LEMMA RequestKeeps ==
  ASSUME SupervisorInv, NEW r \in Reqs, Request(r)
  PROVE  SupervisorInv'
<1>1. /\ Inv(queue, life, req, edit, inbox, outbox, worker, client) /\ QueueInv(queue)
      /\ OwnInv(queue, req, edit) /\ client \in Views /\ queue \in Queues /\ req \in [Reqs -> Records]
  BY DEF SupervisorInv, Inv, QueueInv, OwnInv, ConvInv
<1>2. ~life.disposed /\ req[r].state \in {"idle", "settled"}
      /\ outbox' = outbox /\ worker' = worker /\ client' = client
  BY DEF Request, Available
<1>3. r \notin ToSet(queue.reads) /\ r \notin Running(queue)
  BY <1>1, <1>2 DEF OwnInv
<1>4. PICK new : new = [state |-> "queued", version |-> client.docs[Target[r]],
                        generation |-> queue.generation, cell |-> "active",
                        required |-> 0, outcome |-> "none"]
  OBVIOUS
<1>5. new \in Records /\ new.state = "queued"
  <2>1. client.docs[Target[r]] \in Nat /\ queue.generation \in Nat
    BY <1>1, ConstantsAssumption DEF Views, Queues
  <2>2. QED
    BY <1>4, <2>1 DEF Records, Cells, Codes
<1>6. PICK fresh : fresh = [req EXCEPT ![r] = new]
  OBVIOUS
<1>7. fresh \in [Reqs -> Records] /\ fresh[r] = new /\ \A y \in Reqs : y # r => fresh[y] = req[y]
  BY <1>1, <1>5, <1>6
<1>8. CASE Admits(queue, r)
  <2>1. PICK p : p = AddRead(queue, r)
    OBVIOUS
  <2>2. PumpAfter(p, fresh, edit)
    BY <1>4, <1>6, <1>8, <2>1 DEF Request
  <2>3. /\ QueueInv(p) /\ p.mutations = queue.mutations /\ p.active = queue.active
        /\ p.detached = queue.detached /\ p.applied = queue.applied
        /\ ToSet(p.reads) = ToSet(queue.reads) \cup {r}
    BY <1>1, <1>3, <2>1, ReadAdded
  <2>4. Running(p) = Running(queue) /\ PendingEdits(p) = PendingEdits(queue) /\ ActiveEdits(p) = ActiveEdits(queue)
    BY <2>3 DEF Running, PendingEdits, ActiveEdits
  <2>5. OwnInv(p, fresh, edit)
    <3>1. \A y \in Reqs : fresh[y].state = "queued" <=> y \in ToSet(p.reads)
      BY <1>1, <1>5, <1>7, <2>3 DEF OwnInv
    <3>2. \A y \in Reqs : fresh[y].state = "sent" <=> y \in Running(p)
      BY <1>1, <1>3, <1>5, <1>7, <2>4 DEF OwnInv
    <3>3. QED
      BY <1>1, <1>7, <2>4, <3>1, <3>2 DEF OwnInv
  <2>6. Inv(p, life, fresh, edit, inbox, outbox, worker, client)
    BY <1>2, <1>3, <1>7, <2>3, <2>5, RecordReplaced
  <2>7. Inv(queue', life', req', edit', inbox', outbox, worker, client)
    BY <2>2, <2>6, PumpAfterKeeps
  <2>8. QED
    BY <1>2, <2>7 DEF SupervisorInv
<1>9. CASE ~Admits(queue, r)
  <2>1. PICK S, rq2 : S = {r} /\ rq2 = Settle(fresh, S, LAMBDA y: "queue-overflow")
    OBVIOUS
  <2>2. req' = rq2 /\ UNCHANGED <<queue, life, edit, inbox>>
    BY <1>4, <1>6, <1>9, <2>1 DEF Request
  <2>3. Settled(fresh, S, rq2)
    <3>1. PICK out : out = [y \in Reqs |-> "queue-overflow"]
      OBVIOUS
    <3>2. out \in [Reqs -> Codes \cup {"ok"}]
      BY <3>1 DEF Codes
    <3>3. rq2 = [y \in Reqs |-> IF y \in S THEN [fresh[y] EXCEPT !.state = "settled", !.outcome = out[y]]
                                 ELSE fresh[y]]
      BY <2>1, <3>1 DEF Settle
    <3>4. QED
      BY <1>7, <3>2, <3>3, SettledRecords
  <2>4. \A y \in Reqs : y # r => rq2[y] = req[y]
    BY <1>7, <2>1 DEF Settle
  <2>5. rq2 \in [Reqs -> Records] /\ rq2[r].state = "settled"
    BY <2>1, <2>3 DEF Settled
  <2>6. OwnInv(queue, rq2, edit)
    <3>1. \A y \in Reqs : rq2[y].state = "queued" <=> y \in ToSet(queue.reads)
      BY <1>1, <1>3, <2>4, <2>5 DEF OwnInv
    <3>2. \A y \in Reqs : rq2[y].state = "sent" <=> y \in Running(queue)
      BY <1>1, <1>3, <2>4, <2>5 DEF OwnInv
    <3>3. QED
      BY <1>1, <2>5, <3>1, <3>2 DEF OwnInv
  <2>7. Inv(queue, life, rq2, edit, inbox, outbox, worker, client)
    BY <1>1, <1>2, <1>3, <2>4, <2>6, RecordReplaced
  <2>8. QED
    BY <1>2, <2>2, <2>7 DEF SupervisorInv
<1>10. QED
  BY <1>8, <1>9

-----------------------------------------------------------------------------
(* Mutations: numbering, coalescing and what the editor becomes.            *)

\* The next edit is the first one without a promise.
LEMMA NextEditIs ==
  ASSUME OwnInv(queue, req, edit), NEW n \in EditIds, n = NextEdit
  PROVE  \A e \in EditIds : edit[e] # "none" <=> e < n
<1>1. PICK k \in 0 .. MaxEdits : \A e \in EditIds : edit[e] # "none" <=> e <= k
  BY DEF OwnInv
<1>2. MaxEdits \in Nat
  BY ConstantsAssumption
<1>3. {e \in EditIds : edit[e] # "none"} = 1 .. k
  BY <1>1, <1>2 DEF EditIds
<1>4. Cardinality(1 .. k) = k
  <2>1. 1 \in Int /\ k \in Int
    BY <1>1, <1>2
  <2>2. Cardinality(1 .. k) = IF 1 > k THEN 0 ELSE k - 1 + 1
    BY <2>1, FS_Interval
  <2>3. QED
    BY <1>1, <1>2, <2>2
<1>5. n = k + 1
  BY <1>3, <1>4 DEF NextEdit
<1>6. QED
  BY <1>1, <1>2, <1>5 DEF EditIds

\* The record that absorbs m: of the same document, or files, with nothing about it behind.
CanAbsorb(s, m, x) ==
    /\ x \in DOMAIN s /\ s[x].doc = m.doc /\ (m.kind = "files" <=> s[x].kind = "files")
    /\ m.kind = "files" => \A i \in DOMAIN s : i <= x
    /\ m.kind # "files" => /\ m.kind # "close" /\ s[x].kind # "close"
                           /\ \A i \in DOMAIN s : i > x => s[i].doc # m.doc

\* findCoalescingMutation returns 0 or the index of a record that can absorb m.
LEMMA CoalescingSpot ==
  ASSUME NEW s \in Seq(Mutations), \A i \in DOMAIN s : Formed(s[i]), NEW m \in Mutations, Formed(m),
         NEW x, x = CoalescingIndex(s, m)
  PROVE  x = 0 \/ CanAbsorb(s, m, x)
<1>1. Len(s) \in Nat /\ DOMAIN s = 1 .. Len(s)
  BY LenProperties
<1>2. CASE m.kind = "files"
  <2>1. x = IF s # <<>> /\ Last(s).kind = "files" THEN Len(s) ELSE 0
    BY <1>2 DEF CoalescingIndex
  <2>2. ASSUME s # <<>>, Last(s).kind = "files", x = Len(s) PROVE CanAbsorb(s, m, x)
    <3>1. Len(s) # 0
      BY <2>2, EmptySeq
    <3>2. x \in DOMAIN s /\ s[x].kind = "files" /\ \A i \in DOMAIN s : i <= x
      BY <1>1, <2>2, <3>1 DEF Last
    <3>3. s[x].doc = None /\ m.doc = None
      BY <1>2, <3>2 DEF Formed
    <3>4. QED
      BY <1>2, <3>2, <3>3 DEF CanAbsorb
  <2>3. QED
    BY <2>1, <2>2
<1>3. CASE m.kind # "files"
  <2>1. PICK stops, stop : /\ stops = {i \in DOMAIN s : s[i].kind = "files" \/ s[i].doc = m.doc}
                           /\ stop = Max(stops \cup {0})
    OBVIOUS
  <2>2. x = IF stop = 0 \/ s[stop].kind \in {"files", "close"} \/ m.kind = "close" THEN 0 ELSE stop
    BY <1>3, <2>1 DEF CoalescingIndex
  <2>3. stop \in stops \cup {0} /\ \A i \in stops \cup {0} : i <= stop
    <3>1. PICK T : T = stops \cup {0}
      OBVIOUS
    <3>2. T \in SUBSET Nat /\ T # {} /\ \A i \in T : i <= Len(s)
      BY <1>1, <2>1, <3>1
    <3>3. Max(T) \in T /\ \A i \in T : i <= Max(T)
      BY <1>1, <3>2, MaxIn
    <3>4. QED
      BY <2>1, <3>1, <3>3
  <2>4. ASSUME stop # 0, s[stop].kind \notin {"files", "close"}, m.kind # "close", x = stop
        PROVE  CanAbsorb(s, m, x)
    <3>1. x \in DOMAIN s /\ s[x].doc = m.doc
      BY <2>1, <2>3, <2>4
    <3>2. ASSUME NEW i \in DOMAIN s, i > x PROVE s[i].doc # m.doc
      <4>1. i \notin stops
        BY <1>1, <2>3, <2>4, <3>1, <3>2
      <4>2. QED
        BY <2>1, <4>1
    <3>3. QED
      BY <1>3, <2>4, <3>1, <3>2 DEF CanAbsorb
  <2>5. QED
    BY <2>2, <2>4
<1>4. QED
  BY <1>2, <1>3

\* The changes g of two batches: a deletion in the later one is the last word.
Merges(a, b, g) ==
    /\ g \in Changes /\ DOMAIN g = DOMAIN a \cup DOMAIN b
    /\ \A f \in DOMAIN b : b[f] = "deleted" => g[f] = "deleted"
    /\ \A f \in DOMAIN a : f \notin DOMAIN b => g[f] = a[f]

\* Merging keeps the kinds that matter.
LEMMA MergedChanges ==
  ASSUME NEW a \in Changes, NEW b \in Changes
  PROVE  Merges(a, b, MergeChanges(a, b))
<1>0. PICK g : g = MergeChanges(a, b)
  OBVIOUS
<1>1. PICK A \in SUBSET Files : a \in [A -> ChangeKinds]
  BY DEF Changes
<1>2. PICK B \in SUBSET Files : b \in [B -> ChangeKinds]
  BY DEF Changes
<1>3. DOMAIN a = A /\ DOMAIN b = B
  BY <1>1, <1>2
<1>4. g = [f \in A \cup B |-> IF f \notin B THEN a[f] ELSE IF f \notin A THEN b[f] ELSE MergeChangeKind(a[f], b[f])]
  BY <1>0, <1>3 DEF MergeChanges
<1>5. ASSUME NEW f \in A \cup B PROVE g[f] \in ChangeKinds
  BY <1>1, <1>2, <1>4 DEF MergeChangeKind, ChangeKinds
<1>6. g \in [A \cup B -> ChangeKinds] /\ A \cup B \in SUBSET Files
  BY <1>4, <1>5
<1>7. g \in Changes
  BY <1>6 DEF Changes
<1>8. \A f \in B : b[f] = "deleted" => g[f] = "deleted"
  BY <1>4 DEF MergeChangeKind
<1>9. DOMAIN g = A \cup B /\ \A f \in A : f \notin B => g[f] = a[f]
  BY <1>4
<1>10. Merges(a, b, g)
  BY <1>3, <1>7, <1>8, <1>9 DEF Merges
<1>11. QED
  BY <1>0, <1>10

\* What the record new tells that s[pos] (if there is one) and m told.
Absorbs(new, m, old, n) ==
    /\ new \in Mutations /\ Formed(new) /\ new.doc = m.doc
    /\ Text(new) = (IF m.kind = "close" THEN 0 ELSE n)
    /\ new.edits = old.edits \cup {n}
    /\ DOMAIN new.changes = DOMAIN old.changes \cup DOMAIN m.changes
    /\ \A f \in DOMAIN m.changes : m.changes[f] = "deleted" => new.changes[f] = "deleted"
    /\ \A f \in DOMAIN old.changes : f \notin DOMAIN m.changes => new.changes[f] = old.changes[f]
    /\ new.dirty <=> (old.dirty \/ m.dirty)

\* The newest of the merged edits is the one that is added.
LEMMA NewestText ==
  ASSUME NEW E \in SUBSET EditIds, NEW n \in EditIds, \A e \in E : e < n, NEW m, m.edits = E \cup {n}
  PROVE  Version(m) = n /\ \E e \in m.edits : \A x \in m.edits : x <= e
<1>1. PICK T : T = E \cup {n}
  OBVIOUS
<1>2. T \in SUBSET Int /\ n \in T /\ \A x \in T : x <= n
  <2>1. EditIds \subseteq Int
    BY ConstantsAssumption DEF EditIds
  <2>2. QED
    BY <1>1, <2>1
<1>3. Max(T) = n
  BY <1>2, MaxOf
<1>4. QED
  BY <1>1, <1>2, <1>3 DEF Version

\* mergeDocumentMutations and mergeWorkspaceInvalidations keep what both records tell.
LEMMA Merged ==
  ASSUME NEW p \in Mutations, Formed(p), NEW m \in Mutations, Formed(m), p.doc = m.doc,
         m.kind = "files" <=> p.kind = "files", m.kind # "close",
         NEW n \in EditIds, m.edits = {n}, \A e \in p.edits : e < n,
         NEW new, new = MergeMutations(p, m)
  PROVE  Absorbs(new, m, p, n)
<1>1. p.edits \in SUBSET EditIds /\ p.changes \in Changes /\ m.changes \in Changes
      /\ m.kind \in {"open", "change", "close", "files"}
  BY DEF Mutations
<1>2. PICK ee \in SUBSET EditIds : ee = p.edits \cup m.edits
  BY <1>1
<1>3. CASE m.kind = "files"
  <2>1. PICK g, dd : g = MergeChanges(p.changes, m.changes) /\ dd = (p.dirty \/ m.dirty)
    OBVIOUS
  <2>2. /\ g \in Changes /\ DOMAIN g = DOMAIN p.changes \cup DOMAIN m.changes
        /\ \A f \in DOMAIN m.changes : m.changes[f] = "deleted" => g[f] = "deleted"
        /\ \A f \in DOMAIN p.changes : f \notin DOMAIN m.changes => g[f] = p.changes[f]
    <3>1. Merges(p.changes, m.changes, MergeChanges(p.changes, m.changes))
      BY <1>1, MergedChanges
    <3>2. QED
      BY <2>1, <3>1 DEF Merges
  <2>3. dd \in BOOLEAN
    BY <2>1 DEF Mutations
  <2>4. new = [m EXCEPT !.changes = g, !.dirty = dd, !.edits = ee]
    BY <1>2, <1>3, <2>1 DEF MergeMutations
  <2>5. new \in Mutations
    BY <1>2, <2>2, <2>3, <2>4 DEF Mutations
  <2>6. new.kind = "files" /\ new.doc = m.doc /\ new.changes = g /\ new.edits = p.edits \cup {n}
    BY <1>2, <1>3, <2>4 DEF Mutations
  <2>7. new.dirty = dd
    BY <2>4 DEF Mutations
  <2>8. m.doc = None
    BY <1>3 DEF Formed
  <2>9. Version(new) = n /\ \E e \in new.edits : \A x \in new.edits : x <= e
    BY <1>1, <2>6, NewestText
  <2>10. Formed(new)
    BY <2>6, <2>8, <2>9 DEF Formed
  <2>11. Text(new) = n
    BY <2>6, <2>9 DEF Text
  <2>12. new.dirty <=> (p.dirty \/ m.dirty)
    BY <2>1, <2>7
  <2>13. QED
    BY <1>3, <2>2, <2>5, <2>6, <2>10, <2>11, <2>12 DEF Absorbs
<1>4. CASE m.kind # "files"
  <2>1. PICK kk : kk = IF p.kind = "open" /\ m.kind = "change" THEN "open" ELSE m.kind
    OBVIOUS
  <2>2. kk \in {"open", "change"}
    BY <1>1, <1>4, <2>1
  <2>3. new = [m EXCEPT !.kind = kk, !.edits = ee]
    BY <1>2, <1>4, <2>1 DEF MergeMutations
  <2>4. new \in Mutations
    BY <1>2, <2>2, <2>3 DEF Mutations
  <2>5. new.kind = kk /\ new.doc = m.doc /\ new.changes = m.changes /\ new.edits = p.edits \cup {n}
    BY <1>2, <2>3 DEF Mutations
  <2>6. new.dirty = m.dirty
    BY <2>3 DEF Mutations
  <2>7. m.changes = <<>> /\ p.changes = <<>> /\ ~m.dirty /\ ~p.dirty /\ m.doc \in Docs
    BY <1>4 DEF Formed
  <2>8. Version(new) = n /\ \E e \in new.edits : \A x \in new.edits : x <= e
    BY <1>1, <2>5, NewestText
  <2>9. Formed(new)
    BY <2>2, <2>5, <2>6, <2>7, <2>8 DEF Formed
  <2>10. Text(new) = n
    BY <2>2, <2>5, <2>8 DEF Text
  <2>11. DOMAIN m.changes = {} /\ DOMAIN p.changes = {}
    BY <2>7
  <2>12. new.dirty <=> (p.dirty \/ m.dirty)
    BY <2>6, <2>7
  <2>13. QED
    BY <2>4, <2>5, <2>9, <2>10, <2>11, <2>12 DEF Absorbs
<1>5. QED
  BY <1>3, <1>4

\* t is the queue s after m joined it at pos: a record of its own behind the
\* others, or absorbed by a record with nothing about the same behind it.
JoinedAt(s, m, n, pos, t) ==
    /\ t \in Seq(Mutations) /\ pos \in Int /\ DOMAIN t = DOMAIN s \cup {pos}
    /\ \A i \in DOMAIN s : i \in Int /\ (i # pos => t[i] = s[i])
    /\ Formed(t[pos]) /\ t[pos].doc = m.doc
    /\ Text(t[pos]) = (IF m.kind = "close" THEN 0 ELSE n)
    /\ \A e : e \in t[pos].edits <=> e = n \/ (pos \in DOMAIN s /\ e \in s[pos].edits)
    /\ \A f : f \in DOMAIN t[pos].changes <=>
                 f \in DOMAIN m.changes \/ (pos \in DOMAIN s /\ f \in DOMAIN s[pos].changes)
    /\ \A f \in DOMAIN m.changes : m.changes[f] = "deleted" => t[pos].changes[f] = "deleted"
    /\ \A f \in DOMAIN t[pos].changes : f \notin DOMAIN m.changes => t[pos].changes[f] = s[pos].changes[f]
    /\ t[pos].dirty <=> m.dirty \/ (pos \in DOMAIN s /\ s[pos].dirty)
    /\ pos \in DOMAIN s => s[pos].doc = m.doc
    /\ m.kind = "files" => \A i \in DOMAIN s : i <= pos
    /\ m.kind # "files" => \A i \in DOMAIN s : i > pos => s[i].doc # m.doc

\* mutate joins the new record to the queue in one of the two ways.
LEMMA Joins ==
  ASSUME NEW s \in Seq(Mutations), \A i \in DOMAIN s : Formed(s[i]), NEW m \in Mutations, Formed(m),
         NEW n \in EditIds, m.edits = {n}, \A i \in DOMAIN s : \A e \in s[i].edits : e < n,
         NEW x, x = CoalescingIndex(s, m), NEW next, next = IF x = 0 THEN m ELSE MergeMutations(s[x], m),
         NEW t, t = IF x = 0 THEN Append(s, next) ELSE [s EXCEPT ![x] = next]
  PROVE  \E pos : JoinedAt(s, m, n, pos, t)
<1>1. Len(s) \in Nat /\ DOMAIN s = 1 .. Len(s) /\ \A i \in DOMAIN s : i \in Int
  BY LenProperties
<1>2. x = 0 \/ CanAbsorb(s, m, x)
  BY CoalescingSpot
<1>3. CASE x = 0
  <2>1. PICK pos : pos = Len(s) + 1
    OBVIOUS
  <2>2. t = Append(s, m)
    BY <1>3
  <2>3. /\ t \in Seq(Mutations) /\ DOMAIN t = DOMAIN s \cup {pos} /\ pos \notin DOMAIN s
        /\ \A i \in DOMAIN s : t[i] = s[i]
        /\ t[pos] = m
    BY <2>1, <2>2, Appended
  <2>4. pos \in Int /\ \A i \in DOMAIN s : i < pos
    BY <1>1, <2>1
  <2>5. Text(m) = (IF m.kind = "close" THEN 0 ELSE n)
    <3>1. PICK E \in SUBSET EditIds : E = {}
      OBVIOUS
    <3>2. m.edits = E \cup {n} /\ \A e \in E : e < n
      BY <3>1
    <3>3. Version(m) = n
      BY <3>2, NewestText
    <3>4. QED
      BY <3>3 DEF Text
  <2>6. JoinedAt(s, m, n, pos, t)
    BY <1>1, <2>3, <2>4, <2>5 DEF JoinedAt
  <2>7. QED
    BY <2>6
<1>4. CASE x # 0
  <2>1. CanAbsorb(s, m, x)
    BY <1>2, <1>4
  <2>2. x \in DOMAIN s /\ s[x].doc = m.doc /\ (m.kind = "files" <=> s[x].kind = "files") /\ m.kind # "close"
    BY <2>1 DEF CanAbsorb
  <2>3. PICK p \in Mutations : p = s[x]
    BY <2>2, ElementOfSeq
  <2>4. Formed(p) /\ p.doc = m.doc /\ (m.kind = "files" <=> p.kind = "files") /\ \A e \in p.edits : e < n
    BY <2>2, <2>3
  <2>5. next = MergeMutations(p, m)
    BY <1>4, <2>3
  <2>6. Absorbs(next, m, p, n)
    BY <2>2, <2>4, <2>5, Merged
  <2>7. next \in Mutations
    BY <2>6 DEF Absorbs
  <2>8. t = [s EXCEPT ![x] = next]
    BY <1>4
  <2>9. t \in Seq(Mutations) /\ DOMAIN t = DOMAIN s /\ t[x] = next /\ \A i \in DOMAIN s : i # x => t[i] = s[i]
    <3>1. t \in Seq(Mutations)
      BY <2>2, <2>7, <2>8, ExceptSeq
    <3>2. QED
      BY <2>2, <2>8, <3>1
  <2>10. JoinedAt(s, m, n, x, t)
    <3>1. /\ \A e : e \in next.edits <=> e = n \/ e \in p.edits
          /\ \A f : f \in DOMAIN next.changes <=> f \in DOMAIN m.changes \/ f \in DOMAIN p.changes
          /\ \A f \in DOMAIN m.changes : m.changes[f] = "deleted" => next.changes[f] = "deleted"
          /\ \A f \in DOMAIN next.changes : f \notin DOMAIN m.changes => next.changes[f] = p.changes[f]
          /\ Formed(next) /\ next.doc = m.doc /\ Text(next) = (IF m.kind = "close" THEN 0 ELSE n)
      BY <2>6 DEF Absorbs
    <3>2. next.dirty <=> m.dirty \/ p.dirty
      BY <2>6 DEF Absorbs
    <3>3. /\ m.kind = "files" => \A i \in DOMAIN s : i <= x
          /\ m.kind # "files" => \A i \in DOMAIN s : i > x => s[i].doc # m.doc
      BY <2>1 DEF CanAbsorb
    <3>4. t[x].dirty <=> m.dirty \/ (x \in DOMAIN s /\ s[x].dirty)
      BY <2>2, <2>3, <2>9, <3>2
    <3>5. QED
      BY <1>1, <2>2, <2>3, <2>9, <3>1, <3>3, <3>4 DEF JoinedAt
  <2>11. QED
    BY <2>10
<1>5. QED
  BY <1>3, <1>4

\* What the editor has after the edit that m reports.
Edited(c, m, n, c2) ==
    /\ c2 \in Views
    /\ \A d \in Docs : c2.docs[d] = IF d = m.doc THEN IF m.kind = "close" THEN 0 ELSE n ELSE c.docs[d]
    /\ \A f \in Files : c2.files[f] = IF f \in DOMAIN m.changes THEN m.changes[f] # "deleted" ELSE c.files[f]
    /\ c2.dirty <=> (c.dirty \/ m.dirty)

\* The worker stays behind the editor by what waits.
LEMMA JoinedConv ==
  ASSUME NEW q, NEW l, NEW ob, NEW w, NEW c, ConvInv(q, l, ob, w, c), ~l.disposed,
         NEW m \in Mutations, Formed(m), NEW n, NEW pos, NEW q2, JoinedAt(q.mutations, m, n, pos, q2.mutations),
         q2.active = q.active, NEW c2, Edited(c, m, n, c2)
  PROVE  ConvInv(q2, l, ob, w, c2)
<1>1. PICK s, t, a : s = q.mutations /\ t = q2.mutations /\ a = q.active
  OBVIOUS
<1>2. JoinedAt(s, m, n, pos, t) /\ pos \in Int /\ DOMAIN t = DOMAIN s \cup {pos}
      /\ (\A i \in DOMAIN s : i \in Int /\ (i # pos => t[i] = s[i]))
  BY <1>1 DEF JoinedAt
<1>3. Unapplied(q2, ob) <=> Unapplied(q, ob)
  BY DEF Unapplied
<1>4. ASSUME NEW d \in Docs PROVE DocConv(q2, ob, w, c2, d)
  <2>1. DocConv(q, ob, w, c, d)
    BY DEF ConvInv
  <2>2. PICK A, B : A = About(q, d) /\ B = About(q2, d)
    OBVIOUS
  <2>3. A = {i \in DOMAIN s : s[i].doc = d} /\ B = {i \in DOMAIN t : t[i].doc = d}
    BY <1>1, <2>2 DEF About
  <2>4. t[pos].doc = m.doc /\ (pos \in DOMAIN s => s[pos].doc = m.doc)
        /\ Text(t[pos]) = (IF m.kind = "close" THEN 0 ELSE n)
    BY <1>2 DEF JoinedAt
  <2>5. CASE d = m.doc
    <3>1. m.kind # "files"
      BY <2>5, NoneApart DEF Formed
    <3>2. \A i \in DOMAIN s : i > pos => s[i].doc # d
      BY <1>2, <2>5, <3>1 DEF JoinedAt
    <3>3. pos \in B
      BY <1>2, <2>3, <2>4, <2>5
    <3>4. ASSUME NEW i \in DOMAIN t, LastIn(i, B) PROVE i = pos
      <4>1. i \in B /\ pos <= i
        BY <3>3, <3>4 DEF LastIn
      <4>2. i \in Int
        BY <1>2, <3>4
      <4>3. CASE i # pos
        <5>1. i \in DOMAIN s /\ s[i].doc = d /\ i > pos
          BY <1>2, <2>3, <4>1, <4>2, <4>3
        <5>2. QED
          BY <3>2, <5>1
      <4>4. QED
        BY <4>3
    <3>5. c2.docs[d] = Text(t[pos])
      BY <2>4, <2>5 DEF Edited
    <3>6. B # {} /\ \A i \in DOMAIN t : LastIn(i, B) => c2.docs[d] = Text(t[i])
      BY <3>3, <3>4, <3>5
    <3>7. QED
      BY <1>1, <2>2, <3>6 DEF DocConv
  <2>6. CASE d # m.doc
    <3>1. A = B /\ \A i \in A : t[i] = s[i]
      BY <1>2, <2>3, <2>4, <2>6
    <3>2. c2.docs[d] = c.docs[d]
      BY <2>6 DEF Edited
    <3>3. \A i \in DOMAIN t : LastIn(i, B) => c2.docs[d] = Text(t[i])
      <4>1. \A i \in DOMAIN s : LastIn(i, A) => c.docs[d] = Text(s[i])
        BY <1>1, <2>1, <2>2 DEF DocConv
      <4>2. ASSUME NEW i, LastIn(i, B) PROVE i \in A /\ LastIn(i, A) /\ i \in DOMAIN s /\ t[i] = s[i]
        BY <2>3, <3>1, <4>2 DEF LastIn
      <4>3. QED
        BY <3>2, <4>1, <4>2
    <3>4. B = {} => c2.docs[d] = IF Unapplied(q2, ob) /\ q2.active.doc = d THEN Text(q2.active) ELSE w.docs[d]
      BY <1>3, <2>1, <2>2, <3>1, <3>2 DEF DocConv
    <3>5. QED
      BY <1>1, <2>2, <3>3, <3>4 DEF DocConv
  <2>7. QED
    BY <2>5, <2>6
<1>5. ASSUME NEW f \in Files PROVE FileConv(q2, ob, w, c2, f)
  <2>1. FileConv(q, ob, w, c, f)
    BY DEF ConvInv
  <2>2. PICK A, B : A = Mentions(q, f) /\ B = Mentions(q2, f)
    OBVIOUS
  <2>3. A = {i \in DOMAIN s : f \in DOMAIN s[i].changes} /\ B = {i \in DOMAIN t : f \in DOMAIN t[i].changes}
    BY <1>1, <2>2 DEF Mentions
  <2>4. PICK new : new = t[pos]
    OBVIOUS
  <2>5. /\ f \in DOMAIN new.changes <=> f \in DOMAIN m.changes \/ (pos \in DOMAIN s /\ f \in DOMAIN s[pos].changes)
        /\ f \in DOMAIN m.changes /\ m.changes[f] = "deleted" => new.changes[f] = "deleted"
        /\ f \in DOMAIN new.changes /\ f \notin DOMAIN m.changes => new.changes[f] = s[pos].changes[f]
    BY <1>2, <2>4 DEF JoinedAt
  <2>6. CASE f \in DOMAIN m.changes
    <3>1. m.kind = "files"
      BY <2>6 DEF Formed
    <3>2. \A i \in DOMAIN s : i <= pos
      BY <1>2, <3>1 DEF JoinedAt
    <3>3. pos \in B
      BY <1>2, <2>3, <2>4, <2>5, <2>6
    <3>4. ASSUME NEW i, LastIn(i, B) PROVE i = pos
      <4>1. i \in B /\ pos <= i
        BY <3>3, <3>4 DEF LastIn
      <4>2. i \in Int /\ i <= pos
        BY <1>2, <2>3, <3>2, <4>1
      <4>3. QED
        BY <1>2, <4>1, <4>2
    <3>5. ~c2.files[f] => new.changes[f] = "deleted"
      BY <2>5, <2>6 DEF Edited
    <3>6. QED
      BY <1>1, <2>2, <2>4, <3>3, <3>4, <3>5 DEF FileConv
  <2>7. CASE f \notin DOMAIN m.changes
    <3>1. A = B
      BY <1>2, <2>3, <2>4, <2>5, <2>7
    <3>2. \A i \in A : i \in DOMAIN s /\ t[i].changes[f] = s[i].changes[f]
      BY <1>2, <2>3, <2>4, <2>5, <2>7
    <3>3. c2.files[f] = c.files[f]
      BY <2>7 DEF Edited
    <3>4. ASSUME ~c.files[f], NEW i \in DOMAIN t, LastIn(i, B) PROVE t[i].changes[f] = "deleted"
      <4>1. i \in A /\ LastIn(i, A)
        BY <3>1, <3>4 DEF LastIn
      <4>2. s[i].changes[f] = "deleted"
        BY <1>1, <2>1, <2>2, <3>2, <3>4, <4>1 DEF FileConv
      <4>3. QED
        BY <3>2, <4>1, <4>2
    <3>5. QED
      BY <1>1, <1>3, <2>1, <2>2, <3>1, <3>3, <3>4 DEF FileConv
  <2>8. QED
    BY <2>6, <2>7
<1>6. DirtyConv(q2, ob, w, c2)
  <2>1. c2.dirty <=> (c.dirty \/ m.dirty)
    BY DEF Edited
  <2>2. t[pos].dirty <=> m.dirty \/ (pos \in DOMAIN s /\ s[pos].dirty)
    BY <1>2 DEF JoinedAt
  <2>3. (\E i \in DOMAIN t : t[i].dirty) <=> (m.dirty \/ \E i \in DOMAIN s : s[i].dirty)
    <3>1. ASSUME NEW i \in DOMAIN t, t[i].dirty PROVE m.dirty \/ \E j \in DOMAIN s : s[j].dirty
      <4>1. CASE i = pos
        BY <2>2, <3>1, <4>1
      <4>2. CASE i # pos
        BY <1>2, <3>1, <4>2
      <4>3. QED
        BY <4>1, <4>2
    <3>2. ASSUME m.dirty PROVE \E i \in DOMAIN t : t[i].dirty
      BY <1>2, <2>2, <3>2
    <3>3. ASSUME NEW j \in DOMAIN s, s[j].dirty PROVE \E i \in DOMAIN t : t[i].dirty
      <4>1. j \in DOMAIN t
        BY <1>2
      <4>2. CASE j = pos
        BY <2>2, <3>3, <4>1, <4>2
      <4>3. CASE j # pos
        BY <1>2, <3>3, <4>1, <4>3
      <4>4. QED
        BY <4>2, <4>3
    <3>4. QED
      BY <3>1, <3>2, <3>3
  <2>4. c.dirty <=> w.dirty \/ (Unapplied(q, ob) /\ q.active.dirty) \/ \E i \in DOMAIN s : s[i].dirty
    BY <1>1 DEF ConvInv, DirtyConv
  <2>5. c2.dirty <=> w.dirty \/ (Unapplied(q2, ob) /\ q2.active.dirty) \/ \E i \in DOMAIN t : t[i].dirty
    BY <1>3, <2>1, <2>3, <2>4
  <2>6. QED
    BY <1>1, <2>5 DEF DirtyConv
<1>7. c2 \in Views
  BY DEF Edited
<1>8. QED
  BY <1>4, <1>5, <1>6, <1>7 DEF ConvInv

\* p is q with the edit n waiting and no read.
Holds(q, p, n) ==
    /\ QueueInv(p) /\ Running(p) = Running(q) /\ ToSet(p.reads) = {}
    /\ PendingEdits(p) \cup ActiveEdits(p) = PendingEdits(q) \cup ActiveEdits(q) \cup {n}

\* The queue that m has joined, with every waiting read drained.
LEMMA JoinedQueue ==
  ASSUME NEW q, QueueInv(q), NEW m, NEW n, NEW pos, NEW p \in Queues,
         JoinedAt(q.mutations, m, n, pos, p.mutations), p.reads = <<>>,
         p.active = q.active, p.detached = q.detached,
         n \notin PendingEdits(q), n \notin ActiveEdits(q)
  PROVE  Holds(q, p, n)
<1>1. PICK s, t : s = q.mutations /\ t = p.mutations
  OBVIOUS
<1>2. JoinedAt(s, m, n, pos, t) /\ DOMAIN t = DOMAIN s \cup {pos} /\ Formed(t[pos])
      /\ (\A i \in DOMAIN s : i # pos => t[i] = s[i])
      /\ \A e : e \in t[pos].edits <=> e = n \/ (pos \in DOMAIN s /\ e \in s[pos].edits)
  BY <1>1 DEF JoinedAt
<1>3. PendingEdits(q) = UNION {s[i].edits : i \in DOMAIN s} /\ PendingEdits(p) = UNION {t[i].edits : i \in DOMAIN t}
  BY <1>1 DEF PendingEdits, ToSet
<1>4. \A i \in DOMAIN s : n \notin s[i].edits
  BY <1>3
<1>5. \A i \in DOMAIN t : Formed(t[i])
  BY <1>1, <1>2 DEF QueueInv
<1>6. \A i, j \in DOMAIN t : i # j => t[i].edits \cap t[j].edits = {}
  <2>1. \A i, j \in DOMAIN s : i # j => s[i].edits \cap s[j].edits = {}
    BY <1>1 DEF QueueInv
  <2>2. ASSUME NEW i \in DOMAIN t, NEW j \in DOMAIN t, i # j, NEW e \in t[i].edits, e \in t[j].edits PROVE FALSE
    <3>1. CASE i # pos /\ j # pos
      BY <1>2, <2>1, <2>2, <3>1
    <3>2. CASE i = pos
      <4>1. j \in DOMAIN s /\ e \in s[j].edits
        BY <1>2, <2>2, <3>2
      <4>2. e = n \/ (pos \in DOMAIN s /\ e \in s[pos].edits)
        BY <1>2, <2>2, <3>2
      <4>3. QED
        BY <1>4, <2>1, <2>2, <3>2, <4>1, <4>2
    <3>3. CASE j = pos
      <4>1. i \in DOMAIN s /\ e \in s[i].edits
        BY <1>2, <2>2, <3>3
      <4>2. e = n \/ (pos \in DOMAIN s /\ e \in s[pos].edits)
        BY <1>2, <2>2, <3>3
      <4>3. QED
        BY <1>4, <2>1, <2>2, <3>3, <4>1, <4>2
    <3>4. QED
      BY <3>1, <3>2, <3>3
  <2>3. QED
    BY <2>2
<1>7. IsMutation(p.active) => Formed(p.active) /\ \A i \in DOMAIN t : p.active.edits \cap t[i].edits = {}
  <2>1. ASSUME IsMutation(q.active), NEW i \in DOMAIN t, NEW e \in q.active.edits, e \in t[i].edits PROVE FALSE
    <3>1. e # n
      BY <2>1 DEF ActiveEdits
    <3>2. i \in DOMAIN s /\ e \in s[i].edits
      BY <1>2, <2>1, <3>1
    <3>3. QED
      BY <1>1, <2>1, <3>2 DEF QueueInv
  <2>2. IsMutation(q.active) => Formed(q.active)
    BY DEF QueueInv
  <2>3. QED
    BY <2>1, <2>2
<1>8. \A i, j \in DOMAIN p.reads : p.reads[i] = p.reads[j] => i = j
  BY Singletons
<1>9. QueueInv(p)
  <2>1. p.active \in Reqs => Method[p.active] # "references"
    BY DEF QueueInv
  <2>2. p.detached # None => Method[p.detached] = "references"
    BY DEF QueueInv
  <2>3. QED
    BY <1>1, <1>5, <1>6, <1>7, <1>8, <2>1, <2>2 DEF QueueInv
<1>10. Running(p) = Running(q) /\ ActiveEdits(p) = ActiveEdits(q)
  BY DEF Running, ActiveEdits
<1>11. ToSet(p.reads) = {}
  BY Singletons
<1>12. PendingEdits(p) = PendingEdits(q) \cup {n}
  <2>1. ASSUME NEW e, e \in PendingEdits(p) PROVE e \in PendingEdits(q) \cup {n}
    BY <1>2, <1>3, <2>1
  <2>2. ASSUME NEW i \in DOMAIN s, NEW e \in s[i].edits PROVE e \in PendingEdits(p)
    <3>1. i \in DOMAIN t /\ e \in t[i].edits
      BY <1>2, <2>2
    <3>2. QED
      BY <1>3, <3>1
  <2>3. n \in PendingEdits(p)
    BY <1>2, <1>3
  <2>4. QED
    BY <1>3, <2>1, <2>2, <2>3
<1>13. QED
  BY <1>9, <1>10, <1>11, <1>12 DEF Holds

\* The state in which an accepted mutation has revoked what was admitted before it.
LEMMA JoinedKeeps ==
  ASSUME Inv(queue, life, req, edit, inbox, outbox, worker, client), ~life.disposed,
         NEW m \in Mutations, Formed(m), NEW n \in EditIds, \A e \in EditIds : edit[e] # "none" <=> e < n,
         NEW p \in Queues, NEW pos, JoinedAt(queue.mutations, m, n, pos, p.mutations),
         p.reads = <<>>, p.active = queue.active, p.detached = queue.detached, p.applied = queue.applied,
         NEW rq2, Settled(req, ToSet(queue.reads), rq2),
         \A r \in Reqs : rq2[r].cell = "active" => req[r].cell = "active" /\ r \notin Running(queue),
         NEW ed2, ed2 = [edit EXCEPT ![n] = "pending"],
         NEW c2, Edited(client, m, n, c2)
  PROVE  Inv(p, life, rq2, ed2, inbox, outbox, worker, c2)
<1>1. /\ QueueInv(queue) /\ OwnInv(queue, req, edit) /\ LifeInv(life, queue) /\ LanesInv(inbox, outbox, worker)
      /\ RevisionInv(queue, inbox, outbox, worker) /\ AppliedInv(queue, life, edit, outbox, worker)
      /\ FreshInv(queue, life, req, outbox, worker) /\ ConvInv(queue, life, outbox, worker, client)
  BY DEF Inv
<1>2. EditIds = 1 .. MaxEdits /\ MaxEdits \in Nat /\ n \in Int
  BY ConstantsAssumption DEF EditIds
<1>3. edit \in [EditIds -> EditStates] /\ edit[n] = "none"
      /\ {e \in EditIds : edit[e] = "pending"} = PendingEdits(queue) \cup ActiveEdits(queue)
  BY <1>1, <1>2 DEF OwnInv
<1>4. n \notin PendingEdits(queue) /\ n \notin ActiveEdits(queue)
  BY <1>3
<1>5. /\ QueueInv(p) /\ Running(p) = Running(queue) /\ ToSet(p.reads) = {}
      /\ PendingEdits(p) \cup ActiveEdits(p) = PendingEdits(queue) \cup ActiveEdits(queue) \cup {n}
  <2>1. QueueInv(queue)
    BY <1>1
  <2>2. Holds(queue, p, n)
    BY <1>4, <2>1, JoinedQueue
  <2>3. QED
    BY <2>2 DEF Holds
<1>6. ed2 \in [EditIds -> EditStates] /\ ed2[n] = "pending" /\ \A e \in EditIds : e # n => ed2[e] = edit[e]
  BY <1>3 DEF EditStates
<1>7. OwnInv(p, rq2, ed2)
  <2>1. \A r \in Reqs : rq2[r].state = "queued" <=> r \in ToSet(p.reads)
    BY <1>1, <1>5 DEF OwnInv, Settled
  <2>2. \A r \in Reqs : rq2[r].state = "sent" <=> r \in Running(p)
    <3>1. \A r \in Reqs : r \in ToSet(queue.reads) => r \notin Running(queue)
      BY <1>1 DEF OwnInv
    <3>2. QED
      BY <1>1, <1>5, <3>1 DEF OwnInv, Settled
  <2>3. {e \in EditIds : ed2[e] = "pending"} = PendingEdits(p) \cup ActiveEdits(p)
    BY <1>3, <1>5, <1>6
  <2>4. \E k \in 0 .. MaxEdits : \A e \in EditIds : ed2[e] # "none" <=> e <= k
    <3>1. n \in 0 .. MaxEdits
      BY <1>2
    <3>2. \A e \in EditIds : ed2[e] # "none" <=> e <= n
      BY <1>2, <1>6
    <3>3. QED
      BY <3>1, <3>2
  <2>5. rq2 \in [Reqs -> Records]
    BY DEF Settled
  <2>6. QED
    BY <1>6, <2>1, <2>2, <2>3, <2>4, <2>5 DEF OwnInv
<1>8. LifeInv(life, p)
  BY <1>1 DEF LifeInv
<1>9. life.listening => MatchInv(p, rq2, inbox, outbox, worker)
  <2>1. \A r \in Reqs : rq2[r].version = req[r].version /\ rq2[r].required = req[r].required
    BY DEF Settled
  <2>2. QED
    BY <2>1, MatchSame DEF Inv
<1>10. RevisionInv(p, inbox, outbox, worker)
  BY <1>1 DEF RevisionInv
<1>11. AppliedInv(p, life, ed2, outbox, worker)
  BY <1>1, <1>6 DEF AppliedInv
<1>12. FreshInv(p, life, rq2, outbox, worker)
  <2>1. \A r \in Running(p) : r \in Reqs /\ rq2[r].cell # "active"
    BY <1>5 DEF Running
  <2>2. \A r \in Reqs : rq2[r].cell = "active" => req[r].cell = "active"
    OBVIOUS
  <2>3. /\ \A i \in DOMAIN outbox : outbox[i].type = "response" => outbox[i].id \in Reqs
        /\ (worker.run # None => worker.run.id \in Reqs) /\ (worker.ref # None => worker.ref.id \in Reqs)
    BY <1>1 DEF LanesInv, Replies, Workers, Assignments
  <2>4. QED
    BY <1>1, <2>1, <2>2, <2>3 DEF FreshInv
<1>13. ConvInv(p, life, outbox, worker, c2)
  BY <1>1, JoinedConv
<1>14. QED
  BY <1>1, <1>5, <1>7, <1>8, <1>9, <1>10, <1>11, <1>12, <1>13 DEF Inv

\* mutate keeps the invariant, whatever the editor becomes by the edit it reports.
LEMMA MutateKeeps ==
  ASSUME SupervisorInv, NEW m \in Mutations, Formed(m), NEW n \in EditIds, n = NextEdit, m.edits = {n},
         Mutate(m), Edited(client, m, n, client')
  PROVE  SupervisorInv'
<1>1. /\ Inv(queue, life, req, edit, inbox, outbox, worker, client)
      /\ QueueInv(queue) /\ queue \in Queues /\ OwnInv(queue, req, edit) /\ req \in [Reqs -> Records]
      /\ edit \in [EditIds -> EditStates]
  BY DEF SupervisorInv, Inv, QueueInv, OwnInv
<1>2. ~life.disposed /\ outbox' = outbox /\ worker' = worker
  BY DEF Mutate, Available
<1>3. \A e \in EditIds : edit[e] # "none" <=> e < n
  BY <1>1, NextEditIs
<1>4. EditIds \subseteq Int
  BY ConstantsAssumption DEF EditIds
<1>5. Max(m.edits) = n
  <2>1. PICK T : T = {n}
    OBVIOUS
  <2>2. T \in SUBSET Int /\ n \in T /\ \A x \in T : x <= n
    BY <1>4, <2>1
  <2>3. Max(T) = n
    BY <2>2, MaxOf
  <2>4. QED
    BY <2>1, <2>3
<1>6. PICK s \in Seq(Mutations) : s = queue.mutations
  BY <1>1 DEF Queues
<1>7. PICK x : x = CoalescingIndex(s, m)
  OBVIOUS
<1>8. PICK next : next = IF x = 0 THEN m ELSE MergeMutations(s[x], m)
  OBVIOUS
<1>9. PICK t : t = IF x = 0 THEN Append(s, next) ELSE [s EXCEPT ![x] = next]
  OBVIOUS
<1>10. PICK b : b = queue.bytes + next.bytes - (IF x = 0 THEN 0 ELSE s[x].bytes)
  OBVIOUS
<1>11. PICK D, T : D = ToSet(queue.reads) /\ T = Running(queue) \cup ToSet(queue.reads)
  OBVIOUS
<1>12. PICK cancelled : cancelled = Cancel(req, T, "content-modified")
  OBVIOUS
<1>13. PICK rq2 : rq2 = Settle(cancelled, D, LAMBDA r: "content-modified")
  OBVIOUS
<1>14. PICK p : p = [DrainReads(queue) EXCEPT !.generation = @ + 1, !.bytes = b,
                        !.mutations = IF x = 0 THEN Append(@, next) ELSE [@ EXCEPT ![x] = next]]
  OBVIOUS
<1>15. \/ /\ ShutDown(queue, req, [edit EXCEPT ![n] = "rejected"], "restart-required", "overflow", FALSE)
          /\ inbox' = inbox
       \/ PumpAfter(p, rq2, [edit EXCEPT ![n] = "pending"])
  BY <1>5, <1>6, <1>7, <1>8, <1>10, <1>11, <1>12, <1>13, <1>14 DEF Mutate
<1>16. CASE ShutDown(queue, req, [edit EXCEPT ![n] = "rejected"], "restart-required", "overflow", FALSE)
            /\ inbox' = inbox
  <2>1. PICK ed2 : ed2 = [edit EXCEPT ![n] = "rejected"]
    OBVIOUS
  <2>2. ed2 \in [EditIds -> EditStates] /\ ed2[n] = "rejected" /\ \A e \in EditIds : e # n => ed2[e] = edit[e]
    BY <1>1, <2>1 DEF EditStates
  <2>3. edit[n] = "none"
    BY <1>3, <1>4
  <2>4. OwnInv(queue, req, ed2)
    <3>1. {e \in EditIds : ed2[e] = "pending"} = {e \in EditIds : edit[e] = "pending"}
      BY <2>2, <2>3
    <3>2. n \in 0 .. MaxEdits /\ \A e \in EditIds : ed2[e] # "none" <=> e <= n
      BY <1>3, <2>2, ConstantsAssumption DEF EditIds
    <3>3. \E k \in 0 .. MaxEdits : \A e \in EditIds : ed2[e] # "none" <=> e <= k
      BY <3>2
    <3>4. QED
      BY <1>1, <2>2, <3>1, <3>3 DEF OwnInv
  <2>5. AppliedInv(queue, life, ed2, outbox, worker)
    BY <1>1, <2>2, <2>3 DEF Inv, AppliedInv
  <2>6. Inv(queue, life, req, ed2, inbox, outbox, worker, client)
    BY <1>1, <2>4, <2>5 DEF Inv
  <2>7. ShutDown(queue, req, ed2, "restart-required", "overflow", FALSE)
    BY <1>16, <2>1
  <2>8. PICK failure \in {"worker-unavailable", "restart-required"}, cause \in {"overflow", "send", "exit"},
             terminal \in BOOLEAN : failure = "restart-required" /\ cause = "overflow" /\ terminal = FALSE
    OBVIOUS
  <2>9. ShutDown(queue, req, ed2, failure, cause, terminal)
    BY <2>7, <2>8
  <2>10. Inv(queue', life', req', edit', inbox, outbox, worker, client)
    BY <2>6, <2>9, ShutDownKeeps
  <2>11. life'.disposed
    <3>1. life \in Lives
      BY <1>1 DEF Inv, LifeInv
    <3>2. life' = ShutLife("restart-required", "overflow", FALSE)
      BY <2>7 DEF ShutDown
    <3>3. QED
      BY <3>1, <3>2 DEF ShutLife, Armed, Terminating, Lives
  <2>12. ConvInv(queue', life', outbox, worker, client')
    BY <2>11 DEF ConvInv, Edited
  <2>13. Inv(queue', life', req', edit', inbox, outbox, worker, client')
    BY <2>10, <2>12 DEF Inv
  <2>14. QED
    BY <1>2, <1>16, <2>13 DEF SupervisorInv
<1>17. CASE PumpAfter(p, rq2, [edit EXCEPT ![n] = "pending"])
  <2>1. PICK ed2 : ed2 = [edit EXCEPT ![n] = "pending"]
    OBVIOUS
  <2>2. \A i \in DOMAIN s : Formed(s[i]) /\ s[i].edits \subseteq PendingEdits(queue)
    BY <1>1, <1>6 DEF QueueInv, PendingEdits, ToSet
  <2>3. \A i \in DOMAIN s : \A e \in s[i].edits : e < n
    <3>1. \A e \in PendingEdits(queue) : e \in EditIds /\ edit[e] = "pending"
      BY <1>1 DEF OwnInv
    <3>2. QED
      BY <1>3, <2>2, <3>1
  <2>4. PICK pos : JoinedAt(s, m, n, pos, t)
    BY <1>7, <1>8, <1>9, <2>2, <2>3, Joins
  <2>5. b \in Int
    <3>1. next \in Mutations
      <4>1. CASE x = 0
        BY <1>8, <4>1
      <4>2. CASE x # 0
        <5>1. x \in DOMAIN s /\ t \in Seq(Mutations) /\ t[x] = next
          BY <1>6, <1>7, <1>9, <2>2, <2>4, <4>2, CoalescingSpot DEF CanAbsorb, JoinedAt
        <5>2. x \in DOMAIN t
          BY <1>9, <4>2, <5>1
        <5>3. QED
          BY <5>1, <5>2, ElementOfSeq
      <4>3. QED
        BY <4>1, <4>2
    <3>2. x # 0 => s[x] \in Mutations
      <4>1. x # 0 => x \in DOMAIN s
        BY <1>6, <1>7, <2>2, CoalescingSpot DEF CanAbsorb
      <4>2. QED
        BY <4>1, ElementOfSeq
    <3>3. queue.bytes \in Int /\ next.bytes \in Int /\ (x # 0 => s[x].bytes \in Int)
      BY <1>1, <3>1, <3>2 DEF Queues, Mutations
    <3>4. QED
      BY <1>10, <3>3
  <2>6. p \in Queues /\ p.mutations = t /\ p.reads = <<>> /\ p.active = queue.active
        /\ p.detached = queue.detached /\ p.applied = queue.applied
    <3>1. PICK o \in [Docs -> Int], g \in Nat, e \in Seq(Reqs) :
             o = NoSources /\ g = queue.generation + 1 /\ e = <<>>
      <4>1. NoSources \in [Docs -> Int]
        BY DEF NoSources
      <4>2. queue.generation + 1 \in Nat
        BY <1>1 DEF Queues
      <4>3. <<>> \in Seq(Reqs)
        BY EmptySeq, Zenon
      <4>4. QED
        BY <4>1, <4>2, <4>3, Zenon
    <3>2. p = [queue EXCEPT !.reads = e, !.sources = o, !.readBytes = 0, !.bypassed = None,
                            !.generation = g, !.bytes = b, !.mutations = t]
      BY <1>1, <1>6, <1>9, <1>14, <3>1 DEF DrainReads, Queues
    <3>3. t \in Seq(Mutations)
      BY <2>4 DEF JoinedAt
    <3>4. p \in Queues
      <4>1. queue \in Queues /\ 0 \in Int /\ None \in Reqs \cup {None}
        BY <1>1
      <4>2. PICK z \in Int, nn \in Reqs \cup {None} : z = 0 /\ nn = None
        BY <4>1
      <4>3. p = [queue EXCEPT !.reads = e, !.sources = o, !.readBytes = z, !.bypassed = nn,
                              !.generation = g, !.bytes = b, !.mutations = t]
        BY <3>2, <4>2
      <4>4. QED
        BY <2>5, <3>3, <4>1, <4>3 DEF Queues
    <3>5. p.mutations = t /\ p.reads = e /\ p.active = queue.active
          /\ p.detached = queue.detached /\ p.applied = queue.applied
      BY <1>1, <3>2 DEF Queues
    <3>6. QED
      BY <3>1, <3>4, <3>5
  <2>7. JoinedAt(queue.mutations, m, n, pos, p.mutations)
    BY <1>6, <2>4, <2>6
  <2>8. /\ cancelled \in [Reqs -> Records]
        /\ \A r \in Reqs : r \in T => cancelled[r].cell # "active"
        /\ \A r \in Reqs : cancelled[r].cell = "active" => req[r].cell = "active"
    BY <1>1, <1>12, CancelledRecords DEF Cells
  <2>9. Settled(cancelled, D, rq2) /\ SameCells(cancelled, rq2)
    <3>1. PICK out : out = [r \in Reqs |-> "content-modified"]
      OBVIOUS
    <3>2. out \in [Reqs -> Codes \cup {"ok"}]
      BY <3>1 DEF Codes
    <3>3. rq2 = [r \in Reqs |-> IF r \in D THEN [cancelled[r] EXCEPT !.state = "settled", !.outcome = out[r]]
                                 ELSE cancelled[r]]
      BY <1>13, <3>1 DEF Settle
    <3>4. QED
      BY <2>8, <3>2, <3>3, SettledRecords
  <2>10. Settled(req, D, rq2)
    <3>1. "content-modified" \in Cells
      BY DEF Cells
    <3>2. QED
      BY <1>1, <1>12, <2>9, <3>1, SettledAfterCancel
  <2>11. Settled(req, ToSet(queue.reads), rq2)
    BY <1>11, <2>10
  <2>12. \A r \in Reqs : rq2[r].cell = "active" => req[r].cell = "active" /\ r \notin Running(queue)
    BY <1>11, <2>8, <2>9 DEF SameCells
  <2>13. Inv(p, life, rq2, ed2, inbox, outbox, worker, client')
    BY <1>1, <1>2, <1>3, <2>1, <2>6, <2>7, <2>11, <2>12, JoinedKeeps
  <2>14. PumpAfter(p, rq2, ed2)
    BY <1>17, <2>1
  <2>15. Inv(queue', life', req', edit', inbox', outbox, worker, client')
    BY <2>13, <2>14, PumpAfterKeeps
  <2>16. QED
    BY <1>2, <2>15 DEF SupervisorInv
<1>18. QED
  BY <1>15, <1>16, <1>17

\* An edit of a document.
LEMMA EditDocumentKeeps ==
  ASSUME SupervisorInv, NEW d \in Docs, EditDocument(d)
  PROVE  SupervisorInv'
<1>1. PICK bytes \in TextSizes, kind \in {"open", "change", "close"} :
         /\ Mutate(DocMutation(kind, d, IF kind = "close" THEN 0 ELSE bytes, NextEdit))
         /\ client' = [client EXCEPT !.docs[d] = IF kind = "close" THEN 0 ELSE NextEdit]
  BY DEF EditDocument
<1>2. PICK n \in EditIds : n = NextEdit
  BY DEF EditDocument
<1>3. PICK b \in Nat : b = IF kind = "close" THEN 0 ELSE bytes
  BY ConstantsAssumption
<1>4. PICK m : m = DocMutation(kind, d, b, n)
  OBVIOUS
<1>5. <<>> \in Changes /\ DOMAIN <<>> = {}
  <2>1. <<>> \in [{} -> ChangeKinds]
    OBVIOUS
  <2>2. QED
    BY <2>1 DEF Changes
<1>6. m \in Mutations /\ m.kind = kind /\ m.doc = d /\ m.changes = <<>> /\ m.edits = {n} /\ m.dirty = FALSE
  BY <1>4, <1>5 DEF DocMutation, Mutations
<1>7. n \in Nat
  BY ConstantsAssumption DEF EditIds
<1>8. Formed(m)
  BY <1>6, <1>7 DEF Formed
<1>9. Mutate(m)
  BY <1>1, <1>2, <1>3, <1>4
<1>10. Edited(client, m, n, client')
  <2>1. client \in Views
    BY DEF SupervisorInv, Inv, ConvInv
  <2>2. PICK g : g = [client.docs EXCEPT ![d] = IF kind = "close" THEN 0 ELSE n]
    OBVIOUS
  <2>3. g \in [Docs -> Nat] /\ \A x \in Docs : g[x] = IF x = d THEN IF kind = "close" THEN 0 ELSE n ELSE client.docs[x]
    BY <1>7, <2>1, <2>2 DEF Views
  <2>4. client' = [client EXCEPT !.docs = g]
    BY <1>1, <1>2, <2>2
  <2>5. client' \in Views /\ client'.docs = g /\ client'.files = client.files
    BY <2>1, <2>3, <2>4 DEF Views
  <2>6. client'.dirty = client.dirty
    BY <2>1, <2>4 DEF Views
  <2>7. DOMAIN m.changes = {}
    BY <1>5, <1>6
  <2>8. client'.dirty <=> (client.dirty \/ m.dirty)
    BY <1>6, <2>6
  <2>9. QED
    BY <1>6, <2>3, <2>5, <2>7, <2>8 DEF Edited
<1>11. QED
  BY <1>2, <1>6, <1>8, <1>9, <1>10, MutateKeeps

\* A batch of watched files.
LEMMA ChangeFilesKeeps ==
  ASSUME SupervisorInv, NEW S \in SUBSET Files, ChangeFiles(S)
  PROVE  SupervisorInv'
<1>1. PICK kinds \in [S -> ChangeKinds], dirty \in DirtyFlags :
         /\ Mutate(FilesMutation(kinds, dirty, NextEdit))
         /\ client' = [client EXCEPT
                !.files = [f \in Files |-> IF f \in S THEN kinds[f] # "deleted" ELSE @[f]],
                !.dirty = @ \/ dirty]
  BY DEF ChangeFiles
<1>2. PICK n \in EditIds : n = NextEdit
  BY DEF ChangeFiles
<1>3. PICK m : m = FilesMutation(kinds, dirty, n)
  OBVIOUS
<1>4. dirty \in BOOLEAN
  BY ConstantsAssumption
<1>5. kinds \in Changes /\ DOMAIN kinds = S
  BY DEF Changes
<1>6. m \in Mutations /\ m.kind = "files" /\ m.doc = None /\ m.changes = kinds /\ m.edits = {n}
  BY <1>3, <1>4, <1>5 DEF FilesMutation, Mutations
<1>7. m.dirty = dirty
  BY <1>3 DEF FilesMutation
<1>8. n \in Nat
  BY ConstantsAssumption DEF EditIds
<1>9. Formed(m)
  BY <1>6, <1>8 DEF Formed
<1>10. Mutate(m)
  BY <1>1, <1>2, <1>3
<1>11. Edited(client, m, n, client')
  <2>1. client \in Views
    BY DEF SupervisorInv, Inv, ConvInv
  <2>2. PICK g, h : /\ g = [f \in Files |-> IF f \in S THEN kinds[f] # "deleted" ELSE client.files[f]]
                    /\ h = (client.dirty \/ dirty)
    OBVIOUS
  <2>3. g \in [Files -> BOOLEAN]
    BY <2>1, <2>2 DEF Views
  <2>4. h \in BOOLEAN
    BY <2>2
  <2>5. client' = [client EXCEPT !.files = g, !.dirty = h]
    BY <1>1, <2>1, <2>2 DEF Views
  <2>6. client' \in Views /\ client'.docs = client.docs /\ client'.files = g
    BY <2>1, <2>3, <2>4, <2>5 DEF Views
  <2>7. client'.dirty = h
    BY <2>1, <2>5 DEF Views
  <2>8. client'.dirty <=> (client.dirty \/ m.dirty)
    BY <1>7, <2>2, <2>7
  <2>9. \A x \in Docs : client'.docs[x] = IF x = m.doc THEN IF m.kind = "close" THEN 0 ELSE n ELSE client.docs[x]
    BY <1>6, <2>6, NoneApart
  <2>10. \A f \in Files : client'.files[f] = IF f \in DOMAIN m.changes THEN m.changes[f] # "deleted" ELSE client.files[f]
    BY <1>5, <1>6, <2>2, <2>6
  <2>11. QED
    BY <2>6, <2>8, <2>9, <2>10 DEF Edited
<1>12. QED
  BY <1>2, <1>6, <1>9, <1>10, <1>11, MutateKeeps

-----------------------------------------------------------------------------
(* The invariant.                                                           *)

\* Every step keeps it.
LEMMA SupervisorStepKeeps ==
  ASSUME SupervisorInv, [Next]_vars
  PROVE  SupervisorInv'
<1>1. CASE \E d \in Docs : EditDocument(d)
  BY <1>1, EditDocumentKeeps
<1>2. CASE \E S \in SUBSET Files : ChangeFiles(S)
  BY <1>2, ChangeFilesKeeps
<1>3. CASE \E r \in Reqs : Request(r)
  BY <1>3, RequestKeeps
<1>4. CASE \E r \in Reqs : CancelRequest(r)
  BY <1>4, CancelKeeps
<1>5. CASE Dispose
  BY <1>5, DisposeKeeps
<1>6. CASE Receive
  BY <1>6, ReceiveKeeps
<1>7. CASE EndpointExit
  BY <1>7, ExitKeeps
<1>8. CASE SettleAfterTermination
  BY <1>8, SettleKeeps
<1>9. CASE TerminateDone \/ DeadlineFires \/ DisposeDone
  BY <1>9, TimerKeeps
<1>10. CASE DisposeDrained
  BY <1>10, DisposeDrainedKeeps
<1>11. CASE DisposeDeadline
  BY <1>11, DisposeDeadlineKeeps
<1>12. CASE DispatchMutation
  BY <1>12, DispatchMutationKeeps
<1>13. CASE DispatchRequest
  BY <1>13, DispatchRequestKeeps
<1>14. CASE AnswerSerial \/ AnswerDetached
  <2>1. PICK j, rest : /\ Answer(j, rest)
                       /\ \/ j = worker.run /\ rest = [worker EXCEPT !.run = None]
                          \/ j = worker.ref /\ rest = [worker EXCEPT !.ref = None]
    BY <1>14 DEF AnswerSerial, AnswerDetached
  <2>2. QED
    BY <2>1, AnswerKeeps
<1>15. CASE \E f \in Faults : WorkerFault(f)
  BY <1>15, FaultKeeps
<1>16. CASE UNCHANGED vars
  BY <1>16 DEF vars, SupervisorInv
<1>17. QED
  BY <1>1, <1>2, <1>3, <1>4, <1>5, <1>6, <1>7, <1>8, <1>9, <1>10, <1>11, <1>12, <1>13, <1>14,
     <1>15, <1>16 DEF Next, SupervisorStep, SerialStep

\* Every reachable state has it.
LEMMA SupervisorInvariant == Spec => []SupervisorInv
<1>1. SupervisorInv /\ [Next]_vars => SupervisorInv'
  BY SupervisorStepKeeps
<1>2. QED
  BY <1>1, InitInv, PTL DEF Spec

-----------------------------------------------------------------------------
(* The results.                                                             *)

\* A healthy worker and its supervisor never accuse each other: every message answers
\* what a lane holds and every mutation arrives in sequence, also across cancellations,
\* failed sends, disposal and worker faults (#receive, #settleRequest, dispatch).
THEOREM LanesNeverDisagree == Spec => []NoProtocolFault
<1>1. SupervisorInv => NoProtocolFault
  BY DEF SupervisorInv, Inv, LifeInv, RevisionInv, NoProtocolFault
<1>2. QED
  BY <1>1, SupervisorInvariant, PTL

\* Every unsettled promise is owned by exactly the queue or lane that will settle it,
\* and a finished dispose leaves none (#pump, #fail, #disposeActive).
THEOREM PromisesAreOwned == Spec => []NothingOrphaned
<1>1. SupervisorInv => NothingOrphaned
  <2> SUFFICES ASSUME SupervisorInv PROVE NothingOrphaned
    OBVIOUS
  <2>1. QueueInv(queue) /\ OwnInv(queue, req, edit) /\ LifeInv(life, queue) /\ queue \in Queues
    BY DEF SupervisorInv, Inv, QueueInv
  <2>2. ASSUME life.dispose = "done" PROVE queue = ClearLanes(DrainAll(queue)) /\ ~life.listening
    <3>1. ~life.listening /\ queue = DrainAll(queue) /\ queue.active = None /\ queue.detached = None
      BY <2>1, <2>2 DEF LifeInv, Drained, Released
    <3>2. ClearLanes(queue) = queue
      BY <2>1, <3>1 DEF ClearLanes, Queues
    <3>3. QED
      BY <3>1, <3>2
  <2>3. QED
    BY <2>1, <2>2 DEF NothingOrphaned, OwnInv
<1>2. QED
  BY <1>1, SupervisorInvariant, PTL

\* A mutation's promise resolves only after the worker applied it, coalesced or not.
THEOREM ResolvedMeansApplied == Spec => []ResolvedEditsAreApplied
<1>1. SupervisorInv => ResolvedEditsAreApplied
  BY DEF SupervisorInv, Inv, AppliedInv, ResolvedEditsAreApplied
<1>2. QED
  BY <1>1, SupervisorInvariant, PTL

\* With no mutation waiting or under way the worker has what the editor has.
LEMMA QuietWorker ==
  ASSUME SupervisorInv, ~life.disposed, queue.mutations = <<>>, ~IsMutation(queue.active)
  PROVE  /\ worker.docs = client.docs /\ worker.dirty = client.dirty
         /\ \A f \in Files : worker.files[f] => client.files[f]
<1>1. /\ worker \in Workers /\ client \in Views /\ DirtyConv(queue, outbox, worker, client)
      /\ (\A d \in Docs : DocConv(queue, outbox, worker, client, d))
      /\ (\A f \in Files : FileConv(queue, outbox, worker, client, f))
  BY DEF SupervisorInv, Inv, LanesInv, ConvInv
<1>2. DOMAIN queue.mutations = {} /\ ~Unapplied(queue, outbox)
  BY DEF Unapplied
<1>3. \A d \in Docs : About(queue, d) = {}
  BY <1>2 DEF About
<1>4. \A f \in Files : Mentions(queue, f) = {}
  BY <1>2 DEF Mentions
<1>5. worker.docs = client.docs
  <2>1. \A d \in Docs : client.docs[d] = worker.docs[d]
    BY <1>1, <1>2, <1>3 DEF DocConv
  <2>2. worker.docs \in [Docs -> Nat] /\ client.docs \in [Docs -> Nat]
    BY <1>1 DEF Workers, Views
  <2>3. QED
    BY <2>1, <2>2
<1>6. worker.dirty = client.dirty
  <2>1. client.dirty <=> worker.dirty
    BY <1>1, <1>2 DEF DirtyConv
  <2>2. worker.dirty \in BOOLEAN /\ client.dirty \in BOOLEAN
    BY <1>1 DEF Workers, Views
  <2>3. QED
    BY <2>1, <2>2
<1>7. \A f \in Files : worker.files[f] => client.files[f]
  BY <1>1, <1>2, <1>4 DEF FileConv
<1>8. QED
  BY <1>5, <1>6, <1>7

\* However edits and watched changes were coalesced on the way, a usable supervisor with
\* nothing left to send or to acknowledge has a worker with the editor's documents and
\* flags that knows no file that is gone (mutate, findCoalescingMutation, applyMutation).
THEOREM WorkerConverges == Spec => []Converged
<1>1. SupervisorInv => Converged
  BY QuietWorker DEF Converged, Quiet, Available
<1>2. QED
  BY <1>1, SupervisorInvariant, PTL

-----------------------------------------------------------------------------
(* What a step publishes.  No step but a response makes a record resolve.   *)

NoNewOk(rq, rq2) ==
    \A r \in Reqs : rq2[r].state = "settled" /\ rq2[r].outcome = "ok" =>
                        rq[r].state = "settled" /\ rq[r].outcome = "ok"

\* The records of S settled with one outcome each, and all with outcome o.
SettledBy(rq, S, out) ==
    [r \in Reqs |-> IF r \in S THEN [rq[r] EXCEPT !.state = "settled", !.outcome = out[r]] ELSE rq[r]]
SettledAs(rq, S, o) ==
    [r \in Reqs |-> IF r \in S THEN [rq[r] EXCEPT !.state = "settled", !.outcome = o] ELSE rq[r]]

\* Sending and cancelling settle nothing; a settlement with a code is no result.
LEMMA SettledWithCodes ==
  ASSUME NEW rq \in [Reqs -> Records], NEW S, NEW out \in [Reqs -> Codes], NEW rq2,
         rq2 = SettledBy(rq, S, out)
  PROVE  rq2 \in [Reqs -> Records] /\ NoNewOk(rq, rq2)
<1>1. ASSUME NEW r \in Reqs PROVE rq2[r] \in Records /\ (rq2[r] = rq[r] \/ rq2[r].outcome # "ok")
  <2>1. rq[r] \in Records /\ out[r] \in Codes /\ "ok" \notin Codes
    BY DEF Codes
  <2>2. CASE r \in S
    <3>1. PICK o \in Codes : o = out[r]
      BY <2>1
    <3>2. rq2[r] = [rq[r] EXCEPT !.state = "settled", !.outcome = o]
      BY <2>2, <3>1 DEF SettledBy
    <3>3. QED
      BY <2>1, <3>2 DEF Records
  <2>3. CASE r \notin S
    BY <2>1, <2>3 DEF SettledBy
  <2>4. QED
    BY <2>2, <2>3
<1>2. QED
  BY <1>1 DEF NoNewOk, SettledBy

\* The same with one code for all.
LEMMA OneCodeIsNoResult ==
  ASSUME NEW rq \in [Reqs -> Records], NEW S, NEW o \in Codes, NEW rq2,
         rq2 = SettledAs(rq, S, o)
  PROVE  rq2 \in [Reqs -> Records] /\ NoNewOk(rq, rq2)
<1>1. PICK out \in [Reqs -> Codes] : out = [r \in Reqs |-> o]
  OBVIOUS
<1>2. rq2 = SettledBy(rq, S, out)
  BY <1>1 DEF SettledBy, SettledAs
<1>3. QED
  BY <1>2, SettledWithCodes

\* Cancellation cells settle nothing.
LEMMA CancelledIsNoResult ==
  ASSUME NEW rq \in [Reqs -> Records], NEW S, NEW reason \in Cells, NEW rq2, rq2 = Cancel(rq, S, reason)
  PROVE  rq2 \in [Reqs -> Records] /\ NoNewOk(rq, rq2)
<1>1. ASSUME NEW r \in Reqs PROVE rq2[r] \in Records /\ rq2[r].state = rq[r].state /\ rq2[r].outcome = rq[r].outcome
  <2>1. rq[r] \in Records
    OBVIOUS
  <2>2. rq2[r] = IF r \in S /\ rq[r].cell = "active" THEN [rq[r] EXCEPT !.cell = reason] ELSE rq[r]
    BY DEF Cancel
  <2>3. QED
    BY <2>1, <2>2 DEF Records
<1>2. rq2 \in [Reqs -> Records]
  BY <1>1 DEF Cancel
<1>3. QED
  BY <1>1, <1>2 DEF NoNewOk

\* Sending settles nothing.
LEMMA SentIsNoResult ==
  ASSUME NEW rq \in [Reqs -> Records], NEW q, q.applied \in Nat, NEW cmds, NEW rq2, rq2 = MarkSent(q, rq, cmds)
  PROVE  rq2 \in [Reqs -> Records] /\ NoNewOk(rq, rq2)
<1>1. ASSUME NEW r \in Reqs PROVE rq2[r] \in Records /\ (rq2[r] = rq[r] \/ rq2[r].state = "sent")
  <2>1. rq[r] \in Records
    OBVIOUS
  <2>2. PICK a \in Nat : a = q.applied
    OBVIOUS
  <2>3. rq2[r] = IF r \in ToSet(cmds) THEN [rq[r] EXCEPT !.state = "sent", !.required = a] ELSE rq[r]
    BY <2>2 DEF MarkSent
  <2>4. QED
    BY <2>1, <2>3 DEF Records
<1>2. rq2 \in [Reqs -> Records]
  BY <1>1 DEF MarkSent
<1>3. QED
  BY <1>1, <1>2 DEF NoNewOk

\* The failure of the lanes is no result.
LEMMA FailureIsNoResult ==
  ASSUME NEW rq \in [Reqs -> Records], NEW S, NEW failure \in Codes, NEW rq2, rq2 = SettleFailure(rq, S, failure)
  PROVE  NoNewOk(rq, rq2)
<1>1. PICK out : out = [r \in Reqs |-> IF rq[r].cell \in {"client-cancelled", "content-modified"}
                                       THEN CancellationError(rq[r].cell) ELSE failure]
  OBVIOUS
<1>2. out \in [Reqs -> Codes]
  <2>1. \A r \in Reqs : CancellationError(rq[r].cell) \in Codes
    BY DEF CancellationError, Codes
  <2>2. QED
    BY <1>1, <2>1
<1>3. rq2 = SettledBy(rq, S, out)
  BY <1>1 DEF SettleFailure, Settle, SettledBy
<1>4. QED
  BY <1>2, <1>3, SettledWithCodes

\* A shutdown settles with codes only.
LEMMA ShutDownIsNoResult ==
  ASSUME NEW q, NEW rq \in [Reqs -> Records], NEW ed, NEW failure \in Codes, NEW cause, NEW terminal \in BOOLEAN,
         ShutDown(q, rq, ed, failure, cause, terminal)
  PROVE  NoNewOk(rq, req')
<1>1. PICK T, D, R : T = Running(q) \cup ToSet(q.reads) /\ D = ToSet(q.reads) /\ R = Running(q)
  OBVIOUS
<1>2. PICK cancelled : cancelled = Cancel(rq, T, "supervisor-disposing")
  OBVIOUS
<1>3. PICK drained : drained = Settle(cancelled, D, LAMBDA r: failure)
  OBVIOUS
<1>4. req' = SettleFailure(drained, R, failure) \/ req' = drained
  BY <1>1, <1>2, <1>3 DEF ShutDown
<1>5. "supervisor-disposing" \in Cells
  BY DEF Cells
<1>6. cancelled \in [Reqs -> Records] /\ NoNewOk(rq, cancelled)
  BY <1>2, <1>5, CancelledIsNoResult
<1>7. drained \in [Reqs -> Records] /\ NoNewOk(cancelled, drained)
  <2>1. cancelled \in [Reqs -> Records]
    BY <1>6
  <2>2. drained = SettledAs(cancelled, D, failure)
    BY <1>3 DEF Settle, SettledAs
  <2>3. QED
    BY <2>1, <2>2, OneCodeIsNoResult
<1>8. NoNewOk(drained, req')
  <2>1. CASE req' = SettleFailure(drained, R, failure)
    BY <1>7, <2>1, FailureIsNoResult
  <2>2. CASE req' = drained
    BY <2>2 DEF NoNewOk
  <2>3. QED
    BY <1>4, <2>1, <2>2
<1>9. QED
  BY <1>6, <1>7, <1>8 DEF NoNewOk

\* The pump sends or shuts down.
LEMMA PumpIsNoResult ==
  ASSUME NEW q, q.applied \in Nat, NEW rq \in [Reqs -> Records], NEW ed, PumpAfter(q, rq, ed)
  PROVE  NoNewOk(rq, req')
<1>1. CASE \E cmds : req' = MarkSent(q, rq, cmds)
  BY <1>1, SentIsNoResult
<1>2. CASE \E p, cmds : ShutDown(p, MarkSent(q, rq, cmds), ed, "worker-unavailable", "send", FALSE)
  <2>1. PICK p, cmds : ShutDown(p, MarkSent(q, rq, cmds), ed, "worker-unavailable", "send", FALSE)
    BY <1>2
  <2>2. PICK rq2 : rq2 = MarkSent(q, rq, cmds)
    OBVIOUS
  <2>3. rq2 \in [Reqs -> Records] /\ NoNewOk(rq, rq2)
    BY <2>2, SentIsNoResult
  <2>4. PICK failure \in Codes, terminal \in BOOLEAN : failure = "worker-unavailable" /\ terminal = FALSE
    BY DEF Codes
  <2>5. ShutDown(p, rq2, ed, failure, "send", terminal)
    BY <2>1, <2>2, <2>4
  <2>6. NoNewOk(rq2, req')
    BY <2>3, <2>5, ShutDownIsNoResult
  <2>7. QED
    BY <2>3, <2>6 DEF NoNewOk
<1>3. QED
  BY <1>1, <1>2 DEF PumpAfter

\* The handlers that revoke and settle reads resolve none of them.
LEMMA MutateIsNoResult ==
  ASSUME SupervisorInv, NEW m, Mutate(m)
  PROVE  NoNewOk(req, req')
<1>1. queue \in Queues /\ queue.applied \in Nat /\ req \in [Reqs -> Records]
  BY DEF SupervisorInv, Inv, QueueInv, OwnInv, Queues
<1>2. PICK D, T : D = ToSet(queue.reads) /\ T = Running(queue) \cup ToSet(queue.reads)
  OBVIOUS
<1>3. PICK cancelled : cancelled = Cancel(req, T, "content-modified")
  OBVIOUS
<1>4. PICK rq2 : rq2 = Settle(cancelled, D, LAMBDA r: "content-modified")
  OBVIOUS
<1>5. PICK ed0, ed1, failure, code :
         /\ ed0 = [edit EXCEPT ![Max(m.edits)] = "rejected"]
         /\ ed1 = [edit EXCEPT ![Max(m.edits)] = "pending"]
         /\ failure = "restart-required" /\ code = "content-modified"
  OBVIOUS
<1>6. \/ ShutDown(queue, req, ed0, failure, "overflow", FALSE)
      \/ \E b, g : PumpAfter([DrainReads(queue) EXCEPT !.generation = @ + 1, !.bytes = b, !.mutations = g], rq2, ed1)
  BY <1>2, <1>3, <1>4, <1>5 DEF Mutate
<1>7. failure \in Codes /\ code \in Codes /\ "content-modified" \in Cells
  BY <1>5 DEF Codes, Cells
<1>8. CASE ShutDown(queue, req, ed0, failure, "overflow", FALSE)
  BY <1>1, <1>7, <1>8, ShutDownIsNoResult
<1>9. CASE \E b, g : PumpAfter([DrainReads(queue) EXCEPT !.generation = @ + 1, !.bytes = b, !.mutations = g], rq2, ed1)
  <2>1. PICK b, g : PumpAfter([DrainReads(queue) EXCEPT !.generation = @ + 1, !.bytes = b, !.mutations = g], rq2, ed1)
    BY <1>9
  <2>2. PICK p : p = [DrainReads(queue) EXCEPT !.generation = @ + 1, !.bytes = b, !.mutations = g]
    OBVIOUS
  <2>3. p.applied \in Nat
    BY <1>1, <2>2 DEF DrainReads, Queues
  <2>4. cancelled \in [Reqs -> Records] /\ NoNewOk(req, cancelled)
    BY <1>1, <1>3, <1>7, CancelledIsNoResult
  <2>5. rq2 \in [Reqs -> Records] /\ NoNewOk(cancelled, rq2)
    <3>1. rq2 = SettledAs(cancelled, D, code)
      BY <1>4, <1>5 DEF Settle, SettledAs
    <3>2. QED
      BY <1>7, <2>4, <3>1, OneCodeIsNoResult
  <2>6. PumpAfter(p, rq2, ed1)
    BY <2>1, <2>2
  <2>7. NoNewOk(rq2, req')
    BY <2>3, <2>5, <2>6, PumpIsNoResult
  <2>8. QED
    BY <2>4, <2>5, <2>7 DEF NoNewOk
<1>10. QED
  BY <1>6, <1>8, <1>9

\* Admitting, refusing or cancelling a request resolves none.
LEMMA RequestIsNoResult ==
  ASSUME SupervisorInv, NEW r \in Reqs, Request(r) \/ CancelRequest(r)
  PROVE  NoNewOk(req, req')
<1>1. queue \in Queues /\ queue.applied \in Nat /\ queue.generation \in Nat /\ req \in [Reqs -> Records] /\ client \in Views
  BY DEF SupervisorInv, Inv, QueueInv, OwnInv, Queues, ConvInv
<1>2. CASE Request(r)
  <2>1. PICK new : new = [state |-> "queued", version |-> client.docs[Target[r]],
                          generation |-> queue.generation, cell |-> "active",
                          required |-> 0, outcome |-> "none"]
    OBVIOUS
  <2>2. new \in Records /\ new.state = "queued"
    <3>1. client.docs[Target[r]] \in Nat
      BY <1>1, ConstantsAssumption DEF Views
    <3>2. QED
      BY <1>1, <2>1, <3>1 DEF Records, Cells, Codes
  <2>3. PICK fresh : fresh = [req EXCEPT ![r] = new]
    OBVIOUS
  <2>4. fresh \in [Reqs -> Records] /\ fresh[r] = new /\ \A y \in Reqs : y # r => fresh[y] = req[y]
    BY <1>1, <2>2, <2>3
  <2>5. NoNewOk(req, fresh)
    BY <2>2, <2>4 DEF NoNewOk
  <2>6. PICK p, S, code : p = AddRead(queue, r) /\ S = {r} /\ code = "queue-overflow"
    OBVIOUS
  <2>7. PumpAfter(p, fresh, edit) \/ req' = SettledAs(fresh, S, code)
    BY <1>2, <2>1, <2>3, <2>6 DEF Request, Settle, SettledAs
  <2>8. CASE PumpAfter(p, fresh, edit)
    <3>1. p.applied \in Nat
      BY <1>1, <2>6 DEF AddRead, Queues
    <3>2. NoNewOk(fresh, req')
      BY <2>4, <2>8, <3>1, PumpIsNoResult
    <3>3. QED
      BY <2>5, <3>2 DEF NoNewOk
  <2>9. CASE req' = SettledAs(fresh, S, code)
    <3>1. code \in Codes
      BY <2>6 DEF Codes
    <3>2. PICK rq2 : rq2 = req'
      OBVIOUS
    <3>3. rq2 = SettledAs(fresh, S, code)
      BY <2>9, <3>2
    <3>4. NoNewOk(fresh, rq2)
      BY <2>4, <3>1, <3>3, OneCodeIsNoResult
    <3>5. QED
      BY <2>5, <3>2, <3>4 DEF NoNewOk
  <2>10. QED
    BY <2>7, <2>8, <2>9
<1>3. CASE CancelRequest(r)
  <2>1. PICK S, cancelled : S = {r} /\ cancelled = Cancel(req, S, "client-cancelled")
    OBVIOUS
  <2>2. "client-cancelled" \in Cells
    BY DEF Cells
  <2>3. cancelled \in [Reqs -> Records] /\ NoNewOk(req, cancelled)
    BY <1>1, <2>1, <2>2, CancelledIsNoResult
  <2>4. PICK out : out = [x \in Reqs |-> CancellationError(cancelled[x].cell)]
    OBVIOUS
  <2>5. out \in [Reqs -> Codes]
    <3>1. \A x \in Reqs : CancellationError(cancelled[x].cell) \in Codes
      BY DEF CancellationError, Codes
    <3>2. QED
      BY <2>4, <3>1
  <2>6. PICK rq2 : rq2 = req'
    OBVIOUS
  <2>7. \/ rq2 = cancelled
        \/ rq2 = SettledBy(cancelled, S, out)
    BY <1>3, <2>1, <2>4, <2>6 DEF CancelRequest, Settle, SettledBy
  <2>8. NoNewOk(cancelled, rq2)
    <3>1. CASE rq2 = cancelled
      BY <3>1 DEF NoNewOk
    <3>2. CASE rq2 # cancelled
      BY <2>3, <2>5, <2>7, <3>2, SettledWithCodes
    <3>3. QED
      BY <3>1, <3>2
  <2>9. QED
    BY <2>3, <2>6, <2>8 DEF NoNewOk
<1>4. QED
  BY <1>2, <1>3

\* Disposal, a lost worker and the deadline resolve none.
LEMMA DisposalIsNoResult ==
  ASSUME SupervisorInv, Dispose \/ EndpointExit \/ SettleAfterTermination \/ DisposeDeadline
  PROVE  NoNewOk(req, req')
<1>1. req \in [Reqs -> Records] /\ life \in Lives
  BY DEF SupervisorInv, Inv, OwnInv, LifeInv
<1>2. PICK code : code = "worker-unavailable"
  OBVIOUS
<1>3. code \in Codes /\ "supervisor-disposing" \in Cells /\ "none" \in Codes /\ "restart-required" \in Codes
  BY <1>2 DEF Codes, Cells
<1>4. CASE Dispose
  <2>1. PICK T, D : T = Running(queue) \cup ToSet(queue.reads) /\ D = ToSet(queue.reads)
    OBVIOUS
  <2>2. PICK cancelled, rq2 : cancelled = Cancel(req, T, "supervisor-disposing") /\ rq2 = req'
    OBVIOUS
  <2>3. cancelled \in [Reqs -> Records] /\ NoNewOk(req, cancelled)
    BY <1>1, <1>3, <2>2, CancelledIsNoResult
  <2>4. rq2 = SettledAs(cancelled, D, code)
    BY <1>2, <1>4, <2>1, <2>2 DEF Dispose, Settle, SettledAs
  <2>5. NoNewOk(cancelled, rq2)
    BY <1>3, <2>3, <2>4, OneCodeIsNoResult
  <2>6. QED
    BY <2>2, <2>3, <2>5 DEF NoNewOk
<1>5. CASE EndpointExit
  <2>1. PICK terminal \in BOOLEAN : terminal = TRUE
    OBVIOUS
  <2>2. ShutDown(queue, req, edit, code, "exit", terminal)
    BY <1>2, <1>5, <2>1 DEF EndpointExit
  <2>3. QED
    BY <1>1, <1>3, <2>2, ShutDownIsNoResult
<1>6. CASE SettleAfterTermination
  <2>1. PICK R, failure : R = Running(queue) /\ failure = life.failure
    OBVIOUS
  <2>2. failure \in Codes
    BY <1>1, <2>1 DEF Lives, Codes
  <2>3. req' = SettleFailure(req, R, failure)
    BY <1>6, <2>1 DEF SettleAfterTermination
  <2>4. QED
    BY <1>1, <2>2, <2>3, FailureIsNoResult
<1>7. CASE DisposeDeadline
  <2>1. PICK R : R = Running(queue)
    OBVIOUS
  <2>2. req' = SettleFailure(req, R, code)
    BY <1>2, <1>7, <2>1 DEF DisposeDeadline
  <2>3. QED
    BY <1>1, <1>3, <2>2, FailureIsNoResult
<1>8. QED
  BY <1>4, <1>5, <1>6, <1>7

\* A response resolves its own request only, and then with the inputs the editor has.
LEMMA ReceivePublishesFresh ==
  ASSUME SupervisorInv, Receive
  PROVE  PublishesFresh
<1>1. outbox # <<>> /\ life.listening
  BY DEF Receive
<1>2. /\ queue \in Queues /\ queue.applied \in Nat /\ req \in [Reqs -> Records]
      /\ FreshInv(queue, life, req, outbox, worker) /\ LanesInv(inbox, outbox, worker)
  BY DEF SupervisorInv, Inv, QueueInv, OwnInv, Queues
<1>3. PICK x, t : x = Head(outbox) /\ t = Tail(outbox)
  OBVIOUS
<1>4. CASE x.type = "ack"
  <2>1. PICK p, ed2 : /\ p = [queue EXCEPT !.active = None, !.applied = x.revision]
                      /\ ed2 = SettleEdits(edit, ActiveEdits(queue), "resolved")
    OBVIOUS
  <2>2. Inv(p, life, req, ed2, inbox, t, worker, client) /\ AnsweredBy(x) # None
    BY <1>1, <1>3, <1>4, <2>1, AckKeeps
  <2>3. PumpAfter(p, req, ed2)
    BY <1>3, <1>4, <2>1, <2>2 DEF Receive, ReceiveAck
  <2>4. p.applied \in Nat
    BY <2>2 DEF Inv, QueueInv, Queues
  <2>5. NoNewOk(req, req')
    BY <1>2, <2>3, <2>4, PumpIsNoResult
  <2>6. QED
    BY <2>5 DEF NoNewOk, PublishesFresh
<1>5. CASE x.type # "ack"
  <2>1. PICK r : r = x.id
    OBVIOUS
  <2>2. PICK p, rq2 :
           /\ p = (IF r = queue.detached THEN [queue EXCEPT !.detached = None]
                   ELSE [queue EXCEPT !.active = None])
           /\ rq2 = OneSettled(req, r, Outcome(x, r))
    OBVIOUS
  <2>3. /\ Settled(req, {r}, rq2) /\ AnsweredBy(x) # None
        /\ r \in Running(queue) /\ x = outbox[1] /\ 1 \in DOMAIN outbox /\ x \in Replies
        /\ x.type = "response"
    BY <1>1, <1>3, <1>5, <2>1, <2>2, ResponseSettles
  <2>4. PumpAfter(p, rq2, edit)
    <3>1. ReceiveResponse(x, r)
      BY <1>3, <1>5, <2>1, <2>3 DEF Receive
    <3>2. QED
      BY <2>2, <3>1, Zenon DEF ReceiveResponse, Settle, OneSettled, Outcome
  <2>5. p.applied \in Nat /\ rq2 \in [Reqs -> Records]
    BY <1>2, <2>2, <2>3 DEF Queues, Settled
  <2>6. NoNewOk(rq2, req')
    BY <2>4, <2>5, PumpIsNoResult
  <2>7. ASSUME NEW y \in Reqs, req[y].state = "sent", rq2[y].state = "settled", rq2[y].outcome = "ok"
        PROVE  y = r /\ req[r].cell = "active"
    <3>1. y = r
      BY <2>2, <2>7 DEF OneSettled
    <3>2. rq2[r].outcome = Outcome(x, r)
      BY <1>2, <2>2, <2>7, <3>1 DEF OneSettled, Records
    <3>3. QED
      BY <2>7, <3>1, <3>2 DEF Outcome, CancellationError
  <2>8. ASSUME req[r].cell = "active"
        PROVE  x.from = x.to /\ x.to.docs = client.docs /\ x.to.dirty = client.dirty
    <3>1. queue.mutations = <<>> /\ ~IsMutation(queue.active) /\ ~life.disposed
      BY <1>1, <1>2, <2>3, <2>8 DEF FreshInv
    <3>2. x.from = View(worker) /\ x.to = View(worker)
      BY <1>1, <1>2, <2>1, <2>3, <2>8 DEF FreshInv
    <3>3. worker.docs = client.docs
      BY <3>1, QuietWorker
    <3>4. worker.dirty = client.dirty
      BY <3>1, QuietWorker
    <3>5. View(worker).docs = worker.docs
      BY DEF View
    <3>6. View(worker).dirty = worker.dirty
      BY DEF View
    <3>7. QED
      BY <3>2, <3>3, <3>4, <3>5, <3>6, Zenon
  <2>9. ASSUME NEW y \in Reqs, req[y].state = "sent", req'[y].state = "settled", req'[y].outcome = "ok"
        PROVE  x.from = x.to /\ x.to.docs = client.docs /\ x.to.dirty = client.dirty
    <3>1. rq2[y].state = "settled" /\ rq2[y].outcome = "ok"
      BY <2>6, <2>9 DEF NoNewOk
    <3>2. req[r].cell = "active"
      BY <2>7, <2>9, <3>1
    <3>3. QED
      BY <2>8, <3>2
  <2>10. QED
    BY <1>3, <2>9 DEF PublishesFresh
<1>6. QED
  BY <1>4, <1>5

\* No request resolves with a result computed from inputs the editor no longer has,
\* however edits, watched changes, cancellations and answers interleave on the two lanes.
THEOREM ResultsAreFresh == Spec => FreshResults
<1>1. SupervisorInv /\ [Next]_vars => [PublishesFresh]_vars
  <2> SUFFICES ASSUME SupervisorInv, [Next]_vars PROVE [PublishesFresh]_vars
    OBVIOUS
  <2>1. ASSUME NoNewOk(req, req') PROVE PublishesFresh
    BY <2>1 DEF NoNewOk, PublishesFresh
  <2>2. ASSUME req' = req PROVE PublishesFresh
    BY <2>2 DEF PublishesFresh
  <2>3. CASE (\E d \in Docs : EditDocument(d)) \/ (\E S \in SUBSET Files : ChangeFiles(S))
    <3>1. PICK m : Mutate(m)
      BY <2>3 DEF EditDocument, ChangeFiles
    <3>2. QED
      BY <2>1, <3>1, MutateIsNoResult
  <2>4. CASE (\E r \in Reqs : Request(r)) \/ (\E r \in Reqs : CancelRequest(r))
    BY <2>1, <2>4, RequestIsNoResult
  <2>5. CASE Dispose \/ EndpointExit \/ SettleAfterTermination \/ DisposeDeadline
    BY <2>1, <2>5, DisposalIsNoResult
  <2>6. CASE Receive
    BY <2>6, ReceivePublishesFresh
  <2>7. CASE TerminateDone \/ DeadlineFires \/ DisposeDrained \/ DisposeDone
    BY <2>2, <2>7 DEF TerminateDone, DeadlineFires, DisposeDrained, DisposeDone
  <2>8. CASE SerialStep \/ AnswerDetached \/ \E f \in Faults : WorkerFault(f)
    BY <2>2, <2>8 DEF SerialStep, DispatchMutation, DispatchRequest, AnswerSerial, AnswerDetached, Answer, WorkerFault
  <2>9. CASE UNCHANGED vars
    BY <2>9
  <2>10. QED
    BY <2>3, <2>4, <2>5, <2>6, <2>7, <2>8, <2>9 DEF Next, SupervisorStep
<1>2. QED
  BY <1>1, SupervisorInvariant, PTL DEF Spec, FreshResults

-----------------------------------------------------------------------------
(* Sums.  Accumulates(s, f): f[n] is the sum of the first n numbers of s.       *)

Accumulates(s, f) ==
    /\ f \in [0 .. Len(s) -> Int] /\ f[0] = 0
    /\ \A n \in 1 .. Len(s) : f[n] = f[n - 1] + s[n]

\* Every sequence of numbers has its partial sums.
LEMMA SumsExist ==
    ASSUME NEW s \in Seq(Int)
    PROVE  \E f : Accumulates(s, f)
<1> DEFINE Upto(m, f) == /\ f \in [0 .. m -> Int] /\ f[0] = 0
                         /\ \A n \in 1 .. m : f[n] = f[n - 1] + s[n]
           bad == {m \in 0 .. Len(s) : ~\E f : Upto(m, f)}
<1>1. Len(s) \in Nat /\ \A n \in 1 .. Len(s) : s[n] \in Int
  OBVIOUS
<1>2. bad = {}
  <2> SUFFICES ASSUME bad # {} PROVE FALSE
    OBVIOUS
  <2>1. PICK m \in bad : \A k \in bad : m <= k
    <3>1. bad \in SUBSET Nat
      BY <1>1
    <3> HIDE DEF bad
    <3> QED BY <3>1, LeastNatural
  <2>2. CASE m = 0
    <3>1. Upto(0, [n \in 0 .. 0 |-> 0])
      OBVIOUS
    <3> QED BY <2>1, <2>2, <3>1
  <2>3. CASE m # 0
    <3>1. m - 1 \in 0 .. Len(s) /\ m \in 1 .. Len(s) /\ m \in Nat
      <4> HIDE DEF Upto
      <4> QED BY <1>1, <2>1, <2>3
    <3>2. m - 1 \notin bad
      <4> HIDE DEF bad
      <4> QED BY <2>1, <3>1
    <3>3. PICK g : Upto(m - 1, g)
      BY <3>1, <3>2
    <3> DEFINE f == [n \in 0 .. m |-> IF n = m THEN g[m - 1] + s[m] ELSE g[n]]
    <3>4. g[m - 1] \in Int /\ s[m] \in Int /\ \A n \in 0 .. m - 1 : g[n] \in Int
      BY <1>1, <3>1, <3>3
    <3>5. f \in [0 .. m -> Int] /\ f[0] = 0
      BY <3>1, <3>3, <3>4
    <3>6. \A n \in 1 .. m : f[n] = f[n - 1] + s[n]
      BY <3>1, <3>3
    <3>7. Upto(m, f)
      BY <3>5, <3>6
    <3> HIDE DEF f, Upto
    <3> QED BY <2>1, <3>7
  <2> QED BY <2>2, <2>3
<1>3. \E f : Upto(Len(s), f)
  <2> HIDE DEF Upto
  <2> QED BY <1>1, <1>2
<1> QED BY <1>3 DEF Accumulates

\* Partial sums are unique.
LEMMA SumsUnique ==
    ASSUME NEW s, Len(s) \in Nat, NEW f, Accumulates(s, f), NEW g,
           g[0] = 0, \A n \in 1 .. Len(s) : g[n] = g[n - 1] + s[n]
    PROVE  \A n \in 0 .. Len(s) : g[n] = f[n]
<1> DEFINE bad == {n \in 0 .. Len(s) : g[n] # f[n]}
<1> SUFFICES ASSUME bad # {} PROVE FALSE
  OBVIOUS
<1>1. bad \in SUBSET Nat
  OBVIOUS
<1>2. PICK m \in bad : \A k \in bad : m <= k
  <2> HIDE DEF bad
  <2> QED BY <1>1, LeastNatural
<1>3. m # 0 /\ m \in 0 .. Len(s)
  BY <1>2 DEF Accumulates
<1>4. m - 1 \in 0 .. Len(s) /\ m \in 1 .. Len(s)
  BY <1>3
<1>5. g[m - 1] = f[m - 1]
  BY <1>2, <1>4
<1>6. f[m] = f[m - 1] + s[m] /\ g[m] = g[m - 1] + s[m]
  BY <1>4 DEF Accumulates
<1> QED BY <1>2, <1>5, <1>6

\* The sum of a sequence is the last of its partial sums.
LEMMA TotalIs ==
    ASSUME NEW s \in Seq(Int), NEW f, Accumulates(s, f)
    PROVE  Total(s) = f[Len(s)] /\ Total(s) \in Int
<1> DEFINE step(g) == [n \in 0 .. Len(s) |-> IF n = 0 THEN 0 ELSE g[n - 1] + s[n]]
           sum == CHOOSE g : g = step(g)
<1>1. Len(s) \in Nat
  OBVIOUS
<1>2. Total(s) = sum[Len(s)]
  BY DEF Total
<1>3. f = step(f)
  BY <1>1 DEF Accumulates
<1>4. sum = step(sum)
  BY <1>3, Zenon
<1> HIDE DEF sum
<1>5. sum[0] = 0 /\ \A n \in 1 .. Len(s) : sum[n] = sum[n - 1] + s[n]
  BY <1>1, <1>4
<1>6. sum[Len(s)] = f[Len(s)]
  BY <1>1, <1>5, SumsUnique
<1>7. f[Len(s)] \in Int
  BY <1>1 DEF Accumulates
<1> QED BY <1>2, <1>6, <1>7

\* The sum of nothing.
LEMMA TotalEmpty ==
    ASSUME NEW s \in Seq(Int), Len(s) = 0
    PROVE  Total(s) = 0
<1>1. Accumulates(s, [n \in 0 .. 0 |-> 0])
  BY DEF Accumulates
<1> QED BY <1>1, TotalIs

\* A number is added at the end.
LEMMA TotalAppended ==
    ASSUME NEW s \in Seq(Int), NEW t \in Seq(Int), Len(t) = Len(s) + 1,
           \A i \in 1 .. Len(s) : t[i] = s[i]
    PROVE  Total(t) = Total(s) + t[Len(t)]
<1>1. PICK f : Accumulates(s, f)
  BY SumsExist
<1> DEFINE n == Len(s)
           g == [i \in 0 .. n + 1 |-> IF i = n + 1 THEN f[n] + t[n + 1] ELSE f[i]]
<1>2. n \in Nat /\ t[n + 1] \in Int /\ f[n] \in Int /\ f \in [0 .. n -> Int] /\ f[0] = 0
  BY <1>1 DEF Accumulates
<1>3. \A i \in 1 .. n : f[i] = f[i - 1] + t[i]
  BY <1>1 DEF Accumulates
<1> HIDE DEF n
<1>4. g \in [0 .. n + 1 -> Int] /\ g[0] = 0 /\ g[n + 1] = f[n] + t[n + 1]
  BY <1>2
<1>5. \A i \in 1 .. n + 1 : g[i] = g[i - 1] + t[i]
  BY <1>2, <1>3
<1> HIDE DEF g
<1>6. Accumulates(t, g)
  BY <1>4, <1>5 DEF Accumulates, n
<1>7. Total(t) = g[n + 1] /\ Total(s) = f[n]
  BY <1>1, <1>6, TotalIs DEF n
<1> QED BY <1>4, <1>7 DEF n

\* A number is taken out.
LEMMA TotalRemoved ==
    ASSUME NEW s \in Seq(Int), NEW t \in Seq(Int), NEW k \in 1 .. Len(s), Len(t) = Len(s) - 1,
           \A i \in 1 .. Len(t) : t[i] = IF i < k THEN s[i] ELSE s[i + 1]
    PROVE  Total(t) = Total(s) - s[k]
<1>1. PICK f : Accumulates(s, f)
  BY SumsExist
<1> DEFINE n == Len(t)
           g == [i \in 0 .. n |-> IF i < k THEN f[i] ELSE f[i + 1] - s[k]]
<1>2. n \in Nat /\ k \in 1 .. n + 1 /\ Len(s) = n + 1 /\ s[k] \in Int
  OBVIOUS
<1>3. f \in [0 .. n + 1 -> Int] /\ f[0] = 0 /\ \A i \in 1 .. n + 1 : f[i] = f[i - 1] + s[i]
  BY <1>1, <1>2 DEF Accumulates
<1>4. \A i \in 1 .. n : t[i] = IF i < k THEN s[i] ELSE s[i + 1]
  OBVIOUS
<1> HIDE DEF n
<1>5. g \in [0 .. n -> Int] /\ g[0] = 0
  <2>1. ASSUME NEW i \in 0 .. n PROVE (IF i < k THEN f[i] ELSE f[i + 1] - s[k]) \in Int
    <3>1. i \in 0 .. n + 1 /\ i + 1 \in 0 .. n + 1
      BY <1>2
    <3>2. f[i] \in Int /\ f[i + 1] \in Int /\ s[k] \in Int
      BY <1>2, <1>3, <3>1
    <3> QED BY <3>2
  <2>2. 0 \in 0 .. n /\ 0 < k
    BY <1>2
  <2> QED BY <1>3, <2>1, <2>2
<1>6. g[n] = f[n + 1] - s[k]
  <2>1. CASE n < k
    <3>1. k = n + 1 /\ n + 1 \in 1 .. n + 1 /\ g[n] = f[n] /\ f[n] \in Int
      BY <1>2, <1>3, <2>1
    <3>2. f[n + 1] = f[n] + s[n + 1]
      <4>1. (n + 1) - 1 = n
        BY <1>2
      <4> QED BY <1>3, <3>1, <4>1
    <3> QED BY <1>2, <3>1, <3>2
  <2>2. CASE ~(n < k)
    BY <1>2, <2>2
  <2> QED BY <2>1, <2>2
<1>7. ASSUME NEW i \in 1 .. n PROVE g[i] = g[i - 1] + t[i]
  <2>1. i \in 1 .. n + 1 /\ i + 1 \in 1 .. n + 1 /\ i - 1 \in 0 .. n /\ i \in 0 .. n /\ (i + 1) - 1 = i
    BY <1>2
  <2>2. f[i] = f[i - 1] + s[i] /\ f[i + 1] = f[i] + s[i + 1]
    BY <1>3, <2>1
  <2>3. f[i] \in Int /\ f[i - 1] \in Int /\ f[i + 1] \in Int /\ s[i] \in Int /\ s[i + 1] \in Int
    <3>1. s[i] \in Int /\ s[i + 1] \in Int
      BY <1>2, <2>1
    <3>2. i \in 0 .. n + 1 /\ i - 1 \in 0 .. n + 1 /\ i + 1 \in 0 .. n + 1
      BY <1>2
    <3> HIDE DEF g
    <3> QED BY <1>3, <3>1, <3>2
  <2>4. CASE i < k
    <3>1. g[i] = f[i] /\ g[i - 1] = f[i - 1] /\ t[i] = s[i]
      BY <1>2, <1>4, <2>1, <2>4
    <3> QED BY <2>2, <3>1
  <2>5. CASE i = k
    <3>1. g[i] = f[i + 1] - s[k] /\ g[i - 1] = f[i - 1] /\ t[i] = s[i + 1]
      BY <1>2, <1>4, <2>1, <2>5
    <3> QED BY <2>2, <2>3, <2>5, <3>1, SMTT(60)
  <2>6. CASE i > k
    <3>1. g[i] = f[i + 1] - s[k] /\ g[i - 1] = f[i] - s[k] /\ t[i] = s[i + 1]
      BY <1>2, <1>4, <2>1, <2>6
    <3> QED BY <1>2, <2>2, <2>3, <3>1
  <2> HIDE DEF g
  <2>7. i \in Int /\ k \in Int
    BY <1>2
  <2>8. i < k \/ i = k \/ i > k
    BY <2>7
  <2> QED BY <2>4, <2>5, <2>6, <2>8
<1> HIDE DEF g
<1>8. Accumulates(t, g)
  BY <1>5, <1>7 DEF Accumulates, n
<1>9. Total(t) = g[n] /\ Total(s) = f[n + 1]
  BY <1>1, <1>2, <1>8, TotalIs DEF n
<1> QED BY <1>6, <1>9

\* A number is replaced.
LEMMA TotalReplaced ==
    ASSUME NEW s \in Seq(Int), NEW t \in Seq(Int), NEW k \in 1 .. Len(s), Len(t) = Len(s),
           \A i \in 1 .. Len(s) : i # k => t[i] = s[i]
    PROVE  Total(t) = Total(s) - s[k] + t[k]
<1>1. PICK f : Accumulates(s, f)
  BY SumsExist
<1> DEFINE n == Len(s)
           g == [i \in 0 .. n |-> IF i < k THEN f[i] ELSE f[i] - s[k] + t[k]]
<1>2. n \in Nat /\ k \in 1 .. n /\ s[k] \in Int /\ t[k] \in Int
      /\ \A i \in 1 .. n : s[i] \in Int /\ t[i] \in Int
  OBVIOUS
<1>3. f \in [0 .. n -> Int] /\ f[0] = 0 /\ \A i \in 1 .. n : f[i] = f[i - 1] + s[i]
  BY <1>1 DEF Accumulates
<1>4. \A i \in 1 .. n : i # k => t[i] = s[i]
  OBVIOUS
<1> HIDE DEF n
<1>5. g \in [0 .. n -> Int] /\ g[0] = 0 /\ g[n] = f[n] - s[k] + t[k]
  <2>1. PICK a \in Int, b \in Int : a = s[k] /\ b = t[k]
    BY <1>2
  <2>2. \A i \in 0 .. n : f[i] \in Int
    BY <1>3
  <2>3. \A i \in 0 .. n : g[i] = (IF i < k THEN f[i] ELSE f[i] - a + b)
    BY <2>1
  <2>4. \A i \in 0 .. n : g[i] \in Int
    BY <2>2, <2>3
  <2>5. g \in [0 .. n -> Int]
    BY <2>4
  <2>6. 0 \in 0 .. n /\ n \in 0 .. n /\ 0 < k /\ ~(n < k)
    BY <1>2
  <2>7. g[0] = 0 /\ g[n] = f[n] - s[k] + t[k]
    BY <1>3, <2>1, <2>3, <2>6
  <2> QED BY <2>5, <2>7
<1>6. ASSUME NEW i \in 1 .. n PROVE g[i] = g[i - 1] + t[i]
  <2>1. i - 1 \in 0 .. n /\ i \in 0 .. n /\ f[i] = f[i - 1] + s[i]
    BY <1>2, <1>3
  <2>2. f[i] \in Int /\ f[i - 1] \in Int /\ s[i] \in Int /\ t[i] \in Int
    BY <1>2, <1>3, <2>1
  <2>3. CASE i < k
    <3>1. g[i] = f[i] /\ g[i - 1] = f[i - 1] /\ t[i] = s[i]
      BY <1>2, <1>4, <2>1, <2>3
    <3> QED BY <2>1, <3>1
  <2>4. CASE i = k
    <3>1. g[i] = f[i] - s[k] + t[k] /\ g[i - 1] = f[i - 1]
      BY <1>2, <2>1, <2>4
    <3> QED BY <2>1, <2>2, <2>4, <3>1
  <2>5. CASE i > k
    <3>1. g[i] = f[i] - s[k] + t[k] /\ g[i - 1] = f[i - 1] - s[k] + t[k] /\ t[i] = s[i]
      BY <1>2, <1>4, <2>1, <2>5
    <3>2. PICK a \in Int, b \in Int, c \in Int, x \in Int, y \in Int :
             a = f[i] /\ b = f[i - 1] /\ c = s[i] /\ x = s[k] /\ y = t[k]
      BY <1>2, <2>2
    <3>3. a = b + c /\ g[i] = a - x + y /\ g[i - 1] = b - x + y /\ t[i] = c
      BY <2>1, <3>1, <3>2
    <3> HIDE DEF g
    <3> QED BY <3>3
  <2> HIDE DEF g
  <2>6. i \in Int /\ k \in Int
    BY <1>2
  <2>7. i < k \/ i = k \/ i > k
    BY <2>6
  <2> QED BY <2>3, <2>4, <2>5, <2>7
<1> HIDE DEF g
<1>7. Accumulates(t, g)
  BY <1>5, <1>6 DEF Accumulates, n
<1>8. Total(t) = g[n] /\ Total(s) = f[n]
  BY <1>1, <1>7, TotalIs DEF n
<1> QED BY <1>5, <1>8

\* The sum of natural numbers is one.
LEMMA TotalNatural ==
    ASSUME NEW s \in Seq(Nat)
    PROVE  Total(s) \in Nat
<1>1. s \in Seq(Int) /\ Len(s) \in Nat /\ \A n \in 1 .. Len(s) : s[n] \in Nat
  OBVIOUS
<1>2. PICK f : Accumulates(s, f)
  BY <1>1, SumsExist
<1>3. f[0] = 0 /\ \A n \in 1 .. Len(s) : f[n] = f[n - 1] + s[n]
  BY <1>2 DEF Accumulates
<1> DEFINE bad == {n \in 0 .. Len(s) : f[n] \notin Nat}
<1>4. bad = {}
  <2> SUFFICES ASSUME bad # {} PROVE FALSE
    OBVIOUS
  <2>1. bad \in SUBSET Nat
    BY <1>1
  <2>2. PICK m \in bad : \A k \in bad : m <= k
    <3> HIDE DEF bad
    <3> QED BY <2>1, LeastNatural
  <2>3. m # 0 /\ m \in 0 .. Len(s)
    BY <1>3
  <2>4. m - 1 \in 0 .. Len(s) /\ m \in 1 .. Len(s)
    BY <1>1, <2>3
  <2>5. m - 1 \notin bad
    <3> HIDE DEF bad
    <3> QED BY <2>2, <2>4
  <2>6. f[m - 1] \in Nat /\ s[m] \in Nat /\ f[m] = f[m - 1] + s[m]
    BY <1>1, <1>3, <2>4, <2>5
  <2> QED BY <2>6
<1>5. f[Len(s)] \in Nat
  BY <1>1, <1>4
<1> QED BY <1>1, <1>2, <1>5, TotalIs

\* The sum of zeros and ones counts the ones.
LEMMA TotalCounts ==
    ASSUME NEW s \in Seq(Int), \A i \in DOMAIN s : s[i] \in {0, 1}
    PROVE  Total(s) = Cardinality({i \in DOMAIN s : s[i] = 1})
<1> DEFINE ones(n) == {i \in 1 .. n : s[i] = 1}
           f == [n \in 0 .. Len(s) |-> Cardinality(ones(n))]
<1>1. Len(s) \in Nat /\ DOMAIN s = 1 .. Len(s)
  OBVIOUS
<1>2. \A n \in 0 .. Len(s) : IsFiniteSet(ones(n))
  <2> SUFFICES ASSUME NEW n \in 0 .. Len(s) PROVE IsFiniteSet(ones(n))
    OBVIOUS
  <2>1. IsFiniteSet(1 .. n)
    BY FS_Interval
  <2> QED BY <2>1, FS_Subset
<1>3. f \in [0 .. Len(s) -> Int]
  <2>1. \A n \in 0 .. Len(s) : Cardinality(ones(n)) \in Nat
    <3> HIDE DEF ones
    <3> QED BY <1>2, FS_CardinalityType
  <2> QED BY <2>1
<1>4. f[0] = 0
  <2>1. ones(0) = {}
    OBVIOUS
  <2> QED BY <1>1, <2>1, FS_EmptySet
<1>5. ASSUME NEW n \in 1 .. Len(s) PROVE f[n] = f[n - 1] + s[n]
  <2>1. n \in 0 .. Len(s) /\ n - 1 \in 0 .. Len(s) /\ n \notin ones(n - 1)
    BY <1>1
  <2>2. CASE s[n] = 1
    <3>1. ones(n) = ones(n - 1) \cup {n}
      BY <1>1, <2>2
    <3>2. Cardinality(ones(n)) = Cardinality(ones(n - 1)) + 1
      <4> HIDE DEF ones
      <4> QED BY <1>2, <2>1, <3>1, FS_AddElement
    <3> QED BY <2>1, <2>2, <3>2
  <2>3. CASE s[n] = 0
    <3>1. ones(n) = ones(n - 1)
      BY <1>1, <2>3
    <3>2. f[n] = f[n - 1] /\ f[n - 1] \in Int
      BY <1>3, <2>1, <3>1
    <3> QED BY <2>3, <3>2
  <2> QED BY <1>1, <2>2, <2>3
<1> HIDE DEF ones
<1>6. Accumulates(s, f)
  BY <1>3, <1>4, <1>5 DEF Accumulates
<1>7. Total(s) = Cardinality(ones(Len(s)))
  BY <1>1, <1>6, TotalIs
<1> QED BY <1>1, <1>7 DEF ones

-----------------------------------------------------------------------------
(* The counters of a queue.  Each is the sum of a sequence of numbers.       *)

Bytes(s) == [i \in DOMAIN s |-> s[i].bytes]
Weights(s) == [i \in DOMAIN s |-> Weight[s[i]]]
Hits(s, d) == [i \in DOMAIN s |-> IF Target[s[i]] = d THEN 1 ELSE 0]

AccountedReads(q) ==
    /\ q.readBytes = Total(Weights(q.reads))
    /\ \A d \in Docs : q.sources[d] = Total(Hits(q.reads, d))

AccountedMutations(q) == q.bytes = Total(Bytes(q.mutations))

\* The sequences that are summed are as long as the queues.
LEMMA AnyValues ==
    ASSUME NEW s \in Seq(Reqs), NEW d
    PROVE  /\ Weights(s) \in Seq(Nat) /\ Weights(s) \in Seq(Int) /\ Len(Weights(s)) = Len(s)
           /\ Hits(s, d) \in Seq(Nat) /\ Hits(s, d) \in Seq(Int) /\ Len(Hits(s, d)) = Len(s)
           /\ \A i \in 1 .. Len(s) : /\ Weights(s)[i] = Weight[s[i]]
                                     /\ Hits(s, d)[i] = IF Target[s[i]] = d THEN 1 ELSE 0
<1>1. Len(s) \in Nat /\ DOMAIN s = 1 .. Len(s) /\ \A i \in 1 .. Len(s) : s[i] \in Reqs
  OBVIOUS
<1>2. \A i \in 1 .. Len(s) : Weight[s[i]] \in Nat
  BY <1>1, ConstantsAssumption
<1>3. Weights(s) \in Seq(Nat) /\ Len(Weights(s)) = Len(s)
  BY <1>1, <1>2 DEF Weights
<1>4. Hits(s, d) \in Seq(Nat) /\ Len(Hits(s, d)) = Len(s)
  BY <1>1 DEF Hits
<1>5. Weights(s) \in Seq(Int) /\ Hits(s, d) \in Seq(Int)
  BY <1>3, <1>4
<1>6. \A i \in 1 .. Len(s) : /\ Weights(s)[i] = Weight[s[i]]
                             /\ Hits(s, d)[i] = IF Target[s[i]] = d THEN 1 ELSE 0
  BY <1>1 DEF Weights, Hits
<1> QED BY <1>3, <1>4, <1>5, <1>6

\* The same, of a document.
LEMMA Values ==
    ASSUME NEW s \in Seq(Reqs), NEW d \in Docs
    PROVE  /\ Weights(s) \in Seq(Nat) /\ Weights(s) \in Seq(Int) /\ Len(Weights(s)) = Len(s)
           /\ Hits(s, d) \in Seq(Nat) /\ Hits(s, d) \in Seq(Int) /\ Len(Hits(s, d)) = Len(s)
           /\ \A i \in 1 .. Len(s) : /\ Weights(s)[i] = Weight[s[i]]
                                     /\ Hits(s, d)[i] = IF Target[s[i]] = d THEN 1 ELSE 0
BY AnyValues

\* The texts of the waiting mutations.
LEMMA ByteValues ==
    ASSUME NEW s \in Seq(Mutations)
    PROVE  /\ Bytes(s) \in Seq(Nat) /\ Bytes(s) \in Seq(Int) /\ Len(Bytes(s)) = Len(s)
           /\ \A i \in 1 .. Len(s) : Bytes(s)[i] = s[i].bytes
<1>1. Len(s) \in Nat /\ DOMAIN s = 1 .. Len(s) /\ \A i \in 1 .. Len(s) : s[i] \in Mutations
  OBVIOUS
<1>2. \A i \in 1 .. Len(s) : s[i].bytes \in Nat
  BY <1>1 DEF Mutations
<1>3. Bytes(s) \in Seq(Nat) /\ Len(Bytes(s)) = Len(s)
  BY <1>1, <1>2 DEF Bytes
<1>4. Bytes(s) \in Seq(Int)
  BY <1>3
<1>5. \A i \in 1 .. Len(s) : Bytes(s)[i] = s[i].bytes
  BY <1>1 DEF Bytes
<1> QED BY <1>3, <1>4, <1>5

\* An empty queue weighs nothing.
LEMMA EmptyAccounts ==
    ASSUME NEW d
    PROVE  Total(Bytes(<<>>)) = 0 /\ Total(Weights(<<>>)) = 0 /\ Total(Hits(<<>>, d)) = 0
<1>1. PICK a \in Seq(Mutations), b \in Seq(Reqs) : a = <<>> /\ b = <<>> /\ Len(a) = 0 /\ Len(b) = 0
  <2>1. <<>> \in Seq(Mutations) /\ <<>> \in Seq(Reqs) /\ Len(<<>>) = 0
    BY EmptySeq, Zenon
  <2> QED BY <2>1, Zenon
<1>2. Total(Bytes(a)) = 0
  BY <1>1, ByteValues, TotalEmpty
<1>3. Total(Weights(b)) = 0 /\ Total(Hits(b, d)) = 0
  BY <1>1, AnyValues, TotalEmpty
<1> QED BY <1>1, <1>2, <1>3

\* An admitted read adds its weight and its source.
LEMMA ReadWeighs ==
    ASSUME NEW s \in Seq(Reqs), NEW r \in Reqs, NEW d \in Docs
    PROVE  /\ Total(Weights(Append(s, r))) = Total(Weights(s)) + Weight[r]
           /\ Total(Hits(Append(s, r), d)) = Total(Hits(s, d)) + (IF Target[r] = d THEN 1 ELSE 0)
<1>1. PICK t : t = Append(s, r)
  OBVIOUS
<1>2. /\ t \in Seq(Reqs) /\ Len(t) = Len(s) + 1 /\ Len(s) \in Nat /\ t[Len(s) + 1] = r
      /\ \A i \in 1 .. Len(s) : t[i] = s[i]
  BY <1>1
<1>3. PICK v \in Seq(Int), w \in Seq(Int) : v = Weights(s) /\ w = Weights(t)
  BY <1>2, Values
<1>4. PICK g \in Seq(Int), h \in Seq(Int) : g = Hits(s, d) /\ h = Hits(t, d)
  BY <1>2, Values
<1>5. Len(v) = Len(s) /\ Len(w) = Len(t) /\ Len(g) = Len(s) /\ Len(h) = Len(t)
  BY <1>2, <1>3, <1>4, Values
<1>6. \A i \in 1 .. Len(s) : w[i] = v[i] /\ h[i] = g[i]
  <2>1. \A i \in 1 .. Len(s) : i \in 1 .. Len(t)
    BY <1>2
  <2>2. ASSUME NEW i \in 1 .. Len(s) PROVE w[i] = v[i] /\ h[i] = g[i]
    <3>1. /\ w[i] = Weight[t[i]] /\ v[i] = Weight[s[i]]
          /\ h[i] = (IF Target[t[i]] = d THEN 1 ELSE 0) /\ g[i] = (IF Target[s[i]] = d THEN 1 ELSE 0)
      BY <1>2, <1>3, <1>4, <2>1, Values, SMTT(60)
    <3>2. t[i] = s[i]
      BY <1>2
    <3> QED BY <3>1, <3>2
  <2> QED BY <2>2
<1>7. w[Len(w)] = Weight[r] /\ h[Len(h)] = IF Target[r] = d THEN 1 ELSE 0
  <2>1. Len(t) \in 1 .. Len(t) /\ t[Len(t)] = r
    BY <1>2
  <2>2. w[Len(t)] = Weight[t[Len(t)]] /\ h[Len(t)] = IF Target[t[Len(t)]] = d THEN 1 ELSE 0
    <3>1. \A j \in 1 .. Len(t) : /\ Weights(t)[j] = Weight[t[j]]
                                 /\ Hits(t, d)[j] = IF Target[t[j]] = d THEN 1 ELSE 0
      BY <1>2, Values, Zenon
    <3> QED BY <1>3, <1>4, <2>1, <3>1, Zenon
  <2> QED BY <1>5, <2>1, <2>2
<1>8. Total(w) = Total(v) + w[Len(w)]
  BY <1>2, <1>5, <1>6, TotalAppended
<1>9. Total(h) = Total(g) + h[Len(h)]
  BY <1>2, <1>5, <1>6, TotalAppended
<1> QED BY <1>1, <1>3, <1>4, <1>7, <1>8, <1>9

\* A read that leaves gives both back.
LEMMA ReadUnweighs ==
    ASSUME NEW s \in Seq(Reqs), NEW r \in ToSet(s), NEW d \in Docs,
           NEW t, t = RemoveAt(s, IndexOf(s, r))
    PROVE  /\ t \in Seq(Reqs)
           /\ Total(Weights(t)) = Total(Weights(s)) - Weight[r]
           /\ Total(Hits(t, d)) = Total(Hits(s, d)) - (IF Target[r] = d THEN 1 ELSE 0)
<1>1. PICK k \in 1 .. Len(s) : s[k] = r /\ \A i \in 1 .. Len(t) : t[i] = IF i < k THEN s[i] ELSE s[i + 1]
  BY ReadSpliced
<1>2. t \in Seq(Reqs) /\ Len(t) = Len(s) - 1 /\ Len(s) \in Nat /\ Len(t) \in Nat
  BY ReadSpliced
<1>3. PICK v \in Seq(Int), w \in Seq(Int) : v = Weights(s) /\ w = Weights(t)
  BY <1>2, Values
<1>4. PICK g \in Seq(Int), h \in Seq(Int) : g = Hits(s, d) /\ h = Hits(t, d)
  BY <1>2, Values
<1>5. Len(v) = Len(s) /\ Len(w) = Len(t) /\ Len(g) = Len(s) /\ Len(h) = Len(t)
  BY <1>2, <1>3, <1>4, Values
<1>6. ASSUME NEW i \in 1 .. Len(t)
      PROVE  /\ w[i] = IF i < k THEN v[i] ELSE v[i + 1]
             /\ h[i] = IF i < k THEN g[i] ELSE g[i + 1]
  <2>1. i \in 1 .. Len(s) /\ i + 1 \in 1 .. Len(s)
    BY <1>2
  <2>2. /\ w[i] = Weight[t[i]] /\ v[i] = Weight[s[i]] /\ v[i + 1] = Weight[s[i + 1]]
        /\ h[i] = (IF Target[t[i]] = d THEN 1 ELSE 0)
        /\ g[i] = (IF Target[s[i]] = d THEN 1 ELSE 0)
        /\ g[i + 1] = (IF Target[s[i + 1]] = d THEN 1 ELSE 0)
    <3>1. \A j \in 1 .. Len(t) : w[j] = Weight[t[j]] /\ h[j] = IF Target[t[j]] = d THEN 1 ELSE 0
      <4>1. \A j \in 1 .. Len(t) : /\ Weights(t)[j] = Weight[t[j]]
                                   /\ Hits(t, d)[j] = IF Target[t[j]] = d THEN 1 ELSE 0
        BY <1>2, Values, Zenon
      <4> QED BY <1>3, <1>4, <4>1, Zenon
    <3>2. \A j \in 1 .. Len(s) : v[j] = Weight[s[j]] /\ g[j] = IF Target[s[j]] = d THEN 1 ELSE 0
      BY <1>3, <1>4, Values
    <3> QED BY <2>1, <3>1, <3>2
  <2> QED BY <1>1, <2>2
<1>7. v[k] = Weight[r] /\ g[k] = IF Target[r] = d THEN 1 ELSE 0
  BY <1>1, <1>3, <1>4, Values
<1>8. Total(w) = Total(v) - v[k]
  BY <1>1, <1>2, <1>5, <1>6, TotalRemoved, SMTT(60)
<1>9. Total(h) = Total(g) - g[k]
  BY <1>1, <1>2, <1>5, <1>6, TotalRemoved, SMTT(60)
<1> QED BY <1>2, <1>3, <1>4, <1>7, <1>8, <1>9

\* A mutation that is sent gives back its text.
LEMMA MutationUnweighs ==
    ASSUME NEW s \in Seq(Mutations), s # <<>>
    PROVE  /\ Tail(s) \in Seq(Mutations) /\ Len(Tail(s)) = Len(s) - 1 /\ Head(s) \in Mutations
           /\ Total(Bytes(Tail(s))) = Total(Bytes(s)) - Head(s).bytes
<1>1. PICK t : t = Tail(s)
  OBVIOUS
<1>2. /\ t \in Seq(Mutations) /\ Len(t) = Len(s) - 1 /\ Len(s) \in Nat /\ Len(t) \in Nat
      /\ Head(s) = s[1] /\ Head(s) \in Mutations /\ \A i \in 1 .. Len(t) : t[i] = s[i + 1]
  BY <1>1
<1>3. PICK v \in Seq(Int), w \in Seq(Int) : v = Bytes(s) /\ w = Bytes(t)
  BY <1>2, ByteValues
<1>4. Len(v) = Len(s) /\ Len(w) = Len(t) /\ 1 \in 1 .. Len(v)
  BY <1>2, <1>3, ByteValues
<1>5. \A i \in 1 .. Len(s) : v[i] = s[i].bytes
  BY <1>3, ByteValues
<1>6. \A i \in 1 .. Len(t) : w[i] = t[i].bytes
  <2>1. \A i \in 1 .. Len(t) : Bytes(t)[i] = t[i].bytes
    BY <1>2, ByteValues, Zenon
  <2> QED BY <1>3, <2>1, Zenon
<1>7. ASSUME NEW i \in 1 .. Len(w) PROVE w[i] = IF i < 1 THEN v[i] ELSE v[i + 1]
  <2>1. i + 1 \in 1 .. Len(s) /\ i \in 1 .. Len(t) /\ ~(i < 1)
    BY <1>2, <1>4
  <2> QED BY <1>2, <1>5, <1>6, <2>1
<1>8. Total(w) = Total(v) - v[1]
  BY <1>2, <1>4, <1>7, TotalRemoved
<1>9. v[1] = Head(s).bytes
  BY <1>2, <1>4, <1>5
<1> QED BY <1>1, <1>2, <1>3, <1>8, <1>9

\* A mutation joins the queue behind the others.
LEMMA MutationWeighs ==
    ASSUME NEW s \in Seq(Mutations), NEW t \in Seq(Mutations), Len(t) = Len(s) + 1,
           \A i \in 1 .. Len(s) : t[i] = s[i]
    PROVE  Total(Bytes(t)) = Total(Bytes(s)) + t[Len(t)].bytes
<1>1. Len(s) \in Nat /\ Len(t) \in 1 .. Len(t) /\ \A i \in 1 .. Len(s) : i \in 1 .. Len(t)
  OBVIOUS
<1>2. PICK v \in Seq(Int), w \in Seq(Int) : v = Bytes(s) /\ w = Bytes(t) /\ Len(v) = Len(s) /\ Len(w) = Len(t)
  BY ByteValues
<1>3. (\A i \in 1 .. Len(s) : v[i] = s[i].bytes) /\ \A i \in 1 .. Len(t) : w[i] = t[i].bytes
  BY <1>2, ByteValues
<1>4. \A i \in 1 .. Len(v) : w[i] = v[i]
  BY <1>1, <1>2, <1>3
<1>5. w[Len(w)] = t[Len(t)].bytes
  BY <1>1, <1>2, <1>3
<1>6. Total(w) = Total(v) + w[Len(w)]
  BY <1>2, <1>4, TotalAppended
<1> QED BY <1>2, <1>5, <1>6

\* A mutation takes the place of the one it absorbs.
LEMMA MutationReweighs ==
    ASSUME NEW s \in Seq(Mutations), NEW t \in Seq(Mutations), Len(t) = Len(s), NEW x \in 1 .. Len(s),
           \A i \in 1 .. Len(s) : i # x => t[i] = s[i]
    PROVE  Total(Bytes(t)) = Total(Bytes(s)) - s[x].bytes + t[x].bytes
<1>2. PICK v \in Seq(Int), w \in Seq(Int) : v = Bytes(s) /\ w = Bytes(t) /\ Len(v) = Len(s) /\ Len(w) = Len(t)
  BY ByteValues
<1>3. (\A i \in 1 .. Len(s) : v[i] = s[i].bytes) /\ \A i \in 1 .. Len(t) : w[i] = t[i].bytes
  BY <1>2, ByteValues
<1>4. \A i \in 1 .. Len(v) : i # x => w[i] = v[i]
  BY <1>2, <1>3
<1>5. x \in 1 .. Len(v) /\ Len(w) = Len(v) /\ w[x] = t[x].bytes /\ v[x] = s[x].bytes
  BY <1>2, <1>3
<1>6. Total(w) = Total(v) - v[x] + w[x]
  BY <1>4, <1>5, TotalReplaced
<1> QED BY <1>2, <1>5, <1>6

-----------------------------------------------------------------------------
(* What the operations do to a queue.                                        *)

Accounted(q) == AccountedReads(q) /\ AccountedMutations(q)

\* The mutations that were, are or will be sent.
Slots(q) == q.applied + Len(q.mutations) + (IF IsMutation(q.active) THEN 1 ELSE 0)

\* p has the reads of q or fewer of them, and is not ahead of it.
Within(q, p) ==
    /\ p \in Queues /\ Accounted(p) /\ p.generation = q.generation
    /\ ToSet(p.reads) \subseteq ToSet(q.reads) /\ Slots(p) <= Slots(q)

\* Slots is a number, at least the applied mutations.
LEMMA SlotsNumber ==
    ASSUME NEW q \in Queues
    PROVE  Slots(q) \in Nat /\ q.applied <= Slots(q) /\ (IsMutation(q.active) => q.applied + 1 <= Slots(q))
<1>1. q.applied \in Nat /\ q.mutations \in Seq(Mutations)
  BY DEF Queues
<1>2. PICK n \in Nat : n = Len(q.mutations)
  BY <1>1
<1>3. Slots(q) = q.applied + n + (IF IsMutation(q.active) THEN 1 ELSE 0)
  BY <1>2 DEF Slots
<1> QED BY <1>1, <1>3

\* A drained queue.
LEMMA DrainWithin ==
    ASSUME NEW q \in Queues, NEW p, p = DrainAll(q)
    PROVE  Within(q, p) /\ p.active = q.active /\ p.detached = q.detached
<1>1. PICK o \in [Docs -> Int], a \in Seq(Mutations), b \in Seq(Reqs), z \in Int, n \in Reqs \cup {None} :
         o = NoSources /\ a = <<>> /\ b = <<>> /\ z = 0 /\ n = None
  <2>1. <<>> \in Seq(Mutations) /\ <<>> \in Seq(Reqs)
    BY EmptySeq, Zenon
  <2>2. 0 \in Int /\ None \in Reqs \cup {None} /\ NoSources \in [Docs -> Int]
    BY DEF NoSources
  <2> QED BY <2>1, <2>2, Zenon
<1>2. p = [q EXCEPT !.reads = b, !.sources = o, !.readBytes = z, !.bypassed = n, !.mutations = a, !.bytes = z]
  <2>1. p = [[q EXCEPT !.reads = b, !.sources = o, !.readBytes = z, !.bypassed = n]
                EXCEPT !.mutations = a, !.bytes = z]
    BY <1>1 DEF DrainAll, DrainReads
  <2> QED BY <2>1 DEF Queues
<1>3. p \in Queues
  BY <1>2 DEF Queues
<1>4. /\ p.mutations = a /\ p.reads = b /\ p.sources = o /\ p.readBytes = z /\ p.bytes = z
      /\ p.active = q.active /\ p.detached = q.detached /\ p.applied = q.applied /\ p.generation = q.generation
  BY <1>2 DEF Queues
<1>5. Accounted(p)
  <2>1. \A d \in Docs : o[d] = 0
    BY <1>1 DEF NoSources
  <2>2. AccountedMutations(p)
    BY <1>1, <1>4, EmptyAccounts DEF AccountedMutations
  <2>3. p.readBytes = Total(Weights(p.reads))
    BY <1>1, <1>4, EmptyAccounts
  <2>4. ASSUME NEW d \in Docs PROVE p.sources[d] = Total(Hits(p.reads, d))
    BY <1>1, <1>4, <2>1, EmptyAccounts
  <2> QED BY <2>2, <2>3, <2>4 DEF Accounted, AccountedReads
<1>6. ToSet(p.reads) \subseteq ToSet(q.reads)
  BY <1>1, <1>4, Singletons
<1>7. Slots(p) <= Slots(q)
  <2>1. PICK k \in Nat : k = Len(q.mutations)
    BY DEF Queues
  <2>2. q.applied \in Nat /\ Len(p.mutations) = 0
    BY <1>1, <1>4 DEF Queues
  <2> QED BY <1>4, <2>1, <2>2 DEF Slots
<1> QED BY <1>3, <1>4, <1>5, <1>6, <1>7 DEF Within

\* A queue that differs in its lanes, its bypass mark and its revision only.
LEMMA LanesWithin ==
    ASSUME NEW q \in Queues, Accounted(q), NEW p \in Queues,
           p.mutations = q.mutations, p.bytes = q.bytes, p.reads = q.reads, p.sources = q.sources,
           p.readBytes = q.readBytes, p.generation = q.generation, Slots(p) <= Slots(q)
    PROVE  Within(q, p)
BY DEF Within, Accounted, AccountedReads, AccountedMutations

\* Both lanes are emptied.
LEMMA ClearWithin ==
    ASSUME NEW q \in Queues, Accounted(q), NEW p, p = ClearLanes(q)
    PROVE  Within(q, p)
<1>1. p \in Queues
  BY DEF ClearLanes, Queues
<1>2. /\ p.mutations = q.mutations /\ p.reads = q.reads /\ p.sources = q.sources
      /\ p.readBytes = q.readBytes /\ p.bytes = q.bytes
      /\ p.active = None /\ p.applied = q.applied /\ p.generation = q.generation
  BY DEF ClearLanes, Queues
<1>3. Slots(p) <= Slots(q)
  <2>1. ~IsMutation(None) /\ q.applied \in Nat
    BY NoneApart DEF Queues
  <2>2. PICK n \in Nat : n = Len(q.mutations)
    BY DEF Queues
  <2> QED BY <1>2, <2>1, <2>2 DEF Slots
<1> QED BY <1>1, <1>2, <1>3, LanesWithin

\* An admitted read is accounted for.
LEMMA AddAccounted ==
    ASSUME NEW q \in Queues, Accounted(q), NEW r \in Reqs, NEW p, p = AddRead(q, r)
    PROVE  /\ p \in Queues /\ Accounted(p) /\ p.generation = q.generation
           /\ ToSet(p.reads) = ToSet(q.reads) \cup {r} /\ Slots(p) = Slots(q)
<1>1. Target[r] \in Docs /\ Weight[r] \in Nat
  BY ConstantsAssumption
<1>2. PICK s, o, n : /\ s = Append(q.reads, r) /\ o = [q.sources EXCEPT ![Target[r]] = @ + 1]
                     /\ n = q.readBytes + Weight[r]
  OBVIOUS
<1>3. s \in Seq(Reqs) /\ ToSet(s) = ToSet(q.reads) \cup {r}
  <2>1. q.reads \in Seq(Reqs)
    BY DEF Queues
  <2>2. /\ s \in Seq(Reqs) /\ DOMAIN s = DOMAIN q.reads \cup {Len(q.reads) + 1}
        /\ Len(q.reads) + 1 \notin DOMAIN q.reads
        /\ \A i \in DOMAIN q.reads : s[i] = q.reads[i]
        /\ s[Len(q.reads) + 1] = r
    BY <1>2, <2>1, Appended
  <2> QED BY <2>2 DEF ToSet
<1>4. o \in [Docs -> Int] /\ n \in Int
  BY <1>1, <1>2 DEF Queues
<1>5. p = [q EXCEPT !.reads = s, !.sources = o, !.readBytes = n]
  BY <1>2 DEF AddRead, Queues
<1>6. p \in Queues
  BY <1>3, <1>4, <1>5 DEF Queues
<1>7. /\ p.reads = s /\ p.sources = o /\ p.readBytes = n /\ p.mutations = q.mutations /\ p.bytes = q.bytes
      /\ p.active = q.active /\ p.applied = q.applied /\ p.generation = q.generation
  BY <1>5 DEF Queues
<1>8. AccountedReads(p)
  <2>1. q.reads \in Seq(Reqs) /\ q.readBytes = Total(Weights(q.reads))
        /\ \A d \in Docs : q.sources[d] = Total(Hits(q.reads, d))
    BY DEF Queues, Accounted, AccountedReads
  <2>2. n = Total(Weights(s))
    BY <1>1, <1>2, <2>1, ReadWeighs
  <2>3. ASSUME NEW d \in Docs PROVE o[d] = Total(Hits(s, d))
    <3>1. Total(Hits(s, d)) = q.sources[d] + (IF Target[r] = d THEN 1 ELSE 0) /\ q.sources[d] \in Int
      BY <1>2, <2>1, ReadWeighs DEF Queues
    <3>2. q.sources \in [Docs -> Int]
      BY DEF Queues
    <3>3. o[d] = IF Target[r] = d THEN q.sources[d] + 1 ELSE q.sources[d]
      BY <1>1, <1>2, <3>2
    <3> QED BY <3>1, <3>3
  <2> QED BY <1>7, <2>2, <2>3 DEF AccountedReads
<1>9. AccountedMutations(p)
  BY <1>7 DEF Accounted, AccountedMutations
<1> QED BY <1>3, <1>6, <1>7, <1>8, <1>9 DEF Accounted, Slots

\* A read that is taken out is accounted for.
LEMMA ReleaseAccounted ==
    ASSUME NEW q \in Queues, Accounted(q), NEW r \in ToSet(q.reads), NEW x \in Reqs \cup {None},
           NEW p, p = ReleaseRead([q EXCEPT !.bypassed = x], r)
    PROVE  /\ Within(q, p) /\ p.mutations = q.mutations /\ p.active = q.active
           /\ p.detached = q.detached /\ p.applied = q.applied
<1>1. q.reads \in Seq(Reqs) /\ r \in Reqs /\ Target[r] \in Docs /\ Weight[r] \in Nat
  BY ConstantsAssumption DEF Queues, ToSet
<1>2. PICK s : s = RemoveAt(q.reads, IndexOf(q.reads, r))
  OBVIOUS
<1>3. s \in Seq(Reqs) /\ ToSet(s) \subseteq ToSet(q.reads)
  <2>1. /\ s \in Seq(Reqs) /\ Len(s) = Len(q.reads) - 1
    BY <1>1, <1>2, ReadSpliced
  <2>2. PICK k \in 1 .. Len(q.reads) :
           \A i \in 1 .. Len(s) : s[i] = IF i < k THEN q.reads[i] ELSE q.reads[i + 1]
    BY <1>1, <1>2, ReadSpliced, SMTT(60)
  <2>3. ASSUME NEW i \in 1 .. Len(s) PROVE s[i] \in ToSet(q.reads)
    <3>1. i \in DOMAIN q.reads /\ i + 1 \in DOMAIN q.reads
      BY <1>1, <2>1
    <3> QED BY <2>2, <3>1 DEF ToSet
  <2>4. DOMAIN s = 1 .. Len(s)
    BY <2>1
  <2> QED BY <2>1, <2>3, <2>4 DEF ToSet
<1>4. PICK o : o = [q.sources EXCEPT ![Target[r]] = @ - 1]
  OBVIOUS
<1>5. o \in [Docs -> Int] /\ q.readBytes - Weight[r] \in Int
  BY <1>1, <1>4 DEF Queues
<1>6. PICK y \in Reqs \cup {None}, n \in Int : y = (IF x = r THEN None ELSE x) /\ n = q.readBytes - Weight[r]
  BY <1>5
<1>7. p = [q EXCEPT !.reads = s, !.sources = o, !.readBytes = n, !.bypassed = y]
  BY <1>1, <1>2, <1>4, <1>6 DEF ReleaseRead, Queues
<1>8. p \in Queues
  BY <1>3, <1>5, <1>7 DEF Queues
<1>9. /\ p.reads = s /\ p.sources = o /\ p.readBytes = n /\ p.mutations = q.mutations /\ p.bytes = q.bytes
      /\ p.active = q.active /\ p.detached = q.detached /\ p.applied = q.applied /\ p.generation = q.generation
  BY <1>7 DEF Queues
<1>10. AccountedReads(p)
  <2>1. q.readBytes = Total(Weights(q.reads)) /\ \A d \in Docs : q.sources[d] = Total(Hits(q.reads, d))
    BY DEF Accounted, AccountedReads
  <2>2. n = Total(Weights(s))
    BY <1>1, <1>2, <1>6, <2>1, ReadUnweighs
  <2>3. ASSUME NEW d \in Docs PROVE o[d] = Total(Hits(s, d))
    <3>1. Total(Hits(s, d)) = q.sources[d] - (IF Target[r] = d THEN 1 ELSE 0) /\ q.sources[d] \in Int
      BY <1>1, <1>2, <2>1, ReadUnweighs DEF Queues
    <3>2. q.sources \in [Docs -> Int]
      BY DEF Queues
    <3>3. o[d] = IF Target[r] = d THEN q.sources[d] - 1 ELSE q.sources[d]
      BY <1>1, <1>4, <3>2
    <3> QED BY <3>1, <3>3
  <2> QED BY <1>9, <2>2, <2>3 DEF AccountedReads
<1>11. AccountedMutations(p)
  BY <1>9 DEF Accounted, AccountedMutations
<1>12. Slots(p) <= Slots(q)
  <2>1. Slots(p) = Slots(q) /\ Slots(q) \in Nat
    BY <1>9, SlotsNumber DEF Slots
  <2> QED BY <2>1
<1> QED BY <1>3, <1>8, <1>9, <1>10, <1>11, <1>12 DEF Within, Accounted

\* The pump changes no revision and fills lanes, it never empties one.
Fills(q, p) ==
    /\ p.applied = q.applied
    /\ p.active # q.active => p.active # None
    /\ p.detached # q.detached => p.detached # None

\* One iteration of the pump.
LEMMA PumpOnceWithin ==
    ASSUME NEW q \in Queues, Accounted(q), NEW p, p = PumpOnce(q)
    PROVE  Within(q, p) /\ Fills(q, p)
<1>1. CASE q.active # None
  <2>1. p = q
    BY <1>1 DEF PumpOnce
  <2>2. Slots(q) <= Slots(q)
    BY SlotsNumber
  <2> QED BY <2>1, <2>2 DEF Within, Fills
<1>2. CASE q.active = None /\ q.mutations # <<>>
  <2>1. PICK m, s, n : m = Head(q.mutations) /\ s = Tail(q.mutations) /\ n = q.bytes - m.bytes
    OBVIOUS
  <2>2. /\ m \in Mutations /\ s \in Seq(Mutations) /\ Len(s) = Len(q.mutations) - 1
        /\ Total(Bytes(s)) = Total(Bytes(q.mutations)) - m.bytes
    BY <1>2, <2>1, MutationUnweighs DEF Queues
  <2>3. n \in Int
    BY <2>1, <2>2 DEF Queues, Mutations
  <2>4. p = [q EXCEPT !.active = m, !.mutations = s, !.bytes = n]
    BY <1>2, <2>1 DEF PumpOnce, Queues
  <2>5. p \in Queues
    BY <2>2, <2>3, <2>4 DEF Queues
  <2>6. /\ p.active = m /\ p.mutations = s /\ p.bytes = n /\ p.reads = q.reads /\ p.sources = q.sources
        /\ p.readBytes = q.readBytes /\ p.applied = q.applied /\ p.generation = q.generation
        /\ p.detached = q.detached
    BY <2>4 DEF Queues
  <2>7. Accounted(p)
    <3>1. AccountedReads(p)
      BY <2>6 DEF Accounted, AccountedReads
    <3>2. n = Total(Bytes(s))
      BY <2>1, <2>2 DEF Accounted, AccountedMutations
    <3> QED BY <2>6, <3>1, <3>2 DEF Accounted, AccountedMutations
  <2>8. Slots(p) <= Slots(q)
    <3>1. IsMutation(m) /\ ~IsMutation(None)
      BY <2>2, MutationsApart, NoneApart DEF IsMutation
    <3>2. PICK k \in Nat : k = Len(q.mutations)
      BY DEF Queues
    <3>3. q.applied \in Nat
      BY DEF Queues
    <3>4. Slots(p) = q.applied + (k - 1) + 1
      BY <2>2, <2>6, <3>1, <3>2 DEF Slots
    <3>5. Slots(q) = q.applied + k + 0
      BY <1>2, <3>1, <3>2 DEF Slots
    <3> QED BY <3>3, <3>4, <3>5
  <2>9. m # None
    BY <2>2, NoneApart, MutationsApart
  <2> QED BY <2>5, <2>6, <2>7, <2>8, <2>9 DEF Within, Fills
<1>3. ASSUME NEW x \in Reqs \cup {None}, p = [q EXCEPT !.bypassed = x]
      PROVE  Within(q, p) /\ Fills(q, p)
  <2>1. p \in Queues
    BY <1>3 DEF Queues
  <2>2. /\ p.mutations = q.mutations /\ p.reads = q.reads /\ p.sources = q.sources
        /\ p.readBytes = q.readBytes /\ p.bytes = q.bytes
        /\ p.active = q.active /\ p.applied = q.applied /\ p.generation = q.generation
        /\ p.detached = q.detached
    BY <1>3 DEF Queues
  <2>3. Slots(p) = Slots(q) /\ Slots(q) \in Nat
    BY <2>2, SlotsNumber DEF Slots
  <2>4. Slots(p) <= Slots(q)
    BY <2>3
  <2> QED BY <2>1, <2>2, <2>4, LanesWithin DEF Fills
<1>4. CASE q.active = None /\ q.mutations = <<>> /\ q.reads = <<>>
  <2>1. p = [q EXCEPT !.bypassed = None]
    BY <1>4 DEF PumpOnce
  <2> QED BY <1>3, <2>1
<1>5. CASE q.active = None /\ q.mutations = <<>> /\ q.reads # <<>>
  <2>1. PICK next : next = TakeNext(q.reads, q.detached # None, q.bypassed)
    OBVIOUS
  <2>2. /\ next.bypassed \in Reqs \cup {None}
        /\ next.request # None => next.request \in ToSet(q.reads)
    <3>1. q.reads \in Seq(Reqs) /\ q.bypassed \in Reqs \cup {None} /\ (q.detached # None) \in BOOLEAN
      BY DEF Queues
    <3> QED BY <1>5, <2>1, <3>1, TakeNextIn
  <2>3. PICK x, r : x = next.bypassed /\ r = next.request
    OBVIOUS
  <2>4. CASE r = None
    <3>1. p = [q EXCEPT !.bypassed = x]
      BY <1>5, <2>1, <2>3, <2>4 DEF PumpOnce
    <3> QED BY <1>3, <2>2, <2>3, <3>1
  <2>5. CASE r # None
    <3>1. PICK s : s = ReleaseRead([q EXCEPT !.bypassed = x], r)
      OBVIOUS
    <3>2. r \in ToSet(q.reads) /\ x \in Reqs \cup {None} /\ r \in Reqs
      BY <2>2, <2>3, <2>5 DEF Queues, ToSet
    <3>3. /\ Within(q, s) /\ s \in Queues /\ Accounted(s) /\ s.mutations = q.mutations
          /\ s.active = q.active /\ s.applied = q.applied /\ s.generation = q.generation
          /\ s.detached = q.detached
          /\ ToSet(s.reads) \subseteq ToSet(q.reads)
      BY <3>1, <3>2, ReleaseAccounted DEF Within
    <3>4. p = [s EXCEPT !.detached = r] \/ p = [s EXCEPT !.active = r]
      BY <1>5, <2>1, <2>3, <2>5, <3>1 DEF PumpOnce
    <3>5. p \in Queues
      BY <3>2, <3>3, <3>4 DEF Queues
    <3>6. /\ p.mutations = s.mutations /\ p.bytes = s.bytes /\ p.reads = s.reads /\ p.sources = s.sources
          /\ p.readBytes = s.readBytes /\ p.generation = s.generation /\ p.applied = s.applied
          /\ p.active \in {s.active, r} /\ p.detached \in {s.detached, r}
      BY <3>3, <3>4 DEF Queues
    <3>7. ~IsMutation(p.active) /\ ~IsMutation(q.active)
      BY <1>5, <3>2, <3>3, <3>6, NoneApart DEF IsMutation
    <3>8. Slots(p) = Slots(q) /\ Slots(q) \in Nat
      BY <3>3, <3>6, <3>7, SlotsNumber DEF Slots
    <3>9. Accounted(p)
      BY <3>3, <3>6 DEF Accounted, AccountedReads, AccountedMutations
    <3> QED BY <3>3, <3>5, <3>6, <3>8, <3>9, <2>5 DEF Within, Fills
  <2> QED BY <2>4, <2>5
<1> QED BY <1>1, <1>2, <1>4, <1>5

\* The pump.
LEMMA PumpWithin ==
    ASSUME NEW q \in Queues, Accounted(q), NEW p \in {PumpOnce(q), Pump(q)}
    PROVE  Within(q, p) /\ Fills(q, p)
<1>1. PICK s : s = PumpOnce(q)
  OBVIOUS
<1>2. Within(q, s) /\ Fills(q, s)
  BY <1>1, PumpOnceWithin
<1>3. p = s \/ p = PumpOnce(s)
  BY <1>1 DEF Pump
<1>4. CASE p = PumpOnce(s)
  <2>1. s \in Queues /\ Accounted(s)
    BY <1>2 DEF Within
  <2>2. Within(s, p) /\ Fills(s, p)
    BY <1>4, <2>1, PumpOnceWithin
  <2>3. p \in Queues
    BY <2>2 DEF Within
  <2>4. Slots(p) \in Nat /\ Slots(s) \in Nat /\ Slots(q) \in Nat
    BY <2>1, <2>3, SlotsNumber
  <2> QED BY <1>2, <2>2, <2>4 DEF Within, Fills
<1> QED BY <1>2, <1>3, <1>4

-----------------------------------------------------------------------------
(* Records, promises and messages in the middle of a handler.                *)

\* What identifies a request is within the number of edits.
Ranged(x) ==
    /\ x.version \in 0 .. MaxEdits /\ x.generation \in 0 .. MaxEdits /\ x.required \in 0 .. MaxEdits

Current(q, rq) == \A r \in ToSet(q.reads) : rq[r].generation = q.generation

\* The edits that have a promise bound the generation and the mutations.
Budgeted(q, ed) ==
    \E k \in 0 .. MaxEdits : /\ \A e \in 1 .. k : ed[e] # "none"
                             /\ q.generation <= k /\ Slots(q) <= k

Notes ==
    [type : {"request"}, id : Reqs, required : 0 .. MaxEdits, version : 0 .. MaxEdits]
    \cup [type : {"mutation"}, revision : 0 .. MaxEdits, mutation : Mutations]

Sound(q, rq, ed, ib) ==
    /\ q \in Queues /\ Accounted(q) /\ Current(q, rq) /\ Budgeted(q, ed)
    /\ rq \in [Reqs -> Records] /\ \A r \in Reqs : Ranged(rq[r])
    /\ ib \in Seq(Notes)

\* No promise is forgotten.
Grows(ed, ed2) == \A e \in EditIds : ed[e] # "none" => ed2[e] # "none"

\* Only the cells, states and outcomes of the records change.
SameIds(rq, rq2) ==
    \A r \in Reqs : /\ rq2[r].version = rq[r].version /\ rq2[r].generation = rq[r].generation
                    /\ rq2[r].required = rq[r].required

\* A queue within another is as sound.
LEMMA WithinSound ==
    ASSUME NEW q, NEW rq, NEW ed, NEW ib, Sound(q, rq, ed, ib), NEW p, Within(q, p),
           NEW rq2 \in [Reqs -> Records], SameIds(rq, rq2), NEW ed2, Grows(ed, ed2)
    PROVE  Sound(p, rq2, ed2, ib)
<1>1. q \in Queues /\ p \in Queues /\ ToSet(q.reads) \subseteq Reqs /\ ToSet(p.reads) \subseteq ToSet(q.reads)
  <2>1. q \in Queues /\ p \in Queues /\ ToSet(p.reads) \subseteq ToSet(q.reads)
    BY DEF Sound, Within
  <2>2. q.reads \in Seq(Reqs)
    BY <2>1 DEF Queues
  <2> QED BY <2>1, <2>2 DEF ToSet
<1>2. Current(p, rq2)
  BY <1>1 DEF Sound, Within, SameIds, Current
<1>3. Budgeted(p, ed2)
  <2>1. PICK k \in 0 .. MaxEdits : (\A e \in 1 .. k : ed[e] # "none") /\ q.generation <= k /\ Slots(q) <= k
    BY DEF Sound, Budgeted
  <2>2. \A e \in 1 .. k : e \in EditIds
    BY ConstantsAssumption DEF EditIds
  <2>3. \A e \in 1 .. k : ed2[e] # "none"
    BY <2>1, <2>2 DEF Grows
  <2>4. Slots(p) \in Nat /\ Slots(q) \in Nat /\ Slots(p) <= Slots(q) /\ p.generation = q.generation /\ k \in Nat
    BY <1>1, SlotsNumber DEF Within
  <2>5. Slots(p) <= k /\ p.generation <= k
    BY <2>1, <2>4
  <2> QED BY <2>3, <2>5 DEF Budgeted
<1>4. \A r \in Reqs : Ranged(rq2[r])
  BY DEF Sound, SameIds, Ranged
<1> QED BY <1>1, <1>2, <1>3, <1>4 DEF Sound, Within

\* A queue is within itself.
LEMMA SameWithin ==
    ASSUME NEW q, q \in Queues, Accounted(q)
    PROVE  Within(q, q)
<1>1. Slots(q) <= Slots(q)
  BY SlotsNumber
<1> QED BY <1>1 DEF Within

\* Settled promises are not forgotten.
LEMMA SettledGrow ==
    ASSUME NEW ed, NEW S, NEW status \in {"resolved", "rejected"}
    PROVE  Grows(ed, SettleEdits(ed, S, status))
BY DEF Grows, SettleEdits

\* Cancellation changes no identity.
LEMMA CancelledIds ==
    ASSUME NEW rq \in [Reqs -> Records], NEW S, NEW reason \in Cells
    PROVE  Cancel(rq, S, reason) \in [Reqs -> Records] /\ SameIds(rq, Cancel(rq, S, reason))
BY CancelledRecords DEF SameIds

\* Neither does settlement with one code.
LEMMA SettledIds ==
    ASSUME NEW rq \in [Reqs -> Records], NEW S, NEW o \in Codes \cup {"ok"}, NEW rq2,
           rq2 = Settle(rq, S, LAMBDA r : o)
    PROVE  rq2 \in [Reqs -> Records] /\ SameIds(rq, rq2)
<1>1. PICK out : out = [r \in Reqs |-> o]
  OBVIOUS
<1>2. out \in [Reqs -> Codes \cup {"ok"}]
  BY <1>1
<1>3. rq2 = [r \in Reqs |-> IF r \in S THEN [rq[r] EXCEPT !.state = "settled", !.outcome = out[r]] ELSE rq[r]]
  BY <1>1 DEF Settle
<1>4. Settled(rq, S, rq2)
  BY <1>2, <1>3, SettledRecords
<1> QED BY <1>4 DEF Settled, SameIds

\* Nor with the failure or the cancellation that won the cell.
LEMMA FailedIds ==
    ASSUME NEW rq \in [Reqs -> Records], NEW S, NEW failure \in Codes, NEW rq2,
           rq2 = SettleFailure(rq, S, failure)
    PROVE  rq2 \in [Reqs -> Records] /\ SameIds(rq, rq2)
<1>1. PICK out : out = [r \in Reqs |-> IF rq[r].cell \in {"client-cancelled", "content-modified"}
                                       THEN CancellationError(rq[r].cell) ELSE failure]
  OBVIOUS
<1>2. out \in [Reqs -> Codes \cup {"ok"}]
  BY <1>1 DEF CancellationError, Codes
<1>3. rq2 = [r \in Reqs |-> IF r \in S THEN [rq[r] EXCEPT !.state = "settled", !.outcome = out[r]] ELSE rq[r]]
  BY <1>1 DEF SettleFailure, Settle
<1>4. Settled(rq, S, rq2)
  BY <1>2, <1>3, SettledRecords
<1> QED BY <1>4 DEF Settled, SameIds

\* Identities are kept by one change after another.
LEMMA SameIdsTwice ==
    ASSUME NEW a, NEW b, NEW c, SameIds(a, b), SameIds(b, c)
    PROVE  SameIds(a, c)
BY DEF SameIds

\* Shutting down.
LEMMA ShutDownSound ==
    ASSUME NEW q, NEW rq, NEW ed, NEW ib, Sound(q, rq, ed, ib), NEW failure \in Codes, NEW cause,
           NEW terminal \in BOOLEAN, ShutDown(q, rq, ed, failure, cause, terminal)
    PROVE  Sound(queue', req', edit', ib)
<1>1. q \in Queues /\ Accounted(q) /\ rq \in [Reqs -> Records]
  BY DEF Sound
<1>2. PICK c : c = Cancel(rq, Running(q) \cup ToSet(q.reads), "supervisor-disposing")
  OBVIOUS
<1>3. c \in [Reqs -> Records] /\ SameIds(rq, c)
  <2>1. "supervisor-disposing" \in Cells
    BY DEF Cells
  <2> QED BY <1>1, <1>2, <2>1, CancelledIds
<1>4. PICK d : d = Settle(c, ToSet(q.reads), LAMBDA r : failure)
  OBVIOUS
<1>5. d \in [Reqs -> Records] /\ SameIds(rq, d)
  <2>1. d \in [Reqs -> Records] /\ SameIds(c, d)
    <3>1. failure \in Codes \cup {"ok"}
      OBVIOUS
    <3> QED BY <1>3, <1>4, <3>1, SettledIds
  <2> QED BY <1>3, <2>1, SameIdsTwice
<1>6. PICK p : p = DrainAll(q)
  OBVIOUS
<1>7. Within(q, p) /\ p \in Queues /\ Accounted(p)
  BY <1>1, <1>6, DrainWithin DEF Within
<1>8. CASE terminal
  <2>1. /\ req' = SettleFailure(d, Running(q), failure)
        /\ edit' = SettleEdits(ed, PendingEdits(q) \cup ActiveEdits(q), "rejected")
        /\ queue' = ClearLanes(p)
    BY <1>2, <1>4, <1>6, <1>8 DEF ShutDown
  <2>2. req' \in [Reqs -> Records] /\ SameIds(rq, req')
    <3>1. req' \in [Reqs -> Records] /\ SameIds(d, req')
      BY <1>5, <2>1, FailedIds
    <3> QED BY <1>5, <3>1, SameIdsTwice
  <2>3. Grows(ed, edit')
    BY <2>1, SettledGrow
  <2>4. Within(p, queue')
    BY <1>7, <2>1, ClearWithin
  <2>5. Within(q, queue')
    <3>1. queue' \in Queues
      BY <2>4 DEF Within
    <3>2. Slots(q) \in Nat /\ Slots(p) \in Nat /\ Slots(queue') \in Nat
      BY <1>1, <1>7, <3>1, SlotsNumber
    <3> QED BY <1>7, <2>4, <3>2 DEF Within
  <2> QED BY <2>2, <2>3, <2>5, WithinSound
<1>9. CASE ~terminal
  <2>1. req' = d /\ edit' = SettleEdits(ed, PendingEdits(q), "rejected") /\ queue' = p
    BY <1>2, <1>4, <1>6, <1>9 DEF ShutDown
  <2>2. Grows(ed, edit')
    BY <2>1, SettledGrow
  <2> QED BY <1>5, <1>7, <2>1, <2>2, WithinSound
<1> QED BY <1>8, <1>9

\* A sound queue has room for the revision it sends.
LEMMA RevisionRanged ==
    ASSUME NEW q, NEW rq, NEW ed, NEW ib, Sound(q, rq, ed, ib)
    PROVE  /\ q.applied \in 0 .. MaxEdits /\ q.generation \in 0 .. MaxEdits
           /\ IsMutation(q.active) => q.applied + 1 \in 0 .. MaxEdits
<1>1. q \in Queues /\ MaxEdits \in Nat
  BY ConstantsAssumption DEF Sound
<1>2. PICK k \in 0 .. MaxEdits : q.generation <= k /\ Slots(q) <= k
  BY DEF Sound, Budgeted
<1>3. q.applied \in Nat /\ q.generation \in Nat
  BY <1>1 DEF Queues
<1>4. Slots(q) \in Nat /\ q.applied <= Slots(q) /\ (IsMutation(q.active) => q.applied + 1 <= Slots(q))
  BY <1>1, SlotsNumber
<1> QED BY <1>1, <1>2, <1>3, <1>4

\* A sent record carries the revision it was sent at.
LEMMA MarkedRanged ==
    ASSUME NEW q, q.applied \in 0 .. MaxEdits, NEW rq \in [Reqs -> Records],
           \A r \in Reqs : Ranged(rq[r]), NEW cmds, NEW rq2, rq2 = MarkSent(q, rq, cmds)
    PROVE  /\ rq2 \in [Reqs -> Records]
           /\ \A r \in Reqs : Ranged(rq2[r]) /\ rq2[r].generation = rq[r].generation
<1>1. PICK n \in Nat : n = q.applied /\ n \in 0 .. MaxEdits
  BY ConstantsAssumption
<1>2. ASSUME NEW r \in Reqs
      PROVE  rq2[r] \in Records /\ Ranged(rq2[r]) /\ rq2[r].generation = rq[r].generation
  <2>1. PICK x \in Records : x = rq[r] /\ Ranged(x)
    OBVIOUS
  <2>2. rq2[r] = IF r \in ToSet(cmds) THEN [x EXCEPT !.state = "sent", !.required = n] ELSE x
    BY <1>1, <2>1 DEF MarkSent
  <2>3. CASE r \in ToSet(cmds)
    <3>1. PICK y : y = [x EXCEPT !.state = "sent", !.required = n]
      OBVIOUS
    <3>2. y \in Records /\ y.version = x.version /\ y.generation = x.generation /\ y.required = n
      BY <3>1 DEF Records
    <3> QED BY <1>1, <2>1, <2>2, <2>3, <3>1, <3>2 DEF Ranged
  <2>4. CASE r \notin ToSet(cmds)
    BY <2>1, <2>2, <2>4
  <2> QED BY <2>3, <2>4
<1>3. rq2 = [r \in Reqs |-> rq2[r]]
  BY DEF MarkSent
<1> QED BY <1>2, <1>3

\* What the pump posts.
LEMMA WiresRanged ==
    ASSUME NEW q \in Queues, NEW p \in Queues, Fills(q, p), q.applied \in 0 .. MaxEdits,
           IsMutation(p.active) => q.applied + 1 \in 0 .. MaxEdits,
           NEW rq, \A r \in Reqs : Ranged(rq[r]), NEW cmds, cmds = Commands(q, p)
    PROVE  /\ Wires(q, rq, cmds) \in Seq(Notes)
           /\ cmds # <<>> => Wires(q, rq, Front(cmds)) \in Seq(Notes)
<1> DEFINE C == {x \in Reqs \cup Mutations : Wire(q, rq, x) \in Notes}
<1>1. ASSUME NEW x \in Reqs PROVE x \in C
  BY DEF Wire, Notes, Ranged
<1>2. ASSUME p.active # q.active PROVE p.active \in C
  <2>1. p.active \in Reqs \/ p.active \in Mutations
    BY <1>2 DEF Queues, Fills
  <2>2. CASE p.active \in Mutations
    <3>1. IsMutation(p.active) /\ p.active \notin Reqs
      BY <2>2, MutationsApart, NoneApart DEF IsMutation
    <3>2. Wire(q, rq, p.active) = [type |-> "mutation", revision |-> q.applied + 1, mutation |-> p.active]
      BY <3>1 DEF Wire
    <3>3. PICK v \in 0 .. MaxEdits, m \in Mutations : v = q.applied + 1 /\ m = p.active
      BY <2>2, <3>1
    <3>4. [type |-> "mutation", revision |-> v, mutation |-> m] \in Notes
      BY DEF Notes
    <3> QED BY <2>2, <3>2, <3>3, <3>4
  <2> QED BY <1>1, <2>1, <2>2
<1>3. ASSUME p.detached # q.detached PROVE p.detached \in C
  <2>1. p.detached \in Reqs
    BY <1>3 DEF Queues, Fills
  <2> QED BY <1>1, <2>1
<1>4. \A x \in C : Wire(q, rq, x) \in Notes
  OBVIOUS
<1> HIDE DEF C
<1>5. cmds \in Seq(C)
  <2>1. PICK a, b : /\ a = (IF p.detached # q.detached THEN <<p.detached>> ELSE <<>>)
                    /\ b = (IF p.active # q.active THEN <<p.active>> ELSE <<>>)
    OBVIOUS
  <2>2. a \in Seq(C)
    BY <1>3, <2>1
  <2>3. b \in Seq(C)
    BY <1>2, <2>1
  <2>4. cmds = a \o b
    BY <2>1 DEF Commands
  <2> QED BY <2>2, <2>3, <2>4, ConcatProperties
<1>6. ASSUME NEW s \in Seq(C) PROVE Wires(q, rq, s) \in Seq(Notes)
  <2>1. Len(s) \in Nat /\ DOMAIN s = 1 .. Len(s) /\ \A i \in 1 .. Len(s) : s[i] \in C
    OBVIOUS
  <2>2. \A i \in 1 .. Len(s) : Wire(q, rq, s[i]) \in Notes
    BY <1>4, <2>1
  <2>3. [i \in 1 .. Len(s) |-> Wire(q, rq, s[i])] \in [1 .. Len(s) -> Notes]
    BY <2>2
  <2>4. Wires(q, rq, s) = [i \in 1 .. Len(s) |-> Wire(q, rq, s[i])]
    BY <2>1 DEF Wires
  <2> QED BY <2>1, <2>3, <2>4, SeqDef
<1>7. ASSUME cmds # <<>> PROVE Front(cmds) \in Seq(C)
  <2>1. Len(cmds) \in Nat /\ \A i \in 1 .. Len(cmds) - 1 : cmds[i] \in C
    BY <1>5
  <2>2. SubSeq(cmds, 1, Len(cmds) - 1) \in Seq(C)
    BY <2>1, SubSeqProperties
  <2> QED BY <2>2 DEF Front
<1> QED BY <1>5, <1>6, <1>7

\* The pump at the end of a handler.
LEMMA PumpAfterSound ==
    ASSUME NEW q, NEW rq, NEW ed, Sound(q, rq, ed, inbox), PumpAfter(q, rq, ed)
    PROVE  Sound(queue', req', edit', inbox')
<1>1. q \in Queues /\ Accounted(q) /\ rq \in [Reqs -> Records] /\ inbox \in Seq(Notes) /\ Current(q, rq)
      /\ \A r \in Reqs : Ranged(rq[r])
  BY DEF Sound
<1>2. ASSUME NEW p, Within(q, p), Fills(q, p), NEW cmds, cmds = Commands(q, p)
      PROVE  /\ Sound(p, MarkSent(q, rq, cmds), ed, inbox \o Wires(q, rq, cmds))
             /\ cmds # <<>> => Sound(p, MarkSent(q, rq, cmds), ed, inbox \o Wires(q, rq, Front(cmds)))
  <2>1. PICK rq2 : rq2 = MarkSent(q, rq, cmds)
    OBVIOUS
  <2>2. SameIds(rq, rq) /\ Grows(ed, ed)
    BY DEF SameIds, Grows
  <2>3. Sound(p, rq, ed, inbox)
    BY <1>1, <1>2, <2>2, WithinSound
  <2>4. p \in Queues /\ p.applied = q.applied
    BY <1>2 DEF Within, Fills
  <2>5. q.applied \in 0 .. MaxEdits /\ (IsMutation(p.active) => q.applied + 1 \in 0 .. MaxEdits)
    BY <2>3, <2>4, RevisionRanged
  <2>6. rq2 \in [Reqs -> Records] /\ \A r \in Reqs : Ranged(rq2[r]) /\ rq2[r].generation = rq[r].generation
    BY <1>1, <2>1, <2>5, MarkedRanged
  <2>7. Current(p, rq2)
    <3>1. ToSet(p.reads) \subseteq Reqs /\ Current(p, rq)
      <4>1. p.reads \in Seq(Reqs)
        BY <2>4 DEF Queues
      <4> QED BY <2>3, <4>1 DEF ToSet, Sound
    <3> QED BY <2>6, <3>1 DEF Current
  <2>8. ASSUME NEW t \in Seq(Notes) PROVE Sound(p, rq2, ed, inbox \o t)
    <3>1. inbox \o t \in Seq(Notes)
      BY <1>1, ConcatProperties
    <3> QED BY <2>3, <2>6, <2>7, <3>1 DEF Sound
  <2>9. /\ Wires(q, rq, cmds) \in Seq(Notes)
        /\ cmds # <<>> => Wires(q, rq, Front(cmds)) \in Seq(Notes)
    BY <1>1, <1>2, <2>4, <2>5, WiresRanged
  <2> QED BY <2>1, <2>8, <2>9
<1>3. CASE \E p \in {IF life.disposed THEN q ELSE Pump(q)} : \E cmds \in {Commands(q, p)} :
               /\ queue' = p /\ req' = MarkSent(q, rq, cmds)
               /\ inbox' = inbox \o Wires(q, rq, cmds) /\ edit' = ed
  <2>1. PICK p, cmds : /\ p = (IF life.disposed THEN q ELSE Pump(q)) /\ cmds = Commands(q, p)
                       /\ queue' = p /\ req' = MarkSent(q, rq, cmds)
                       /\ inbox' = inbox \o Wires(q, rq, cmds) /\ edit' = ed
    BY <1>3
  <2>2. Within(q, p) /\ Fills(q, p)
    <3>1. CASE life.disposed
      BY <1>1, <2>1, <3>1, SameWithin DEF Fills
    <3>2. CASE ~life.disposed
      BY <1>1, <2>1, <3>2, PumpWithin
    <3> QED BY <3>1, <3>2
  <2>3. Sound(p, MarkSent(q, rq, cmds), ed, inbox \o Wires(q, rq, cmds))
    BY <1>2, <2>1, <2>2
  <2> QED BY <2>1, <2>3
<1>4. CASE \E p \in {PumpOnce(q), Pump(q)} : \E cmds \in {Commands(q, p)} :
               /\ cmds # <<>>
               /\ inbox' = inbox \o Wires(q, rq, Front(cmds))
               /\ ShutDown(p, MarkSent(q, rq, cmds), ed, "worker-unavailable", "send", FALSE)
  <2>1. PICK p, cmds :
               /\ p \in {PumpOnce(q), Pump(q)} /\ cmds = Commands(q, p) /\ cmds # <<>>
               /\ inbox' = inbox \o Wires(q, rq, Front(cmds))
               /\ ShutDown(p, MarkSent(q, rq, cmds), ed, "worker-unavailable", "send", FALSE)
    BY <1>4
  <2>2. PICK rq2, t : rq2 = MarkSent(q, rq, cmds) /\ t = inbox \o Wires(q, rq, Front(cmds))
    OBVIOUS
  <2>3. Within(q, p) /\ Fills(q, p)
    BY <1>1, <2>1, PumpWithin
  <2>4. Sound(p, rq2, ed, t)
    BY <1>2, <2>1, <2>2, <2>3
  <2>5. PICK failure \in Codes, terminal \in BOOLEAN : failure = "worker-unavailable" /\ terminal = FALSE
    BY DEF Codes
  <2>6. ShutDown(p, rq2, ed, failure, "send", terminal)
    BY <2>1, <2>2, <2>5
  <2>7. Sound(queue', req', edit', t)
    BY <2>4, <2>6, ShutDownSound
  <2> QED BY <2>1, <2>2, <2>7
<1> QED BY <1>3, <1>4 DEF PumpAfter

-----------------------------------------------------------------------------
(* The invariant and the steps of the supervisor.                            *)

\* What the worker and the editor know is within the number of edits.
Numbered(w, c) ==
    /\ w.revision \in 0 .. MaxEdits /\ w.docs \in [Docs -> 0 .. MaxEdits]
    /\ w.run \in Jobs \cup {None} /\ w.ref \in Jobs \cup {None}
    /\ c.docs \in [Docs -> 0 .. MaxEdits]

QueuesInv == Sound(queue, req, edit, inbox) /\ Numbered(worker, client)

\* The queue after mutate has put the record next at x, or behind the others.
Taking(q, x, next, b) ==
    [DrainReads(q) EXCEPT !.generation = @ + 1, !.bytes = b,
        !.mutations = IF x = 0 THEN Append(@, next) ELSE [@ EXCEPT ![x] = next]]

\* The text of the queue then: an absorbed record gives its own back.
NewBytes(q, x, next) == q.bytes + next.bytes - (IF x = 0 THEN 0 ELSE q.mutations[x].bytes)

Fits(q, x, next) ==
    q \in Queues /\ Accounted(q) /\ (x = 0 \/ x \in DOMAIN q.mutations) /\ next \in Mutations

\* One more edit, and no read.
OneMore(q, p) ==
    /\ p \in Queues /\ Accounted(p) /\ p.generation = q.generation + 1
    /\ ToSet(p.reads) = {} /\ Slots(p) <= Slots(q) + 1

\* The counters of that queue.
LEMMA JoinedAccounted ==
    ASSUME NEW q, NEW x, NEW next, Fits(q, x, next), NEW p, p = Taking(q, x, next, NewBytes(q, x, next))
    PROVE  OneMore(q, p)
<1>1. q \in Queues /\ Accounted(q) /\ (x = 0 \/ x \in DOMAIN q.mutations) /\ next \in Mutations
  BY DEF Fits
<1>2. PICK b : b = q.bytes + next.bytes - (IF x = 0 THEN 0 ELSE q.mutations[x].bytes) /\ p = Taking(q, x, next, b)
  BY DEF NewBytes
<1>3. PICK s \in Seq(Mutations) : s = q.mutations
  BY <1>1 DEF Queues
<1>4. Len(s) \in Nat /\ DOMAIN s = 1 .. Len(s) /\ q.bytes = Total(Bytes(s)) /\ q.bytes \in Int
      /\ q.applied \in Nat /\ q.generation \in Nat
  BY <1>1, <1>3 DEF Accounted, AccountedMutations, Queues
<1>5. PICK t : t = IF x = 0 THEN Append(s, next) ELSE [s EXCEPT ![x] = next]
  OBVIOUS
<1>6. next.bytes \in Int
  BY <1>1 DEF Mutations
<1>7. t \in Seq(Mutations) /\ Len(t) <= Len(s) + 1 /\ b \in Int /\ b = Total(Bytes(t))
  <2>1. CASE x = 0
    <3>1. PICK u : u = Append(s, next)
      OBVIOUS
    <3>2. /\ u \in Seq(Mutations) /\ Len(u) = Len(s) + 1 /\ u[Len(u)] = next
          /\ \A i \in 1 .. Len(s) : u[i] = s[i]
      BY <1>1, <1>4, <3>1, AppendProperties
    <3>3. Total(Bytes(u)) = q.bytes + next.bytes
      BY <1>4, <3>2, MutationWeighs
    <3>4. b = q.bytes + next.bytes - 0
      BY <1>2, <2>1
    <3>5. t = u
      BY <1>5, <2>1, <3>1
    <3> QED BY <1>4, <1>6, <3>2, <3>3, <3>4, <3>5
  <2>2. CASE x # 0
    <3>1. PICK u : u = [s EXCEPT ![x] = next]
      OBVIOUS
    <3>2. x \in 1 .. Len(s) /\ x \in DOMAIN s
      BY <1>1, <1>3, <1>4, <2>2
    <3>3. u \in Seq(Mutations) /\ DOMAIN u = DOMAIN s /\ u[x] = next /\ \A i \in 1 .. Len(s) : i # x => u[i] = s[i]
      <4>1. u \in Seq(Mutations)
        BY <1>1, <3>1, <3>2, ExceptSeq
      <4> QED BY <1>4, <3>1, <3>2, <4>1
    <3>4. Len(u) = Len(s)
      <4>1. Len(u) \in Nat /\ DOMAIN u = 1 .. Len(u)
        BY <3>3, LenProperties
      <4> QED BY <1>4, <3>3, <4>1
    <3>5. Total(Bytes(u)) = q.bytes - s[x].bytes + next.bytes
      BY <1>4, <3>2, <3>3, <3>4, MutationReweighs
    <3>6. s[x].bytes \in Int
      <4>1. s[x] \in Mutations
        BY <3>2, ElementOfSeq
      <4> QED BY <4>1 DEF Mutations
    <3>7. b = q.bytes + next.bytes - s[x].bytes
      BY <1>2, <1>3, <2>2
    <3>8. t = u
      BY <1>5, <2>2, <3>1
    <3> QED BY <1>4, <1>6, <3>3, <3>4, <3>5, <3>6, <3>7, <3>8
  <2> QED BY <2>1, <2>2
<1>8. PICK o \in [Docs -> Int], g \in Nat, e \in Seq(Reqs), z \in Int, nn \in Reqs \cup {None} :
         o = NoSources /\ g = q.generation + 1 /\ e = <<>> /\ z = 0 /\ nn = None
  <2>1. NoSources \in [Docs -> Int]
    BY DEF NoSources
  <2>2. q.generation + 1 \in Nat
    BY <1>4
  <2>3. <<>> \in Seq(Reqs)
    BY EmptySeq, Zenon
  <2>4. 0 \in Int /\ None \in Reqs \cup {None}
    OBVIOUS
  <2> QED BY <2>1, <2>2, <2>3, <2>4, Zenon
<1>9. p = [q EXCEPT !.reads = e, !.sources = o, !.readBytes = z, !.bypassed = nn,
                    !.generation = g, !.bytes = b, !.mutations = t]
  BY <1>1, <1>2, <1>3, <1>5, <1>8 DEF Taking, DrainReads, Queues
<1>10. p \in Queues
  BY <1>1, <1>7, <1>9 DEF Queues
<1>11. /\ p.mutations = t /\ p.bytes = b /\ p.reads = e /\ p.sources = o /\ p.readBytes = z
      /\ p.active = q.active /\ p.applied = q.applied /\ p.generation = g
  BY <1>1, <1>9 DEF Queues
<1>12. Accounted(p)
  <2>1. AccountedMutations(p)
    BY <1>7, <1>11 DEF AccountedMutations
  <2>2. p.readBytes = Total(Weights(p.reads))
    BY <1>8, <1>11, EmptyAccounts
  <2>3. ASSUME NEW d \in Docs PROVE p.sources[d] = Total(Hits(p.reads, d))
    BY <1>8, <1>11, EmptyAccounts DEF NoSources
  <2> QED BY <2>1, <2>2, <2>3 DEF Accounted, AccountedReads
<1>13. ToSet(p.reads) = {}
  BY <1>8, <1>11, Singletons
<1>14. Slots(p) <= Slots(q) + 1
  <2>1. PICK i \in Nat, j \in Nat : i = Len(s) /\ j = Len(t) /\ j <= i + 1
    <3>1. Len(t) \in Nat
      BY <1>7, LenProperties
    <3> QED BY <1>4, <1>7, <3>1
  <2>2. PICK a \in {0, 1} : a = IF IsMutation(q.active) THEN 1 ELSE 0
    OBVIOUS
  <2>3. Slots(q) = q.applied + i + a
    BY <1>3, <2>1, <2>2 DEF Slots
  <2>4. Slots(p) = q.applied + j + a
    BY <1>11, <2>1, <2>2 DEF Slots
  <2> QED BY <1>4, <2>1, <2>2, <2>3, <2>4
<1> QED BY <1>8, <1>10, <1>11, <1>12, <1>13, <1>14 DEF OneMore

\* A mutation of the client.
LEMMA MutateSound ==
    ASSUME SupervisorInv, QueuesInv, NEW m \in Mutations, Formed(m), NEW n \in EditIds, n = NextEdit,
           m.edits = {n}, Mutate(m)
    PROVE  Sound(queue', req', edit', inbox')
<1>1. /\ QueueInv(queue) /\ queue \in Queues /\ OwnInv(queue, req, edit) /\ req \in [Reqs -> Records]
      /\ edit \in [EditIds -> EditStates] /\ Sound(queue, req, edit, inbox) /\ Accounted(queue)
  BY DEF SupervisorInv, Inv, QueueInv, OwnInv, QueuesInv, Sound
<1>2. \A e \in EditIds : edit[e] # "none" <=> e < n
  BY <1>1, NextEditIs
<1>3. EditIds \subseteq Int /\ n \in 0 .. MaxEdits /\ \A e \in 1 .. n : e \in EditIds
  BY ConstantsAssumption DEF EditIds
<1>4. Max(m.edits) = n
  <2>1. PICK T : T = {n}
    OBVIOUS
  <2>2. T \in SUBSET Int /\ n \in T /\ \A x \in T : x <= n
    BY <1>3, <2>1
  <2>3. Max(T) = n
    BY <2>2, MaxOf
  <2> QED BY <2>1, <2>3
<1>5. PICK s \in Seq(Mutations) : s = queue.mutations
  BY <1>1 DEF Queues
<1>6. PICK x : x = CoalescingIndex(s, m)
  OBVIOUS
<1>7. PICK next : next = IF x = 0 THEN m ELSE MergeMutations(s[x], m)
  OBVIOUS
<1>8. PICK b : b = queue.bytes + next.bytes - (IF x = 0 THEN 0 ELSE s[x].bytes)
  OBVIOUS
<1>9. PICK cancelled : cancelled = Cancel(req, Running(queue) \cup ToSet(queue.reads), "content-modified")
  OBVIOUS
<1>10. PICK rq2 : rq2 = Settle(cancelled, ToSet(queue.reads), LAMBDA r : "content-modified")
  OBVIOUS
<1>11. PICK p : p = Taking(queue, x, next, b)
  OBVIOUS
<1>12. \/ /\ ShutDown(queue, req, [edit EXCEPT ![n] = "rejected"], "restart-required", "overflow", FALSE)
          /\ inbox' = inbox
       \/ PumpAfter(p, rq2, [edit EXCEPT ![n] = "pending"])
  BY <1>4, <1>5, <1>6, <1>7, <1>8, <1>9, <1>10, <1>11 DEF Mutate, Taking
<1>13. CASE ShutDown(queue, req, [edit EXCEPT ![n] = "rejected"], "restart-required", "overflow", FALSE)
            /\ inbox' = inbox
  <2>1. PICK ed2 : ed2 = [edit EXCEPT ![n] = "rejected"]
    OBVIOUS
  <2>2. Grows(edit, ed2)
    BY <1>1, <2>1 DEF Grows
  <2>3. Sound(queue, req, ed2, inbox)
    <3>1. Within(queue, queue) /\ SameIds(req, req)
      BY <1>1, SameWithin DEF SameIds
    <3> QED BY <1>1, <2>2, <3>1, WithinSound
  <2>4. PICK failure \in Codes, terminal \in BOOLEAN : failure = "restart-required" /\ terminal = FALSE
    BY DEF Codes
  <2>5. ShutDown(queue, req, ed2, failure, "overflow", terminal)
    BY <1>13, <2>1, <2>4
  <2>6. Sound(queue', req', edit', inbox)
    BY <2>3, <2>5, ShutDownSound
  <2> QED BY <1>13, <2>6
<1>14. CASE PumpAfter(p, rq2, [edit EXCEPT ![n] = "pending"])
  <2>1. PICK ed2 : ed2 = [edit EXCEPT ![n] = "pending"]
    OBVIOUS
  <2>2. \A i \in DOMAIN s : Formed(s[i]) /\ s[i].edits \subseteq PendingEdits(queue)
    BY <1>1, <1>5 DEF QueueInv, PendingEdits, ToSet
  <2>3. \A i \in DOMAIN s : \A e \in s[i].edits : e < n
    <3>1. \A e \in PendingEdits(queue) : e \in EditIds /\ edit[e] = "pending"
      BY <1>1 DEF OwnInv
    <3> QED BY <1>2, <2>2, <3>1
  <2>4. x = 0 \/ x \in DOMAIN s
    BY <1>5, <1>6, <2>2, CoalescingSpot DEF CanAbsorb
  <2>5. next \in Mutations
    <3>1. CASE x = 0
      BY <1>7, <3>1
    <3>2. CASE x # 0
      <4>1. PICK t : t = IF x = 0 THEN Append(s, next) ELSE [s EXCEPT ![x] = next]
        OBVIOUS
      <4>2. PICK pos : JoinedAt(s, m, n, pos, t)
        BY <1>6, <1>7, <2>2, <2>3, <4>1, Joins
      <4>3. t \in Seq(Mutations) /\ x \in DOMAIN t /\ t[x] = next
        BY <2>4, <3>2, <4>1, <4>2 DEF JoinedAt
      <4> QED BY <4>3, ElementOfSeq
    <3> QED BY <3>1, <3>2
  <2>6. /\ p \in Queues /\ Accounted(p) /\ p.generation = queue.generation + 1
        /\ ToSet(p.reads) = {} /\ Slots(p) <= Slots(queue) + 1
    <3>1. Fits(queue, x, next)
      BY <1>1, <1>5, <2>4, <2>5 DEF Fits
    <3>2. b = NewBytes(queue, x, next)
      BY <1>5, <1>8 DEF NewBytes
    <3>3. p = Taking(queue, x, next, NewBytes(queue, x, next))
      BY <1>11, <3>2
    <3>4. OneMore(queue, p)
      BY <3>1, <3>3, JoinedAccounted
    <3> QED BY <3>4 DEF OneMore
  <2>7. rq2 \in [Reqs -> Records] /\ SameIds(req, rq2)
    <3>1. "content-modified" \in Cells /\ "content-modified" \in Codes \cup {"ok"}
      BY DEF Cells, Codes
    <3>2. cancelled \in [Reqs -> Records] /\ SameIds(req, cancelled)
      BY <1>1, <1>9, <3>1, CancelledIds
    <3>3. rq2 \in [Reqs -> Records] /\ SameIds(cancelled, rq2)
      BY <1>10, <3>1, <3>2, SettledIds
    <3> QED BY <3>2, <3>3, SameIdsTwice
  <2>8. Budgeted(p, ed2)
    <3>1. PICK k \in 0 .. MaxEdits :
             (\A e \in 1 .. k : edit[e] # "none") /\ queue.generation <= k /\ Slots(queue) <= k
      BY <1>1 DEF Sound, Budgeted
    <3>2. k < n
      <4>1. CASE k = 0
        BY <1>3, <4>1 DEF EditIds
      <4>2. CASE k # 0
        <5>1. k \in 1 .. k /\ k \in EditIds
          BY <4>2, ConstantsAssumption DEF EditIds
        <5> QED BY <1>2, <3>1, <5>1
      <4> QED BY <4>1, <4>2
    <3>3. \A e \in 1 .. n : ed2[e] # "none"
      <4>1. ASSUME NEW e \in 1 .. n PROVE ed2[e] # "none"
        <5>1. e \in EditIds /\ (e = n \/ e < n)
          BY <1>3
        <5>2. ed2[e] = IF e = n THEN "pending" ELSE edit[e]
          BY <1>1, <2>1, <5>1
        <5> QED BY <1>2, <5>1, <5>2
      <4> QED BY <4>1
    <3>4. Slots(p) \in Nat /\ Slots(queue) \in Nat /\ queue.generation \in Nat
      BY <1>1, <2>6, SlotsNumber DEF Queues
    <3>5. p.generation <= n /\ Slots(p) <= n
      BY <1>3, <2>6, <3>1, <3>2, <3>4
    <3> QED BY <1>3, <3>3, <3>5 DEF Budgeted
  <2>9. Current(p, rq2)
    BY <2>6 DEF Current
  <2>10. \A r \in Reqs : Ranged(rq2[r])
    BY <1>1, <2>7 DEF Sound, SameIds, Ranged
  <2>11. Sound(p, rq2, ed2, inbox)
    BY <1>1, <2>6, <2>7, <2>8, <2>9, <2>10 DEF Sound
  <2>12. PumpAfter(p, rq2, ed2)
    BY <1>14, <2>1
  <2> QED BY <2>11, <2>12, PumpAfterSound
<1> QED BY <1>12, <1>13, <1>14

\* The bounds of what the worker and the editor have.
LEMMA NumberedSame ==
    ASSUME Numbered(worker, client), worker' = worker, client'.docs \in [Docs -> 0 .. MaxEdits]
    PROVE  Numbered(worker', client')
BY DEF Numbered

\* An edit of a document.
LEMMA EditDocumentSound ==
    ASSUME SupervisorInv, QueuesInv, NEW d \in Docs, EditDocument(d)
    PROVE  QueuesInv'
<1>1. PICK bytes \in TextSizes, kind \in {"open", "change", "close"} :
         /\ Mutate(DocMutation(kind, d, IF kind = "close" THEN 0 ELSE bytes, NextEdit))
         /\ client' = [client EXCEPT !.docs[d] = IF kind = "close" THEN 0 ELSE NextEdit]
  BY DEF EditDocument
<1>2. PICK n \in EditIds : n = NextEdit
  BY DEF EditDocument
<1>3. PICK b \in Nat : b = IF kind = "close" THEN 0 ELSE bytes
  BY ConstantsAssumption
<1>4. PICK m : m = DocMutation(kind, d, b, n)
  OBVIOUS
<1>5. <<>> \in Changes
  <2>1. <<>> \in [{} -> ChangeKinds]
    OBVIOUS
  <2> QED BY <2>1 DEF Changes
<1>6. m \in Mutations /\ m.kind = kind /\ m.doc = d /\ m.changes = <<>> /\ m.edits = {n} /\ m.dirty = FALSE
  BY <1>4, <1>5 DEF DocMutation, Mutations
<1>7. n \in Nat /\ n \in 0 .. MaxEdits /\ MaxEdits \in Nat
  BY ConstantsAssumption DEF EditIds
<1>8. Formed(m)
  BY <1>6, <1>7 DEF Formed
<1>9. Mutate(m)
  BY <1>1, <1>2, <1>3, <1>4
<1>10. Sound(queue', req', edit', inbox')
  BY <1>2, <1>6, <1>8, <1>9, MutateSound
<1>11. client'.docs \in [Docs -> 0 .. MaxEdits]
  <2>1. client \in Views /\ client.docs \in [Docs -> 0 .. MaxEdits]
    BY DEF SupervisorInv, Inv, ConvInv, QueuesInv, Numbered
  <2>2. PICK v \in 0 .. MaxEdits : v = IF kind = "close" THEN 0 ELSE n
    BY <1>7
  <2>3. client'.docs = [client.docs EXCEPT ![d] = v]
    BY <1>1, <1>2, <2>1, <2>2 DEF Views
  <2> QED BY <2>1, <2>3
<1>12. worker' = worker
  BY <1>9 DEF Mutate
<1> QED BY <1>10, <1>11, <1>12, NumberedSame DEF QueuesInv

\* A batch of watched files.
LEMMA ChangeFilesSound ==
    ASSUME SupervisorInv, QueuesInv, NEW S \in SUBSET Files, ChangeFiles(S)
    PROVE  QueuesInv'
<1>1. PICK kinds \in [S -> ChangeKinds], dirty \in DirtyFlags :
         /\ Mutate(FilesMutation(kinds, dirty, NextEdit))
         /\ client' = [client EXCEPT
                !.files = [f \in Files |-> IF f \in S THEN kinds[f] # "deleted" ELSE @[f]],
                !.dirty = @ \/ dirty]
  BY DEF ChangeFiles
<1>2. PICK n \in EditIds : n = NextEdit
  BY DEF ChangeFiles
<1>3. PICK m : m = FilesMutation(kinds, dirty, n)
  OBVIOUS
<1>4. dirty \in BOOLEAN
  BY ConstantsAssumption
<1>5. kinds \in Changes
  BY DEF Changes
<1>6. m \in Mutations /\ m.kind = "files" /\ m.doc = None /\ m.edits = {n}
  BY <1>3, <1>4, <1>5 DEF FilesMutation, Mutations
<1>7. n \in Nat
  BY ConstantsAssumption DEF EditIds
<1>8. Formed(m)
  BY <1>6, <1>7 DEF Formed
<1>9. Mutate(m)
  BY <1>1, <1>2, <1>3
<1>10. Sound(queue', req', edit', inbox')
  BY <1>2, <1>6, <1>8, <1>9, MutateSound
<1>11. client'.docs \in [Docs -> 0 .. MaxEdits]
  <2>1. client \in Views /\ client.docs \in [Docs -> 0 .. MaxEdits]
    BY DEF SupervisorInv, Inv, ConvInv, QueuesInv, Numbered
  <2>2. client'.docs = client.docs
    BY <1>1, <2>1 DEF Views
  <2> QED BY <2>1, <2>2
<1>12. worker' = worker
  BY <1>9 DEF Mutate
<1> QED BY <1>10, <1>11, <1>12, NumberedSame DEF QueuesInv

\* What a step that leaves the worker and the editor alone has to show.
LEMMA SupervisorSideSound ==
    ASSUME QueuesInv, Sound(queue', req', edit', inbox'), worker' = worker, client' = client
    PROVE  QueuesInv'
BY DEF QueuesInv

\* A request.
LEMMA RequestSound ==
    ASSUME SupervisorInv, QueuesInv, NEW r \in Reqs, Request(r)
    PROVE  QueuesInv'
<1>1. /\ OwnInv(queue, req, edit) /\ client \in Views /\ queue \in Queues /\ req \in [Reqs -> Records]
      /\ Sound(queue, req, edit, inbox) /\ Accounted(queue) /\ Current(queue, req)
      /\ client.docs \in [Docs -> 0 .. MaxEdits]
  BY DEF SupervisorInv, Inv, ConvInv, QueuesInv, Sound, Numbered
<1>2. req[r].state \in {"idle", "settled"} /\ outbox' = outbox /\ worker' = worker /\ client' = client
  BY DEF Request
<1>3. r \notin ToSet(queue.reads) /\ ToSet(queue.reads) \subseteq Reqs
  <2>1. queue.reads \in Seq(Reqs)
    BY <1>1 DEF Queues
  <2> QED BY <1>1, <1>2, <2>1 DEF OwnInv, ToSet
<1>4. PICK new : new = [state |-> "queued", version |-> client.docs[Target[r]],
                        generation |-> queue.generation, cell |-> "active",
                        required |-> 0, outcome |-> "none"]
  OBVIOUS
<1>5. new \in Records /\ Ranged(new) /\ new.generation = queue.generation
  <2>1. client.docs[Target[r]] \in 0 .. MaxEdits /\ queue.generation \in 0 .. MaxEdits /\ MaxEdits \in Nat
    BY <1>1, RevisionRanged, ConstantsAssumption
  <2>2. PICK v \in Nat, g \in Nat : /\ v = client.docs[Target[r]] /\ g = queue.generation
                                    /\ v \in 0 .. MaxEdits /\ g \in 0 .. MaxEdits /\ 0 \in 0 .. MaxEdits
    BY <2>1
  <2>3. new = [state |-> "queued", version |-> v, generation |-> g, cell |-> "active",
               required |-> 0, outcome |-> "none"]
    BY <1>4, <2>2
  <2>4. new \in Records
    BY <2>3 DEF Records, Cells, Codes
  <2>5. new.version = v /\ new.generation = g /\ new.required = 0
    BY <2>3
  <2> QED BY <2>2, <2>4, <2>5 DEF Ranged
<1>6. PICK fresh : fresh = [req EXCEPT ![r] = new]
  OBVIOUS
<1>7. fresh \in [Reqs -> Records] /\ fresh[r] = new /\ \A y \in Reqs : y # r => fresh[y] = req[y]
  BY <1>1, <1>5, <1>6
<1>8. \A y \in Reqs : Ranged(fresh[y])
  BY <1>1, <1>5, <1>7 DEF Sound
<1>9. CASE Admits(queue, r)
  <2>1. PICK p : p = AddRead(queue, r)
    OBVIOUS
  <2>2. PumpAfter(p, fresh, edit)
    BY <1>4, <1>6, <1>9, <2>1 DEF Request
  <2>3. /\ p \in Queues /\ Accounted(p) /\ p.generation = queue.generation
        /\ ToSet(p.reads) = ToSet(queue.reads) \cup {r} /\ Slots(p) = Slots(queue)
    BY <1>1, <2>1, AddAccounted
  <2>4. Current(p, fresh)
    BY <1>1, <1>3, <1>5, <1>7, <2>3 DEF Current
  <2>5. Budgeted(p, edit)
    BY <1>1, <2>3 DEF Sound, Budgeted
  <2>6. Sound(p, fresh, edit, inbox)
    BY <1>1, <1>7, <1>8, <2>3, <2>4, <2>5 DEF Sound
  <2> QED BY <1>2, <2>2, <2>6, PumpAfterSound, SupervisorSideSound
<1>10. CASE ~Admits(queue, r)
  <2>1. PICK rq2 : rq2 = Settle(fresh, {r}, LAMBDA y : "queue-overflow")
    OBVIOUS
  <2>2. req' = rq2 /\ queue' = queue /\ edit' = edit /\ inbox' = inbox
    BY <1>4, <1>6, <1>10, <2>1 DEF Request
  <2>3. rq2 \in [Reqs -> Records] /\ SameIds(fresh, rq2)
    <3>1. "queue-overflow" \in Codes \cup {"ok"}
      BY DEF Codes
    <3> QED BY <1>7, <2>1, <3>1, SettledIds
  <2>4. \A y \in Reqs : Ranged(rq2[y])
    BY <1>8, <2>3 DEF SameIds, Ranged
  <2>5. Current(queue, rq2)
    BY <1>1, <1>3, <1>7, <2>3 DEF Current, SameIds
  <2>6. Sound(queue, rq2, edit, inbox)
    BY <1>1, <2>3, <2>4, <2>5 DEF Sound
  <2> QED BY <1>2, <2>2, <2>6, SupervisorSideSound
<1> QED BY <1>9, <1>10

\* A cancellation by the client.
LEMMA CancelSound ==
    ASSUME SupervisorInv, QueuesInv, NEW r \in Reqs, CancelRequest(r)
    PROVE  QueuesInv'
<1>1. queue \in Queues /\ req \in [Reqs -> Records] /\ Sound(queue, req, edit, inbox) /\ Accounted(queue)
  BY DEF QueuesInv, Sound
<1>2. edit' = edit /\ inbox' = inbox /\ worker' = worker /\ client' = client
  BY DEF CancelRequest
<1>3. PICK c : c = Cancel(req, {r}, "client-cancelled")
  OBVIOUS
<1>4. c \in [Reqs -> Records] /\ SameIds(req, c)
  <2>1. "client-cancelled" \in Cells
    BY DEF Cells
  <2> QED BY <1>1, <1>3, <2>1, CancelledIds
<1>5. Grows(edit, edit')
  BY <1>2 DEF Grows
<1>6. CASE r \in ToSet(queue.reads)
  <2>1. queue' = ReleaseRead(queue, r) /\ req' = Settle(c, {r}, LAMBDA x : CancellationError(c[x].cell))
    BY <1>3, <1>6 DEF CancelRequest
  <2>2. req' \in [Reqs -> Records] /\ SameIds(c, req')
    <3>1. PICK out : out = [x \in Reqs |-> CancellationError(c[x].cell)]
      OBVIOUS
    <3>2. out \in [Reqs -> Codes \cup {"ok"}]
      BY <3>1 DEF CancellationError, Codes
    <3>3. PICK S : S = {r}
      OBVIOUS
    <3>4. req' = [x \in Reqs |-> IF x \in S THEN [c[x] EXCEPT !.state = "settled", !.outcome = out[x]] ELSE c[x]]
      BY <2>1, <3>1, <3>3 DEF Settle
    <3>5. Settled(c, S, req')
      BY <1>4, <3>2, <3>4, SettledRecords
    <3> QED BY <3>5 DEF Settled, SameIds
  <2>3. SameIds(req, req')
    BY <1>4, <2>2, SameIdsTwice
  <2>4. Within(queue, queue')
    <3>1. PICK x \in Reqs \cup {None} : x = queue.bypassed
      BY <1>1 DEF Queues
    <3>2. queue = [queue EXCEPT !.bypassed = x]
      BY <1>1, <3>1 DEF Queues
    <3>3. queue' = ReleaseRead([queue EXCEPT !.bypassed = x], r)
      BY <2>1, <3>2
    <3> QED BY <1>1, <1>6, <3>3, ReleaseAccounted
  <2>5. Sound(queue', req', edit', inbox)
    BY <1>1, <1>5, <2>2, <2>3, <2>4, WithinSound
  <2> QED BY <1>2, <2>5, SupervisorSideSound
<1>7. CASE r \notin ToSet(queue.reads)
  <2>1. queue' = queue /\ req' = c
    BY <1>3, <1>7 DEF CancelRequest
  <2>2. Within(queue, queue')
    BY <1>1, <2>1, SameWithin
  <2>3. Sound(queue', req', edit', inbox)
    BY <1>1, <1>4, <1>5, <2>1, <2>2, WithinSound
  <2> QED BY <1>2, <2>3, SupervisorSideSound
<1> QED BY <1>6, <1>7

\* Disposal.
LEMMA DisposeSound ==
    ASSUME SupervisorInv, QueuesInv, Dispose
    PROVE  QueuesInv'
<1>1. queue \in Queues /\ req \in [Reqs -> Records] /\ Sound(queue, req, edit, inbox)
  BY DEF QueuesInv, Sound
<1>2. inbox' = inbox /\ worker' = worker /\ client' = client /\ queue' = DrainAll(queue)
      /\ edit' = SettleEdits(edit, PendingEdits(queue), "rejected")
  BY DEF Dispose
<1>3. PICK c : c = Cancel(req, Running(queue) \cup ToSet(queue.reads), "supervisor-disposing")
  OBVIOUS
<1>4. req' = Settle(c, ToSet(queue.reads), LAMBDA r : "worker-unavailable")
  BY <1>3 DEF Dispose
<1>5. req' \in [Reqs -> Records] /\ SameIds(req, req')
  <2>1. "supervisor-disposing" \in Cells /\ "worker-unavailable" \in Codes \cup {"ok"}
    BY DEF Cells, Codes
  <2>2. c \in [Reqs -> Records] /\ SameIds(req, c)
    BY <1>1, <1>3, <2>1, CancelledIds
  <2>3. req' \in [Reqs -> Records] /\ SameIds(c, req')
    BY <1>4, <2>1, <2>2, SettledIds
  <2> QED BY <2>2, <2>3, SameIdsTwice
<1>6. Grows(edit, edit') /\ Within(queue, queue')
  BY <1>1, <1>2, SettledGrow, DrainWithin
<1>7. Sound(queue', req', edit', inbox)
  BY <1>1, <1>5, <1>6, WithinSound
<1> QED BY <1>2, <1>7, SupervisorSideSound

\* The lanes are settled and emptied, after termination or at the deadline.
LEMMA LanesSettledSound ==
    ASSUME QueuesInv, NEW failure \in Codes, req' = SettleFailure(req, Running(queue), failure),
           edit' = SettleEdits(edit, ActiveEdits(queue), "rejected"), queue' = ClearLanes(queue),
           inbox' = inbox, worker' = worker, client' = client
    PROVE  QueuesInv'
<1>1. queue \in Queues /\ Accounted(queue) /\ req \in [Reqs -> Records] /\ Sound(queue, req, edit, inbox)
  BY DEF QueuesInv, Sound
<1>2. req' \in [Reqs -> Records] /\ SameIds(req, req')
  BY <1>1, FailedIds
<1>3. Grows(edit, edit') /\ Within(queue, queue')
  BY <1>1, SettledGrow, ClearWithin
<1>4. Sound(queue', req', edit', inbox)
  BY <1>1, <1>2, <1>3, WithinSound
<1> QED BY <1>4, SupervisorSideSound

\* An answer of the worker, or a message that answers nothing.
LEMMA ReceiveSound ==
    ASSUME SupervisorInv, QueuesInv, Receive
    PROVE  QueuesInv'
<1>1. /\ queue \in Queues /\ Accounted(queue) /\ req \in [Reqs -> Records] /\ Sound(queue, req, edit, inbox)
      /\ outbox \in Seq(Replies)
  BY DEF QueuesInv, Sound, SupervisorInv, Inv, LanesInv
<1>2. worker' = worker /\ client' = client /\ outbox # <<>>
  BY DEF Receive
<1>3. PICK m \in Replies : m = Head(outbox)
  BY <1>1, <1>2, HeadTailProperties
<1>4. ~IsMutation(None) /\ queue.applied \in Nat
  BY <1>1, NoneApart DEF Queues
<1>5. SameIds(req, req) /\ Grows(edit, edit)
  BY DEF SameIds, Grows
<1>6. CASE AnsweredBy(m) = None
  <2>1. ShutDown(queue, req, edit, "worker-unavailable", "protocol", FALSE) /\ inbox' = inbox
    BY <1>3, <1>6 DEF Receive
  <2>2. PICK failure \in Codes, terminal \in BOOLEAN : failure = "worker-unavailable" /\ terminal = FALSE
    BY DEF Codes
  <2>3. ShutDown(queue, req, edit, failure, "protocol", terminal)
    BY <2>1, <2>2
  <2>4. Sound(queue', req', edit', inbox)
    BY <1>1, <2>3, ShutDownSound
  <2> QED BY <1>2, <2>1, <2>4, SupervisorSideSound
<1>7. CASE AnsweredBy(m) # None /\ m.type = "ack"
  <2>1. IsMutation(queue.active) /\ m.revision = queue.applied + 1
    BY <1>7 DEF AnsweredBy
  <2>2. PICK v \in Nat : v = m.revision /\ v = queue.applied + 1
    BY <1>4, <2>1
  <2>3. PICK q : q = [queue EXCEPT !.active = None, !.applied = v]
    OBVIOUS
  <2>4. PICK ed2 : ed2 = SettleEdits(edit, ActiveEdits(queue), "resolved")
    OBVIOUS
  <2>5. PumpAfter(q, req, ed2)
    BY <1>3, <1>7, <2>2, <2>3, <2>4 DEF Receive, ReceiveAck
  <2>6. q \in Queues
    BY <1>1, <2>3 DEF Queues
  <2>7. /\ q.mutations = queue.mutations /\ q.bytes = queue.bytes /\ q.reads = queue.reads
        /\ q.sources = queue.sources /\ q.readBytes = queue.readBytes
        /\ q.generation = queue.generation /\ q.active = None /\ q.applied = v
    BY <1>1, <2>3 DEF Queues
  <2>8. Slots(q) <= Slots(queue)
    <3>1. PICK n \in Nat : n = Len(queue.mutations)
      BY <1>1 DEF Queues
    <3>2. Slots(q) = queue.applied + 1 + n + 0
      BY <1>4, <2>2, <2>7, <3>1 DEF Slots
    <3>3. Slots(queue) = queue.applied + n + 1
      BY <2>1, <3>1 DEF Slots
    <3> QED BY <1>4, <3>2, <3>3
  <2>9. Within(queue, q)
    BY <1>1, <2>6, <2>7, <2>8, LanesWithin
  <2>10. Grows(edit, ed2)
    BY <2>4, SettledGrow
  <2>11. Sound(q, req, ed2, inbox)
    BY <1>1, <1>5, <2>9, <2>10, WithinSound
  <2>12. Sound(queue', req', edit', inbox')
    BY <2>5, <2>11, PumpAfterSound
  <2> QED BY <1>2, <2>12, SupervisorSideSound
<1>8. CASE AnsweredBy(m) # None /\ m.type # "ack"
  <2>1. m.type = "response" /\ m.ok \in BOOLEAN /\ m.code \in Codes
    BY <1>8 DEF Replies
  <2>2. PICK r \in Reqs : r = m.id
    BY <1>8 DEF Replies
  <2>3. PICK q : q = IF r = queue.detached THEN [queue EXCEPT !.detached = None] ELSE [queue EXCEPT !.active = None]
    OBVIOUS
  <2>4. PICK o : o = Outcome(m, r)
    OBVIOUS
  <2>5. o \in Codes \cup {"ok"}
    BY <2>1, <2>4 DEF Outcome, CancellationError, Codes
  <2>6. PICK rq2 : rq2 = OneSettled(req, r, Outcome(m, r))
    OBVIOUS
  <2>7. PumpAfter(q, rq2, edit)
    <3>1. ReceiveResponse(m, r)
      BY <1>3, <1>8, <2>2 DEF Receive
    <3> QED BY <2>3, <2>6, <3>1, Zenon DEF ReceiveResponse, Settle, OneSettled, Outcome
  <2>8. rq2 \in [Reqs -> Records] /\ SameIds(req, rq2)
    <3>1. Settled(req, {r}, rq2)
      BY <1>1, <2>4, <2>5, <2>6, OneSettledRecords
    <3> QED BY <3>1 DEF Settled, SameIds
  <2>9. q \in Queues
    BY <1>1, <2>3 DEF Queues
  <2>10. /\ q.mutations = queue.mutations /\ q.bytes = queue.bytes /\ q.reads = queue.reads
         /\ q.sources = queue.sources /\ q.readBytes = queue.readBytes
         /\ q.generation = queue.generation /\ q.applied = queue.applied
         /\ q.active \in {queue.active, None}
    BY <1>1, <2>3 DEF Queues
  <2>11. Slots(q) <= Slots(queue)
    <3>1. PICK n \in Nat : n = Len(queue.mutations)
      BY <1>1 DEF Queues
    <3>2. Slots(q) = queue.applied + n + (IF IsMutation(q.active) THEN 1 ELSE 0)
      BY <2>10, <3>1 DEF Slots
    <3>3. Slots(queue) = queue.applied + n + (IF IsMutation(queue.active) THEN 1 ELSE 0)
      BY <3>1 DEF Slots
    <3>4. IsMutation(q.active) => IsMutation(queue.active)
      BY <1>4, <2>10
    <3> QED BY <1>4, <3>2, <3>3, <3>4
  <2>12. Within(queue, q)
    BY <1>1, <2>9, <2>10, <2>11, LanesWithin
  <2>13. Sound(q, rq2, edit, inbox)
    BY <1>1, <1>5, <2>8, <2>12, WithinSound
  <2>14. Sound(queue', req', edit', inbox')
    BY <2>7, <2>13, PumpAfterSound
  <2> QED BY <1>2, <2>14, SupervisorSideSound
<1> QED BY <1>6, <1>7, <1>8

-----------------------------------------------------------------------------
(* The worker's steps.                                                       *)

\* The channel loses its head.
LEMMA DispatchedSound ==
    ASSUME QueuesInv, inbox # <<>>, inbox' = Tail(inbox), queue' = queue, req' = req, edit' = edit
    PROVE  Head(inbox) \in Notes /\ Sound(queue', req', edit', inbox')
<1>1. inbox \in Seq(Notes) /\ Sound(queue, req, edit, inbox)
  BY DEF QueuesInv, Sound
<1>2. Head(inbox) \in Notes /\ Tail(inbox) \in Seq(Notes)
  BY <1>1, HeadTailProperties
<1> QED BY <1>1, <1>2 DEF Sound

\* A mutation is applied.
LEMMA DispatchMutationSound ==
    ASSUME SupervisorInv, QueuesInv, DispatchMutation
    PROVE  QueuesInv'
<1>1. worker \in Workers /\ inbox \in Seq(Commissions) /\ Numbered(worker, client)
  BY DEF SupervisorInv, Inv, LanesInv, QueuesInv
<1>2. /\ inbox # <<>> /\ inbox' = Tail(inbox) /\ queue' = queue /\ req' = req /\ edit' = edit
      /\ client' = client /\ Head(inbox).type = "mutation"
  BY DEF DispatchMutation
<1>3. Head(inbox) \in Notes /\ Sound(queue', req', edit', inbox')
  BY <1>2, DispatchedSound
<1>4. PICK x : x = Head(inbox) /\ x \in Notes /\ x \in Commissions
  BY <1>1, <1>2, <1>3, HeadTailProperties
<1>5. x.revision \in 0 .. MaxEdits
  BY <1>2, <1>4 DEF Notes
<1>6. PICK m \in FormedMutations : m = x.mutation
  BY <1>2, <1>4 DEF Commissions
<1>7. Version(m) \in 0 .. MaxEdits
  <2>1. m.edits \in SUBSET EditIds /\ EditIds \subseteq Int
    BY <1>6, ConstantsAssumption DEF FormedMutations, Mutations, EditIds
  <2>2. PICK e \in m.edits : \A y \in m.edits : y <= e
    BY <1>6 DEF FormedMutations, Formed
  <2>3. m.edits \in SUBSET Int
    BY <2>1
  <2>4. Max(m.edits) = e
    BY <2>2, <2>3, MaxOf
  <2> QED BY <2>1, <2>2, <2>4, ConstantsAssumption DEF Version, EditIds
<1>8. CASE worker' = worker
  BY <1>1, <1>2, <1>3, <1>8 DEF QueuesInv, Numbered
<1>9. CASE worker' = [worker EXCEPT !.mode = "fatal"]
  <2>1. /\ worker'.revision = worker.revision /\ worker'.docs = worker.docs
        /\ worker'.run = worker.run /\ worker'.ref = worker.ref
    BY <1>1, <1>9 DEF Workers
  <2> QED BY <1>1, <1>2, <1>3, <2>1 DEF QueuesInv, Numbered
<1>10. CASE worker' = Applied(worker, m) /\ x.revision = worker.revision + 1
  <2>1. PICK docs : docs = [d \in Docs |-> IF d = m.doc THEN IF m.kind = "close" THEN 0 ELSE Version(m)
                                           ELSE worker.docs[d]]
    OBVIOUS
  <2>2. docs \in [Docs -> 0 .. MaxEdits]
    <3>1. worker.docs \in [Docs -> 0 .. MaxEdits] /\ 0 \in 0 .. MaxEdits
      BY <1>1, ConstantsAssumption DEF Numbered
    <3> QED BY <1>7, <2>1, <3>1
  <2>3. worker' = [worker EXCEPT !.revision = worker.revision + 1, !.applied = worker.applied \cup m.edits,
                                 !.dirty = worker.dirty \/ m.dirty, !.files = MembersAfter(worker.files, m),
                                 !.docs = docs]
    BY <1>1, <1>10, <2>1 DEF Applied, Workers
  <2>4. /\ worker'.revision = x.revision /\ worker'.docs = docs
        /\ worker'.run = worker.run /\ worker'.ref = worker.ref
    BY <1>1, <1>10, <2>3 DEF Workers
  <2> QED BY <1>1, <1>2, <1>3, <1>5, <2>2, <2>4 DEF QueuesInv, Numbered
<1>11. \/ worker' = worker
       \/ worker' = [worker EXCEPT !.mode = "fatal"]
       \/ worker' = Applied(worker, m) /\ x.revision = worker.revision + 1
  BY <1>4, <1>6 DEF DispatchMutation
<1> QED BY <1>8, <1>9, <1>10, <1>11

\* A request is refused or begins to run.
LEMMA DispatchRequestSound ==
    ASSUME SupervisorInv, QueuesInv, DispatchRequest
    PROVE  QueuesInv'
<1>1. worker \in Workers /\ Numbered(worker, client)
  BY DEF SupervisorInv, Inv, LanesInv, QueuesInv
<1>2. /\ inbox # <<>> /\ inbox' = Tail(inbox) /\ queue' = queue /\ req' = req /\ edit' = edit
      /\ client' = client /\ Head(inbox).type = "request"
  BY DEF DispatchRequest
<1>3. Head(inbox) \in Notes /\ Sound(queue', req', edit', inbox')
  BY <1>2, DispatchedSound
<1>4. PICK job : job = [id |-> Head(inbox).id, required |-> Head(inbox).required,
                        version |-> Head(inbox).version, from |-> View(worker)]
  OBVIOUS
<1>5. job \in Jobs
  <2>1. PICK i \in Reqs, n \in 0 .. MaxEdits, v \in 0 .. MaxEdits :
           i = Head(inbox).id /\ n = Head(inbox).required /\ v = Head(inbox).version
    BY <1>2, <1>3 DEF Notes
  <2>2. View(worker) \in [docs : [Docs -> 0 .. MaxEdits], files : [Files -> BOOLEAN], dirty : BOOLEAN]
    BY <1>1 DEF View, Workers, Numbered
  <2>3. job = [id |-> i, required |-> n, version |-> v, from |-> View(worker)]
    BY <1>4, <2>1
  <2> QED BY <2>2, <2>3 DEF Jobs
<1>6. worker' = worker \/ worker' = [worker EXCEPT !.ref = job] \/ worker' = [worker EXCEPT !.run = job]
  BY <1>4 DEF DispatchRequest
<1>7. /\ worker'.revision = worker.revision /\ worker'.docs = worker.docs
      /\ worker'.run \in {worker.run, job} /\ worker'.ref \in {worker.ref, job}
  BY <1>1, <1>6 DEF Workers
<1> QED BY <1>1, <1>2, <1>3, <1>5, <1>7 DEF QueuesInv, Numbered

\* An answer is posted, or the worker fails.
LEMMA WorkerSound ==
    ASSUME SupervisorInv, QueuesInv, AnswerSerial \/ AnswerDetached \/ \E f \in Faults : WorkerFault(f)
    PROVE  QueuesInv'
<1>1. worker \in Workers /\ Numbered(worker, client) /\ Sound(queue, req, edit, inbox)
  BY DEF SupervisorInv, Inv, LanesInv, QueuesInv
<1>2. /\ inbox' = inbox /\ queue' = queue /\ req' = req /\ edit' = edit /\ client' = client
      /\ \/ worker' = [worker EXCEPT !.run = None]
         \/ worker' = [worker EXCEPT !.ref = None]
         \/ \E f \in Faults : worker' = [worker EXCEPT !.mode = f]
  BY DEF AnswerSerial, AnswerDetached, Answer, WorkerFault
<1>3. /\ worker'.revision = worker.revision /\ worker'.docs = worker.docs
      /\ worker'.run \in {worker.run, None} /\ worker'.ref \in {worker.ref, None}
  BY <1>1, <1>2 DEF Workers
<1> QED BY <1>1, <1>2, <1>3 DEF QueuesInv, Numbered

-----------------------------------------------------------------------------
(* The invariant.                                                            *)

\* The endpoint is gone: both lanes settle at once.
LEMMA ExitSound ==
    ASSUME QueuesInv, EndpointExit
    PROVE  QueuesInv'
<1>1. Sound(queue, req, edit, inbox) /\ inbox' = inbox /\ worker' = worker /\ client' = client
  BY DEF QueuesInv, EndpointExit
<1>2. PICK failure \in Codes, terminal \in BOOLEAN : failure = "worker-unavailable" /\ terminal = TRUE
  BY DEF Codes
<1>3. ShutDown(queue, req, edit, failure, "exit", terminal)
  BY <1>2 DEF EndpointExit
<1>4. Sound(queue', req', edit', inbox')
  BY <1>1, <1>3, ShutDownSound
<1> QED BY <1>1, <1>4, SupervisorSideSound

\* The lanes settle when termination or the deadline ends.
LEMMA LateSettlementSound ==
    ASSUME SupervisorInv, QueuesInv, SettleAfterTermination \/ DisposeDeadline
    PROVE  QueuesInv'
<1>1. life.failure \in Codes /\ "worker-unavailable" \in Codes
  BY DEF SupervisorInv, Inv, LifeInv, Lives, Codes
<1>2. PICK failure \in Codes : req' = SettleFailure(req, Running(queue), failure)
  BY <1>1 DEF SettleAfterTermination, DisposeDeadline
<1>3. /\ edit' = SettleEdits(edit, ActiveEdits(queue), "rejected") /\ queue' = ClearLanes(queue)
      /\ inbox' = inbox /\ worker' = worker /\ client' = client
  BY DEF SettleAfterTermination, DisposeDeadline
<1> QED BY <1>2, <1>3, LanesSettledSound

\* The queues are empty at first.
LEMMA InitSound == Init => QueuesInv
<1> SUFFICES ASSUME Init PROVE QueuesInv
  OBVIOUS
<1>1. SupervisorInv /\ queue \in Queues /\ req \in [Reqs -> Records]
  BY InitInv DEF SupervisorInv, Inv, QueueInv, OwnInv
<1>2. MaxEdits \in Nat /\ 0 \in 0 .. MaxEdits
  BY ConstantsAssumption
<1>3. /\ queue.mutations = <<>> /\ queue.bytes = 0 /\ queue.reads = <<>> /\ queue.sources = NoSources
      /\ queue.readBytes = 0 /\ queue.active = None /\ queue.applied = 0 /\ queue.generation = 0
  BY DEF Init
<1>4. Accounted(queue)
  BY <1>3, EmptyAccounts DEF Accounted, AccountedReads, AccountedMutations, NoSources
<1>5. Current(queue, req)
  BY <1>3 DEF Current, ToSet
<1>6. Budgeted(queue, edit)
  <2>1. Len(queue.mutations) = 0
    BY <1>3, EmptySeq
  <2>2. Slots(queue) = 0
    BY <1>3, <2>1 DEF Slots, IsMutation
  <2>3. PICK k \in 0 .. MaxEdits : k = 0
    BY <1>2
  <2>4. (\A e \in 1 .. k : edit[e] # "none") /\ queue.generation <= k /\ Slots(queue) <= k
    BY <1>3, <2>2, <2>3
  <2> QED BY <2>4 DEF Budgeted
<1>7. \A r \in Reqs : Ranged(req[r])
  BY <1>2 DEF Init, Ranged
<1>8. inbox \in Seq(Notes)
  BY EmptySeq DEF Init
<1>9. Numbered(worker, client)
  BY <1>2 DEF Init, Numbered
<1> QED BY <1>1, <1>4, <1>5, <1>6, <1>7, <1>8, <1>9 DEF QueuesInv, Sound

\* Every step keeps the queues sound.
LEMMA StepSound ==
    ASSUME SupervisorInv, QueuesInv, [Next]_vars
    PROVE  QueuesInv'
<1>1. CASE \E d \in Docs : EditDocument(d)
  BY <1>1, EditDocumentSound
<1>2. CASE \E S \in SUBSET Files : ChangeFiles(S)
  BY <1>2, ChangeFilesSound
<1>3. CASE \E r \in Reqs : Request(r)
  BY <1>3, RequestSound
<1>4. CASE \E r \in Reqs : CancelRequest(r)
  BY <1>4, CancelSound
<1>5. CASE Dispose
  BY <1>5, DisposeSound
<1>6. CASE Receive
  BY <1>6, ReceiveSound
<1>7. CASE EndpointExit
  BY <1>7, ExitSound
<1>8. CASE SettleAfterTermination \/ DisposeDeadline
  BY <1>8, LateSettlementSound
<1>9. CASE TerminateDone \/ DeadlineFires \/ DisposeDrained \/ DisposeDone \/ UNCHANGED vars
  <2>1. /\ queue' = queue /\ req' = req /\ edit' = edit /\ inbox' = inbox
        /\ worker' = worker /\ client' = client
    BY <1>9 DEF TerminateDone, DeadlineFires, DisposeDrained, DisposeDone, vars
  <2> QED BY <2>1 DEF QueuesInv
<1>10. CASE DispatchMutation
  BY <1>10, DispatchMutationSound
<1>11. CASE DispatchRequest
  BY <1>11, DispatchRequestSound
<1>12. CASE AnswerSerial \/ AnswerDetached \/ \E f \in Faults : WorkerFault(f)
  BY <1>12, WorkerSound
<1> QED
  BY <1>1, <1>2, <1>3, <1>4, <1>5, <1>6, <1>7, <1>8, <1>9, <1>10, <1>11, <1>12
     DEF Next, SupervisorStep, SerialStep

\* A read's source counter counts the queued reads of the document.
LEMMA HitsCount ==
    ASSUME NEW s \in Seq(Reqs), NEW d \in Docs
    PROVE  Total(Hits(s, d)) = Cardinality({i \in DOMAIN s : Target[s[i]] = d})
<1>1. PICK h : h = Hits(s, d)
  OBVIOUS
<1>2. h \in Seq(Int) /\ DOMAIN h = DOMAIN s
  BY <1>1, Values DEF Hits
<1>3. \A i \in DOMAIN s : h[i] = IF Target[s[i]] = d THEN 1 ELSE 0
  BY <1>1 DEF Hits
<1>4. Total(h) = Cardinality({i \in DOMAIN h : h[i] = 1})
  <2>1. \A i \in DOMAIN h : h[i] \in {0, 1}
    BY <1>2, <1>3
  <2> QED BY <1>2, <2>1, TotalCounts
<1>5. {i \in DOMAIN h : h[i] = 1} = {i \in DOMAIN s : Target[s[i]] = d}
  BY <1>2, <1>3
<1> QED BY <1>1, <1>4, <1>5

\* The invariant gives the counters their meaning.
LEMMA CountersCount ==
    ASSUME QueuesInv
    PROVE  /\ QueueAccounting /\ queue.bytes \in Nat /\ queue.readBytes \in Nat
           /\ queue.sources \in [Docs -> Nat]
<1>1. queue \in Queues /\ AccountedReads(queue) /\ AccountedMutations(queue)
  BY DEF QueuesInv, Sound, Accounted
<1>2. PICK a \in Seq(Mutations), b \in Seq(Reqs) : a = queue.mutations /\ b = queue.reads
  BY <1>1 DEF Queues
<1>3. queue.bytes = Total(Bytes(a)) /\ queue.readBytes = Total(Weights(b))
  BY <1>1, <1>2 DEF AccountedReads, AccountedMutations
<1>4. Total(Bytes(a)) \in Nat
  BY ByteValues, TotalNatural
<1>5. Total(Weights(b)) \in Nat
  BY AnyValues, TotalNatural
<1>6. ASSUME NEW d \in Docs
      PROVE  /\ queue.sources[d] = Cardinality({i \in DOMAIN b : Target[b[i]] = d})
             /\ queue.sources[d] \in Nat
  <2>1. queue.sources[d] = Total(Hits(b, d))
    BY <1>1, <1>2 DEF AccountedReads
  <2>2. Total(Hits(b, d)) \in Nat
    BY Values, TotalNatural
  <2> QED BY <2>1, <2>2, HitsCount
<1>7. queue.sources \in [Docs -> Nat]
  <2>1. queue.sources \in [Docs -> Int]
    BY <1>1 DEF Queues
  <2> QED BY <1>6, <2>1
<1> QED BY <1>2, <1>3, <1>4, <1>5, <1>6, <1>7 DEF QueueAccounting, Bytes, Weights

\* The invariant gives every part of the state its shape.
LEMMA StateIsShaped ==
    ASSUME SupervisorInv, QueuesInv
    PROVE  TypeOK
<1>1. /\ queue \in Queues /\ QueueInv(queue) /\ life \in Lives /\ worker \in Workers /\ client \in Views
      /\ req \in [Reqs -> Records] /\ edit \in [EditIds -> EditStates]
  BY DEF SupervisorInv, Inv, QueueInv, OwnInv, LifeInv, LanesInv, ConvInv
<1>2. /\ queue.mutations \in Seq(Mutations) /\ queue.reads \in Seq(Reqs)
      /\ queue.bypassed \in Reqs \cup {None} /\ queue.active \in Reqs \cup Mutations \cup {None}
      /\ queue.detached \in {r \in Reqs : Method[r] = "references"} \cup {None}
  BY <1>1 DEF Queues, QueueInv
<1>3. queue.applied \in 0 .. MaxEdits /\ queue.generation \in 0 .. MaxEdits
  BY RevisionRanged DEF QueuesInv
<1>4. queue.bytes \in Nat /\ queue.readBytes \in Nat /\ queue.sources \in [Docs -> Nat]
  BY CountersCount
<1>5. req \in [Reqs -> [state : {"idle", "queued", "sent", "settled"},
                        version : 0 .. MaxEdits, generation : 0 .. MaxEdits, cell : Cells,
                        required : 0 .. MaxEdits, outcome : Codes \cup {"ok"}]]
  <2> SUFFICES ASSUME NEW r \in Reqs
               PROVE  req[r] \in [state : {"idle", "queued", "sent", "settled"},
                                  version : 0 .. MaxEdits, generation : 0 .. MaxEdits, cell : Cells,
                                  required : 0 .. MaxEdits, outcome : Codes \cup {"ok"}]
    BY <1>1
  <2>1. req[r] \in Records /\ Ranged(req[r])
    BY <1>1 DEF QueuesInv, Sound
  <2> QED BY <2>1 DEF Records, Ranged
<1>6. client \in [docs : [Docs -> 0 .. MaxEdits], files : [Files -> BOOLEAN], dirty : BOOLEAN]
  <2>1. client.docs \in [Docs -> 0 .. MaxEdits]
    BY DEF QueuesInv, Numbered
  <2> QED BY <1>1, <2>1 DEF Views
<1>7. /\ worker.mode \in {"up", "hung", "quarantined", "dead", "fatal"}
      /\ worker.revision \in 0 .. MaxEdits
      /\ worker.run \in Jobs \cup {None} /\ worker.ref \in Jobs \cup {None}
  BY <1>1 DEF QueuesInv, Numbered, Workers
<1>8. edit \in [EditIds -> {"none", "pending", "resolved", "rejected"}]
  BY <1>1 DEF EditStates
<1> QED BY <1>1, <1>2, <1>3, <1>4, <1>5, <1>6, <1>7, <1>8 DEF TypeOK, Lives

-----------------------------------------------------------------------------
(* The result.                                                               *)

\* The byte and source counters that #enqueueMutation and #enqueueRequest compare with
\* their limits are exact, whatever was coalesced, revoked, drained or sent; no read that
\* #pump finds in the queue is of an older generation; and the state keeps its shape.
THEOREM QueueCountersAreExact == Spec => []QueuesAreSound
<1>1. SupervisorInv /\ QueuesInv /\ [Next]_vars => QueuesInv'
  BY StepSound
<1>2. SupervisorInv /\ QueuesInv => QueuesAreSound
  <2> SUFFICES ASSUME SupervisorInv, QueuesInv PROVE QueuesAreSound
    OBVIOUS
  <2>1. QueuedReadsAreCurrent
    BY DEF QueuesInv, Sound, Current, QueuedReadsAreCurrent
  <2> QED BY <2>1, CountersCount, StateIsShaped DEF QueuesAreSound
<1> QED BY <1>1, <1>2, InitSound, SupervisorInvariant, PTL DEF Spec
=============================================================================
