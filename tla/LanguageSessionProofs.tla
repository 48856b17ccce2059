----------------------- MODULE LanguageSessionProofs -----------------------
(***************************************************************************)
(* Proofs about the LSP session (LanguageSession): who owns an operation   *)
(* of the coalescer, that answers and published diagnostics are those of   *)
(* the present inputs, for any number of documents, workspaces, requests   *)
(* and changes.                                                            *)
(***************************************************************************)
EXTENDS LanguageSession, FiniteSetTheorems, TLAPS

-----------------------------------------------------------------------------
(* The inductive invariant.                                                *)

\* An operation under way is about a document, and only a search of references
\* looks into the cache and suspends the diagnostics.
OpInv ==
    \A o \in Ops :
        /\ op[o].phase # "free" => op[o].doc \in Docs
        /\ op[o].phase \in {"cache", "suspending"} => op[o].kind = "references"

\* A request that waits, waits for an operation under way of its own kind and
\* document; from a shared operation it leaves in the step that aborts it.
ReqInv ==
    \A r \in Reqs : req[r].state = "waiting" =>
        /\ req[r].op \in Ops /\ op[req[r].op].phase # "free"
        /\ op[req[r].op].doc = req[r].doc /\ op[req[r].op].kind = req[r].kind
        /\ ~req[r].value
        /\ req[r].kind \in Coalesced => req[r].reason = "none"

\* The operation was started for the inputs of this moment.
OpFresh(o) ==
    /\ doc[op[o].doc].open /\ op[o].text = doc[op[o].doc].text
    /\ op[o].kind \in WorkspaceScoped => op[o].stamp = Stamp(WorkspaceOf[op[o].doc])

\* Whoever waits for an operation that is out of date has been told so.
FreshInv ==
    \A r \in Reqs : req[r].state = "waiting" /\ req[r].reason = "none" => OpFresh(req[r].op)

\* A task is for an open document of a session that runs.  One that its epoch
\* does not fence has the document's text, and saw the inputs of this moment.
DiagInv ==
    /\ diag.disposed <=> ~running
    /\ \A d \in Docs : diag.task[d] # None =>
        /\ running /\ doc[d].open /\ diag.task[d].epoch <= diag.epoch[WorkspaceOf[d]]
        /\ diag.task[d].epoch = diag.epoch[WorkspaceOf[d]] =>
              /\ diag.task[d].text = doc[d].text
              /\ diag.task[d].started =>
                    Inputs(d, diag.task[d].seen) = Inputs(d, Stamp(WorkspaceOf[d]))

\* The part of the invariant about requests and operations.
Owned == OpInv /\ ReqInv /\ OperationsAreOwned

-----------------------------------------------------------------------------
(* Requests and operations.                                                *)

\* abortOnce: what it changes of requests and operations.
LEMMA AbortStep ==
    ASSUME TypeOK, Owned, NEW S, NEW reason \in {"client-cancelled", "content-modified", "shutdown"},
           AbortAll(S, reason)
    PROVE  /\ req' \in [Reqs -> ReqType] /\ op' \in [Ops -> OpType]
           /\ OpInv' /\ ReqInv' /\ OperationsAreOwned'
           /\ Searches' = Searches
           /\ \A o \in Ops : /\ op'[o].doc = op[o].doc /\ op'[o].kind = op[o].kind
                             /\ op'[o].text = op[o].text /\ op'[o].stamp = op[o].stamp
           /\ \A r \in Reqs : req'[r].state = "waiting" =>
                /\ req[r].state = "waiting" /\ req'[r].op = req[r].op
                /\ req'[r].reason = "none" => r \notin S /\ req[r].reason = "none"
           /\ \A r \in Reqs : req[r].state = "waiting" => ~req'[r].value
<1> DEFINE hit == {r \in S : req[r].state = "waiting" /\ req[r].reason = "none"}
           left == {r \in hit : req[r].kind \in Coalesced}
           aborted == {o \in Ops : \/ op[o].shared /\ Abandoned(o, left)
                                   \/ ~op[o].shared /\ Waiters(o) \cap hit # {}}
<1>1. req' = [r \in Reqs |->
                IF r \in left THEN Ended(FALSE)
                ELSE IF r \in hit THEN [req[r] EXCEPT !.reason = reason] ELSE req[r]]
  BY DEF AbortAll
<1>2. op' = [o \in Ops |-> IF o \in aborted
                           THEN [op[o] EXCEPT !.shared = FALSE, !.aborted = TRUE] ELSE op[o]]
  BY DEF AbortAll
<1>3. /\ \A r : r \in hit <=> r \in S /\ req[r].state = "waiting" /\ req[r].reason = "none"
      /\ \A r : r \in left <=> r \in hit /\ req[r].kind \in Coalesced
  OBVIOUS
<1>4. \A o : o \in aborted <=> o \in Ops /\ \/ op[o].shared /\ Abandoned(o, left)
                                            \/ ~op[o].shared /\ Waiters(o) \cap hit # {}
  OBVIOUS
<1> HIDE DEF hit, left, aborted
<1>5. Ended(FALSE) \in ReqType /\ Ended(FALSE).state = "done" /\ ~Ended(FALSE).value
  BY DEF Ended, ReqType, Kinds
<1>6. req' \in [Reqs -> ReqType]
  BY <1>1, <1>5 DEF TypeOK, ReqType
<1>7. op' \in [Ops -> OpType]
  <2>1. \A x \in OpType : [x EXCEPT !.shared = FALSE, !.aborted = TRUE] \in OpType
    BY DEF OpType
  <2>2. QED
    BY <1>2, <2>1 DEF TypeOK
<1>8. \A o \in Ops : /\ op'[o].doc = op[o].doc /\ op'[o].kind = op[o].kind
                     /\ op'[o].text = op[o].text /\ op'[o].stamp = op[o].stamp
                     /\ op'[o].phase = op[o].phase /\ op'[o].key = op[o].key
                     /\ op'[o].version = op[o].version
                     /\ op'[o].shared = (op[o].shared /\ o \notin aborted)
  BY <1>2 DEF TypeOK, OpType
<1>9. \A r \in Reqs :
         /\ r \in left => req'[r] = Ended(FALSE)
         /\ r \notin left => /\ req'[r].state = req[r].state /\ req'[r].op = req[r].op
                             /\ req'[r].doc = req[r].doc /\ req'[r].kind = req[r].kind
                             /\ req'[r].value = req[r].value
                             /\ req'[r].reason = IF r \in hit THEN reason ELSE req[r].reason
  BY <1>1, <1>3 DEF TypeOK, ReqType
<1>10. \A r \in Reqs : req'[r].state = "waiting" =>
                /\ req[r].state = "waiting" /\ req'[r].op = req[r].op
                /\ req'[r].reason = "none" => r \notin S /\ req[r].reason = "none"
  BY <1>3, <1>5, <1>9
<1>11. \A r \in Reqs : req[r].state = "waiting" => ~req'[r].value
  BY <1>5, <1>9 DEF Owned, ReqInv
<1>12. OpInv'
  BY <1>8 DEF Owned, OpInv
<1>13. ReqInv'
  <2> SUFFICES ASSUME NEW r \in Reqs, req'[r].state = "waiting"
               PROVE  /\ req'[r].op \in Ops /\ op'[req'[r].op].phase # "free"
                      /\ op'[req'[r].op].doc = req'[r].doc /\ op'[req'[r].op].kind = req'[r].kind
                      /\ ~req'[r].value
                      /\ req'[r].kind \in Coalesced => req'[r].reason = "none"
    BY DEF ReqInv
  <2>1. r \notin left /\ req[r].state = "waiting"
    BY <1>5, <1>9
  <2>2. /\ req[r].op \in Ops /\ op[req[r].op].phase # "free"
        /\ op[req[r].op].doc = req[r].doc /\ op[req[r].op].kind = req[r].kind
        /\ ~req[r].value
        /\ req[r].kind \in Coalesced => req[r].reason = "none"
    BY <2>1 DEF Owned, ReqInv
  <2>3. /\ req'[r].op = req[r].op /\ req'[r].doc = req[r].doc /\ req'[r].kind = req[r].kind
        /\ req'[r].value = req[r].value
        /\ req'[r].reason = IF r \in hit THEN reason ELSE req[r].reason
    BY <1>9, <2>1
  <2>4. ~req'[r].value
    BY <2>2, <2>3
  <2>5. req'[r].kind \in Coalesced => req'[r].reason = "none"
    BY <1>3, <2>1, <2>2, <2>3
  <2>6. QED
    BY <1>8, <2>2, <2>3, <2>4, <2>5
<1>14. Searches' = Searches
  BY <1>8 DEF Searches
<1>15. ASSUME NEW o \in Ops
       PROVE  op'[o].shared <=> op'[o].kind \in Coalesced /\ Waiters(o)' # {}
  <2>1. Waiters(o)' = Waiters(o) \ left
    BY <1>3, <1>5, <1>9, ZenonT(60) DEF Waiters
  <2>2. CASE op[o].shared
    BY <1>4, <1>8, <2>1, <2>2 DEF Owned, OperationsAreOwned, Abandoned
  <2>3. CASE ~op[o].shared
    BY <1>8, <2>1, <2>3 DEF Owned, OperationsAreOwned
  <2>4. QED
    BY <2>2, <2>3
<1>16. OperationsAreOwned'
  <2>1. \A o \in Ops : op'[o].shared => op[o].shared
    BY <1>8 DEF TypeOK, OpType
  <2>2. QED
    BY <1>8, <1>15, <2>1 DEF Owned, OperationsAreOwned
<1>17. QED
  BY <1>6, <1>7, <1>8, <1>10, <1>11, <1>12, <1>13, <1>14, <1>16

\* #settle: the operation is gone, and everybody that waited for it with it.
LEMMA SettleStep ==
    ASSUME TypeOK, Owned, NEW o \in Ops, op[o].phase # "free", NEW result, Settle(o, result)
    PROVE  /\ req' \in [Reqs -> ReqType] /\ op' \in [Ops -> OpType]
           /\ OpInv' /\ ReqInv' /\ OperationsAreOwned'
           /\ Searches' = Searches \ {o}
           /\ \A p \in Ops : p # o => op'[p] = op[p]
           /\ \A r \in Reqs : req'[r].state = "waiting" => req'[r] = req[r] /\ req[r].op # o
           /\ \A r \in Reqs : req[r].state = "waiting" /\ req'[r].value =>
                 req[r].op = o /\ Returned(r, result)
<1>1. req' = [r \in Reqs |-> IF r \in Waiters(o) THEN Ended(Returned(r, result)) ELSE req[r]]
  BY DEF Settle
<1>2. op' = [op EXCEPT ![o] = Free]
  BY DEF Settle
<1>3. Free \in OpType /\ Free.phase = "free" /\ ~Free.shared /\ Free.kind = "hover"
  BY DEF Free, OpType, Kinds, Stamps
<1>4. \A v \in BOOLEAN : Ended(v) \in ReqType /\ Ended(v).state = "done" /\ Ended(v).value = v
  BY DEF Ended, ReqType, Kinds
<1>5. \A r \in Reqs : Returned(r, result) \in BOOLEAN
  BY DEF Returned
<1>6. req' \in [Reqs -> ReqType]
  BY <1>1, <1>4, <1>5 DEF TypeOK
<1>7. op' \in [Ops -> OpType] /\ op'[o] = Free /\ \A p \in Ops : p # o => op'[p] = op[p]
  BY <1>2, <1>3 DEF TypeOK
<1>8. \A r \in Reqs : req'[r].state = "waiting" => req'[r] = req[r] /\ req[r].op # o
  BY <1>1, <1>4, <1>5 DEF Waiters
<1>9. \A r \in Reqs : req[r].state = "waiting" /\ req'[r].value =>
                         req[r].op = o /\ Returned(r, result)
  <2> TAKE r \in Reqs
  <2> HAVE req[r].state = "waiting" /\ req'[r].value
  <2>1. CASE r \in Waiters(o)
    BY <1>1, <1>4, <1>5, <2>1 DEF Waiters
  <2>2. CASE r \notin Waiters(o)
    BY <1>1, <2>2 DEF Owned, ReqInv
  <2>3. QED
    BY <2>1, <2>2
<1>10. OpInv'
  BY <1>3, <1>7 DEF Owned, OpInv
<1>11. ReqInv'
  BY <1>7, <1>8 DEF Owned, ReqInv
<1>12. Searches' = Searches \ {o}
  BY <1>3, <1>7 DEF Searches
<1>13. OperationsAreOwned'
  <2>1. \A p \in Ops : p # o => Waiters(p)' = Waiters(p)
    <3> TAKE p \in Ops
    <3> HAVE p # o
    <3>1. ASSUME NEW r \in Reqs, r \in Waiters(p) PROVE r \in Waiters(p)'
      BY <1>1, <3>1 DEF Waiters
    <3>2. ASSUME NEW r \in Reqs, r \in Waiters(p)' PROVE r \in Waiters(p)
      BY <1>8, <3>2 DEF Waiters
    <3>3. QED
      BY <3>1, <3>2 DEF Waiters
  <2>2. Waiters(o)' = {}
    BY <1>8 DEF Waiters
  <2>3. ~op'[o].shared
    BY <1>3, <1>7
  <2>4. \A p \in Ops : op'[p].shared <=> op'[p].kind \in Coalesced /\ Waiters(p)' # {}
    BY <1>7, <2>1, <2>2, <2>3 DEF Owned, OperationsAreOwned
  <2>5. QED
    BY <1>7, <2>3, <2>4 DEF Owned, OperationsAreOwned
<1>14. QED
  BY <1>6, <1>7, <1>8, <1>9, <1>10, <1>11, <1>12, <1>13

\* run: the request owns the operation that it joins or starts.
LEMMA StartStep ==
    ASSUME TypeOK, Owned, FreshInv, NEW r \in Reqs, NEW d \in Docs, NEW k \in Methods, Start(r, d, k)
    PROVE  /\ req' \in [Reqs -> ReqType] /\ op' \in [Ops -> OpType]
           /\ OpInv' /\ ReqInv' /\ OperationsAreOwned' /\ FreshInv'
           /\ Searches' = Searches
           /\ \A q \in Reqs : req[q].state = "waiting" => ~req'[q].value
<1> DEFINE free == {x \in Ops : op[x] = Free}
           joined == IF k \in Coalesced THEN Joins(r, d, k) ELSE {}
           chosen == CHOOSE x \in IF joined # {} THEN joined ELSE free : TRUE
<1>1. /\ req[r].state = "idle" /\ doc[d].open /\ (joined # {} \/ free # {})
      /\ op' = IF joined # {} THEN op ELSE [op EXCEPT ![chosen] = Created(r, d, k)]
      /\ req' = [req EXCEPT ![r] = Waiting(d, k, chosen)]
      /\ UNCHANGED inputs
  BY DEF Start
<1>2. chosen \in (IF joined # {} THEN joined ELSE free)
  BY <1>1
<1>3. /\ joined \subseteq Ops
      /\ \A x \in joined : /\ k \in Coalesced /\ op[x].shared /\ op[x].kind = k
                           /\ op[x].key = Position[r] /\ op[x].doc = d
                           /\ op[x].version = doc[d].version
      /\ k \in Coalesced => \A x \in Ops :
            (/\ op[x].shared /\ op[x].kind = k /\ op[x].key = Position[r]
             /\ op[x].doc = d /\ op[x].version = doc[d].version) => x \in joined
      /\ free \subseteq Ops /\ \A x \in free : op[x] = Free
  BY DEF Joins
<1> HIDE DEF free, joined, chosen
<1>0. PICK o \in Ops : o = chosen
  BY <1>2, <1>3
<1>4. k \in Kinds
  BY ConstantsAssumption
<1>5. /\ Waiting(d, k, o) \in ReqType /\ Waiting(d, k, o).state = "waiting"
      /\ Waiting(d, k, o).kind = k /\ Waiting(d, k, o).doc = d /\ Waiting(d, k, o).op = o
      /\ Waiting(d, k, o).reason = "none" /\ ~Waiting(d, k, o).value
  BY <1>4 DEF Waiting, ReqType, TypeOK, DocType
<1>6. Stamp(WorkspaceOf[d]) \in Stamps
  BY ConstantsAssumption DEF Stamp, Stamps, TypeOK
<1>7. /\ Created(r, d, k) \in OpType /\ Created(r, d, k).kind = k /\ Created(r, d, k).doc = d
      /\ Created(r, d, k).key = Position[r] /\ Created(r, d, k).version = doc[d].version
      /\ Created(r, d, k).shared = (k \in Coalesced)
      /\ Created(r, d, k).text = doc[d].text
      /\ Created(r, d, k).stamp = Stamp(WorkspaceOf[d])
      /\ Created(r, d, k).phase = IF k = "references" THEN "cache" ELSE "executing"
  BY <1>4, <1>6 DEF Created, OpType, TypeOK, DocType
<1>8. req' \in [Reqs -> ReqType] /\ req'[r] = Waiting(d, k, o) /\ \A q \in Reqs : q # r => req'[q] = req[q]
  BY <1>0, <1>1, <1>5 DEF TypeOK
<1>9. /\ op' \in [Ops -> OpType] /\ \A x \in Ops : x # o => op'[x] = op[x]
      /\ joined # {} => op'[o] = op[o]
      /\ joined = {} => op'[o] = Created(r, d, k)
  BY <1>0, <1>1, <1>4, <1>7 DEF TypeOK
<1>10. \A q \in Reqs : req[q].state = "waiting" => ~req'[q].value
  BY <1>5, <1>8 DEF Owned, ReqInv
<1>11. Waiters(o)' = Waiters(o) \cup {r} /\ \A x \in Ops : x # o => Waiters(x)' = Waiters(x)
  BY <1>1, <1>5, <1>8 DEF Waiters
<1>12. joined = {} => op[o] = Free /\ Waiters(o) = {}
  <2>1. Free.phase = "free"
    BY DEF Free
  <2>2. QED
    BY <1>0, <1>2, <1>3, <2>1 DEF Owned, ReqInv, Waiters
<1>13. joined # {} => /\ op[o].kind = k /\ op[o].doc = d /\ op[o].shared /\ k \in Coalesced
                      /\ op[o].phase # "free" /\ OpFresh(o)
  <2> HAVE joined # {}
  <2>1. op[o].kind = k /\ op[o].doc = d /\ op[o].shared /\ k \in Coalesced
    BY <1>0, <1>2, <1>3
  <2>2. PICK q \in Waiters(o) : TRUE
    BY <1>4, <2>1 DEF Owned, OperationsAreOwned
  <2>3. q \in Reqs /\ req[q].state = "waiting" /\ req[q].op = o
    BY <2>2 DEF Waiters
  <2>4. op[o].phase # "free" /\ req[q].kind = k /\ req[q].reason = "none"
    BY <2>1, <2>3 DEF Owned, ReqInv
  <2>5. QED
    BY <2>1, <2>3, <2>4 DEF FreshInv
<1>14. OpInv'
  <2>1. CASE joined # {}
    BY <1>9, <2>1 DEF Owned, OpInv
  <2>2. CASE joined = {}
    BY <1>7, <1>9, <2>2 DEF Owned, OpInv
  <2>3. QED
    BY <2>1, <2>2
<1>15. \A x \in Ops : op[x].phase # "free" =>
          op'[x] = op[x]
  <2>1. Free.phase = "free"
    BY DEF Free
  <2>2. QED
    BY <1>9, <1>12, <2>1
<1>16. op'[o].phase # "free" /\ op'[o].doc = d /\ op'[o].kind = k /\ OpFresh(o)'
  <2>1. CASE joined # {}
    BY <1>1, <1>9, <1>13, <2>1 DEF OpFresh, Stamp, inputs
  <2>2. CASE joined = {}
    BY <1>1, <1>7, <1>9, <2>2 DEF OpFresh, Stamp, inputs
  <2>3. QED
    BY <2>1, <2>2
<1>17. ReqInv'
  <2> SUFFICES ASSUME NEW q \in Reqs, req'[q].state = "waiting"
               PROVE  /\ req'[q].op \in Ops /\ op'[req'[q].op].phase # "free"
                      /\ op'[req'[q].op].doc = req'[q].doc /\ op'[req'[q].op].kind = req'[q].kind
                      /\ ~req'[q].value
                      /\ req'[q].kind \in Coalesced => req'[q].reason = "none"
    BY DEF ReqInv
  <2>1. CASE q = r
    BY <1>4, <1>5, <1>8, <1>16, <2>1
  <2>2. CASE q # r
    BY <1>8, <1>15, <2>2 DEF Owned, ReqInv
  <2>3. QED
    BY <2>1, <2>2
<1>18. FreshInv'
  <2> SUFFICES ASSUME NEW q \in Reqs, req'[q].state = "waiting", req'[q].reason = "none"
               PROVE  OpFresh(req[q].op)'
    BY DEF FreshInv
  <2>1. CASE q = r
    BY <1>5, <1>8, <1>16, <2>1
  <2>2. CASE q # r
    <3>1. req'[q] = req[q] /\ op[req[q].op].phase # "free" /\ req[q].op \in Ops
      BY <1>8, <2>2 DEF Owned, ReqInv
    <3>2. OpFresh(req[q].op) /\ op'[req[q].op] = op[req[q].op]
      BY <1>15, <3>1 DEF FreshInv
    <3>3. QED
      BY <1>1, <3>1, <3>2 DEF OpFresh, Stamp, inputs
  <2>3. QED
    BY <2>1, <2>2
<1>19. Searches' = Searches
  <2>1. Free.kind = "hover"
    BY DEF Free
  <2>2. CASE joined # {}
    BY <1>9, <2>2 DEF Searches
  <2>3. CASE joined = {}
    BY <1>7, <1>9, <1>12, <2>1, <2>3 DEF Searches
  <2>4. QED
    BY <2>2, <2>3
<1>20. OperationsAreOwned'
  <2>1. ASSUME NEW x \in Ops
        PROVE  op'[x].shared <=> op'[x].kind \in Coalesced /\ Waiters(x)' # {}
    <3>1. CASE x # o
      BY <1>9, <1>11, <3>1 DEF Owned, OperationsAreOwned
    <3>2. CASE x = o /\ joined # {}
      BY <1>9, <1>11, <1>13, <3>2
    <3>3. CASE x = o /\ joined = {}
      BY <1>7, <1>9, <1>11, <3>3
    <3>4. QED
      BY <3>1, <3>2, <3>3
  <2>2. ASSUME NEW x \in Ops, NEW y \in Ops,
               op'[x].shared, op'[y].shared, op'[x].kind = op'[y].kind, op'[x].key = op'[y].key,
               op'[x].doc = op'[y].doc, op'[x].version = op'[y].version
        PROVE  x = y
    <3>1. CASE joined # {} \/ (x # o /\ y # o)
      BY <1>9, <2>2, <3>1 DEF Owned, OperationsAreOwned
    <3>2. ASSUME joined = {}, NEW z \in Ops, z # o, op'[z].shared, op'[o].shared,
                 op'[z].kind = op'[o].kind, op'[z].key = op'[o].key,
                 op'[z].doc = op'[o].doc, op'[z].version = op'[o].version
          PROVE  FALSE
      <4>1. k \in Coalesced
        BY <1>7, <1>9, <3>2
      <4>2. /\ op[z].shared /\ op[z].kind = k /\ op[z].key = Position[r]
            /\ op[z].doc = d /\ op[z].version = doc[d].version
        BY <1>7, <1>9, <3>2
      <4>3. QED
        BY <1>3, <3>2, <4>1, <4>2
    <3>3. QED
      BY <2>2, <3>1, <3>2
  <2>3. QED
    BY <2>1, <2>2 DEF OperationsAreOwned
<1>21. QED
  BY <1>8, <1>9, <1>10, <1>14, <1>17, <1>18, <1>19, <1>20
\* CacheMiss and Quiesced move an operation on, for the inputs of this moment.
LEMMA AdvanceStep ==
    ASSUME TypeOK, Owned, FreshInv, NEW o \in Ops, op[o].phase \in {"cache", "suspending"},
           NEW phase \in {"suspending", "executing"}, NEW awaits \in SUBSET Docs, NEW stamp \in Stamps,
           stamp \in {op[o].stamp, Stamp(WorkspaceOf[op[o].doc])},
           op' = [op EXCEPT ![o] = [op[o] EXCEPT !.phase = phase, !.awaits = awaits,
                                                 !.stamp = stamp]],
           UNCHANGED <<inputs, req>>
    PROVE  /\ op' \in [Ops -> OpType] /\ OpInv' /\ ReqInv' /\ OperationsAreOwned' /\ FreshInv'
           /\ Searches' = Searches \cup {o}
<1>1. /\ [op[o] EXCEPT !.phase = phase, !.awaits = awaits, !.stamp = stamp] \in OpType
      /\ op[o].kind = "references" /\ op[o].doc \in Docs
  BY DEF TypeOK, OpType, Owned, OpInv
<1>2. /\ op' \in [Ops -> OpType] /\ \A p \in Ops : p # o => op'[p] = op[p]
      /\ op'[o].phase = phase /\ op'[o].stamp = stamp /\ op'[o].kind = op[o].kind
      /\ op'[o].doc = op[o].doc /\ op'[o].key = op[o].key /\ op'[o].version = op[o].version
      /\ op'[o].text = op[o].text /\ op'[o].shared = op[o].shared
  BY <1>1 DEF TypeOK, OpType
<1>3. OpInv' /\ ReqInv'
  BY <1>1, <1>2 DEF Owned, OpInv, ReqInv
<1>4. Searches' = Searches \cup {o}
  BY <1>1, <1>2 DEF Searches
<1>5. OperationsAreOwned'
  <2>1. \A p \in Ops : Waiters(p)' = Waiters(p)
    BY DEF Waiters
  <2>2. \A p \in Ops : op'[p].kind = op[p].kind /\ op'[p].doc = op[p].doc /\ op'[p].key = op[p].key
                       /\ op'[p].version = op[p].version /\ op'[p].shared = op[p].shared
    BY <1>2
  <2>3. QED
    BY <2>1, <2>2 DEF Owned, OperationsAreOwned
<1>6. FreshInv'
  <2> SUFFICES ASSUME NEW q \in Reqs, req[q].state = "waiting", req[q].reason = "none"
               PROVE  OpFresh(req[q].op)'
    BY DEF FreshInv
  <2>1. OpFresh(req[q].op) /\ req[q].op \in Ops
    BY DEF FreshInv, Owned, ReqInv
  <2>2. CASE req[q].op # o
    BY <1>2, <2>1, <2>2 DEF OpFresh, Stamp, inputs
  <2>3. CASE req[q].op = o
    BY <1>2, <2>1, <2>3 DEF OpFresh, Stamp, inputs
  <2>4. QED
    BY <2>2, <2>3
<1>7. QED
  BY <1>2, <1>3, <1>4, <1>5, <1>6

-----------------------------------------------------------------------------
(* The diagnostics scheduler.                                              *)

\* What update does to a scheduler.
LEMMA UpdateFacts ==
    ASSUME NEW g \in DiagType, NEW D \in SUBSET Docs, NEW docs \in [Docs -> DocType]
    PROVE  /\ Update(g, D, docs) \in DiagType
           /\ Update(g, D, docs).epoch = g.epoch /\ Update(g, D, docs).disposed = g.disposed
           /\ Update(g, D, docs).leases = g.leases
           /\ \A d \in Docs : Update(g, D, docs).task[d] =
                 IF d \notin D THEN g.task[d]
                 ELSE IF g.disposed \/ g.leases > 0 THEN None ELSE Task(g, d, docs)
<1> DEFINE T == [d \in Docs |-> IF d \notin D THEN g.task[d]
                                ELSE IF g.disposed \/ g.leases > 0 THEN None
                                ELSE Task(g, d, docs)]
           F == IF g.leases > 0 /\ ~g.disposed THEN g.deferred \cup D ELSE g.deferred
<1>1. \A d \in Docs : Task(g, d, docs) \in TaskType
  BY ConstantsAssumption DEF Task, TaskType, DiagType, DocType, Stamps
<1>2. T \in [Docs -> {None} \cup TaskType] /\ F \in SUBSET Docs
  BY <1>1 DEF DiagType
<1>3. Update(g, D, docs) = [g EXCEPT !.task = T, !.deferred = F]
  BY DEF Update
<1>4. \A d \in Docs : T[d] = IF d \notin D THEN g.task[d]
                             ELSE IF g.disposed \/ g.leases > 0 THEN None ELSE Task(g, d, docs)
  OBVIOUS
<1> HIDE DEF T, F
<1>5. /\ [g EXCEPT !.task = T, !.deferred = F] \in DiagType
      /\ [g EXCEPT !.task = T, !.deferred = F].task = T
      /\ [g EXCEPT !.task = T, !.deferred = F].epoch = g.epoch
      /\ [g EXCEPT !.task = T, !.deferred = F].leases = g.leases
      /\ [g EXCEPT !.task = T, !.deferred = F].disposed = g.disposed
  BY <1>2 DEF DiagType
<1>6. QED
  BY <1>3, <1>4, <1>5

\* Tasks may be dropped, or replaced by one for the document as it is.
LEMMA TasksStay ==
    ASSUME TypeOK, DiagInv, UNCHANGED <<inputs, running>>, diag' \in DiagType,
           diag'.epoch = diag.epoch, diag'.disposed = diag.disposed,
           \A d \in Docs : \/ diag'.task[d] \in {diag.task[d], None}
                           \/ running /\ doc[d].open /\ diag'.task[d] = Task(diag, d, doc)
    PROVE  DiagInv'
<1>1. \A d \in Docs : /\ Task(diag, d, doc).epoch = diag.epoch[WorkspaceOf[d]]
                      /\ Task(diag, d, doc).text = doc[d].text /\ ~Task(diag, d, doc).started
  BY DEF Task
<1>2. ASSUME NEW d \in Docs, diag'.task[d] # None
      PROVE  /\ running /\ doc[d].open /\ diag'.task[d].epoch <= diag.epoch[WorkspaceOf[d]]
             /\ diag'.task[d].epoch = diag.epoch[WorkspaceOf[d]] =>
                  /\ diag'.task[d].text = doc[d].text
                  /\ diag'.task[d].started =>
                       Inputs(d, diag'.task[d].seen) = Inputs(d, Stamp(WorkspaceOf[d]))
  <2>1. CASE diag'.task[d] = diag.task[d]
    BY <1>2, <2>1 DEF DiagInv
  <2>2. CASE running /\ doc[d].open /\ diag'.task[d] = Task(diag, d, doc)
    <3>1. diag.epoch[WorkspaceOf[d]] \in Nat
      BY ConstantsAssumption DEF TypeOK, DiagType
    <3>2. QED
      BY <1>1, <2>2, <3>1
  <2>3. QED
    BY <1>2, <2>1, <2>2
<1>3. QED
  BY <1>2 DEF DiagInv, inputs, Inputs, Stamp

\* What refreshWorkspace does to a scheduler.
LEMMA RefreshFacts ==
    ASSUME NEW g \in DiagType, NEW W \in SUBSET Workspaces
    PROVE  /\ Refresh(g, W) \in DiagType
           /\ Refresh(g, W).leases = g.leases /\ Refresh(g, W).disposed = g.disposed
           /\ Refresh(g, W).task = g.task
           /\ ~g.disposed => \A w \in Workspaces :
                 Refresh(g, W).epoch[w] = IF w \in W THEN g.epoch[w] + 1 ELSE g.epoch[w]
<1> DEFINE E == [w \in Workspaces |-> IF w \in W THEN g.epoch[w] + 1 ELSE g.epoch[w]]
           R == [g EXCEPT !.epoch = E, !.dirty = @ \cup W]
<1>1. E \in [Workspaces -> Nat]
  BY DEF DiagType
<1>2. \A w \in Workspaces : E[w] = IF w \in W THEN g.epoch[w] + 1 ELSE g.epoch[w]
  OBVIOUS
<1>3. Refresh(g, W) = IF g.disposed THEN g ELSE R
  BY DEF Refresh
<1> HIDE DEF E
<1>4. R \in DiagType /\ R.leases = g.leases /\ R.disposed = g.disposed /\ R.task = g.task /\ R.epoch = E
  BY <1>1 DEF DiagType
<1> HIDE DEF R
<1>5. QED
  BY <1>2, <1>3, <1>4

\* A change in the workspaces W leaves no task of theirs unfenced.
LEMMA FencedStep ==
    ASSUME TypeOK, DiagInv, running, running' = running, NEW W \in SUBSET Workspaces,
           NEW g \in DiagType, g.epoch = diag.epoch, g.disposed = diag.disposed,
           \A d \in Docs : g.task[d] \in {diag.task[d], None},
           diag' = Refresh(g, W),
           \A d \in Docs : WorkspaceOf[d] \notin W =>
                              doc'[d] = doc[d] /\ Stamp(WorkspaceOf[d])' = Stamp(WorkspaceOf[d]),
           \A d \in Docs : WorkspaceOf[d] \in W /\ g.task[d] # None => doc'[d].open
    PROVE  DiagInv'
<1>1. /\ ~g.disposed /\ diag'.task = g.task /\ diag'.disposed = g.disposed
      /\ \A w \in Workspaces : diag'.epoch[w] = IF w \in W THEN diag.epoch[w] + 1 ELSE diag.epoch[w]
  BY RefreshFacts DEF DiagInv
<1>2. ASSUME NEW d \in Docs, diag'.task[d] # None
      PROVE  /\ running' /\ doc'[d].open /\ diag'.task[d].epoch <= diag'.epoch[WorkspaceOf[d]]
             /\ diag'.task[d].epoch = diag'.epoch[WorkspaceOf[d]] =>
                  /\ diag'.task[d].text = doc'[d].text
                  /\ diag'.task[d].started =>
                       Inputs(d, diag.task[d].seen)' = Inputs(d, Stamp(WorkspaceOf[d]))'
  <2>1. diag'.task[d] = diag.task[d] /\ diag.task[d] # None /\ diag.task[d] \in TaskType
    BY <1>1, <1>2 DEF TypeOK, DiagType
  <2>2. /\ doc[d].open /\ diag.task[d].epoch <= diag.epoch[WorkspaceOf[d]]
        /\ diag.task[d].epoch \in Nat /\ diag.epoch[WorkspaceOf[d]] \in Nat
        /\ WorkspaceOf[d] \in Workspaces
    BY <2>1, ConstantsAssumption DEF DiagInv, TypeOK, DiagType, TaskType
  <2>3. CASE WorkspaceOf[d] \in W
    <3>1. diag'.task[d].epoch < diag'.epoch[WorkspaceOf[d]]
      BY <1>1, <2>1, <2>2, <2>3
    <3>2. doc'[d].open
      BY <1>1, <1>2, <2>3
    <3>3. QED
      BY <1>1, <2>1, <2>2, <2>3, <3>1, <3>2
  <2>4. CASE WorkspaceOf[d] \notin W
    <3>1. doc'[d] = doc[d] /\ Stamp(WorkspaceOf[d])' = Stamp(WorkspaceOf[d])
      BY <2>4
    <3>2. diag'.epoch[WorkspaceOf[d]] = diag.epoch[WorkspaceOf[d]]
      BY <1>1, <2>2, <2>4
    <3>3. /\ diag.task[d].epoch = diag.epoch[WorkspaceOf[d]] =>
               /\ diag.task[d].text = doc[d].text
               /\ diag.task[d].started =>
                    Inputs(d, diag.task[d].seen) = Inputs(d, Stamp(WorkspaceOf[d]))
      BY <2>1 DEF DiagInv
    <3>4. Inputs(d, diag.task[d].seen)' = Inputs(d, diag.task[d].seen)
      BY <2>1, <3>1 DEF Inputs
    <3>5. Inputs(d, Stamp(WorkspaceOf[d]))' = Inputs(d, Stamp(WorkspaceOf[d]))
      BY <3>1 DEF Inputs
    <3>6. QED
      BY <2>1, <2>2, <3>1, <3>2, <3>3, <3>4, <3>5
  <2>5. QED
    BY <2>3, <2>4
<1>3. diag'.disposed <=> ~running'
  BY <1>1 DEF DiagInv
<1>4. QED
  BY <1>2, <1>3 DEF DiagInv

\* What suspend does to a scheduler.
LEMMA SuspendFacts ==
    ASSUME NEW g \in DiagType
    PROVE  /\ Suspend(g) \in DiagType /\ Suspend(g).leases = g.leases + 1
           /\ Suspend(g).epoch = g.epoch /\ Suspend(g).disposed = g.disposed
           /\ \A d \in Docs : Suspend(g).task[d] = None
<1> DEFINE pending == {d \in Docs : g.task[d] # None}
           D == g.deferred \cup pending
           B == g.settling \cup {d \in pending : g.task[d].started}
           T == [d \in Docs |-> None]
           S == [g EXCEPT !.leases = g.leases + 1, !.deferred = D, !.settling = B, !.task = T]
<1>1. Suspend(g) = S
  BY DEF Suspend
<1>2. D \in SUBSET Docs /\ B \in SUBSET Docs
  BY DEF DiagType
<1>3. T \in [Docs -> {None} \cup TaskType] /\ \A d \in Docs : T[d] = None
  OBVIOUS
<1> HIDE DEF D, B, T
<1>4. S \in DiagType
  <2>1. g.leases + 1 \in Nat
    BY DEF DiagType
  <2>2. QED
    BY <1>2, <1>3, <2>1, Zenon DEF DiagType
<1>5. S.leases = g.leases + 1 /\ S.epoch = g.epoch /\ S.disposed = g.disposed /\ S.task = T
  BY DEF DiagType
<1> HIDE DEF S
<1>6. QED
  BY <1>1, <1>3, <1>4, <1>5

\* What the end of a suspension does to a scheduler.
LEMMA ResumeFacts ==
    ASSUME NEW g \in DiagType, g.leases > 0, NEW docs \in [Docs -> DocType]
    PROVE  /\ Resume(g, docs) \in DiagType /\ Resume(g, docs).leases = g.leases - 1
           /\ Resume(g, docs).epoch = g.epoch /\ Resume(g, docs).disposed = g.disposed
           /\ \A d \in Docs :
                 \/ Resume(g, docs).task[d] \in {g.task[d], None}
                 \/ /\ ~g.disposed /\ docs[d].open
                    /\ Resume(g, docs).task[d] = Task(g, d, docs)
<1> DEFINE released == [g EXCEPT !.leases = @ - 1]
           again == {d \in g.deferred : docs[d].open /\ WorkspaceOf[d] \notin g.dirty}
           cleared == [released EXCEPT !.deferred = {}]
<1>1. Resume(g, docs) = IF g.disposed \/ released.leases > 0 THEN released
                        ELSE Update(cleared, again, docs)
  BY DEF Resume
<1>2. /\ released \in DiagType /\ released.leases = g.leases - 1 /\ released.epoch = g.epoch
      /\ released.disposed = g.disposed /\ released.task = g.task
  BY DEF DiagType
<1>3. /\ cleared \in DiagType /\ cleared.leases = g.leases - 1 /\ cleared.epoch = g.epoch
      /\ cleared.disposed = g.disposed /\ cleared.task = g.task
  <2> HIDE DEF released
  <2>1. QED
    BY <1>2 DEF DiagType
<1>4. again \in SUBSET Docs /\ \A d \in again : docs[d].open
  BY DEF DiagType
<1> HIDE DEF released, again, cleared
<1>5. \A d \in Docs : Task(cleared, d, docs) = Task(g, d, docs)
  BY <1>3 DEF Task
<1>6. CASE g.disposed \/ released.leases > 0
  BY <1>1, <1>2, <1>6
<1>7. CASE ~(g.disposed \/ released.leases > 0)
  <2>1. /\ Update(cleared, again, docs) \in DiagType
        /\ Update(cleared, again, docs).epoch = cleared.epoch
        /\ Update(cleared, again, docs).disposed = cleared.disposed
        /\ Update(cleared, again, docs).leases = cleared.leases
        /\ \A d \in Docs : Update(cleared, again, docs).task[d] =
              IF d \notin again THEN cleared.task[d]
              ELSE IF cleared.disposed \/ cleared.leases > 0 THEN None ELSE Task(cleared, d, docs)
    BY <1>3, <1>4, UpdateFacts
  <2>2. QED
    BY <1>1, <1>3, <1>4, <1>5, <1>7, <2>1
<1>8. QED
  BY <1>6, <1>7

-----------------------------------------------------------------------------
(* The steps.                                                              *)

SessionInv == TypeOK /\ Owned /\ FreshInv /\ DiagInv

\* A request or an operation moves and the inputs stay.
LEMMA RequestsMove ==
    ASSUME SessionInv, UNCHANGED <<inputs, running, shown>>,
           req' \in [Reqs -> ReqType] /\ op' \in [Ops -> OpType], OpInv' /\ ReqInv' /\ OperationsAreOwned',
           FreshInv', diag' \in DiagType, DiagInv', diag'.leases = Cardinality(Searches'), ReturnsFresh
    PROVE  SessionInv' /\ ReturnsFresh /\ PublishesCurrent
BY DEF SessionInv, TypeOK, Owned, PublishesCurrent, inputs

\* Diagnostics move and the inputs stay.
LEMMA DiagnosticsMove ==
    ASSUME SessionInv, UNCHANGED <<inputs, running, req, op>>, shown' \in [Docs -> ShownType],
           diag' \in DiagType, DiagInv', diag'.leases = diag.leases, PublishesCurrent
    PROVE  SessionInv' /\ ReturnsFresh /\ PublishesCurrent
<1>1. ReturnsFresh
  BY DEF ReturnsFresh, SessionInv, Owned, ReqInv
<1>2. Searches' = Searches
  BY DEF Searches
<1>3. OpInv' /\ ReqInv'
  BY DEF SessionInv, Owned, OpInv, ReqInv
<1>4. OperationsAreOwned'
  <2>1. \A o \in Ops : Waiters(o)' = Waiters(o)
    BY DEF Waiters
  <2>2. QED
    BY <2>1 DEF SessionInv, Owned, OperationsAreOwned
<1>5. FreshInv'
  BY DEF SessionInv, FreshInv, OpFresh, Stamp, inputs
<1>6. TypeOK'
  BY <1>2 DEF SessionInv, TypeOK, inputs
<1>7. QED
  BY <1>1, <1>3, <1>4, <1>5, <1>6 DEF SessionInv, Owned

\* Requests that AbortAll does not reach keep an operation that is fresh.
LEMMA AbortFresh ==
    ASSUME TypeOK, Owned, FreshInv, NEW S,
           NEW reason \in {"client-cancelled", "content-modified", "shutdown"}, AbortAll(S, reason),
           \A r \in Reqs : r \notin S /\ req[r].state = "waiting" =>
              /\ doc'[req[r].doc] = doc[req[r].doc]
              /\ req[r].kind \in WorkspaceScoped =>
                    /\ source'[WorkspaceOf[req[r].doc]] = source[WorkspaceOf[req[r].doc]]
                    /\ resource'[WorkspaceOf[req[r].doc]] = resource[WorkspaceOf[req[r].doc]]
    PROVE  FreshInv' /\ ReturnsFresh
<1>1. /\ \A o \in Ops : /\ op'[o].doc = op[o].doc /\ op'[o].kind = op[o].kind
                        /\ op'[o].text = op[o].text /\ op'[o].stamp = op[o].stamp
      /\ \A r \in Reqs : req'[r].state = "waiting" =>
            /\ req[r].state = "waiting" /\ req'[r].op = req[r].op
            /\ req'[r].reason = "none" => r \notin S /\ req[r].reason = "none"
      /\ \A r \in Reqs : req[r].state = "waiting" => ~req'[r].value
  BY AbortStep
<1>2. ReturnsFresh
  BY <1>1 DEF ReturnsFresh
<1>3. ASSUME NEW r \in Reqs, req'[r].state = "waiting", req'[r].reason = "none"
      PROVE  OpFresh(req[r].op)'
  <2>1. r \notin S /\ req[r].state = "waiting" /\ req'[r].op = req[r].op /\ req[r].reason = "none"
    BY <1>1, <1>3
  <2>2. /\ req[r].op \in Ops /\ OpFresh(req[r].op)
        /\ op[req[r].op].doc = req[r].doc /\ op[req[r].op].kind = req[r].kind
    BY <2>1 DEF FreshInv, Owned, ReqInv
  <2>3. /\ op'[req'[r].op].doc = req[r].doc /\ op'[req'[r].op].kind = req[r].kind
        /\ op'[req'[r].op].text = op[req[r].op].text /\ op'[req'[r].op].stamp = op[req[r].op].stamp
    BY <1>1, <2>1, <2>2
  <2>4. QED
    BY <2>1, <2>2, <2>3 DEF OpFresh, Stamp
<1>4. QED
  BY <1>2, <1>3 DEF FreshInv

\* The other operations stay fresh when one settles, and the one that settles
\* answers only who has not been told otherwise.
LEMMA SettleFresh ==
    ASSUME TypeOK, Owned, FreshInv, NEW o \in Ops, op[o].phase # "free", NEW result, Settle(o, result)
    PROVE  FreshInv' /\ ReturnsFresh
<1>1. /\ \A p \in Ops : p # o => op'[p] = op[p]
      /\ \A r \in Reqs : req'[r].state = "waiting" => req'[r] = req[r] /\ req[r].op # o
      /\ \A r \in Reqs : req[r].state = "waiting" /\ req'[r].value =>
            req[r].op = o /\ Returned(r, result)
  BY SettleStep
<1>2. UNCHANGED inputs
  BY DEF Settle
<1>3. ASSUME NEW r \in Reqs, req'[r].state = "waiting", req'[r].reason = "none"
      PROVE  OpFresh(req[r].op)'
  <2>1. req'[r] = req[r] /\ req[r].op # o /\ req[r].op \in Ops /\ OpFresh(req[r].op)
    BY <1>1, <1>3 DEF FreshInv, Owned, ReqInv
  <2>2. op'[req[r].op] = op[req[r].op]
    BY <1>1, <2>1
  <2>3. QED
    BY <1>2, <2>1, <2>2 DEF OpFresh, Stamp, inputs
<1>4. ReturnsFresh
  <2> SUFFICES ASSUME NEW r \in Reqs, req[r].state = "waiting", req'[r].value
               PROVE  OpFresh(req[r].op)
    BY DEF ReturnsFresh, OpFresh
  <2>1. Returned(r, result)
    BY <1>1
  <2>2. QED
    BY <2>1 DEF Returned, FreshInv
<1>5. QED
  BY <1>3, <1>4 DEF FreshInv

\* The leases of the diagnostics are counted as searches come and go.
LEMMA SearchCount ==
    ASSUME TypeOK, NEW o \in Ops
    PROVE  /\ o \notin Searches => Cardinality(Searches \cup {o}) = diag.leases + 1
           /\ o \in Searches => diag.leases > 0 /\ Cardinality(Searches \ {o}) = diag.leases - 1
           /\ o \notin Searches => Cardinality(Searches \ {o}) = diag.leases
<1>1. IsFiniteSet(Searches)
  BY ConstantsAssumption, FS_Subset DEF Searches
<1>2. diag.leases = Cardinality(Searches) /\ Cardinality(Searches) \in Nat
  BY <1>1, FS_CardinalityType DEF TypeOK
<1>3. o \in Searches => Cardinality(Searches) > 0
  BY <1>1, <1>2, FS_EmptySet
<1>4. QED
  BY <1>1, <1>2, <1>3, FS_AddElement, FS_RemoveElement, ZenonT(60)

\* Start and Cancel.
LEMMA RequestSteps ==
    ASSUME SessionInv, NEW r \in Reqs,
           Cancel(r) \/ \E d \in Docs, k \in Methods : Start(r, d, k)
    PROVE  SessionInv' /\ ReturnsFresh /\ PublishesCurrent
<1>1. /\ TypeOK /\ Owned /\ FreshInv /\ DiagInv /\ UNCHANGED <<inputs, running, diag, shown>>
      /\ diag \in DiagType /\ diag.leases = Cardinality(Searches)
  BY DEF SessionInv, TypeOK, Start, Cancel
<1>2. DiagInv'
  BY <1>1, TasksStay
<1>3. CASE Cancel(r)
  <2>1. AbortAll({r}, "client-cancelled")
    BY <1>3 DEF Cancel
  <2>2. FreshInv' /\ ReturnsFresh
    BY <1>1, <2>1, AbortFresh DEF inputs
  <2>3. QED
    BY <1>1, <1>2, <2>1, <2>2, AbortStep, RequestsMove
<1>4. ASSUME NEW d \in Docs, NEW k \in Methods, Start(r, d, k)
      PROVE  SessionInv' /\ ReturnsFresh /\ PublishesCurrent
  <2>1. /\ req' \in [Reqs -> ReqType] /\ op' \in [Ops -> OpType]
        /\ OpInv' /\ ReqInv' /\ OperationsAreOwned' /\ FreshInv' /\ Searches' = Searches
        /\ \A q \in Reqs : req[q].state = "waiting" => ~req'[q].value
    BY <1>1, <1>4, StartStep
  <2>2. ReturnsFresh
    BY <2>1 DEF ReturnsFresh
  <2>3. QED
    BY <1>1, <1>2, <2>1, <2>2, RequestsMove
<1>5. QED
  BY <1>3, <1>4

\* The steps of an operation.
LEMMA OpSteps ==
    ASSUME SessionInv, NEW o \in Ops, OpStep(o)
    PROVE  SessionInv' /\ ReturnsFresh /\ PublishesCurrent
<1>1. /\ TypeOK /\ Owned /\ FreshInv /\ DiagInv /\ diag \in DiagType /\ doc \in [Docs -> DocType]
      /\ op[o] \in OpType
  BY DEF SessionInv, TypeOK
<1>2. ASSUME UNCHANGED req PROVE ReturnsFresh
  BY <1>1, <1>2 DEF ReturnsFresh, Owned, ReqInv
<1>3. ASSUME UNCHANGED <<inputs, running>>, diag' = Resume(diag, doc), o \in Searches
      PROVE  DiagInv' /\ diag' \in DiagType /\ diag'.leases = Cardinality(Searches \ {o})
  <2>1. diag.leases > 0 /\ Cardinality(Searches \ {o}) = diag.leases - 1
    BY <1>1, <1>3, SearchCount
  <2>2. /\ diag' \in DiagType /\ diag'.leases = diag.leases - 1
        /\ diag'.epoch = diag.epoch /\ diag'.disposed = diag.disposed
        /\ \A d \in Docs : \/ diag'.task[d] \in {diag.task[d], None}
                           \/ ~diag.disposed /\ doc[d].open /\ diag'.task[d] = Task(diag, d, doc)
    BY <1>1, <1>3, <2>1, ResumeFacts
  <2>3. ~diag.disposed => running
    BY <1>1 DEF DiagInv
  <2>4. DiagInv'
    BY <1>1, <1>3, <2>2, <2>3, TasksStay
  <2>5. QED
    BY <2>1, <2>2, <2>4
<1>4. ASSUME UNCHANGED <<inputs, running, diag>>
      PROVE  DiagInv' /\ diag' \in DiagType
  BY <1>1, <1>4, TasksStay
<1>5. CASE CacheMiss(o)
  <2>1. /\ op[o].phase = "cache" /\ diag' = Suspend(diag)
        /\ op' = [op EXCEPT ![o].phase = "suspending", ![o].awaits = Suspend(diag).settling]
        /\ UNCHANGED <<inputs, running, req, shown>>
    BY <1>5 DEF CacheMiss
  <2>2. /\ diag' \in DiagType /\ diag'.leases = diag.leases + 1 /\ diag'.epoch = diag.epoch
        /\ diag'.disposed = diag.disposed /\ \A d \in Docs : diag'.task[d] = None
    BY <1>1, <2>1, SuspendFacts
  <2>3. Suspend(diag).settling \in SUBSET Docs /\ op[o].stamp \in Stamps
    BY <1>1, SuspendFacts DEF DiagType, OpType
  <2>4. op' = [op EXCEPT ![o] = [op[o] EXCEPT !.phase = "suspending",
                                              !.awaits = Suspend(diag).settling,
                                              !.stamp = op[o].stamp]]
    <3>1. [op[o] EXCEPT !.phase = "suspending", !.awaits = Suspend(diag).settling,
                        !.stamp = op[o].stamp]
          = [op[o] EXCEPT !.phase = "suspending", !.awaits = Suspend(diag).settling]
      BY <1>1 DEF OpType
    <3>2. QED
      BY <2>1, <3>1 DEF TypeOK, SessionInv
  <2>5. /\ op' \in [Ops -> OpType] /\ OpInv' /\ ReqInv' /\ OperationsAreOwned' /\ FreshInv'
        /\ Searches' = Searches \cup {o}
    BY <1>1, <2>1, <2>3, <2>4, AdvanceStep
  <2>6. Cardinality(Searches') = diag'.leases
    <3>1. o \notin Searches
      BY <2>1 DEF Searches
    <3>2. QED
      BY <1>1, <2>2, <2>5, <3>1, SearchCount
  <2>7. DiagInv'
    BY <1>1, <2>1, <2>2, TasksStay
  <2>8. req' \in [Reqs -> ReqType]
    BY <1>1, <2>1 DEF TypeOK
  <2>9. QED
    BY <1>2, <2>1, <2>2, <2>5, <2>6, <2>7, <2>8, RequestsMove
<1>6. CASE Quiesced(o) /\ op[o].aborted
  <2>1. /\ op[o].phase = "suspending" /\ Settle(o, "error") /\ diag' = Resume(diag, doc)
    BY <1>6 DEF Quiesced
  <2>2. o \in Searches /\ UNCHANGED <<inputs, running, shown>>
    BY <1>1, <2>1 DEF Settle, Owned, OpInv, Searches
  <2>3. QED
    BY <1>1, <1>3, <2>1, <2>2, SettleStep, SettleFresh, RequestsMove
<1>7. CASE Quiesced(o) /\ ~op[o].aborted
  <2>1. /\ op[o].phase = "suspending"
        /\ op' = [op EXCEPT ![o].phase = "executing", ![o].awaits = {},
                            ![o].stamp = Stamp(WorkspaceOf[op[o].doc])]
        /\ UNCHANGED <<inputs, running, req, diag, shown>>
    BY <1>7 DEF Quiesced
  <2>2. Stamp(WorkspaceOf[op[o].doc]) \in Stamps
    BY <1>1, <2>1, ConstantsAssumption DEF Owned, OpInv, TypeOK, Stamp, Stamps
  <2>3. op' = [op EXCEPT ![o] = [op[o] EXCEPT !.phase = "executing", !.awaits = {},
                                              !.stamp = Stamp(WorkspaceOf[op[o].doc])]]
    BY <1>1, <2>1 DEF TypeOK
  <2>4. /\ op' \in [Ops -> OpType] /\ OpInv' /\ ReqInv' /\ OperationsAreOwned' /\ FreshInv'
        /\ Searches' = Searches \cup {o}
    BY <1>1, <2>1, <2>2, <2>3, AdvanceStep
  <2>5. Searches' = Searches
    BY <1>1, <2>1, <2>4 DEF Owned, OpInv, Searches
  <2>6. req' \in [Reqs -> ReqType] /\ diag'.leases = Cardinality(Searches')
    BY <1>1, <2>1, <2>5 DEF TypeOK
  <2>7. QED
    BY <1>2, <1>4, <2>1, <2>4, <2>6, RequestsMove
<1>8. ASSUME NEW x, CacheSettles(o, x)
      PROVE  SessionInv' /\ ReturnsFresh /\ PublishesCurrent
  <2>1. op[o].phase = "cache" /\ Settle(o, x) /\ UNCHANGED <<inputs, running, shown, diag>>
    BY <1>8 DEF CacheSettles, Settle
  <2>2. Cardinality(Searches \ {o}) = diag'.leases
    <3>1. o \notin Searches
      BY <2>1 DEF Searches
    <3>2. QED
      BY <1>1, <2>1, <3>1, SearchCount
  <2>3. QED
    BY <1>1, <1>4, <2>1, <2>2, SettleStep, SettleFresh, RequestsMove
<1>9. ASSUME NEW x, Answer(o, x)
      PROVE  SessionInv' /\ ReturnsFresh /\ PublishesCurrent
  <2>1. op[o].phase = "executing" /\ Settle(o, x) /\ UNCHANGED <<inputs, running, shown>>
    BY <1>9 DEF Answer, Settle
  <2>2. CASE op[o].kind = "references"
    <3>1. o \in Searches /\ diag' = Resume(diag, doc)
      BY <1>9, <2>1, <2>2 DEF Answer, Searches
    <3>2. QED
      BY <1>1, <1>3, <2>1, <3>1, SettleStep, SettleFresh, RequestsMove
  <2>3. CASE op[o].kind # "references"
    <3>1. o \notin Searches /\ diag' = diag
      BY <1>9, <2>3 DEF Answer, Searches
    <3>2. Cardinality(Searches \ {o}) = diag'.leases
      BY <1>1, <3>1, SearchCount
    <3>3. QED
      BY <1>1, <1>4, <2>1, <3>1, <3>2, SettleStep, SettleFresh, RequestsMove
  <2>4. QED
    BY <2>2, <2>3
<1>10. QED
  BY <1>5, <1>6, <1>7, <1>8, <1>9 DEF OpStep

\* The timers and results of diagnoses.
LEMMA DiagnosisSteps ==
    ASSUME SessionInv,
           \/ \E d \in Docs : DiagnosisStep(d) \/ DiagnosisSettles(d)
           \/ \E W \in SUBSET Workspaces : RefreshFires(W)
    PROVE  SessionInv' /\ ReturnsFresh /\ PublishesCurrent
<1>1. /\ TypeOK /\ DiagInv /\ diag \in DiagType /\ doc \in [Docs -> DocType]
      /\ shown \in [Docs -> ShownType]
      /\ \A d \in Docs : diag.task[d] # None => diag.task[d] \in TaskType
  BY DEF SessionInv, TypeOK, DiagType
<1>2. ~diag.disposed => running
  BY <1>1 DEF DiagInv
<1>3. ASSUME shown' = shown PROVE shown' \in [Docs -> ShownType] /\ PublishesCurrent
  BY <1>1, <1>3 DEF PublishesCurrent
<1>4. ASSUME NEW d \in Docs, DiagnosisStarts(d)
      PROVE  SessionInv' /\ ReturnsFresh /\ PublishesCurrent
  <2> DEFINE t == diag.task[d]
             s == [t EXCEPT !.started = TRUE, !.seen = Stamp(WorkspaceOf[d])]
             n == IF t.epoch # diag.epoch[WorkspaceOf[d]] THEN None ELSE s
  <2>1. /\ t # None /\ t \in TaskType /\ diag' = [diag EXCEPT !.task[d] = n]
        /\ UNCHANGED <<inputs, running, req, op, shown>>
    BY <1>1, <1>4 DEF DiagnosisStarts
  <2>2. Stamp(WorkspaceOf[d]) \in Stamps
    BY <1>1, ConstantsAssumption DEF TypeOK, Stamp, Stamps
  <2>3. s \in TaskType /\ s.epoch = t.epoch /\ s.text = t.text /\ s.seen = Stamp(WorkspaceOf[d])
    BY <2>1, <2>2 DEF TaskType
  <2>4. n \in {None} \cup TaskType /\ n \in {None, s}
    BY <2>3
  <2> HIDE DEF t, s, n
  <2>5. [diag.task EXCEPT ![d] = n] \in [Docs -> {None} \cup TaskType]
    BY <1>1, <2>4 DEF DiagType
  <2>6. /\ diag' \in DiagType /\ diag'.leases = diag.leases /\ diag'.epoch = diag.epoch
        /\ diag'.disposed = diag.disposed /\ diag'.task = [diag.task EXCEPT ![d] = n]
    BY <1>1, <2>1, <2>5 DEF DiagType
  <2>7. DiagInv'
    <3>1. /\ running /\ doc[d].open /\ t.epoch <= diag.epoch[WorkspaceOf[d]]
          /\ t.epoch = diag.epoch[WorkspaceOf[d]] => t.text = doc[d].text
      BY <1>1, <2>1 DEF DiagInv, t
    <3>2. ASSUME NEW e \in Docs, diag'.task[e] # None
          PROVE  /\ running /\ doc[e].open /\ diag'.task[e].epoch <= diag.epoch[WorkspaceOf[e]]
                 /\ diag'.task[e].epoch = diag.epoch[WorkspaceOf[e]] =>
                      /\ diag'.task[e].text = doc[e].text
                      /\ diag'.task[e].started =>
                           Inputs(e, diag'.task[e].seen) = Inputs(e, Stamp(WorkspaceOf[e]))
      <4>1. CASE e # d
        <5>1. diag'.task[e] = diag.task[e]
          BY <1>1, <2>6, <4>1 DEF DiagType
        <5>2. QED
          BY <1>1, <3>2, <5>1 DEF DiagInv
      <4>2. CASE e = d
        <5>1. diag'.task[e] = s
          BY <1>1, <2>4, <2>6, <3>2, <4>2 DEF DiagType
        <5>2. QED
          BY <2>3, <3>1, <4>2, <5>1
      <4>3. QED
        BY <4>1, <4>2
    <3>3. QED
      BY <1>1, <2>1, <2>6, <3>2 DEF DiagInv, inputs, Inputs, Stamp
  <2>8. QED
    BY <1>3, <2>1, <2>6, <2>7, DiagnosticsMove
<1>5. ASSUME NEW d \in Docs, NEW x, DiagnosisEnds(d, x)
      PROVE  SessionInv' /\ ReturnsFresh /\ PublishesCurrent
  <2> DEFINE t == diag.task[d]
             done == [diag EXCEPT !.task[d] = None]
  <2>1. /\ t # None /\ t.started /\ UNCHANGED <<inputs, running, req, op>>
        /\ diag' = done \/ (doc[d].open /\ diag' = Update(done, {d}, doc))
        /\ \/ shown' = shown
           \/ Publishes(d) /\ shown' = [shown EXCEPT ![d] = [state |-> "published", seen |-> t.seen]]
           \/ shown' = [shown EXCEPT ![d] = [state |-> "failed", seen |-> t.seen]]
    BY <1>5 DEF DiagnosisEnds
  <2>2. t \in TaskType /\ t.seen \in Stamps
    BY <1>1, <2>1 DEF TaskType
  <2>3. [diag.task EXCEPT ![d] = None] \in [Docs -> {None} \cup TaskType]
    BY <1>1 DEF DiagType
  <2>4. /\ done \in DiagType /\ done.leases = diag.leases /\ done.epoch = diag.epoch
        /\ done.disposed = diag.disposed /\ done.task = [diag.task EXCEPT ![d] = None]
    BY <1>1, <2>3 DEF DiagType
  <2> HIDE DEF t, done
  <2>5. \A e \in Docs : done.task[e] \in {diag.task[e], None} /\ Task(done, e, doc) = Task(diag, e, doc)
    BY <1>1, <2>4 DEF DiagType, Task
  <2>6. DiagInv' /\ diag' \in DiagType /\ diag'.leases = diag.leases
    <3>1. CASE diag' = done
      BY <1>1, <2>1, <2>4, <2>5, <3>1, TasksStay
    <3>2. CASE doc[d].open /\ diag' = Update(done, {d}, doc)
      <4>0. PICK D \in SUBSET Docs : D = {d}
        OBVIOUS
      <4>1. /\ diag' \in DiagType /\ diag'.leases = diag.leases /\ diag'.epoch = diag.epoch
            /\ diag'.disposed = diag.disposed
            /\ \A e \in Docs : diag'.task[e] = IF e \notin D THEN done.task[e]
                                               ELSE IF done.disposed \/ done.leases > 0 THEN None
                                               ELSE Task(done, e, doc)
        <5>1. diag' = Update(done, D, doc)
          BY <3>2, <4>0
        <5>2. /\ done \in DiagType /\ done.leases = diag.leases /\ done.epoch = diag.epoch
              /\ done.disposed = diag.disposed /\ doc \in [Docs -> DocType]
          BY <1>1, <2>4
        <5>3. QED
          BY <5>1, <5>2, UpdateFacts
      <4>2. \A e \in Docs : \/ diag'.task[e] \in {diag.task[e], None}
                            \/ running /\ doc[e].open /\ diag'.task[e] = Task(diag, e, doc)
        BY <1>2, <2>4, <2>5, <3>2, <4>0, <4>1
      <4>3. QED
        BY <1>1, <2>1, <4>1, <4>2, TasksStay
    <3>3. QED
      BY <2>1, <3>1, <3>2
  <2>7. shown' \in [Docs -> ShownType]
    BY <1>1, <2>1, <2>2 DEF ShownType
  <2>8. PublishesCurrent
    <3> SUFFICES ASSUME NEW e \in Docs, shown'[e] # shown[e], shown'[e].state = "published"
                 PROVE  /\ running /\ doc[e].open /\ diag.task[e].text = doc[e].text
                        /\ Inputs(e, shown'[e].seen) = Inputs(e, Stamp(WorkspaceOf[e]))
      BY DEF PublishesCurrent
    <3>1. e = d /\ Publishes(d) /\ shown'[d].seen = t.seen
      BY <1>1, <2>1
    <3>2. diag.epoch[WorkspaceOf[d]] = t.epoch
      BY <3>1 DEF Publishes, t
    <3>3. QED
      BY <1>1, <2>1, <3>1, <3>2 DEF DiagInv, t
  <2>9. QED
    BY <2>1, <2>6, <2>7, <2>8, DiagnosticsMove
<1>6. ASSUME NEW d \in Docs, DiagnosisSettles(d)
      PROVE  SessionInv' /\ ReturnsFresh /\ PublishesCurrent
  <2>1. diag' = [diag EXCEPT !.settling = @ \ {d}] /\ UNCHANGED <<inputs, running, req, op, shown>>
    BY <1>6 DEF DiagnosisSettles
  <2>2. /\ diag' \in DiagType /\ diag'.leases = diag.leases /\ diag'.epoch = diag.epoch
        /\ diag'.disposed = diag.disposed /\ diag'.task = diag.task
    BY <1>1, <2>1 DEF DiagType
  <2>3. QED
    BY <1>1, <1>3, <2>1, <2>2, TasksStay, DiagnosticsMove
<1>7. ASSUME NEW W \in SUBSET Workspaces, RefreshFires(W)
      PROVE  SessionInv' /\ ReturnsFresh /\ PublishesCurrent
  <2> DEFINE g == [diag EXCEPT !.dirty = @ \ W]
             D == {d \in OpenDocs(doc) : WorkspaceOf[d] \in W}
  <2>1. diag' = Update(g, D, doc) /\ UNCHANGED <<inputs, running, req, op, shown>>
    BY <1>7 DEF RefreshFires
  <2>2. /\ g \in DiagType /\ g.leases = diag.leases /\ g.epoch = diag.epoch
        /\ g.disposed = diag.disposed /\ g.task = diag.task
    BY <1>1 DEF DiagType
  <2>3. D \in SUBSET Docs /\ \A d \in D : doc[d].open
    BY DEF OpenDocs
  <2> HIDE DEF g, D
  <2>4. /\ diag' \in DiagType /\ diag'.leases = diag.leases /\ diag'.epoch = diag.epoch
        /\ diag'.disposed = diag.disposed
        /\ \A e \in Docs : diag'.task[e] = IF e \notin D THEN g.task[e]
                                           ELSE IF g.disposed \/ g.leases > 0 THEN None
                                           ELSE Task(g, e, doc)
    BY <1>1, <2>1, <2>2, <2>3, UpdateFacts
  <2>5. \A e \in Docs : Task(g, e, doc) = Task(diag, e, doc)
    BY <2>2 DEF Task
  <2>6. \A e \in Docs : \/ diag'.task[e] \in {diag.task[e], None}
                        \/ running /\ doc[e].open /\ diag'.task[e] = Task(diag, e, doc)
    BY <1>2, <2>2, <2>3, <2>4, <2>5
  <2>7. QED
    BY <1>1, <1>3, <2>1, <2>4, <2>6, TasksStay, DiagnosticsMove
<1>8. QED
  BY <1>4, <1>5, <1>6, <1>7 DEF DiagnosisStep

\* A change of a document, of sources or of resources, and the shutdown.
LEMMA ChangeSteps ==
    ASSUME SessionInv,
           \/ \E d \in Docs : Open(d) \/ Edit(d) \/ Close(d)
           \/ \E W \in (SUBSET Workspaces) \ {{}} : ChangeSources(W)
           \/ \E w \in Workspaces : ChangeResources(w)
           \/ Shutdown
    PROVE  SessionInv' /\ ReturnsFresh /\ PublishesCurrent
<1>1. /\ TypeOK /\ Owned /\ FreshInv /\ DiagInv /\ diag \in DiagType /\ doc \in [Docs -> DocType]
      /\ source \in [Workspaces -> Nat] /\ resource \in [Workspaces -> Nat]
      /\ shown \in [Docs -> ShownType] /\ diag.leases = Cardinality(Searches)
      /\ \A r \in Reqs : req[r].state = "waiting" => req[r].doc \in Docs
  BY DEF SessionInv, TypeOK, Owned, ReqInv, OpInv
<1>2. ASSUME NEW S, NEW reason \in {"client-cancelled", "content-modified", "shutdown"},
             AbortAll(S, reason), FreshInv', DiagInv', ReturnsFresh, PublishesCurrent,
             doc' \in [Docs -> DocType], source' \in [Workspaces -> Nat],
             resource' \in [Workspaces -> Nat], running' \in BOOLEAN, diag' \in DiagType,
             shown' \in [Docs -> ShownType], diag'.leases = diag.leases
      PROVE  SessionInv' /\ ReturnsFresh /\ PublishesCurrent
  <2>1. /\ req' \in [Reqs -> ReqType] /\ op' \in [Ops -> OpType]
        /\ OpInv' /\ ReqInv' /\ OperationsAreOwned' /\ Searches' = Searches
    BY <1>1, <1>2, AbortStep
  <2>2. TypeOK'
    BY <1>1, <1>2, <2>1 DEF TypeOK
  <2>3. QED
    BY <1>2, <2>1, <2>2 DEF SessionInv, Owned
<1>3. ASSUME NEW d \in Docs, NEW changed \in DocType, NEW g \in DiagType, NEW told,
             ChangeDocument(d, changed, g, told), told \in [Docs -> ShownType],
             \A e \in Docs : told[e].state # "published" \/ told[e] = shown[e],
             g.epoch = diag.epoch, g.disposed = diag.disposed, g.leases = diag.leases,
             \A e \in Docs : g.task[e] \in {diag.task[e], None},
             changed.open \/ g.task[d] = None
      PROVE  SessionInv' /\ ReturnsFresh /\ PublishesCurrent
  <2> DEFINE w == WorkspaceOf[d]
  <2>1. /\ running /\ doc' = [doc EXCEPT ![d] = changed] /\ source' = [source EXCEPT ![w] = @ + 1]
        /\ AbortAll(Stale({d}, {w}), "content-modified") /\ diag' = Refresh(g, {w})
        /\ shown' = told /\ UNCHANGED <<resource, running>>
    BY <1>3 DEF ChangeDocument
  <2>2. w \in Workspaces
    BY ConstantsAssumption
  <2> HIDE DEF w
  <2>3. diag' \in DiagType /\ diag'.leases = diag.leases
    BY <1>3, <2>1, <2>2, RefreshFacts
  <2>4. doc' \in [Docs -> DocType] /\ source' \in [Workspaces -> Nat] /\ resource' \in [Workspaces -> Nat]
    BY <1>1, <1>3, <2>1, <2>2
  <2>5. PublishesCurrent
    BY <1>3, <2>1 DEF PublishesCurrent
  <2>6. \A r \in Reqs : r \notin Stale({d}, {w}) /\ req[r].state = "waiting" =>
              /\ doc'[req[r].doc] = doc[req[r].doc]
              /\ req[r].kind \in WorkspaceScoped =>
                    /\ source'[WorkspaceOf[req[r].doc]] = source[WorkspaceOf[req[r].doc]]
                    /\ resource'[WorkspaceOf[req[r].doc]] = resource[WorkspaceOf[req[r].doc]]
    <3> SUFFICES ASSUME NEW r \in Reqs, r \notin Stale({d}, {w}), req[r].state = "waiting"
                 PROVE  /\ doc'[req[r].doc] = doc[req[r].doc]
                        /\ req[r].kind \in WorkspaceScoped =>
                             /\ source'[WorkspaceOf[req[r].doc]] = source[WorkspaceOf[req[r].doc]]
                             /\ resource'[WorkspaceOf[req[r].doc]] = resource[WorkspaceOf[req[r].doc]]
      OBVIOUS
    <3>1. req[r].doc \in Docs /\ req[r].doc # None
      BY <1>1, ConstantsAssumption
    <3>2. /\ req[r].kind \in WorkspaceScoped => WorkspaceOf[req[r].doc] # w
          /\ req[r].kind \notin WorkspaceScoped => req[r].doc # d
      BY <3>1 DEF Stale
    <3>3. req[r].doc # d
      BY <3>2 DEF w
    <3>4. QED
      BY <1>1, <2>1, <3>1, <3>2, <3>3, ConstantsAssumption
  <2>7. FreshInv' /\ ReturnsFresh
    BY <1>1, <2>1, <2>6, AbortFresh
  <2>8. DiagInv'
    <3>1. \A e \in Docs : WorkspaceOf[e] \notin {w} =>
                             doc'[e] = doc[e] /\ Stamp(WorkspaceOf[e])' = Stamp(WorkspaceOf[e])
      BY <1>1, <2>1, ConstantsAssumption DEF Stamp, w
    <3>2. \A e \in Docs : WorkspaceOf[e] \in {w} /\ g.task[e] # None => doc'[e].open
      BY <1>1, <1>3, <2>1 DEF DiagInv
    <3>3. {w} \in SUBSET Workspaces
      BY <2>2
    <3>4. QED
      BY <1>1, <1>3, <2>1, <3>1, <3>2, <3>3, FencedStep
  <2>9. QED
    BY <1>1, <1>2, <1>3, <2>1, <2>3, <2>4, <2>5, <2>7, <2>8
<1>4. \A d \in Docs, uses \in BOOLEAN, v \in Nat :
         [open |-> TRUE, version |-> v, resources |-> uses,
          text |-> source[WorkspaceOf[d]] + 1] \in DocType
  BY <1>1, ConstantsAssumption DEF DocType
<1>5. ASSUME NEW d \in Docs, Open(d) \/ Edit(d)
      PROVE  SessionInv' /\ ReturnsFresh /\ PublishesCurrent
  <2>1. PICK v \in Nat, uses \in BOOLEAN :
           ChangeDocument(d, [open |-> TRUE, version |-> v, resources |-> uses,
                              text |-> source[WorkspaceOf[d]] + 1], diag, shown)
    <3>1. doc[d].version + 1 \in Nat
      BY <1>1 DEF DocType
    <3>2. QED
      BY <1>5, <3>1 DEF Open, Edit
  <2>2. QED
    BY <1>1, <1>3, <1>4, <2>1
<1>6. ASSUME NEW d \in Docs, Close(d)
      PROVE  SessionInv' /\ ReturnsFresh /\ PublishesCurrent
  <2> DEFINE g == [diag EXCEPT !.task[d] = None, !.deferred = @ \ {d}]
             told == [shown EXCEPT ![d] = [state |-> "none", seen |-> <<0, 0>>]]
  <2>1. ChangeDocument(d, Closed, g, told)
    BY <1>6 DEF Close
  <2>2. Closed \in DocType
    BY DEF Closed, DocType
  <2>3. [diag.task EXCEPT ![d] = None] \in [Docs -> {None} \cup TaskType]
    BY <1>1 DEF DiagType
  <2>4. /\ g \in DiagType /\ g.leases = diag.leases /\ g.epoch = diag.epoch
        /\ g.disposed = diag.disposed /\ g.task = [diag.task EXCEPT ![d] = None]
    BY <1>1, <2>3 DEF DiagType
  <2>5. \A e \in Docs : g.task[e] \in {diag.task[e], None}
    <3> HIDE DEF g
    <3>1. QED
      BY <1>1, <2>4 DEF DiagType
  <2>6. g.task[d] = None
    <3> HIDE DEF g
    <3>1. QED
      BY <1>1, <2>4 DEF DiagType
  <2>7. told \in [Docs -> ShownType] /\ \A e \in Docs : told[e].state # "published" \/ told[e] = shown[e]
    BY <1>1 DEF ShownType, Stamps
  <2> HIDE DEF g, told
  <2>8. /\ g \in DiagType /\ g.leases = diag.leases /\ g.epoch = diag.epoch
        /\ g.disposed = diag.disposed
    BY <2>4
  <2>9. QED
    BY <1>3, <2>1, <2>2, <2>5, <2>6, <2>7, <2>8
<1>7. ASSUME NEW W \in SUBSET Workspaces, ChangeSources(W)
      PROVE  SessionInv' /\ ReturnsFresh /\ PublishesCurrent
  <2>1. /\ running /\ AbortAll(Stale({}, W), "content-modified") /\ diag' = Refresh(diag, W)
        /\ source' = [w \in Workspaces |-> IF w \in W THEN source[w] + 1 ELSE source[w]]
        /\ UNCHANGED <<doc, resource, running, shown>>
    BY <1>7 DEF ChangeSources
  <2>2. diag' \in DiagType /\ diag'.leases = diag.leases /\ source' \in [Workspaces -> Nat]
    BY <1>1, <2>1, RefreshFacts
  <2>3. \A r \in Reqs : r \notin Stale({}, W) /\ req[r].state = "waiting" =>
              /\ doc'[req[r].doc] = doc[req[r].doc]
              /\ req[r].kind \in WorkspaceScoped =>
                    /\ source'[WorkspaceOf[req[r].doc]] = source[WorkspaceOf[req[r].doc]]
                    /\ resource'[WorkspaceOf[req[r].doc]] = resource[WorkspaceOf[req[r].doc]]
    BY <1>1, <2>1, ConstantsAssumption DEF Stale
  <2>4. FreshInv' /\ ReturnsFresh
    BY <1>1, <2>1, <2>3, AbortFresh
  <2>5. DiagInv'
    <3>1. \A e \in Docs : WorkspaceOf[e] \notin W =>
                             doc'[e] = doc[e] /\ Stamp(WorkspaceOf[e])' = Stamp(WorkspaceOf[e])
      BY <1>1, <2>1, ConstantsAssumption DEF Stamp
    <3>2. \A e \in Docs : WorkspaceOf[e] \in W /\ diag.task[e] # None => doc'[e].open
      BY <1>1, <2>1 DEF DiagInv
    <3>3. QED
      BY <1>1, <2>1, <3>1, <3>2, FencedStep
  <2>6. PublishesCurrent
    BY <2>1 DEF PublishesCurrent
  <2>7. QED
    BY <1>1, <1>2, <2>1, <2>2, <2>4, <2>5, <2>6
<1>8. ASSUME NEW w \in Workspaces, ChangeResources(w)
      PROVE  SessionInv' /\ ReturnsFresh /\ PublishesCurrent
  <2> DEFINE D == {d \in OpenDocs(doc) \cap In(w) : doc[d].resources}
  <2>1. /\ running /\ AbortAll(Stale({}, {w}), "content-modified") /\ diag' = Update(diag, D, doc)
        /\ resource' = [resource EXCEPT ![w] = @ + 1]
        /\ UNCHANGED <<doc, source, running, shown>>
    BY <1>8 DEF ChangeResources
  <2>2. /\ D \in SUBSET Docs /\ \A d \in D : doc[d].open
        /\ \A d \in Docs : doc[d].open /\ WorkspaceOf[d] = w /\ doc[d].resources => d \in D
    BY DEF OpenDocs, In
  <2> HIDE DEF D
  <2>3. /\ diag' \in DiagType /\ diag'.leases = diag.leases /\ diag'.epoch = diag.epoch
        /\ diag'.disposed = diag.disposed
        /\ \A e \in Docs : diag'.task[e] = IF e \notin D THEN diag.task[e]
                                           ELSE IF diag.disposed \/ diag.leases > 0 THEN None
                                           ELSE Task(diag, e, doc)
    BY <1>1, <2>1, <2>2, UpdateFacts
  <2>4. resource' \in [Workspaces -> Nat]
    BY <1>1, <2>1
  <2>5. \A r \in Reqs : r \notin Stale({}, {w}) /\ req[r].state = "waiting" =>
              /\ doc'[req[r].doc] = doc[req[r].doc]
              /\ req[r].kind \in WorkspaceScoped =>
                    /\ source'[WorkspaceOf[req[r].doc]] = source[WorkspaceOf[req[r].doc]]
                    /\ resource'[WorkspaceOf[req[r].doc]] = resource[WorkspaceOf[req[r].doc]]
    BY <1>1, <2>1, ConstantsAssumption DEF Stale
  <2>6. FreshInv' /\ ReturnsFresh
    BY <1>1, <2>1, <2>5, AbortFresh
  <2>7. DiagInv'
    <3>1. ASSUME NEW e \in Docs, diag'.task[e] # None
          PROVE  /\ running /\ doc[e].open /\ diag'.task[e].epoch <= diag.epoch[WorkspaceOf[e]]
                 /\ diag'.task[e].epoch = diag.epoch[WorkspaceOf[e]] =>
                      /\ diag'.task[e].text = doc[e].text
                      /\ diag'.task[e].started =>
                           Inputs(e, diag.task[e].seen)' = Inputs(e, Stamp(WorkspaceOf[e]))'
      <4>1. CASE e \in D
        <5>1. diag'.task[e] = Task(diag, e, doc) /\ diag.epoch[WorkspaceOf[e]] \in Nat
          BY <1>1, <2>3, <3>1, <4>1, ConstantsAssumption DEF DiagType
        <5>2. /\ Task(diag, e, doc).epoch = diag.epoch[WorkspaceOf[e]]
              /\ Task(diag, e, doc).text = doc[e].text /\ ~Task(diag, e, doc).started
          BY DEF Task
        <5>3. QED
          BY <2>1, <2>2, <4>1, <5>1, <5>2
      <4>2. CASE e \notin D
        <5>1. diag'.task[e] = diag.task[e] /\ diag.task[e] # None
          BY <2>3, <3>1, <4>2
        <5>2. /\ running /\ doc[e].open /\ diag.task[e].epoch <= diag.epoch[WorkspaceOf[e]]
              /\ diag.task[e].epoch = diag.epoch[WorkspaceOf[e]] =>
                   /\ diag.task[e].text = doc[e].text
                   /\ diag.task[e].started =>
                        Inputs(e, diag.task[e].seen) = Inputs(e, Stamp(WorkspaceOf[e]))
          BY <1>1, <5>1 DEF DiagInv
        <5>3. Inputs(e, diag.task[e].seen)' = Inputs(e, diag.task[e].seen)
          BY <2>1, <5>1 DEF Inputs
        <5>4. Inputs(e, Stamp(WorkspaceOf[e]))' = Inputs(e, Stamp(WorkspaceOf[e]))
          <6>1. CASE WorkspaceOf[e] # w
            BY <1>1, <2>1, <6>1, ConstantsAssumption DEF Inputs, Stamp
          <6>2. CASE ~doc[e].resources
            BY <2>1, <6>2 DEF Inputs, Stamp
          <6>3. QED
            BY <2>2, <4>2, <5>2, <6>1, <6>2
        <5>5. QED
          BY <5>1, <5>2, <5>3, <5>4
      <4>3. QED
        BY <4>1, <4>2
    <3>2. diag'.disposed <=> ~running'
      BY <1>1, <2>1, <2>3 DEF DiagInv
    <3>3. QED
      BY <2>1, <2>3, <3>1, <3>2 DEF DiagInv
  <2>8. PublishesCurrent
    BY <2>1 DEF PublishesCurrent
  <2>9. QED
    BY <1>1, <1>2, <2>1, <2>3, <2>4, <2>6, <2>7, <2>8
<1>9. CASE Shutdown
  <2>1. /\ running' = FALSE /\ AbortAll(Reqs, "shutdown") /\ UNCHANGED <<inputs, shown>>
        /\ diag' = [diag EXCEPT !.disposed = TRUE, !.deferred = {}, !.dirty = {},
                                !.epoch = [w \in Workspaces |-> 0],
                                !.task = [d \in Docs |-> None]]
    BY <1>9 DEF Shutdown
  <2>2. /\ [w \in Workspaces |-> 0] \in [Workspaces -> Nat]
        /\ [d \in Docs |-> None] \in [Docs -> {None} \cup TaskType]
    OBVIOUS
  <2>3. diag' \in DiagType
    BY <1>1, <2>1, <2>2, Zenon DEF DiagType
  <2>4. diag'.leases = diag.leases /\ diag'.disposed = TRUE /\ \A d \in Docs : diag'.task[d] = None
    BY <1>1, <2>1 DEF DiagType
  <2>5. DiagInv' /\ PublishesCurrent
    BY <2>1, <2>4 DEF DiagInv, PublishesCurrent
  <2>6. FreshInv' /\ ReturnsFresh
    BY <1>1, <2>1, AbortFresh
  <2>7. UNCHANGED <<doc, source, resource>>
    BY <2>1 DEF inputs
  <2>8. QED
    BY <1>1, <1>2, <2>1, <2>3, <2>4, <2>5, <2>6, <2>7
<1>10. QED
  BY <1>5, <1>6, <1>7, <1>8, <1>9

\* Every step keeps the invariant, returns fresh values and publishes current
\* diagnostics.
LEMMA SessionStep ==
    ASSUME SessionInv, [Next]_vars
    PROVE  SessionInv' /\ ReturnsFresh /\ PublishesCurrent
<1>1. CASE UNCHANGED vars
  <2>1. UNCHANGED <<inputs, running, req, op, diag, shown>>
    BY <1>1 DEF vars
  <2>2. TypeOK /\ DiagInv /\ diag' \in DiagType /\ shown' \in [Docs -> ShownType]
    BY <2>1 DEF SessionInv, TypeOK
  <2>3. DiagInv'
    BY <2>1, <2>2, TasksStay
  <2>4. PublishesCurrent
    BY <2>1 DEF PublishesCurrent
  <2>5. QED
    BY <2>1, <2>2, <2>3, <2>4, DiagnosticsMove
<1>2. CASE Next
  BY <1>2, RequestSteps, OpSteps, DiagnosisSteps, ChangeSteps DEF Next
<1>3. QED
  BY <1>1, <1>2

LEMMA SessionInit == Init => SessionInv
<1> SUFFICES ASSUME Init PROVE SessionInv
  OBVIOUS
<1>1. /\ Free \in OpType /\ Free.phase = "free" /\ ~Free.shared /\ Free.kind = "hover"
  BY DEF Free, OpType, Kinds, Stamps
<1>2. /\ [Ended(FALSE) EXCEPT !.state = "idle"] \in ReqType
      /\ [Ended(FALSE) EXCEPT !.state = "idle"].state = "idle"
  BY DEF Ended, ReqType, Kinds
<1>3. op \in [Ops -> OpType] /\ \A o \in Ops : op[o] = Free
  BY <1>1 DEF Init
<1>4. /\ req \in [Reqs -> ReqType]
      /\ \A r \in Reqs : req[r].state = "idle"
  BY <1>2 DEF Init
<1>5. Searches = {}
  BY <1>1, <1>3 DEF Searches
<1>6. doc \in [Docs -> DocType]
  <2>1. Closed \in DocType
    BY DEF Closed, DocType
  <2>2. [open : {TRUE}, version : {1}, resources : BOOLEAN, text : {0}] \subseteq DocType
    <3>1. {1} \subseteq Nat /\ {0} \subseteq Nat /\ {TRUE} \subseteq BOOLEAN
      OBVIOUS
    <3>2. QED
      BY <3>1, Zenon DEF DocType
  <2>3. QED
    BY <2>1, <2>2 DEF Init
<1>7. shown \in [Docs -> ShownType]
  BY DEF Init, ShownType, Stamps
<1>8. /\ diag \in DiagType /\ diag.leases = 0 /\ diag.disposed = FALSE
      /\ \A d \in Docs : diag.task[d] = None
  BY DEF Init, DiagType
<1>9. TypeOK
  BY <1>3, <1>4, <1>5, <1>6, <1>7, <1>8, FS_EmptySet DEF TypeOK, Init
<1>10. Owned
  <2>1. OpInv /\ ReqInv
    BY <1>1, <1>3, <1>4 DEF OpInv, ReqInv
  <2>2. OperationsAreOwned
    <3>1. \A o \in Ops : ~op[o].shared /\ op[o].kind \notin Coalesced
      BY <1>1, <1>3 DEF Coalesced
    <3>2. QED
      BY <3>1 DEF OperationsAreOwned
  <2>3. QED
    BY <2>1, <2>2 DEF Owned
<1>11. FreshInv
  BY <1>4 DEF FreshInv
<1>12. DiagInv
  BY <1>8 DEF DiagInv, Init
<1>13. QED
  BY <1>9, <1>10, <1>11, <1>12 DEF SessionInv

LEMMA SessionInvariant == Spec => []SessionInv
<1>1. SessionInv /\ [Next]_vars => SessionInv'
  BY SessionStep
<1>2. QED
  BY <1>1, SessionInit, PTL DEF Spec

-----------------------------------------------------------------------------
(* The results.                                                            *)

\* Types, and: the diagnostics are suspended once for every reference search
\* that runs and never for another reason (suspensionCount).
THEOREM SessionTypes == Spec => []TypeOK
<1>1. SessionInv => TypeOK
  BY DEF SessionInv
<1>2. QED
  BY <1>1, SessionInvariant, PTL

\* A shared operation is aborted exactly when its last waiter leaves, and no two
\* run under one key, however joins, cancellations, changes and results interleave.
THEOREM SharedWorkIsOwned == Spec => []OperationsAreOwned
<1>1. SessionInv => OperationsAreOwned
  BY DEF SessionInv, Owned
<1>2. QED
  BY <1>1, SessionInvariant, PTL

\* No request is answered with the result for an older text, a closed document
\* or, with workspace scope, an older workspace, whoever started the work.
THEOREM NoStaleAnswer == Spec => AnswersAreFresh
<1>1. SessionInv /\ [Next]_vars => [ReturnsFresh]_vars
  BY SessionStep
<1>2. QED
  BY <1>1, SessionInvariant, PTL DEF Spec, AnswersAreFresh

\* No diagnostics are published for inputs that have changed, for a closed
\* document or after the shutdown.
THEOREM NoStaleDiagnostics == Spec => PublicationsAreCurrent
<1>1. SessionInv /\ [Next]_vars => [PublishesCurrent]_vars
  BY SessionStep
<1>2. QED
  BY <1>1, SessionInvariant, PTL DEF Spec, PublicationsAreCurrent

=============================================================================
