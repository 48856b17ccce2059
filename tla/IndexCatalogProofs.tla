------------------------- MODULE IndexCatalogProofs -------------------------
(***************************************************************************)
(* Proofs about the native index (IndexCatalog): the files that are or may *)
(* be needed stay, a query returns a committed state, the processes        *)
(* together implement PublishedIndex, and a catalog commits what it        *)
(* checked or nothing, for any number of processes, documents,             *)
(* generations, faults and crashes.                                        *)
(***************************************************************************)
EXTENDS IndexCatalog, SequenceTheorems, TLAPS

-----------------------------------------------------------------------------
(* The inductive invariant.                                                *)

States == Content \cup {NoSchema}
ControlType == [state : {"absent", "table", "row"}, db : Dbs, gen : 0..MaxGen,
                fp : Rows \cup {NoFingerprint}]
RtType ==
    [pc : {"down", "new", "table", "row", "open", "failed", "idle", "read", "refresh"},
     db : Dbs \cup {NoDb}, next : Nat, catalog : 0..MaxGen,
     phase : {"idle", "discovering", "activating", "cancelling", "cancelled",
              "ready", "partial", "degraded"},
     doc : Docs \cup {0}, gen : 0..MaxGen]
BuildType ==
    [pc : {"none", "begin", "scan", "route", "reuse", "write", "seal", "check", "lock",
           "publish", "drop"},
     force : BOOLEAN, gen : 0..MaxGen, flag : {"running", "cancelled", "activating", "publishing"},
     parent : [db : Dbs \cup {NoDb}, gen : 0..MaxGen], expected : 0..MaxGen,
     fp : Rows \cup {NoFingerprint}, old : Dbs \cup {NoDb}, db : Dbs \cup {NoDb},
     hashFirst : BOOLEAN, todo : SUBSET Docs, jobs : SUBSET Docs, stamps : Rows, rows : Rows,
     rejected : SUBSET Docs, complete : BOOLEAN, errors : BOOLEAN, skipped : BOOLEAN,
     changed : BOOLEAN, reuse : BOOLEAN, outcome : {"none", "error", "receipt"}]
UpdateType == [kind : {"Activating", "Complete", "Cancelled", "Failed"}, gen : 0..MaxGen,
               errors : BOOLEAN, skipped : BOOLEAN]

Types ==
    /\ source \in Rows /\ written \in Versions
    /\ control \in ControlType
    /\ log \in [Dbs -> Seq(States)]
    /\ rt \in [Procs -> RtType]
    /\ build \in [Procs -> BuildType]
    /\ updates \in [Procs -> Seq(UpdateType)]
    /\ retiring \in [Procs -> SUBSET Dbs]
    /\ window \in [Procs -> SUBSET States]
    /\ base \in [Procs -> States]
    /\ fence \in [Procs -> Rows]
    /\ faults \in 0..MaxFaults /\ crashes \in 0..MaxCrashes

\* Only the first state of a file may be the one without the schema, and the
\* file that initialize creates begins with the empty index.
LogInv ==
    /\ \A db \in Dbs : \A i \in 2..Len(log[db]) : log[db][i] \in Content
    /\ Len(log[0]) >= 2 /\ log[0][1] = NoSchema => log[0][2] = Empty

\* Private files are published with a positive generation, never an older file,
\* and there is no index before the control row.
ControlInv ==
    /\ control.db = 0 <=> control.gen = 0
    /\ control.db # 0 =>
          /\ control.state = "row" /\ log[control.db] # <<>>
          /\ \A i \in 1..Len(log[control.db]) : log[control.db][i].gen >= control.gen
    /\ control.state # "row" => log[0] = <<>>

\* The protocol thread of p: a refresh holds the shared lock and writes to the
\* active file, a query reads a state from its window.
RtInv(p) ==
    /\ rt[p].pc = "row" => control.state = "row"
    /\ rt[p].pc \in {"idle", "read", "refresh"} => rt[p].db # NoDb
    /\ rt[p].pc = "refresh" => Openable /\ rt[p].db = control.db /\ rt[p].doc \in Docs /\ rt[p].gen > 0
    /\ rt[p].pc = "read" => Current(rt[p].db) \in window[p]

\* Where a session has pinned its parent, and where it owns a private file.
Pinning == {"route", "reuse", "write", "seal", "check", "lock", "publish", "drop"}
Owning == {"write", "seal", "check", "lock", "publish"}
Sealed(b) == <<[gen |-> b.gen, rows |-> b.rows, rejected |-> b.rejected]>>

\* What the stage of a session says of its record.
Shape(b) ==
    /\ b.pc \in Pinning \/ (b.pc = "scan" /\ ~b.force) => b.old # NoDb
    /\ b.pc \notin Owning \cup {"drop"} => b.db = NoDb
    /\ b.pc = "reuse" => b.reuse
    /\ b.pc \in {"begin", "scan", "route", "write", "seal"} => ~b.reuse
    /\ b.pc \in Owning /\ ~b.reuse => b.db # NoDb
    /\ b.db # 0

\* The catalog thread of p: its parent file has moved on from the state that the
\* session began from, or still has that very state; what it publishes is sealed.
BuildInv(p) ==
    /\ Shape(build[p])
    /\ build[p].old # NoDb =>
          /\ build[p].parent.db = build[p].old
          /\ base[p] \in Content /\ base[p].gen = build[p].expected
          /\ build[p].expected < build[p].gen
          /\ build[p].expected <= Current(build[p].old).gen
          /\ Current(build[p].old).gen = build[p].expected => Current(build[p].old) = base[p]
    /\ build[p].pc \in {"check", "lock", "publish"} /\ ~build[p].reuse =>
          log[build[p].db] = Sealed(build[p])
    /\ build[p].pc = "publish" => BaseUnchanged(build[p])

\* catalog-publication.lock excludes a publication from refreshes and others.
LockInv ==
    /\ \A p, q \in Procs : build[p].pc = "publish" => rt[q].pc # "refresh"
    /\ \A p, q \in Procs : build[p].pc = "publish" /\ build[q].pc = "publish" => p = q

\* A file that was allocated and not published is nobody else's.
Shared(p) == {rt[p].db, build[p].old} \cup retiring[p]
Own(p) == IF build[p].pc \in Owning THEN {build[p].db} \ {NoDb} ELSE {}
PrivateInv ==
    \A p \in Procs : \A db \in Own(p) :
        /\ db # control.db /\ db \notin Shared(p)
        /\ \A q \in Procs \ {p} : db \notin PinnedBy(q)

FilesInv == \A p \in Procs : \A db \in PinnedBy(p) \ {NoDb} : log[db] # <<>>

CatalogInv ==
    /\ Types /\ LogInv /\ ControlInv /\ LockInv /\ PrivateInv /\ FilesInv
    /\ \A p \in Procs : RtInv(p) /\ BuildInv(p)

-----------------------------------------------------------------------------
(* Steps of one process that leave the files of others and the active one. *)

PublicationStays ==
    /\ control'.db = control.db /\ control'.gen = control.gen
    /\ control.state = "row" => control'.state = "row"
    /\ log[control.db] # <<>> => log'[control.db] = log[control.db]

OthersStay(p) ==
    \A q \in Procs \ {p} :
        /\ rt'[q] = rt[q] /\ build'[q] = build[q] /\ retiring'[q] = retiring[q]
        /\ base'[q] = base[q] /\ window'[q] = window[q]
        /\ \A db \in PinnedBy(q) \ {NoDb} : log'[db] = log[db]

\* What p newly pins is the active file, the first one or one it creates.
PinsGrow(p) ==
    /\ \A db \in PinnedBy(p)' \ {NoDb} :
          /\ log'[db] # <<>>
          /\ db \in PinnedBy(p) \/ db = control.db \/ db = 0 \/ log[db] = <<>>
    /\ \A db \in Own(p)' :
          /\ db # control.db /\ db \notin Shared(p)'
          /\ db \in Own(p) \/ log[db] = <<>>

LocksTaken(p) ==
    /\ rt'[p].pc = "refresh" /\ rt[p].pc # "refresh" => SharedFree
    /\ build'[p].pc = "publish" /\ build[p].pc # "publish" => ExclusiveFree /\ rt'[p] = rt[p]

LEMMA LocalStep ==
    ASSUME CatalogInv, NEW p \in Procs, Types', LogInv', ControlInv',
           PublicationStays, OthersStay(p), PinsGrow(p), LocksTaken(p),
           RtInv(p)', BuildInv(p)'
    PROVE  CatalogInv'
<1>1. \A q \in Procs : /\ rt[q].db \in PinnedBy(q) /\ build[q].old \in PinnedBy(q)
                       /\ build[q].db \in PinnedBy(q)
  BY DEF PinnedBy
<1>2. \A q \in Procs \ {p} : PinnedBy(q)' = PinnedBy(q) /\ Shared(q)' = Shared(q) /\ Own(q)' = Own(q)
  BY DEF OthersStay, PinnedBy, Shared, Own
<1>3. FilesInv'
  <2>1. ASSUME NEW q \in Procs, q # p, NEW db \in PinnedBy(q) \ {NoDb} PROVE log'[db] # <<>>
    BY <2>1 DEF CatalogInv, FilesInv, OthersStay
  <2>2. QED
    BY <1>2, <2>1 DEF FilesInv, PinsGrow
<1>4. LockInv'
  <2>1. \A q \in Procs \ {p} : rt'[q].pc = rt[q].pc /\ build'[q].pc = build[q].pc
    BY DEF OthersStay
  <2>2. \A q \in Procs : SharedFree => build[q].pc # "publish"
    BY DEF SharedFree, ExclusiveHeld
  <2>3. \A q \in Procs : ExclusiveFree => build[q].pc # "publish" /\ rt[q].pc # "refresh"
    BY DEF ExclusiveFree, ExclusiveHeld, SharedHeld
  <2>4. \A q, r \in Procs : build[q].pc = "publish" =>
           rt[r].pc # "refresh" /\ (build[r].pc = "publish" => q = r)
    BY DEF LockInv, CatalogInv
  <2>5. /\ rt'[p].pc = "refresh" => rt[p].pc = "refresh" \/ \A q \in Procs : build[q].pc # "publish"
        /\ build'[p].pc = "publish" =>
              \/ build[p].pc = "publish"
              \/ \A q \in Procs : build[q].pc # "publish" /\ rt[q].pc # "refresh"
        /\ ~(rt'[p].pc = "refresh" /\ build'[p].pc = "publish")
    BY <2>2, <2>3, <2>4 DEF LocksTaken
  <2>6. QED
    BY <2>1, <2>4, <2>5 DEF LockInv
<1>5. PrivateInv'
  <2>1. ASSUME NEW q \in Procs, q # p, NEW db \in Own(q)
        PROVE  /\ db # control'.db /\ db \notin Shared(q)
               /\ \A r \in Procs \ {q} : db \notin PinnedBy(r)'
    <3>1. /\ db # control.db /\ db \notin Shared(q) /\ \A r \in Procs \ {q} : db \notin PinnedBy(r)
          /\ db \in PinnedBy(q) /\ db # NoDb /\ db # 0
      BY <1>1, <2>1 DEF CatalogInv, PrivateInv, Own, BuildInv, Shape
    <3>2. log[db] # <<>>
      BY <3>1 DEF CatalogInv, FilesInv
    <3>3. db \notin PinnedBy(p)'
      BY <2>1, <3>1, <3>2 DEF PinsGrow
    <3>4. QED
      BY <1>2, <3>1, <3>3 DEF PublicationStays
  <2>2. ASSUME NEW db \in Own(p)'
        PROVE  /\ db # control'.db /\ db \notin Shared(p)'
               /\ \A r \in Procs \ {p} : db \notin PinnedBy(r)
    <3>1. CASE db \in Own(p)
      BY <2>2, <3>1 DEF PinsGrow, PublicationStays, CatalogInv, PrivateInv
    <3>2. CASE log[db] = <<>>
      <4>1. db # NoDb
        BY <2>2 DEF Own
      <4>2. QED
        BY <2>2, <3>2, <4>1 DEF PinsGrow, PublicationStays, CatalogInv, FilesInv
    <3>3. QED
      BY <2>2, <3>1, <3>2 DEF PinsGrow
  <2>3. QED
    BY <1>2, <2>1, <2>2 DEF PrivateInv
<1>6. Openable => Openable' /\ Current(control.db)' = Current(control.db)
  BY DEF Openable, PublicationStays, Current
<1>7. ASSUME NEW q \in Procs, q # p PROVE RtInv(q)'
  <2>1. RtInv(q) /\ rt'[q] = rt[q] /\ window'[q] = window[q]
    BY <1>7 DEF CatalogInv, OthersStay
  <2>2. rt[q].db # NoDb => log'[rt[q].db] = log[rt[q].db]
    BY <1>1, <1>7 DEF OthersStay
  <2>3. rt[q].pc = "read" => Current(rt[q].db)' = Current(rt[q].db)
    BY <2>1, <2>2 DEF Current, RtInv
  <2>4. QED
    BY <1>6, <2>1, <2>3 DEF RtInv, PublicationStays
<1>8. ASSUME NEW q \in Procs, q # p PROVE BuildInv(q)'
  <2>1. BuildInv(q) /\ build'[q] = build[q] /\ base'[q] = base[q]
    BY <1>8 DEF CatalogInv, OthersStay
  <2>2. /\ build[q].old # NoDb => log'[build[q].old] = log[build[q].old]
        /\ build[q].db # NoDb => log'[build[q].db] = log[build[q].db]
    BY <1>1, <1>8 DEF OthersStay
  <2>3. build[q].old # NoDb => Current(build[q].old)' = Current(build[q].old)
    BY <2>1, <2>2 DEF Current
  <2>4. build[q].pc = "publish" => BaseUnchanged(build[q])'
    <3>1. build[q].pc = "publish" => build[q].old # NoDb /\ BaseUnchanged(build[q])
      BY <2>1 DEF BuildInv, Shape, Pinning
    <3>2. QED
      BY <2>1, <2>3, <3>1 DEF BaseUnchanged, Publication, PublicationStays
  <2>5. QED
    BY <2>1, <2>2, <2>3, <2>4 DEF BuildInv, Shape, Sealed, Owning
<1>9. QED
  BY <1>3, <1>4, <1>5, <1>7, <1>8 DEF CatalogInv

\* ... that leave all files.
LEMMA QuietStep ==
    ASSUME CatalogInv, NEW p \in Procs, Types', log' = log,
           control'.db = control.db, control'.gen = control.gen, control'.state = control.state,
           \A q \in Procs \ {p} : /\ rt'[q] = rt[q] /\ build'[q] = build[q]
                                  /\ retiring'[q] = retiring[q]
                                  /\ base'[q] = base[q] /\ window'[q] = window[q],
           \A db \in Shared(p)' \ {NoDb} :
              db \in Shared(p) \/ (db = control.db /\ log[control.db] # <<>>),
           build'[p].db \in {build[p].db, NoDb}, Own(p)' \subseteq Own(p),
           LocksTaken(p), RtInv(p)', BuildInv(p)'
    PROVE  CatalogInv'
<1>1. LogInv' /\ ControlInv'
  BY DEF CatalogInv, LogInv, ControlInv
<1>2. PublicationStays /\ OthersStay(p)
  BY DEF PublicationStays, OthersStay
<1>3. PinsGrow(p)
  <2>1. PinnedBy(p)' = Shared(p)' \cup {build'[p].db} /\ PinnedBy(p) = Shared(p) \cup {build[p].db}
    BY DEF PinnedBy, Shared
  <2>2. \A db \in PinnedBy(p)' \ {NoDb} : db \in PinnedBy(p) \/ (db = control.db /\ log[control.db] # <<>>)
    BY <2>1
  <2>3. \A db \in PinnedBy(p) \ {NoDb} : log[db] # <<>>
    BY DEF CatalogInv, FilesInv
  <2>4. ASSUME NEW db \in Own(p)'
        PROVE  db # control.db /\ db \notin Shared(p)' /\ db \in Own(p)
    <3>1. db \in Own(p) /\ db # NoDb /\ db # control.db /\ db \notin Shared(p)
      BY <2>4 DEF CatalogInv, PrivateInv, Own
    <3>2. QED
      BY <3>1
  <2>5. QED
    BY <2>2, <2>3, <2>4 DEF PinsGrow
<1>4. QED
  BY <1>1, <1>2, <1>3, LocalStep

\* ... and of which only the catalog thread moves.
LEMMA BuildStep ==
    ASSUME CatalogInv, NEW p \in Procs, NEW b \in BuildType, build' = [build EXCEPT ![p] = b],
           Types', UNCHANGED <<control, log, rt, retiring, base, window>>,
           /\ b.old = build[p].old /\ b.parent = build[p].parent /\ b.expected = build[p].expected
           /\ b.gen = build[p].gen /\ b.db = build[p].db,
           Shape(b), b.pc \in Owning => build[p].pc \in Owning \/ b.db = NoDb,
           b.pc \in {"check", "lock", "publish"} /\ ~b.reuse => log[b.db] = Sealed(b),
           b.pc = "publish" => build[p].pc # "publish" /\ ExclusiveFree /\ BaseUnchanged(b)
    PROVE  CatalogInv'
<1>1. build'[p] = b /\ \A q \in Procs \ {p} : build'[q] = build[q]
  BY DEF CatalogInv, Types
<1>2. RtInv(p)'
  BY DEF CatalogInv, RtInv, Openable, Current
<1>3. BuildInv(p)'
  <2>1. BuildInv(p)
    BY DEF CatalogInv
  <2>2. b.old # NoDb =>
          /\ b.parent.db = b.old
          /\ base'[p] \in Content /\ base'[p].gen = b.expected
          /\ b.expected < b.gen
          /\ b.expected <= Current(b.old).gen
          /\ Current(b.old).gen = b.expected => Current(b.old) = base'[p]
    BY <2>1 DEF BuildInv, Shape
  <2>3. Current(build[p].old)' = Current(b.old)
    BY <1>1 DEF Current
  <2>4. b.db # 0
    BY <2>1 DEF BuildInv, Shape
  <2>5. b.pc = "publish" => BaseUnchanged(build[p])'
    BY <1>1, <2>3 DEF BaseUnchanged, Publication
  <2>6. Sealed(build[p])' = Sealed(b)
    BY <1>1 DEF Sealed
  <2>7. QED
    BY <1>1, <2>2, <2>3, <2>4, <2>5, <2>6 DEF BuildInv, Shape
<1>4. Shared(p)' = Shared(p)
  BY <1>1 DEF Shared
<1>5. Own(p)' \subseteq Own(p)
  BY <1>1 DEF Own
<1>6. LocksTaken(p)
  BY <1>1 DEF LocksTaken
<1>7. QED
  BY <1>1, <1>2, <1>3, <1>4, <1>5, <1>6, QuietStep

\* ... and of which only the protocol thread moves.
LEMMA RtStep ==
    ASSUME CatalogInv, NEW p \in Procs, NEW r \in RtType, rt' = [rt EXCEPT ![p] = r],
           Types', UNCHANGED <<build, log, base>>,
           control'.db = control.db, control'.gen = control.gen, control'.state = control.state,
           \A q \in Procs \ {p} : retiring'[q] = retiring[q] /\ window'[q] = window[q],
           \A db \in ({r.db} \cup retiring'[p]) \ {NoDb} :
              db \in {rt[p].db} \cup retiring[p] \/ (db = control.db /\ log[control.db] # <<>>),
           r.pc = "refresh" => SharedFree,
           RtInv(p)'
    PROVE  CatalogInv'
<1>1. rt'[p] = r /\ \A q \in Procs \ {p} : rt'[q] = rt[q]
  BY DEF CatalogInv, Types
<1>2. BuildInv(p)'
  <2>1. BuildInv(p)
    BY DEF CatalogInv
  <2>2. Current(build[p].old)' = Current(build[p].old)
    BY DEF Current
  <2>3. BaseUnchanged(build[p])' = BaseUnchanged(build[p])
    BY <2>2 DEF BaseUnchanged, Publication
  <2>4. QED
    BY <2>1, <2>2, <2>3 DEF BuildInv, Shape, Sealed
<1>3. \A db \in Shared(p)' \ {NoDb} :
         db \in Shared(p) \/ (db = control.db /\ log[control.db] # <<>>)
  BY <1>1 DEF Shared
<1>4. Own(p)' = Own(p)
  BY DEF Own
<1>5. LocksTaken(p)
  BY <1>1 DEF LocksTaken
<1>6. QED
  BY <1>1, <1>2, <1>3, <1>4, <1>5, QuietStep

-----------------------------------------------------------------------------
(* The protocol thread.                                                    *)

\* The active file can be opened: it has a state with the schema.
LEMMA OpenableFacts ==
    ASSUME CatalogInv, Openable
    PROVE  /\ control.db \in Dbs /\ log[control.db] # <<>> /\ log[control.db] \in Seq(States)
           /\ Current(control.db) \in Content /\ control.state = "row"
<1>1. control.db \in Dbs /\ log[control.db] # <<>> /\ log[control.db] \in Seq(States)
  BY DEF CatalogInv, Types, ControlType, Openable
<1>2. Current(control.db) \in States
  BY <1>1 DEF Current
<1>3. NoSchema.gen = -1
  BY DEF NoSchema
<1>4. QED
  BY <1>1, <1>2, <1>3 DEF Openable, States

LEMMA ResolvedFacts ==
    ASSUME CatalogInv, NEW p \in Procs, Openable, rt[p].pc = "idle"
    PROVE  /\ Resolved(p) = control.db /\ Retired(p) \in SUBSET Dbs
           /\ Retired(p) \subseteq {rt[p].db} \cup retiring[p]
<1>1. rt[p].db \in Dbs /\ retiring[p] \in SUBSET Dbs
  BY DEF CatalogInv, RtInv, Types, RtType
<1>2. QED
  BY <1>1 DEF Resolved, Retired

LEMMA DownType == Down \in RtType /\ Down.pc = "down" /\ Down.db = NoDb
BY CatalogAssumption DEF Down, RtType, Dbs

LEMMA StartsAndReads ==
    ASSUME CatalogInv, NEW p \in Procs, Start(p) \/ OpenStore(p) \/ BeginRead(p) \/ EndRead(p)
    PROVE  CatalogInv'
<1>1. /\ Types /\ rt[p] \in RtType /\ RtInv(p)
  BY DEF CatalogInv, Types
<1>2. CASE Start(p)
  <2> DEFINE r == [rt[p] EXCEPT !.pc = "new"]
  <2>1. rt' = [rt EXCEPT ![p] = r]
    BY <1>2 DEF Start
  <2>2. r \in RtType /\ r.pc = "new" /\ r.db = rt[p].db
    BY <1>1 DEF RtType
  <2> HIDE DEF r
  <2>3. /\ UNCHANGED <<source, written, control, log, build, updates, retiring, window, base, fence,
                       faults, crashes>>
    BY <1>2 DEF Start, disk, history, budget
  <2>4. Types'
    BY <1>1, <2>1, <2>2, <2>3 DEF Types
  <2>5. rt'[p] = r
    BY <1>1, <2>1 DEF Types
  <2>6. RtInv(p)'
    BY <2>2, <2>5 DEF RtInv
  <2>7. QED
    BY <2>1, <2>2, <2>3, <2>4, <2>6, RtStep
<1>3. CASE OpenStore(p)
  <2> DEFINE r == IF Openable
                  THEN [Down EXCEPT !.pc = "idle", !.db = control.db, !.next = Current(control.db).gen + 1]
                  ELSE [Down EXCEPT !.pc = "failed"]
  <2>1. rt' = [rt EXCEPT ![p] = r]
    BY <1>3 DEF OpenStore
  <2>2. /\ r \in RtType
        /\ IF Openable THEN r.pc = "idle" /\ r.db = control.db ELSE r.pc = "failed" /\ r.db = NoDb
    <3>1. CASE Openable
      <4>1. control.db \in Dbs /\ Current(control.db).gen + 1 \in Nat
        BY <3>1, OpenableFacts, CatalogAssumption DEF Content
      <4>2. QED
        BY <3>1, <4>1, DownType DEF RtType
    <3>2. CASE ~Openable
      BY <3>2, DownType DEF RtType
    <3>3. QED
      BY <3>1, <3>2
  <2> HIDE DEF r
  <2>3. /\ UNCHANGED <<source, written, control, log, build, updates, retiring, window, base, fence,
                       faults, crashes>>
    BY <1>3 DEF OpenStore, disk, history, budget
  <2>4. Types'
    BY <1>1, <2>1, <2>2, <2>3 DEF Types
  <2>5. rt'[p] = r
    BY <1>1, <2>1 DEF Types
  <2>6. RtInv(p)'
    <3>1. Openable => control.db # NoDb
      BY OpenableFacts, CatalogAssumption DEF Dbs, NoDb
    <3>2. QED
      BY <2>2, <2>5, <3>1 DEF RtInv
  <2>7. Openable => log[control.db] # <<>>
    BY DEF Openable
  <2>8. QED
    BY <2>1, <2>2, <2>3, <2>4, <2>6, <2>7, RtStep
<1>4. CASE BeginRead(p)
  <2> DEFINE r == [rt[p] EXCEPT !.pc = "read", !.db = Resolved(p)]
  <2>1. rt' = [rt EXCEPT ![p] = r]
    BY <1>4 DEF BeginRead
  <2>2. /\ Openable /\ rt[p].pc = "idle"
        /\ window' = [window EXCEPT ![p] = {Current(control.db)}]
        /\ retiring' = [retiring EXCEPT ![p] = Retired(p)]
        /\ UNCHANGED <<source, written, control, log, build, updates, base, fence, faults, crashes>>
    BY <1>4 DEF BeginRead, disk, budget
  <2>3. /\ control.db \in Dbs /\ log[control.db] # <<>> /\ Current(control.db) \in Content
        /\ Resolved(p) = control.db /\ Retired(p) \in SUBSET Dbs
        /\ Retired(p) \subseteq {rt[p].db} \cup retiring[p]
    BY <2>2, OpenableFacts, ResolvedFacts
  <2>4. r \in RtType /\ r.pc = "read" /\ r.db = control.db
    BY <1>1, <2>3 DEF RtType
  <2> HIDE DEF r
  <2>5. Types'
    BY <1>1, <2>1, <2>2, <2>3, <2>4 DEF Types, States
  <2>6. /\ rt'[p] = r /\ window'[p] = {Current(control.db)} /\ retiring'[p] = Retired(p)
        /\ \A q \in Procs \ {p} : window'[q] = window[q] /\ retiring'[q] = retiring[q]
    BY <1>1, <2>1, <2>2 DEF Types
  <2>7. RtInv(p)'
    <3>1. control.db # NoDb
      BY <2>3, CatalogAssumption DEF Dbs, NoDb
    <3>2. Current(rt[p].db)' = Current(control.db)
      BY <2>2, <2>4, <2>6 DEF Current
    <3>3. QED
      BY <2>4, <2>6, <3>1, <3>2 DEF RtInv
  <2>8. QED
    BY <2>1, <2>2, <2>3, <2>4, <2>5, <2>6, <2>7, RtStep
<1>5. CASE EndRead(p)
  <2> DEFINE r == [rt[p] EXCEPT !.pc = "idle"]
  <2>1. rt' = [rt EXCEPT ![p] = r]
    BY <1>5 DEF EndRead
  <2>2. /\ rt[p].pc = "read" /\ window' = [window EXCEPT ![p] = {}]
        /\ UNCHANGED <<source, written, control, log, build, updates, retiring, base, fence, faults, crashes>>
    BY <1>5 DEF EndRead, disk, budget
  <2>3. r \in RtType /\ r.pc = "idle" /\ r.db = rt[p].db
    BY <1>1 DEF RtType
  <2> HIDE DEF r
  <2>4. Types'
    BY <1>1, <2>1, <2>2, <2>3 DEF Types
  <2>5. rt'[p] = r /\ \A q \in Procs \ {p} : window'[q] = window[q]
    BY <1>1, <2>1, <2>2 DEF Types
  <2>6. RtInv(p)'
    BY <1>1, <2>2, <2>3, <2>5 DEF RtInv
  <2>7. QED
    BY <2>1, <2>2, <2>3, <2>4, <2>5, <2>6, RtStep
<1>6. QED
  BY <1>2, <1>3, <1>4, <1>5

LEMMA NoBuildType ==
    /\ NoBuild \in BuildType /\ NoBuild.pc = "none" /\ NoBuild.old = NoDb /\ NoBuild.db = NoDb
    /\ NoBuild.reuse = FALSE /\ NoBuild.force = FALSE
<1>1. /\ NoRows \in Rows /\ 0 \in 0..MaxGen /\ NoDb \in Dbs \cup {NoDb}
      /\ [db |-> NoDb, gen |-> 0] \in [db : Dbs \cup {NoDb}, gen : 0..MaxGen]
  BY CatalogAssumption DEF NoRows, Rows, Versions
<1>2. NoBuild \in BuildType
  BY <1>1, Zenon DEF NoBuild, BuildType
<1>3. QED
  BY <1>2 DEF NoBuild

LEMMA RefreshesAndUpdates ==
    ASSUME CatalogInv, NEW p \in Procs,
           HandleUpdate(p) \/ \E d \in Docs, g \in 1..MaxGen : BeginRefresh(p, d, g)
    PROVE  CatalogInv'
<1>1. Types /\ rt[p] \in RtType /\ RtInv(p)
  BY DEF CatalogInv, Types
<1>2. ASSUME NEW d \in Docs, NEW g \in 1..MaxGen, BeginRefresh(p, d, g)
      PROVE  CatalogInv'
  <2> DEFINE r == [rt[p] EXCEPT !.pc = "refresh", !.db = Resolved(p), !.doc = d, !.gen = g]
  <2>1. rt' = [rt EXCEPT ![p] = r]
    BY <1>2 DEF BeginRefresh
  <2>2. /\ Openable /\ rt[p].pc = "idle" /\ SharedFree
        /\ control' = [control EXCEPT !.fp = NoFingerprint]
        /\ retiring' = [retiring EXCEPT ![p] = Retired(p)]
        /\ UNCHANGED <<source, written, log, build, updates, window, base, fence, faults, crashes>>
    BY <1>2 DEF BeginRefresh, disk, history, budget
  <2>3. /\ control.db \in Dbs /\ log[control.db] # <<>> /\ Current(control.db) \in Content
        /\ Resolved(p) = control.db /\ Retired(p) \in SUBSET Dbs
        /\ Retired(p) \subseteq {rt[p].db} \cup retiring[p]
    BY <2>2, OpenableFacts, ResolvedFacts
  <2>4. r \in RtType /\ r.pc = "refresh" /\ r.db = control.db /\ r.doc = d /\ r.gen = g
    <3>1. g \in 0..MaxGen /\ Resolved(p) \in Dbs \cup {NoDb}
      BY <2>3, CatalogAssumption
    <3>2. r \in RtType
      BY <1>1, <3>1, Zenon DEF RtType
    <3>3. r.pc = "refresh" /\ r.db = Resolved(p) /\ r.doc = d /\ r.gen = g
      BY <1>1 DEF RtType
    <3>4. QED
      BY <2>3, <3>2, <3>3
  <2>5. /\ control' \in ControlType /\ control'.db = control.db /\ control'.gen = control.gen
        /\ control'.state = control.state
    BY <1>1, <2>2 DEF Types, ControlType
  <2> HIDE DEF r
  <2>6. Types'
    BY <1>1, <2>1, <2>2, <2>3, <2>4, <2>5 DEF Types
  <2>7. /\ rt'[p] = r /\ retiring'[p] = Retired(p) /\ \A q \in Procs \ {p} : retiring'[q] = retiring[q]
    BY <1>1, <2>1, <2>2 DEF Types
  <2>8. RtInv(p)'
    <3>1. control.db # NoDb /\ g > 0
      BY <2>3, CatalogAssumption DEF Dbs, NoDb
    <3>2. Openable'
      BY <2>2, <2>5 DEF Openable, Current
    <3>3. QED
      BY <2>4, <2>5, <2>7, <3>1, <3>2 DEF RtInv
  <2>9. QED
    BY <2>1, <2>2, <2>3, <2>4, <2>5, <2>6, <2>7, <2>8, RtStep
<1>3. CASE HandleUpdate(p)
  <2>1. /\ rt[p].pc = "idle" /\ updates[p] # <<>> /\ updates' = [updates EXCEPT ![p] = Tail(@)]
        /\ UNCHANGED <<source, written, control, log, build, retiring, window, base, fence, faults, crashes>>
    BY <1>3 DEF HandleUpdate, disk, history, budget
  <2>2. Head(updates[p]) \in UpdateType /\ Tail(updates[p]) \in Seq(UpdateType)
    <3>1. updates[p] \in Seq(UpdateType)
      BY <1>1 DEF Types
    <3>2. QED
      BY <2>1, <3>1
  <2>3. PICK r \in RtType : rt' = [rt EXCEPT ![p] = r] /\ r.pc = "idle" /\ r.db = rt[p].db
    <3> DEFINE u == Head(updates[p])
               done == [rt[p] EXCEPT !.catalog = 0]
               phase == IF u.errors THEN "degraded" ELSE IF u.skipped THEN "partial" ELSE "ready"
               r == IF u.gen # rt[p].catalog THEN rt[p]
                    ELSE CASE u.kind = "Activating" ->
                                [rt[p] EXCEPT !.phase = IF @ = "cancelling" THEN @ ELSE "activating"]
                           [] u.kind = "Cancelled" -> [done EXCEPT !.phase = "cancelled"]
                           [] u.kind = "Failed" -> [done EXCEPT !.phase = "degraded"]
                           [] u.kind = "Complete" -> [done EXCEPT !.phase = phase]
    <3>1. rt' = [rt EXCEPT ![p] = r]
      BY <1>3 DEF HandleUpdate
    <3>2. done \in RtType /\ done.pc = rt[p].pc /\ done.db = rt[p].db
      BY <1>1, CatalogAssumption DEF RtType
    <3>3. u.kind \in {"Activating", "Complete", "Cancelled", "Failed"}
      BY <2>2 DEF UpdateType
    <3> HIDE DEF u, done
    <3>4. \A x \in {"cancelled", "degraded", "partial", "ready", "activating", "cancelling"} :
             /\ [done EXCEPT !.phase = x] \in RtType
             /\ [done EXCEPT !.phase = x].pc = rt[p].pc /\ [done EXCEPT !.phase = x].db = rt[p].db
             /\ [rt[p] EXCEPT !.phase = x] \in RtType
             /\ [rt[p] EXCEPT !.phase = x].pc = rt[p].pc /\ [rt[p] EXCEPT !.phase = x].db = rt[p].db
      BY <1>1, <3>2 DEF RtType
    <3>5. r \in RtType /\ r.pc = "idle" /\ r.db = rt[p].db
      BY <1>1, <2>1, <3>3, <3>4
    <3>6. QED
      BY <3>1, <3>5
  <2>4. Types'
    BY <1>1, <2>1, <2>2, <2>3 DEF Types
  <2>5. rt'[p] = r
    BY <1>1, <2>3 DEF Types
  <2>6. RtInv(p)'
    BY <1>1, <2>1, <2>3, <2>5 DEF RtInv
  <2>7. QED
    BY <2>1, <2>3, <2>4, <2>6, RtStep
<1>4. QED
  BY <1>2, <1>3

\* catalog/start, catalog/cancel and the end of a process.
LEMMA CatalogRequests ==
    ASSUME CatalogInv, NEW p \in Procs,
           CancelCatalog(p) \/ Exit(p) \/ \E force \in BOOLEAN : StartCatalog(p, force)
    PROVE  CatalogInv'
<1>1. Types /\ rt[p] \in RtType /\ build[p] \in BuildType /\ RtInv(p) /\ BuildInv(p)
  BY DEF CatalogInv, Types
<1>2. ASSUME NEW force \in BOOLEAN, StartCatalog(p, force)
      PROVE  CatalogInv'
  <2> DEFINE gen == IF rt[p].next > Current(control.db).gen THEN rt[p].next
                    ELSE Current(control.db).gen + 1
             r == [rt[p] EXCEPT !.db = Resolved(p), !.next = gen + 1, !.catalog = gen,
                                !.phase = "discovering"]
             b == [NoBuild EXCEPT !.pc = IF force THEN "scan" ELSE "begin",
                                  !.force = force, !.gen = gen, !.todo = Docs]
  <2>1. rt' = [rt EXCEPT ![p] = r] /\ build' = [build EXCEPT ![p] = b]
    BY <1>2, ZenonT(60) DEF StartCatalog
  <2>2. /\ Openable /\ rt[p].pc = "idle" /\ build[p].pc = "none" /\ gen <= MaxGen
        /\ retiring' = [retiring EXCEPT ![p] = Retired(p)]
        /\ UNCHANGED <<source, written, control, log, updates, window, base, fence, faults, crashes>>
    BY <1>2 DEF StartCatalog, disk, history, budget
  <2>3. /\ control.db \in Dbs /\ log[control.db] # <<>> /\ Current(control.db) \in Content
        /\ Resolved(p) = control.db /\ Retired(p) \in SUBSET Dbs
        /\ Retired(p) \subseteq {rt[p].db} \cup retiring[p]
    BY <2>2, OpenableFacts, ResolvedFacts
  <2>4. gen \in 0..MaxGen
    <3>1. Current(control.db).gen \in Nat /\ rt[p].next \in Nat
      BY <1>1, <2>3, CatalogAssumption DEF Content, RtType
    <3>2. QED
      BY <2>2, <3>1, CatalogAssumption
  <2> HIDE DEF gen
  <2>5. r \in RtType /\ r.pc = "idle" /\ r.db = control.db
    <3>1. gen + 1 \in Nat /\ Resolved(p) \in Dbs \cup {NoDb}
      BY <2>3, <2>4, CatalogAssumption
    <3>2. r \in RtType
      BY <1>1, <2>4, <3>1, Zenon DEF RtType
    <3>3. r.pc = rt[p].pc /\ r.db = Resolved(p)
      BY <1>1 DEF RtType
    <3>4. QED
      BY <2>2, <2>3, <3>2, <3>3
  <2>6. /\ b \in BuildType /\ b.pc \in {"scan", "begin"} /\ (b.pc = "scan" => b.force)
        /\ b.old = NoDb /\ b.db = NoDb /\ ~b.reuse
    BY <2>4, NoBuildType, ZenonT(60) DEF BuildType
  <2> HIDE DEF r, b
  <2>7. Types'
    BY <1>1, <2>1, <2>2, <2>3, <2>5, <2>6 DEF Types
  <2>8. /\ rt'[p] = r /\ build'[p] = b /\ retiring'[p] = Retired(p)
        /\ \A q \in Procs \ {p} : rt'[q] = rt[q] /\ build'[q] = build[q] /\ retiring'[q] = retiring[q]
    BY <1>1, <2>1, <2>2 DEF Types
  <2>9. RtInv(p)'
    <3>1. control.db # NoDb
      BY <2>3, CatalogAssumption DEF Dbs, NoDb
    <3>2. QED
      BY <2>5, <2>8, <3>1 DEF RtInv
  <2>10. BuildInv(p)'
    BY <2>6, <2>8 DEF BuildInv, Shape, Pinning, Owning, NoDb
  <2>11. /\ \A db \in Shared(p)' \ {NoDb} :
               db \in Shared(p) \/ (db = control.db /\ log[control.db] # <<>>)
         /\ Own(p)' = {}
    BY <2>3, <2>5, <2>6, <2>8 DEF Shared, Own, Owning
  <2>12. LocksTaken(p)
    BY <2>5, <2>6, <2>8 DEF LocksTaken
  <2>13. QED
    BY <2>2, <2>6, <2>7, <2>8, <2>9, <2>10, <2>11, <2>12, QuietStep
<1>3. CASE CancelCatalog(p)
  <2> DEFINE r == [rt[p] EXCEPT !.phase = "cancelling"]
             b == [build[p] EXCEPT !.flag = "cancelled"]
  <2>1. rt' = [rt EXCEPT ![p] = r] /\ build' = [build EXCEPT ![p] = b]
    BY <1>3 DEF CancelCatalog
  <2>2. /\ rt[p].pc = "idle" /\ build[p].flag \in {"running", "activating"}
        /\ UNCHANGED <<source, written, control, log, updates, retiring, window, base, fence, faults, crashes>>
    BY <1>3 DEF CancelCatalog, disk, history, budget
  <2>3. r \in RtType /\ r.pc = "idle" /\ r.db = rt[p].db
    BY <1>1, <2>2 DEF RtType
  <2>4. /\ b \in BuildType /\ b.pc = build[p].pc /\ b.old = build[p].old /\ b.db = build[p].db
        /\ b.parent = build[p].parent /\ b.expected = build[p].expected /\ b.gen = build[p].gen
        /\ b.force = build[p].force /\ b.reuse = build[p].reuse /\ b.rows = build[p].rows
        /\ b.rejected = build[p].rejected
    BY <1>1 DEF BuildType
  <2> HIDE DEF r, b
  <2>5. Types'
    BY <1>1, <2>1, <2>2, <2>3, <2>4 DEF Types
  <2>6. /\ rt'[p] = r /\ build'[p] = b
        /\ \A q \in Procs \ {p} : rt'[q] = rt[q] /\ build'[q] = build[q]
    BY <1>1, <2>1, <2>2 DEF Types
  <2>7. RtInv(p)'
    BY <1>1, <2>2, <2>3, <2>6 DEF RtInv
  <2>8. BuildInv(p)'
    <3>1. Current(build[p].old)' = Current(build[p].old)
      BY <2>2, <2>4, <2>6 DEF Current
    <3>2. BaseUnchanged(build[p])' = BaseUnchanged(build[p]) /\ Sealed(build[p])' = Sealed(build[p])
      BY <2>2, <2>4, <2>6, <3>1 DEF BaseUnchanged, Publication, Sealed
    <3>3. QED
      BY <1>1, <2>2, <2>4, <2>6, <3>1, <3>2 DEF BuildInv, Shape
  <2>9. Shared(p)' = Shared(p) /\ Own(p)' = Own(p)
    BY <2>2, <2>3, <2>4, <2>6 DEF Shared, Own
  <2>10. LocksTaken(p)
    BY <2>3, <2>4, <2>6 DEF LocksTaken
  <2>11. QED
    BY <2>2, <2>4, <2>5, <2>6, <2>7, <2>8, <2>9, <2>10, QuietStep
<1>4. CASE Exit(p)
  <2>1. /\ rt' = [rt EXCEPT ![p] = Down] /\ build' = [build EXCEPT ![p] = NoBuild]
        /\ updates' = [updates EXCEPT ![p] = <<>>] /\ retiring' = [retiring EXCEPT ![p] = {}]
        /\ window' = [window EXCEPT ![p] = {}] /\ base' = [base EXCEPT ![p] = NoBase]
        /\ fence' = [fence EXCEPT ![p] = NoRows]
        /\ crashes < MaxCrashes /\ crashes' = crashes + 1
        /\ UNCHANGED <<source, written, control, log, faults>>
    BY <1>4 DEF Exit, disk
  <2>2. NoRows \in Rows /\ NoBase \in States
    BY CatalogAssumption DEF NoRows, Rows, Versions, NoBase, States
  <2>3. Types'
    BY <1>1, <2>1, <2>2, DownType, NoBuildType, CatalogAssumption DEF Types
  <2>4. /\ rt'[p] = Down /\ build'[p] = NoBuild /\ retiring'[p] = {}
        /\ \A q \in Procs \ {p} : /\ rt'[q] = rt[q] /\ build'[q] = build[q]
                                  /\ retiring'[q] = retiring[q]
                                  /\ base'[q] = base[q] /\ window'[q] = window[q]
    BY <1>1, <2>1 DEF Types
  <2>5. RtInv(p)'
    BY <2>4, DownType DEF RtInv
  <2>6. BuildInv(p)'
    BY <2>4, NoBuildType DEF BuildInv, Shape, Pinning, Owning, NoDb
  <2>7. Shared(p)' = {NoDb} /\ Own(p)' = {}
    BY <2>4, DownType, NoBuildType DEF Shared, Own, Owning
  <2>8. LocksTaken(p)
    BY <2>4, DownType, NoBuildType DEF LocksTaken
  <2>9. QED
    BY <2>1, <2>3, <2>4, <2>5, <2>6, <2>7, <2>8, NoBuildType, QuietStep
<1>5. QED
  BY <1>2, <1>3, <1>4

\* What is pinned exists.
LEMMA PinnedFiles ==
    ASSUME CatalogInv
    PROVE  \A q \in Procs : \A db \in PinnedBy(q) \ {NoDb} : db \in Dbs /\ log[db] # <<>>
<1> SUFFICES ASSUME NEW q \in Procs, NEW db \in PinnedBy(q) \ {NoDb}
             PROVE  db \in Dbs /\ log[db] # <<>>
  OBVIOUS
<1>1. rt[q] \in RtType /\ build[q] \in BuildType /\ retiring[q] \in SUBSET Dbs
  BY DEF CatalogInv, Types
<1>2. /\ rt[q].db \in Dbs \cup {NoDb} /\ build[q].old \in Dbs \cup {NoDb}
      /\ build[q].db \in Dbs \cup {NoDb}
  BY <1>1 DEF RtType, BuildType
<1>3. db \in Dbs
  BY <1>1, <1>2 DEF PinnedBy
<1>4. QED
  BY <1>3 DEF CatalogInv, FilesInv

\* initialize of the first process.
LEMMA Bootstraps ==
    ASSUME CatalogInv, NEW p \in Procs, CreateControl(p) \/ InsertControl(p) \/ CreateBase(p)
    PROVE  CatalogInv'
<1>1. Types /\ rt[p] \in RtType /\ build[p] \in BuildType /\ RtInv(p) /\ BuildInv(p)
      /\ LogInv /\ ControlInv /\ control \in ControlType
  BY DEF CatalogInv, Types
<1>2. ASSUME NEW r \in RtType, rt' = [rt EXCEPT ![p] = r], r.db \in {rt[p].db, 0}, r.pc # "refresh",
             UNCHANGED <<build, retiring, base, window>>, Types', LogInv', ControlInv',
             PublicationStays, RtInv(p)',
             \A db \in Dbs : log[db] # <<>> => log'[db] = log[db],
             r.db = 0 /\ rt[p].db # 0 => log'[0] # <<>>
      PROVE  CatalogInv'
  <2>1. rt'[p] = r /\ \A q \in Procs \ {p} : rt'[q] = rt[q]
    BY <1>1, <1>2 DEF Types
  <2>2. \A q \in Procs : \A db \in PinnedBy(q) \ {NoDb} : db \in Dbs /\ log[db] # <<>>
    BY PinnedFiles
  <2>3. OthersStay(p)
    BY <1>2, <2>1, <2>2 DEF OthersStay
  <2>4. Own(p)' = Own(p) /\ PinnedBy(p)' \subseteq PinnedBy(p) \cup {0} /\ Shared(p)' \subseteq Shared(p) \cup {0}
    BY <1>2, <2>1 DEF Own, PinnedBy, Shared
  <2>5. \A db \in PinnedBy(p)' \ {NoDb} : log'[db] # <<>>
    <3>1. ASSUME NEW db \in PinnedBy(p)' \ {NoDb} PROVE log'[db] # <<>>
      <4>1. CASE db \in PinnedBy(p)
        BY <1>2, <2>2, <3>1, <4>1
      <4>2. CASE db \notin PinnedBy(p)
        <5>1. db = 0 /\ rt[p].db # 0 /\ r.db = 0
          BY <1>2, <2>1, <3>1, <4>2 DEF PinnedBy
        <5>2. QED
          BY <1>2, <5>1
      <4>3. QED
        BY <4>1, <4>2
    <3>2. QED
      BY <3>1
  <2>6. PinsGrow(p)
    <3>1. \A db \in Own(p) : db # control.db /\ db \notin Shared(p) /\ db # 0
      BY <1>1 DEF CatalogInv, PrivateInv, Own, BuildInv, Shape
    <3>2. QED
      BY <2>4, <2>5, <3>1 DEF PinsGrow
  <2>7. LocksTaken(p)
    BY <1>2, <2>1 DEF LocksTaken
  <2>8. BuildInv(p)'
    <3>1. /\ build[p].old # NoDb => log'[build[p].old] = log[build[p].old]
          /\ build[p].db # NoDb => log'[build[p].db] = log[build[p].db]
      BY <1>2, <2>2 DEF PinnedBy
    <3>2. build[p].old # NoDb => Current(build[p].old)' = Current(build[p].old)
      BY <1>2, <3>1 DEF Current
    <3>3. build[p].pc = "publish" => BaseUnchanged(build[p])'
      <4>1. build[p].pc = "publish" => build[p].old # NoDb /\ BaseUnchanged(build[p])
        BY <1>1 DEF BuildInv, Shape, Pinning
      <4>2. QED
        BY <1>2, <3>2, <4>1 DEF BaseUnchanged, Publication, PublicationStays
    <3>4. QED
      BY <1>1, <1>2, <3>1, <3>2, <3>3 DEF BuildInv, Shape, Sealed, Owning
  <2>9. QED
    BY <1>2, <2>3, <2>6, <2>7, <2>8, LocalStep
<1>3. CASE CreateControl(p)
  <2> DEFINE r == [rt[p] EXCEPT !.pc = "table"]
  <2>1. /\ rt' = [rt EXCEPT ![p] = r] /\ control.state = "absent"
        /\ control' = [control EXCEPT !.state = "table"]
        /\ UNCHANGED <<source, written, log, build, updates, retiring, window, base, fence, faults, crashes>>
    BY <1>3 DEF CreateControl, disk, history, budget
  <2>2. r \in RtType /\ r.pc = "table" /\ r.db = rt[p].db
    BY <1>1 DEF RtType
  <2>3. /\ control' \in ControlType /\ control'.db = control.db /\ control'.gen = control.gen
        /\ control'.state = "table"
    BY <1>1, <2>1 DEF ControlType
  <2> HIDE DEF r
  <2>4. Types' /\ rt'[p] = r
    BY <1>1, <2>1, <2>2, <2>3 DEF Types
  <2>5. LogInv' /\ ControlInv' /\ PublicationStays
    BY <1>1, <2>1, <2>3 DEF LogInv, ControlInv, PublicationStays
  <2>6. RtInv(p)'
    BY <2>2, <2>4 DEF RtInv
  <2>7. QED
    BY <1>2, <2>1, <2>2, <2>4, <2>5, <2>6
<1>4. CASE InsertControl(p)
  <2> DEFINE r == [rt[p] EXCEPT !.pc = "row"]
  <2>1. /\ rt' = [rt EXCEPT ![p] = r] /\ control' = [control EXCEPT !.state = "row"]
        /\ UNCHANGED <<source, written, log, build, updates, retiring, window, base, fence, faults, crashes>>
    BY <1>4 DEF InsertControl, disk, history, budget
  <2>2. r \in RtType /\ r.pc = "row" /\ r.db = rt[p].db
    BY <1>1 DEF RtType
  <2>3. /\ control' \in ControlType /\ control'.db = control.db /\ control'.gen = control.gen
        /\ control'.state = "row"
    BY <1>1, <2>1 DEF ControlType
  <2> HIDE DEF r
  <2>4. Types' /\ rt'[p] = r
    BY <1>1, <2>1, <2>2, <2>3 DEF Types
  <2>5. LogInv' /\ ControlInv' /\ PublicationStays
    BY <1>1, <2>1, <2>3 DEF LogInv, ControlInv, PublicationStays
  <2>6. RtInv(p)'
    BY <2>2, <2>3, <2>4 DEF RtInv
  <2>7. QED
    BY <1>2, <2>1, <2>2, <2>4, <2>5, <2>6
<1>5. CASE CreateBase(p)
  <2> DEFINE r == [rt[p] EXCEPT !.pc = "open", !.db = 0]
             s == IF log[0] = <<>> THEN <<NoSchema, Empty>> ELSE log[0]
  <2>1. /\ rt[p].pc = "row" /\ rt' = [rt EXCEPT ![p] = r] /\ log' = [log EXCEPT ![0] = s]
        /\ UNCHANGED <<source, written, control, build, updates, retiring, window, base, fence, faults, crashes>>
    BY <1>5 DEF CreateBase, disk, history, budget
  <2>2. 0 \in Dbs
    BY CatalogAssumption DEF Dbs
  <2>3. r \in RtType /\ r.pc = "open" /\ r.db = 0
    BY <1>1, <2>2 DEF RtType
  <2>4. Empty \in Content /\ NoSchema \in States
    BY CatalogAssumption DEF Empty, Content, NoRows, Rows, Versions, States
  <2>5. s \in Seq(States) /\ s # <<>> /\ (log[0] # <<>> => s = log[0])
        /\ (log[0] = <<>> => Len(s) = 2 /\ s[2] = Empty)
    <3>1. log[0] \in Seq(States)
      BY <1>1, <2>2 DEF Types
    <3>2. Empty \in States
      BY <2>4 DEF States
    <3>3. CASE log[0] = <<>>
      <4>1. s = <<NoSchema, Empty>>
        BY <3>3
      <4>2. QED
        BY <2>4, <3>2, <3>3, <4>1
    <3>4. CASE log[0] # <<>>
      BY <3>1, <3>4
    <3>5. QED
      BY <3>3, <3>4
  <2> HIDE DEF r, s
  <2>6. /\ log'[0] = s /\ \A db \in Dbs : db # 0 => log'[db] = log[db]
        /\ log' \in [Dbs -> Seq(States)]
    BY <1>1, <2>1, <2>2, <2>5 DEF Types
  <2>7. \A db \in Dbs : log[db] # <<>> => log'[db] = log[db]
    BY <2>5, <2>6
  <2>8. Types' /\ rt'[p] = r
    BY <1>1, <2>1, <2>3, <2>6 DEF Types
  <2>9. LogInv'
    <3>1. CASE log[0] # <<>>
      BY <1>1, <2>5, <2>6, <3>1 DEF LogInv
    <3>2. CASE log[0] = <<>>
      BY <1>1, <2>4, <2>5, <2>6, <3>2 DEF LogInv
    <3>3. QED
      BY <3>1, <3>2
  <2>10. ControlInv' /\ PublicationStays
    <3>1. control.state = "row" /\ control.db \in Dbs
      BY <1>1, <2>1 DEF RtInv, ControlType
    <3>2. log[control.db] # <<>> => log'[control.db] = log[control.db]
      BY <2>7, <3>1
    <3>3. QED
      BY <1>1, <2>1, <3>1, <3>2 DEF ControlInv, PublicationStays
  <2>11. RtInv(p)'
    BY <2>3, <2>8 DEF RtInv
  <2>12. QED
    BY <1>2, <2>1, <2>3, <2>5, <2>6, <2>7, <2>8, <2>9, <2>10, <2>11
<1>6. QED
  BY <1>3, <1>4, <1>5

-----------------------------------------------------------------------------
(* Commits to the active file.                                             *)

\* A refresh appends a newer state, a catalog that reuses its parent replaces it.
Commits(new) ==
    /\ new \in Content /\ Current(control.db).gen < new.gen
    /\ \/ log' = [log EXCEPT ![control.db] = Append(@, new)]
       \/ log' = [log EXCEPT ![control.db] = <<new>>]

LEMMA CommitFacts ==
    ASSUME CatalogInv, Openable, NEW new, Commits(new), control' = control
    PROVE  /\ log' \in [Dbs -> Seq(States)]
           /\ \A db \in Dbs \ {control.db} : log'[db] = log[db]
           /\ log'[control.db] # <<>> /\ Current(control.db)' = new
           /\ LogInv' /\ ControlInv' /\ Openable'
<1> DEFINE s == log[control.db]
           t == log'[control.db]
<1>1. /\ Types /\ LogInv /\ ControlInv /\ control.db \in Dbs /\ s # <<>> /\ s \in Seq(States)
      /\ Current(control.db) \in Content /\ control.gen \in 0..MaxGen
      /\ Current(control.db) = s[Len(s)] /\ Current(control.db).gen >= control.gen
  BY OpenableFacts DEF CatalogInv, Types, ControlType, Openable, Current
<1>2. new \in States /\ new.gen \in 0..MaxGen /\ Current(control.db).gen \in 0..MaxGen
  BY <1>1 DEF Commits, States, Content
<1>3. /\ log' \in [Dbs -> Seq(States)] /\ \A db \in Dbs \ {control.db} : log'[db] = log[db]
      /\ t \in {Append(s, new), <<new>>}
  <2>1. log \in [Dbs -> Seq(States)] /\ Append(s, new) \in Seq(States) /\ <<new>> \in Seq(States)
    BY <1>1, <1>2 DEF Types
  <2>2. PICK u \in {Append(s, new), <<new>>} : log' = [log EXCEPT ![control.db] = u]
    BY DEF Commits
  <2>3. QED
    BY <1>1, <2>1, <2>2
<1> HIDE DEF s, t
<1>4. /\ t # <<>> /\ t[Len(t)] = new /\ t \in Seq(States)
      /\ \A i \in 1..Len(t) : t[i] = new \/ (i <= Len(s) /\ t[i] = s[i])
      /\ Len(t) = 1 \/ (Len(t) = Len(s) + 1 /\ \A i \in 1..Len(s) : t[i] = s[i])
  <2>1. CASE t = Append(s, new)
    BY <1>1, <1>2, <2>1
  <2>2. CASE t = <<new>>
    <3>1. Len(t) = 1 /\ t[1] = new /\ t \in Seq(States)
      BY <1>2, <2>2
    <3>2. QED
      BY <3>1
  <2>3. QED
    BY <1>3, <2>1, <2>2
<1>5. log'[control.db] # <<>> /\ Current(control.db)' = new
  BY <1>4 DEF Current, t
<1>6. LogInv'
  <2>1. \A db \in Dbs : \A i \in 2..Len(log'[db]) : log'[db][i] \in Content
    <3> TAKE db \in Dbs
    <3>1. CASE db # control.db
      BY <1>1, <1>3, <3>1 DEF LogInv
    <3>2. CASE db = control.db
      <4> SUFFICES ASSUME NEW i \in 2..Len(t) PROVE t[i] \in Content
        BY <3>2 DEF t
      <4>1. \A j \in 2..Len(s) : s[j] \in Content
        BY <1>1 DEF LogInv, s
      <4>2. Len(s) \in Nat /\ Len(t) \in Nat /\ new \in Content
        BY <1>1, <1>4 DEF Commits
      <4>3. QED
        BY <1>4, <4>1, <4>2
    <3>3. QED
      BY <3>1, <3>2
  <2>2. Len(log'[0]) >= 2 /\ log'[0][1] = NoSchema => log'[0][2] = Empty
    <3>1. CASE control.db # 0
      <4>1. 0 \in Dbs
        BY CatalogAssumption DEF Dbs
      <4>2. QED
        BY <1>1, <1>3, <3>1, <4>1 DEF LogInv
    <3>2. CASE control.db = 0
      <4>1. SUFFICES ASSUME Len(t) >= 2, t[1] = NoSchema PROVE t[2] = Empty
        BY <3>2 DEF t
      <4>2. Len(s) \in Nat /\ Len(s) > 0
        BY <1>1
      <4>3. Len(t) = Len(s) + 1 /\ \A i \in 1..Len(s) : t[i] = s[i]
        BY <1>4, <4>1
      <4>4. s[1] = NoSchema
        BY <4>1, <4>2, <4>3
      <4>5. Len(s) # 1
        <5>1. NoSchema.gen = -1
          BY DEF NoSchema
        <5>2. QED
          BY <1>1, <1>2, <4>4, <5>1
      <4>6. s[2] = Empty
        <5>1. s = log[0]
          BY <3>2 DEF s
        <5>2. Len(log[0]) >= 2 /\ log[0][1] = NoSchema => log[0][2] = Empty
          BY <1>1 DEF LogInv
        <5>3. Len(s) >= 2
          BY <4>2, <4>5
        <5>4. QED
          BY <4>4, <5>1, <5>2, <5>3
      <4>7. t[2] = s[2]
        <5>1. 2 \in 1..Len(s)
          BY <4>2, <4>5
        <5>2. QED
          BY <4>3, <5>1
      <4>8. QED
        BY <4>6, <4>7
    <3>3. QED
      BY <3>1, <3>2
  <2>3. QED
    BY <2>1, <2>2 DEF LogInv
<1>7. ControlInv'
  <2>1. control.db # 0 => \A i \in 1..Len(t) : t[i].gen >= control.gen
    <3> HAVE control.db # 0
    <3>1. \A i \in 1..Len(s) : s[i].gen >= control.gen
      BY <1>1 DEF ControlInv, s
    <3>2. Len(s) \in Nat /\ Len(t) \in Nat /\ new.gen >= control.gen
      BY <1>1, <1>2, <1>4 DEF Commits
    <3>3. QED
      BY <1>4, <3>1, <3>2
  <2>2. control.state = "row"
    BY DEF Openable
  <2>3. QED
    BY <1>1, <1>4, <2>1, <2>2 DEF ControlInv, t
<1>8. Openable'
  BY <1>1, <1>2, <1>5 DEF Openable, Commits
<1>9. QED
  BY <1>3, <1>5, <1>6, <1>7, <1>8

\* Every session that has the active file for its parent is now behind it, every
\* query on that file has the new state in its window.
LEMMA CommitStep ==
    ASSUME CatalogInv, NEW p \in Procs, Openable, NEW new, Commits(new), control' = control,
           Types', UNCHANGED <<retiring, base>>, Witness(log', control'),
           \A q \in Procs : rt'[q] = rt[q]
                            \/ (rt'[q].pc = "idle" /\ rt'[q].db = rt[q].db /\ rt[q].db # NoDb),
           \A q \in Procs :
              \/ build'[q] = build[q] /\ build[q].pc # "publish"
              \/ /\ build'[q].pc = "drop" /\ build[q].pc = "publish"
                 /\ build'[q].old = build[q].old /\ build'[q].parent = build[q].parent
                 /\ build'[q].expected = build[q].expected /\ build'[q].gen = build[q].gen
                 /\ build'[q].db = build[q].db
    PROVE  CatalogInv'
<1>1. /\ control.db \in Dbs /\ log' \in [Dbs -> Seq(States)] /\ log'[control.db] # <<>>
      /\ \A db \in Dbs \ {control.db} : log'[db] = log[db]
      /\ Current(control.db)' = new /\ LogInv' /\ ControlInv' /\ Openable'
  BY CommitFacts, OpenableFacts
<1>2. /\ Types /\ LogInv /\ ControlInv /\ LockInv /\ PrivateInv /\ FilesInv
      /\ \A q \in Procs : RtInv(q) /\ BuildInv(q)
  BY DEF CatalogInv
<1>3. \A q \in Procs : /\ rt'[q].db = rt[q].db /\ build'[q].old = build[q].old
                       /\ build'[q].db = build[q].db /\ build'[q].pc # "publish"
  OBVIOUS
<1>4. \A q \in Procs : /\ PinnedBy(q)' = PinnedBy(q) /\ Shared(q)' = Shared(q)
                       /\ Own(q)' \subseteq Own(q)
  BY <1>3 DEF PinnedBy, Shared, Own, Owning
<1>5. PrivateInv'
  <2> SUFFICES ASSUME NEW q \in Procs, NEW db \in Own(q)
               PROVE  /\ db # control.db /\ db \notin Shared(q)
                      /\ \A r \in Procs \ {q} : db \notin PinnedBy(r)
    BY <1>4 DEF PrivateInv
  <2>1. QED
    BY <1>2 DEF PrivateInv
<1>6. FilesInv'
  <2> SUFFICES ASSUME NEW q \in Procs, NEW db \in PinnedBy(q) \ {NoDb} PROVE log'[db] # <<>>
    BY <1>4 DEF FilesInv
  <2>1. db \in Dbs /\ log[db] # <<>>
    BY PinnedFiles
  <2>2. QED
    BY <1>1, <2>1
<1>7. LockInv'
  BY <1>3 DEF LockInv
<1>8. ASSUME NEW q \in Procs PROVE RtInv(q)'
  <2>1. /\ rt[q].pc = "row" => control.state = "row"
        /\ rt[q].pc \in {"idle", "read", "refresh"} => rt[q].db # NoDb
        /\ rt[q].pc = "refresh" => rt[q].db = control.db /\ rt[q].doc \in Docs /\ rt[q].gen > 0
        /\ rt[q].pc = "read" => Current(rt[q].db) \in window[q]
    BY <1>2 DEF RtInv
  <2>2. ASSUME rt'[q].pc = "read" PROVE Current(rt[q].db)' \in window'[q]
    <3>1. rt'[q] = rt[q]
      BY <2>2
    <3>2. rt[q].db \in Dbs /\ window[q] # {}
      <4>1. rt[q].db \in PinnedBy(q) \ {NoDb}
        BY <2>1, <2>2, <3>1 DEF PinnedBy
      <4>2. QED
        BY <2>1, <2>2, <3>1, <4>1, PinnedFiles
    <3>3. window'[q] = window[q] \cup {new}
      BY <1>1, <3>2 DEF Witness, Current
    <3>4. CASE rt[q].db = control.db
      <4>1. Current(rt[q].db)' = new
        BY <1>1, <3>1, <3>4 DEF Current
      <4>2. QED
        BY <3>3, <4>1
    <3>5. CASE rt[q].db # control.db
      <4>1. log'[rt[q].db] = log[rt[q].db]
        BY <1>1, <3>2, <3>5
      <4>2. Current(rt[q].db)' = Current(rt[q].db)
        BY <3>1, <4>1 DEF Current
      <4>3. QED
        BY <2>1, <2>2, <3>1, <3>3, <4>2
    <3>6. QED
      BY <3>4, <3>5
  <2>3. QED
    BY <1>1, <2>1, <2>2 DEF RtInv
<1>9. ASSUME NEW q \in Procs PROVE BuildInv(q)'
  <2>1. BuildInv(q) /\ build[q] \in BuildType
    BY <1>2 DEF Types
  <2>2. ASSUME build[q].old # NoDb
        PROVE  /\ build[q].expected <= (Current(build[q].old)').gen
               /\ (Current(build[q].old)').gen = build[q].expected => Current(build[q].old)' = base[q]
    <3>1. /\ build[q].expected <= Current(build[q].old).gen
          /\ Current(build[q].old).gen = build[q].expected => Current(build[q].old) = base[q]
      BY <2>1, <2>2 DEF BuildInv, Shape
    <3>2. build[q].old \in Dbs
      BY <2>1, <2>2 DEF BuildType
    <3>3. CASE build[q].old = control.db
      <4>1. Current(build[q].old)' = new
        BY <1>1, <1>3, <3>3 DEF Current
      <4>2. build[q].expected \in Nat /\ Current(control.db).gen \in Nat /\ new.gen \in Nat
        BY <2>1, OpenableFacts, CatalogAssumption DEF BuildType, Content, Commits
      <4>3. Current(control.db).gen < new.gen
        BY DEF Commits
      <4>4. QED
        BY <3>1, <3>3, <4>1, <4>2, <4>3
    <3>4. CASE build[q].old # control.db
      <4>1. log'[build[q].old] = log[build[q].old]
        BY <1>1, <3>2, <3>4
      <4>2. Current(build[q].old)' = Current(build[q].old)
        BY <1>3, <4>1 DEF Current
      <4>3. QED
        BY <3>1, <4>2
    <3>5. QED
      BY <3>3, <3>4
  <2>3. ASSUME build'[q].pc \in {"check", "lock", "publish"}, ~build'[q].reuse
        PROVE  log'[build'[q].db] = Sealed(build[q])'
    <3>1. build'[q] = build[q] /\ build[q].pc \in {"check", "lock", "publish"} /\ ~build[q].reuse
      BY <2>3
    <3>2. build[q].db # NoDb /\ log[build[q].db] = Sealed(build[q])
      BY <2>1, <3>1 DEF BuildInv, Shape, Owning
    <3>3. build[q].db \in Own(q) /\ build[q].db \in Dbs
      BY <2>1, <3>1, <3>2 DEF Own, Owning, BuildType
    <3>4. build[q].db # control.db
      BY <1>2, <3>3 DEF PrivateInv
    <3>5. QED
      BY <1>1, <3>1, <3>2, <3>3, <3>4 DEF Sealed
  <2>4. CASE build'[q] = build[q] /\ build[q].pc # "publish"
    BY <2>1, <2>2, <2>3, <2>4 DEF BuildInv, Shape
  <2>5. CASE build'[q].pc = "drop"
    BY <2>1, <2>2, <2>5 DEF BuildInv, Shape, Pinning, Owning
  <2>6. QED
    BY <2>4, <2>5
<1>10. QED
  BY <1>1, <1>5, <1>6, <1>7, <1>8, <1>9 DEF CatalogInv

\* The step of apply_batch that writes, for the refinement too.
RefreshCommit(p, new) ==
    /\ rt[p].pc = "refresh" /\ Openable /\ rt[p].db = control.db
    /\ Commits(new) /\ log' = [log EXCEPT ![control.db] = Append(@, new)]
    /\ \E d \in Docs : \A e \in Docs \ {d} :
          /\ new.rows[e] = Current(control.db).rows[e]
          /\ e \in new.rejected <=> e \in Current(control.db).rejected
    /\ Witness(log', control) /\ faults' \in 0..MaxFaults
    /\ \E r \in RtType : rt' = [rt EXCEPT ![p] = r] /\ r.pc = "idle" /\ r.db = rt[p].db

LEMMA RefreshFacts ==
    ASSUME CatalogInv, NEW p \in Procs, ApplyRefresh(p)
    PROVE  /\ UNCHANGED <<source, written, control, build, updates, retiring, base, fence, crashes>>
           /\ \/ /\ UNCHANGED <<log, window, faults>> /\ rt[p].pc = "refresh"
                 /\ \E r \in RtType : rt' = [rt EXCEPT ![p] = r] /\ r.pc = "idle" /\ r.db = rt[p].db
              \/ \E new \in Content : RefreshCommit(p, new)
<1> DEFINE d == rt[p].doc
           old == Current(rt[p].db)
           idle == [rt[p] EXCEPT !.pc = "idle", !.doc = 0, !.gen = 0]
           new(failed) == [gen |-> rt[p].gen,
                           rows |-> [old.rows EXCEPT ![d] = IF failed THEN 0 ELSE source[d]],
                           rejected |-> IF failed THEN old.rejected \cup {d} ELSE old.rejected \ {d}]
           moved == [idle EXCEPT !.next = IF @ > rt[p].gen THEN @ ELSE rt[p].gen + 1]
<1>1. /\ rt[p] \in RtType /\ RtInv(p) /\ source \in Rows /\ faults \in 0..MaxFaults
      /\ rt[p].pc = "refresh"
  BY DEF CatalogInv, Types, ApplyRefresh
<1>2. /\ Openable /\ rt[p].db = control.db /\ d \in Docs /\ rt[p].gen \in 0..MaxGen
      /\ rt[p].next \in Nat
  BY <1>1 DEF RtInv, RtType
<1>3. old \in Content /\ old = Current(control.db)
  BY <1>2, OpenableFacts
<1>4. UNCHANGED <<source, written, control, build, updates, retiring, base, fence, crashes>>
  BY DEF ApplyRefresh, disk
<1>5. /\ idle \in RtType /\ idle.pc = "idle" /\ idle.db = rt[p].db /\ idle.next = rt[p].next
  <2>1. 0 \in 0..MaxGen
    BY CatalogAssumption
  <2>2. idle \in RtType
    BY <1>1, <2>1, Zenon DEF RtType
  <2>3. QED
    BY <1>1, <2>2 DEF RtType
<1>6. CASE rt[p].gen <= old.gen
  <2>1. rt' = [rt EXCEPT ![p] = idle] /\ UNCHANGED <<log, window, faults>>
    BY <1>6 DEF ApplyRefresh
  <2> HIDE DEF idle
  <2>2. QED
    BY <1>1, <1>4, <1>5, <2>1
<1>7. CASE ~(rt[p].gen <= old.gen)
  <2>1. PICK failed \in BOOLEAN :
           /\ failed => faults < MaxFaults /\ source[d] # 0
           /\ faults' = faults + (IF failed THEN 1 ELSE 0)
           /\ log' = [log EXCEPT ![rt[p].db] = Append(@, new(failed))]
           /\ rt' = [rt EXCEPT ![p] = moved]
           /\ Witness(log', control)
    BY <1>7 DEF ApplyRefresh
  <2>2. faults' \in 0..MaxFaults
    BY <1>1, <2>1, CatalogAssumption
  <2>3. moved \in RtType /\ moved.pc = "idle" /\ moved.db = rt[p].db
    <3>1. IF idle.next > rt[p].gen THEN idle.next \in Nat ELSE rt[p].gen + 1 \in Nat
      BY <1>2, <1>5, CatalogAssumption
    <3> HIDE DEF idle
    <3>2. moved \in RtType
      BY <1>5, <3>1 DEF RtType
    <3>3. QED
      BY <1>5, <3>2 DEF RtType
  <2>4. (IF failed THEN 0 ELSE source[d]) \in Versions
    <3>1. 0 \in Versions
      BY CatalogAssumption DEF Versions
    <3>2. source[d] \in Versions
      BY <1>1, <1>2 DEF Rows
    <3>3. QED
      BY <3>1, <3>2
  <2>5. old.rows \in Rows /\ old.rejected \in SUBSET Docs /\ old.gen \in 0..MaxGen
    BY <1>3 DEF Content
  <2>6. /\ [old.rows EXCEPT ![d] = IF failed THEN 0 ELSE source[d]] \in Rows
        /\ (IF failed THEN old.rejected \cup {d} ELSE old.rejected \ {d}) \in SUBSET Docs
    BY <1>2, <2>4, <2>5 DEF Rows
  <2>7. new(failed) \in Content /\ new(failed).gen = rt[p].gen
    BY <1>2, <2>6 DEF Content
  <2>8. \A e \in Docs \ {d} : /\ new(failed).rows[e] = old.rows[e]
                              /\ e \in new(failed).rejected <=> e \in old.rejected
    BY <1>2, <2>5 DEF Rows
  <2>9. PICK n \in Content : n = new(failed)
    BY <2>7
  <2>10. \A e \in Docs \ {d} : /\ n.rows[e] = Current(control.db).rows[e]
                               /\ e \in n.rejected <=> e \in Current(control.db).rejected
    BY <1>3, <2>8, <2>9
  <2>11. log' = [log EXCEPT ![control.db] = Append(@, n)] /\ n.gen = rt[p].gen
    BY <1>2, <2>1, <2>7, <2>9
  <2> HIDE DEF new, moved, idle
  <2>12. Commits(n)
    <3>1. Current(control.db).gen < n.gen
      BY <1>2, <1>3, <1>7, <2>5, <2>11, CatalogAssumption
    <3>2. QED
      BY <2>11, <3>1 DEF Commits
  <2>13. RefreshCommit(p, n)
    BY <1>1, <1>2, <2>1, <2>2, <2>3, <2>10, <2>11, <2>12 DEF RefreshCommit
  <2>14. QED
    BY <1>4, <2>13
<1>8. QED
  BY <1>6, <1>7

LEMMA Refreshes ==
    ASSUME CatalogInv, NEW p \in Procs, ApplyRefresh(p)
    PROVE  CatalogInv'
<1>1. Types /\ RtInv(p) /\ \A q \in Procs : rt[p].pc = "refresh" => build[q].pc # "publish"
  BY DEF CatalogInv, LockInv
<1>2. UNCHANGED <<source, written, control, build, updates, retiring, base, fence, crashes>>
  BY RefreshFacts
<1>3. CASE UNCHANGED <<log, window, faults>> /\ rt[p].pc = "refresh"
           /\ \E r \in RtType : rt' = [rt EXCEPT ![p] = r] /\ r.pc = "idle" /\ r.db = rt[p].db
  <2>1. PICK r \in RtType : rt' = [rt EXCEPT ![p] = r] /\ r.pc = "idle" /\ r.db = rt[p].db
    BY <1>3
  <2>2. Types' /\ rt'[p] = r
    BY <1>1, <1>2, <1>3, <2>1 DEF Types
  <2>3. RtInv(p)'
    BY <1>1, <1>3, <2>1, <2>2 DEF RtInv
  <2>4. QED
    BY <1>2, <1>3, <2>1, <2>2, <2>3, RtStep
<1>4. ASSUME NEW new \in Content, RefreshCommit(p, new) PROVE CatalogInv'
  <2>1. /\ rt[p].pc = "refresh" /\ Openable /\ Commits(new) /\ Witness(log', control)
        /\ faults' \in 0..MaxFaults /\ rt[p].db # NoDb
    BY <1>1, <1>4 DEF RefreshCommit, RtInv
  <2>2. PICK r \in RtType : rt' = [rt EXCEPT ![p] = r] /\ r.pc = "idle" /\ r.db = rt[p].db
    BY <1>4 DEF RefreshCommit
  <2>3. log' \in [Dbs -> Seq(States)] /\ control.db \in Dbs /\ log'[control.db] # <<>>
    BY <1>2, <2>1, CommitFacts, OpenableFacts
  <2>4. window' \in [Procs -> SUBSET States]
    <3>1. log'[control.db][Len(log'[control.db])] \in States
      BY <2>3
    <3>2. QED
      BY <1>1, <2>1, <3>1 DEF Types, Witness
  <2>5. Types'
    BY <1>1, <1>2, <2>1, <2>2, <2>3, <2>4 DEF Types
  <2>6. \A q \in Procs : rt'[q] = rt[q]
                         \/ (rt'[q].pc = "idle" /\ rt'[q].db = rt[q].db /\ rt[q].db # NoDb)
    BY <1>1, <2>1, <2>2 DEF Types
  <2>7. \A q \in Procs : build'[q] = build[q] /\ build[q].pc # "publish"
    BY <1>1, <1>2, <2>1
  <2>8. QED
    BY <1>2, <2>1, <2>5, <2>6, <2>7, CommitStep
<1>5. QED
  BY <1>3, <1>4, RefreshFacts

\* A publisher holds the exclusive lock, and the active file is in the state that its
\* session began from.
LEMMA PublisherFacts ==
    ASSUME CatalogInv, NEW p \in Procs, build[p].pc = "publish"
    PROVE  /\ Openable /\ build[p].old = control.db /\ build[p].old \in Dbs
           /\ Current(control.db) = base[p] /\ Current(control.db) \in Content
           /\ Current(control.db).gen < build[p].gen
           /\ \A q \in Procs : rt[q].pc # "refresh" /\ (q # p => build[q].pc # "publish")
           /\ ~build[p].reuse => /\ log[build[p].db] = Sealed(build[p]) /\ build[p].db \in Dbs
                                 /\ build[p].db # 0 /\ build[p].db \in Own(p)
<1>1. build[p] \in BuildType /\ BuildInv(p) /\ ControlInv /\ LockInv /\ control \in ControlType
      /\ control.db \in Dbs /\ control.gen \in 0..MaxGen /\ log \in [Dbs -> Seq(States)]
  BY DEF CatalogInv, Types, ControlType
<1>2. build[p].old # NoDb /\ BaseUnchanged(build[p])
  BY <1>1 DEF BuildInv, Shape, Pinning
<1>3. build[p].old = control.db /\ build[p].old \in Dbs /\ Current(control.db).gen = build[p].expected
  BY <1>1, <1>2 DEF BuildInv, Shape, BaseUnchanged, Publication
<1>4. /\ Current(control.db) = base[p] /\ base[p] \in Content
      /\ build[p].expected < build[p].gen
  BY <1>1, <1>2, <1>3 DEF BuildInv, Shape
<1>5. log[control.db] # <<>>
  <2>1. control.db \in PinnedBy(p) \ {NoDb}
    BY <1>2, <1>3 DEF PinnedBy
  <2>2. QED
    BY <2>1, PinnedFiles
<1>6. control.state = "row"
  BY <1>1, <1>5 DEF ControlInv
<1>7. Current(control.db).gen \in 0..MaxGen
  BY <1>4 DEF Content
<1>8. Openable
  <2>1. CASE control.db = 0
    BY <1>1, <1>5, <1>6, <1>7, <2>1, CatalogAssumption DEF ControlInv, Openable
  <2>2. CASE control.db # 0
    <3>1. Len(log[control.db]) \in 1..Len(log[control.db])
      BY <1>1, <1>5
    <3>2. Current(control.db).gen >= control.gen
      BY <1>1, <2>2, <3>1 DEF ControlInv, Current
    <3>3. QED
      BY <1>5, <1>6, <1>7, <3>2, CatalogAssumption DEF Openable
  <2>3. QED
    BY <2>1, <2>2
<1>9. \A q \in Procs : rt[q].pc # "refresh" /\ (q # p => build[q].pc # "publish")
  BY <1>1 DEF LockInv
<1>10. ~build[p].reuse => /\ log[build[p].db] = Sealed(build[p]) /\ build[p].db \in Dbs
                          /\ build[p].db # 0 /\ build[p].db \in Own(p)
  BY <1>1 DEF BuildInv, Shape, BuildType, Own, Owning
<1>11. QED
  BY <1>3, <1>4, <1>8, <1>9, <1>10

LEMMA Publishes ==
    ASSUME CatalogInv, NEW p \in Procs, Publish(p)
    PROVE  CatalogInv'
<1> DEFINE b == build[p]
           c == [build[p] EXCEPT !.pc = "drop", !.outcome = "receipt"]
<1>1. /\ b.pc = "publish" /\ build' = [build EXCEPT ![p] = c] /\ Witness(log', control')
      /\ UNCHANGED <<source, written, rt, updates, retiring, base, fence, faults, crashes>>
  BY DEF Publish, disk, budget
<1>2. /\ Types /\ b \in BuildType /\ LogInv /\ ControlInv /\ PrivateInv /\ FilesInv
      /\ \A q \in Procs : RtInv(q) /\ BuildInv(q)
  BY DEF CatalogInv, Types
<1>3. /\ c \in BuildType /\ c.pc = "drop" /\ c.old = b.old /\ c.parent = b.parent
      /\ c.expected = b.expected /\ c.gen = b.gen /\ c.db = b.db
  BY <1>2, ZenonT(60) DEF BuildType
<1> HIDE DEF c
<1>4. build'[p] = c /\ \A q \in Procs \ {p} : build'[q] = build[q]
  BY <1>1, <1>2 DEF Types
<1>5. /\ Openable /\ b.old = control.db /\ Current(control.db) \in Content
      /\ Current(control.db).gen < b.gen
      /\ \A q \in Procs : rt[q].pc # "refresh" /\ (q # p => build[q].pc # "publish")
      /\ ~b.reuse => /\ log[b.db] = Sealed(b) /\ b.db \in Dbs
                     /\ b.db # 0 /\ b.db \in Own(p)
  BY <1>1, PublisherFacts
<1>6. b.gen \in 0..MaxGen /\ b.rows \in Rows /\ b.rejected \in SUBSET Docs /\ b.stamps \in Rows
  BY <1>2 DEF BuildType
<1>7. ASSUME log' \in [Dbs -> Seq(States)], control' \in ControlType, log'[control'.db] # <<>>
      PROVE  Types'
  <2>1. log'[control'.db][Len(log'[control'.db])] \in States
    BY <1>7 DEF ControlType
  <2>2. window' \in [Procs -> SUBSET States]
    BY <1>1, <1>2, <2>1 DEF Types, Witness
  <2>3. QED
    BY <1>1, <1>2, <1>3, <1>7, <2>2 DEF Types
<1>8. CASE b.reuse
  <2> DEFINE new == [Current(control.db) EXCEPT !.gen = b.gen]
  <2>1. log' = [log EXCEPT ![control.db] = <<new>>] /\ control' = control
    BY <1>5, <1>8 DEF Publish
  <2>2. new \in Content /\ new.gen = b.gen
    BY <1>5, <1>6 DEF Content
  <2> HIDE DEF new
  <2>3. Commits(new)
    BY <1>5, <2>1, <2>2 DEF Commits
  <2>4. log' \in [Dbs -> Seq(States)] /\ log'[control.db] # <<>> /\ control \in ControlType
    BY <1>2, <1>5, <2>1, <2>3, CommitFacts DEF Types
  <2>5. Types'
    BY <1>7, <2>1, <2>4
  <2>6. \A q \in Procs :
           \/ build'[q] = build[q] /\ build[q].pc # "publish"
           \/ /\ build'[q].pc = "drop" /\ build[q].pc = "publish"
              /\ build'[q].old = build[q].old /\ build'[q].parent = build[q].parent
              /\ build'[q].expected = build[q].expected /\ build'[q].gen = build[q].gen
              /\ build'[q].db = build[q].db
    BY <1>1, <1>3, <1>4, <1>5
  <2>7. QED
    BY <1>1, <1>5, <2>1, <2>3, <2>5, <2>6, CommitStep
<1>9. CASE ~b.reuse
  <2>1. /\ control' = [control EXCEPT !.db = b.db, !.gen = b.gen, !.fp = CompleteFingerprint(b)]
        /\ log' = log
    BY <1>9 DEF Publish
  <2>2. CompleteFingerprint(b) \in Rows \cup {NoFingerprint}
    BY <1>6 DEF CompleteFingerprint
  <2>3. /\ control' \in ControlType /\ control'.db = b.db /\ control'.gen = b.gen
        /\ control'.state = control.state
    BY <1>2, <1>5, <1>6, <1>9, <2>1, <2>2 DEF Types, ControlType
  <2>4. log[b.db] # <<>> /\ Len(log[b.db]) = 1 /\ log[b.db][1].gen = b.gen
    <3>1. PICK s : log[b.db] = <<s>> /\ s.gen = b.gen
      BY <1>5, <1>9 DEF Sealed
    <3>2. QED
      BY <3>1
  <2>5. Types'
    BY <1>2, <1>7, <2>1, <2>3, <2>4 DEF Types
  <2>6. LogInv' /\ ControlInv'
    <3>1. b.gen > 0 /\ control.state = "row"
      BY <1>5, <1>6, CatalogAssumption DEF Content, Openable
    <3>2. \A i \in 1..Len(log[b.db]) : log[b.db][i].gen >= b.gen
      BY <1>6, <2>4, CatalogAssumption
    <3>3. QED
      BY <1>2, <1>5, <1>9, <2>1, <2>3, <2>4, <3>1, <3>2 DEF LogInv, ControlInv
  <2>7. /\ \A q \in Procs : PinnedBy(q)' = PinnedBy(q) /\ Shared(q)' = Shared(q)
        /\ Own(p)' = {} /\ \A q \in Procs \ {p} : Own(q)' = Own(q)
    BY <1>1, <1>3, <1>4 DEF PinnedBy, Shared, Own, Owning
  <2>8. PrivateInv'
    <3> SUFFICES ASSUME NEW q \in Procs \ {p}, NEW db \in Own(q)
                 PROVE  /\ db # b.db /\ db \notin Shared(q)
                        /\ \A r \in Procs \ {q} : db \notin PinnedBy(r)
      BY <2>3, <2>7 DEF PrivateInv
    <3>1. b.db \in PinnedBy(p)
      BY DEF PinnedBy
    <3>2. QED
      BY <1>2, <3>1 DEF PrivateInv
  <2>9. FilesInv' /\ LockInv'
    BY <1>1, <1>2, <1>3, <1>4, <1>5, <2>1, <2>7 DEF FilesInv, LockInv
  <2>10. ASSUME NEW q \in Procs PROVE RtInv(q)'
    <3>1. RtInv(q) /\ rt'[q] = rt[q] /\ rt[q].pc # "refresh"
      BY <1>1, <1>2, <1>5
    <3>2. Current(rt[q].db)' = Current(rt[q].db)
      BY <2>1, <3>1 DEF Current
    <3>3. window[q] \subseteq window'[q]
      BY <1>1 DEF Witness
    <3>4. QED
      BY <2>3, <3>1, <3>2, <3>3 DEF RtInv
  <2>11. ASSUME NEW q \in Procs PROVE BuildInv(q)'
    <3>1. BuildInv(q) /\ build'[q].old = build[q].old /\ build'[q].pc # "publish"
      BY <1>2, <1>3, <1>4, <1>5
    <3>2. Current(build[q].old)' = Current(build[q].old)
      BY <2>1, <3>1 DEF Current
    <3>3. CASE q = p
      BY <1>1, <1>3, <1>4, <2>1, <3>1, <3>2, <3>3 DEF BuildInv, Shape, Pinning, Owning
    <3>4. CASE q # p
      <4>1. build'[q] = build[q] /\ Sealed(build[q])' = Sealed(build[q]) /\ base'[q] = base[q]
        BY <1>1, <1>4, <3>4 DEF Sealed
      <4>2. QED
        BY <2>1, <3>1, <3>2, <4>1 DEF BuildInv, Shape
    <3>5. QED
      BY <3>3, <3>4
  <2>12. QED
    BY <2>5, <2>6, <2>8, <2>9, <2>10, <2>11 DEF CatalogInv
<1>10. QED
  BY <1>8, <1>9

-----------------------------------------------------------------------------
(* The catalog thread.                                                     *)

\* A scan or a parse moves a session within its stage or to the next one.
Progress(b, c) ==
    /\ c \in BuildType
    /\ c.old = b.old /\ c.parent = b.parent /\ c.expected = b.expected /\ c.gen = b.gen
    /\ c.db = b.db /\ c.force = b.force /\ c.reuse = b.reuse

LEMMA ScannedFacts ==
    ASSUME CatalogInv, NEW b \in BuildType, NEW d \in Docs, NEW result \in {"ok", "hidden", "unreadable"}
    PROVE  /\ Progress(b, Scanned(b, d, result))
           /\ Scanned(b, d, result).pc \in {"scan", IF b.force THEN "begin" ELSE "route"}
<1> DEFINE rest == [b EXCEPT !.todo = @ \ {d},
                             !.pc = IF b.todo # {d} THEN "scan" ELSE IF b.force THEN "begin" ELSE "route"]
<1>1. source[d] \in Versions /\ 0 \in Versions
  BY CatalogAssumption DEF CatalogInv, Types, Rows, Versions
<1>2. Progress(b, rest) /\ rest.pc \in {"scan", IF b.force THEN "begin" ELSE "route"}
  <2>1. PICK x \in {"scan", "begin", "route"} :
           x = IF b.todo # {d} THEN "scan" ELSE IF b.force THEN "begin" ELSE "route"
    OBVIOUS
  <2>2. PICK T \in SUBSET Docs : T = b.todo \ {d}
    BY DEF BuildType
  <2>3. rest = [b EXCEPT !.todo = T, !.pc = x]
    BY <2>1, <2>2
  <2> HIDE DEF rest
  <2>4. rest \in BuildType
    BY <2>3 DEF BuildType
  <2>5. /\ rest.pc = x /\ rest.old = b.old /\ rest.parent = b.parent /\ rest.expected = b.expected
        /\ rest.gen = b.gen /\ rest.db = b.db /\ rest.force = b.force /\ rest.reuse = b.reuse
    BY <2>3 DEF BuildType
  <2>6. QED
    BY <2>1, <2>4, <2>5 DEF Progress
<1> HIDE DEF rest
<1>3. ASSUME NEW c \in BuildType, NEW R \in SUBSET Docs
      PROVE  /\ Progress(c, [c EXCEPT !.errors = TRUE, !.complete = FALSE, !.rejected = R])
             /\ [c EXCEPT !.errors = TRUE, !.complete = FALSE, !.rejected = R].pc = c.pc
  <2>1. [c EXCEPT !.errors = TRUE, !.complete = FALSE, !.rejected = R] \in BuildType
    BY <1>3 DEF BuildType
  <2>2. QED
    BY <1>3, <2>1 DEF BuildType, Progress
<1>4. ASSUME NEW c \in BuildType, NEW v \in Versions
      PROVE  /\ Progress(c, [c EXCEPT !.jobs = @ \cup {d}, !.stamps[d] = v])
             /\ [c EXCEPT !.jobs = @ \cup {d}, !.stamps[d] = v].pc = c.pc
  <2>1. PICK J \in SUBSET Docs, S \in Rows : J = c.jobs \cup {d} /\ S = [c.stamps EXCEPT ![d] = v]
    BY <1>4 DEF BuildType, Rows
  <2>2. [c EXCEPT !.jobs = @ \cup {d}, !.stamps[d] = v] = [c EXCEPT !.jobs = J, !.stamps = S]
    BY <2>1, Zenon
  <2>3. [c EXCEPT !.jobs = J, !.stamps = S] \in BuildType
    BY <1>4 DEF BuildType
  <2>4. Progress(c, [c EXCEPT !.jobs = J, !.stamps = S]) /\ [c EXCEPT !.jobs = J, !.stamps = S].pc = c.pc
    BY <1>4, <2>3 DEF BuildType, Progress
  <2>5. QED
    BY <2>2, <2>4
<1>5. ASSUME NEW c \in BuildType
      PROVE  /\ Progress(c, [c EXCEPT !.errors = TRUE, !.complete = FALSE])
             /\ [c EXCEPT !.errors = TRUE, !.complete = FALSE].pc = c.pc
             /\ Progress(c, [c EXCEPT !.skipped = TRUE])
             /\ [c EXCEPT !.skipped = TRUE].pc = c.pc
  <2>1. [c EXCEPT !.errors = TRUE, !.complete = FALSE] \in BuildType
    BY <1>5 DEF BuildType
  <2>2. [c EXCEPT !.skipped = TRUE] \in BuildType
    BY <1>5 DEF BuildType
  <2>3. QED
    BY <1>5, <2>1, <2>2 DEF BuildType, Progress
<1>6. rest \in BuildType /\ \A c : Progress(rest, c) => Progress(b, c)
  BY <1>2 DEF Progress
<1>7. CASE result = "hidden"
  <2>1. Scanned(b, d, result) = [rest EXCEPT !.errors = TRUE, !.complete = FALSE]
    BY <1>7 DEF Scanned, rest
  <2>2. QED
    BY <1>2, <1>5, <1>6, <2>1
<1>8. CASE result = "unreadable"
  <2>1. PICK R \in SUBSET Docs : R = rest.rejected \cup {d}
    BY <1>6 DEF BuildType
  <2>2. Scanned(b, d, result) = [rest EXCEPT !.errors = TRUE, !.complete = FALSE, !.rejected = R]
    BY <1>8, <2>1 DEF Scanned, rest
  <2>3. QED
    BY <1>2, <1>3, <1>6, <2>2
<1>9. CASE result = "ok"
  <2>1. CASE source[d] = 0
    <3>1. Scanned(b, d, result) = rest
      BY <1>9, <2>1, CatalogAssumption DEF Scanned, rest
    <3>2. QED
      BY <1>2, <3>1
  <2>2. CASE source[d] # 0 /\ source[d] \in Oversized
    <3>1. Scanned(b, d, result) = [rest EXCEPT !.skipped = TRUE]
      BY <1>9, <2>2 DEF Scanned, rest
    <3>2. QED
      BY <1>2, <1>5, <1>6, <3>1
  <2>3. CASE source[d] # 0 /\ source[d] \notin Oversized
    <3>1. PICK v \in Versions : v = IF b.hashFirst THEN source[d] ELSE 0
      BY <1>1
    <3>2. Scanned(b, d, result) = [rest EXCEPT !.jobs = @ \cup {d}, !.stamps[d] = v]
      BY <1>9, <2>3, <3>1 DEF Scanned, rest
    <3>3. QED
      BY <1>2, <1>4, <1>6, <3>2
  <2>4. QED
    BY <2>1, <2>2, <2>3
<1>10. QED
  BY <1>7, <1>8, <1>9

LEMMA ParsedFacts ==
    ASSUME CatalogInv, NEW b \in BuildType, NEW d \in Docs, NEW result \in {"ok", "unreadable", "unparsable"}
    PROVE  Progress(b, Parsed(b, d, result)) /\ Parsed(b, d, result).pc = b.pc
<1> DEFINE rest == [b EXCEPT !.jobs = @ \ {d}]
           failed == result = "unparsable"
           moved == b.hashFirst /\ (result = "unreadable" \/ source[d] # b.stamps[d])
           gone == result = "unreadable" \/ source[d] = 0
<1>1. source[d] \in Versions /\ 0 \in Versions
  BY CatalogAssumption DEF CatalogInv, Types, Rows, Versions
<1>2. Progress(b, rest) /\ rest.pc = b.pc /\ rest \in BuildType
  <2>1. PICK J \in SUBSET Docs : J = b.jobs \ {d}
    BY DEF BuildType
  <2>2. rest = [b EXCEPT !.jobs = J]
    BY <2>1
  <2> HIDE DEF rest
  <2>3. rest \in BuildType
    BY <2>2 DEF BuildType
  <2>4. QED
    BY <2>2, <2>3 DEF BuildType, Progress
<1> HIDE DEF rest
<1>3. \A c : Progress(rest, c) => Progress(b, c)
  BY <1>2 DEF Progress
<1>4. CASE moved
  <2>1. Parsed(b, d, result) = [rest EXCEPT !.changed = TRUE]
    BY <1>4 DEF Parsed, rest
  <2>2. [rest EXCEPT !.changed = TRUE] \in BuildType
    BY <1>2 DEF BuildType
  <2>3. Progress(rest, [rest EXCEPT !.changed = TRUE]) /\ [rest EXCEPT !.changed = TRUE].pc = rest.pc
    BY <1>2, <2>2 DEF BuildType, Progress
  <2>4. QED
    BY <1>2, <1>3, <2>1, <2>3
<1>5. CASE ~moved /\ gone
  <2>1. PICK R \in SUBSET Docs : R = rest.rejected \cup {d}
    BY <1>2 DEF BuildType
  <2>2. Parsed(b, d, result) = [rest EXCEPT !.rejected = R, !.errors = TRUE]
    BY <1>5, <2>1 DEF Parsed, rest
  <2>3. [rest EXCEPT !.rejected = R, !.errors = TRUE] \in BuildType
    BY <1>2 DEF BuildType
  <2>4. /\ Progress(rest, [rest EXCEPT !.rejected = R, !.errors = TRUE])
        /\ [rest EXCEPT !.rejected = R, !.errors = TRUE].pc = rest.pc
    BY <1>2, <2>3 DEF BuildType, Progress
  <2>5. QED
    BY <1>2, <1>3, <2>2, <2>4
<1>6. CASE ~moved /\ ~gone /\ source[d] \in Oversized
  <2>1. Parsed(b, d, result) = [rest EXCEPT !.skipped = TRUE]
    BY <1>6 DEF Parsed, rest
  <2>2. [rest EXCEPT !.skipped = TRUE] \in BuildType
    BY <1>2 DEF BuildType
  <2>3. Progress(rest, [rest EXCEPT !.skipped = TRUE]) /\ [rest EXCEPT !.skipped = TRUE].pc = rest.pc
    BY <1>2, <2>2 DEF BuildType, Progress
  <2>4. QED
    BY <1>2, <1>3, <2>1, <2>3
<1>7. CASE ~moved /\ ~gone /\ source[d] \notin Oversized
  <2>1. PICK v \in Versions : v = IF failed THEN 0 ELSE source[d]
    BY <1>1
  <2>2. PICK S \in Rows, T \in Rows : /\ S = [rest.stamps EXCEPT ![d] = source[d]]
                                      /\ T = [rest.rows EXCEPT ![d] = v]
    BY <1>1, <1>2 DEF BuildType, Rows
  <2>3. PICK R \in SUBSET Docs : R = IF failed THEN rest.rejected \cup {d} ELSE rest.rejected
    BY <1>2 DEF BuildType
  <2>4. PICK e \in BOOLEAN : e = (rest.errors \/ failed)
    BY Zenon
  <2> DEFINE c == [rest EXCEPT !.stamps = S, !.rows = T, !.rejected = R, !.errors = e]
  <2>5. Parsed(b, d, result) = [rest EXCEPT !.stamps[d] = source[d],
                                            !.rows[d] = IF failed THEN 0 ELSE source[d],
                                            !.rejected = IF failed THEN @ \cup {d} ELSE @,
                                            !.errors = @ \/ failed]
    BY <1>7 DEF Parsed, rest
  <2>6. Parsed(b, d, result) = c
    BY <2>1, <2>2, <2>3, <2>4, <2>5, Zenon
  <2>7. c \in BuildType
    BY <1>2 DEF BuildType
  <2>8. Progress(rest, c) /\ c.pc = rest.pc
    BY <1>2, <2>7 DEF BuildType, Progress
  <2> HIDE DEF c
  <2>9. QED
    BY <1>2, <1>3, <2>6, <2>8
<1>8. QED
  BY <1>4, <1>5, <1>6, <1>7

\* Steps of the thread that keep its parent, its file and the rest of the process.
LEMMA ScansAndParses ==
    ASSUME CatalogInv, NEW p \in Procs, ScanDoc(p) \/ \E d \in Docs : Parse(p, d)
    PROVE  CatalogInv'
<1> DEFINE b == build[p]
<1>1. Types /\ b \in BuildType /\ BuildInv(p) /\ Shape(b) /\ faults \in 0..MaxFaults
  BY DEF CatalogInv, Types, BuildInv
<1>2. ASSUME NEW c \in BuildType, Progress(b, c), build' = [build EXCEPT ![p] = c],
             UNCHANGED <<source, written, control, log, rt, updates, retiring, window, base, fence, crashes>>,
             faults' \in 0..MaxFaults,
             \/ c.pc = b.pc /\ b.pc \in {"begin", "route", "write"}
             \/ b.pc = "scan" /\ c.pc \in {"scan", IF b.force THEN "begin" ELSE "route"}
      PROVE  CatalogInv'
  <2>1. Types'
    BY <1>1, <1>2 DEF Types
  <2>2. /\ c.old = b.old /\ c.parent = b.parent /\ c.expected = b.expected /\ c.gen = b.gen
        /\ c.db = b.db /\ c.force = b.force /\ c.reuse = b.reuse
    BY <1>2 DEF Progress
  <2>3. Shape(c)
    <3>1. CASE c.pc = b.pc
      BY <1>1, <2>2, <3>1 DEF Shape
    <3>2. CASE b.pc = "scan" /\ c.pc \in {"scan", IF b.force THEN "begin" ELSE "route"}
      BY <1>1, <2>2, <3>2 DEF Shape, Owning, Pinning
    <3>3. QED
      BY <1>2, <3>1, <3>2
  <2>4. c.pc \in Owning => b.pc \in Owning
    BY <1>2 DEF Owning
  <2>5. c.pc \notin {"check", "lock", "publish"}
    BY <1>2
  <2>6. QED
    BY <1>2, <2>1, <2>2, <2>3, <2>4, <2>5, BuildStep
<1>3. CASE ScanDoc(p)
  <2>1. PICK d \in b.todo, result \in {"ok", "hidden", "unreadable"} :
           /\ result # "ok" => faults < MaxFaults /\ source[d] # 0
           /\ faults' = faults + (IF result = "ok" THEN 0 ELSE 1)
           /\ build' = [build EXCEPT ![p] = Scanned(b, d, result)]
    BY <1>3 DEF ScanDoc
  <2>2. /\ b.pc = "scan"
        /\ UNCHANGED <<source, written, control, log, rt, updates, retiring, window, base, fence, crashes>>
    BY <1>3 DEF ScanDoc, disk, history
  <2>3. d \in Docs /\ faults' \in 0..MaxFaults
    BY <1>1, <2>1, CatalogAssumption DEF BuildType
  <2>4. PICK c : c = Scanned(b, d, result)
    OBVIOUS
  <2>5. Progress(b, c) /\ c.pc \in {"scan", IF b.force THEN "begin" ELSE "route"}
    BY <1>1, <2>3, <2>4, ScannedFacts
  <2>6. c \in BuildType
    BY <2>5 DEF Progress
  <2>7. build' = [build EXCEPT ![p] = c]
    BY <2>1, <2>4
  <2>8. QED
    BY <1>2, <2>2, <2>3, <2>5, <2>6, <2>7
<1>4. ASSUME NEW d \in Docs, Parse(p, d) PROVE CatalogInv'
  <2>1. PICK result \in {"ok", "unreadable", "unparsable"} :
           /\ result # "ok" => faults < MaxFaults
           /\ faults' = faults + (IF result = "ok" THEN 0 ELSE 1)
           /\ build' = [build EXCEPT ![p] = Parsed(b, d, result)]
    BY <1>4 DEF Parse
  <2>2. /\ b.pc \in {"begin", "route", "write"}
        /\ UNCHANGED <<source, written, control, log, rt, updates, retiring, window, base, fence, crashes>>
    BY <1>4 DEF Parse, disk, history
  <2>3. faults' \in 0..MaxFaults
    BY <1>1, <2>1, CatalogAssumption
  <2>4. PICK c : c = Parsed(b, d, result)
    OBVIOUS
  <2>5. Progress(b, c) /\ c.pc = b.pc
    BY <1>1, <2>4, ParsedFacts
  <2>6. c \in BuildType
    BY <2>5 DEF Progress
  <2>7. build' = [build EXCEPT ![p] = c]
    BY <2>1, <2>4
  <2>8. QED
    BY <1>2, <2>2, <2>3, <2>5, <2>6, <2>7
<1>5. QED
  BY <1>3, <1>4

\* Updates carry what the session knows.
LEMMA SendType ==
    ASSUME CatalogInv, NEW p \in Procs,
           NEW kind \in {"Activating", "Complete", "Cancelled", "Failed"},
           Send(p, kind, build[p])
    PROVE  updates' \in [Procs -> Seq(UpdateType)]
<1> DEFINE u == [kind |-> kind, gen |-> build[p].gen, errors |-> build[p].errors,
                 skipped |-> build[p].skipped]
<1>1. updates \in [Procs -> Seq(UpdateType)] /\ build[p] \in BuildType
  BY DEF CatalogInv, Types
<1>2. u \in UpdateType
  BY <1>1 DEF UpdateType, BuildType
<1>3. updates' = [updates EXCEPT ![p] = Append(@, u)]
  BY DEF Send
<1> HIDE DEF u
<1>4. Append(updates[p], u) \in Seq(UpdateType)
  BY <1>1, <1>2
<1>5. QED
  BY <1>1, <1>3, <1>4

LEMMA Stages ==
    ASSUME CatalogInv, NEW p \in Procs,
           \/ Activate(p) \/ CheckSources(p) \/ LockPublication(p) \/ Discard(p)
           \/ ChooseRoute(p) /\ CanReuse(build[p])
    PROVE  CatalogInv'
<1> DEFINE b == build[p]
<1>1. /\ Types /\ b \in BuildType /\ BuildInv(p) /\ Shape(b) /\ faults \in 0..MaxFaults
      /\ b.pc \in {"check", "lock", "publish"} /\ ~b.reuse => log[b.db] = Sealed(b)
  BY DEF CatalogInv, Types, BuildInv
<1>2. ASSUME NEW c \in BuildType, build' = [build EXCEPT ![p] = c],
             c.rows = b.rows, c.rejected = b.rejected, Progress(b, [c EXCEPT !.reuse = b.reuse]),
             UNCHANGED <<source, written, control, log, rt, retiring, window, base, crashes>>,
             Shape(c), Types', c.pc \in Owning => b.pc \in Owning \/ c.db = NoDb,
             c.pc \in {"check", "lock", "publish"} /\ ~c.reuse =>
                b.pc \in {"check", "lock", "publish"} /\ ~b.reuse,
             c.pc = "publish" => b.pc # "publish" /\ ExclusiveFree /\ BaseUnchanged(c)
      PROVE  CatalogInv'
  <2>1. /\ c.old = b.old /\ c.parent = b.parent /\ c.expected = b.expected /\ c.gen = b.gen
        /\ c.db = b.db
    BY <1>2 DEF Progress, BuildType
  <2>2. Sealed(c) = Sealed(b)
    BY <1>2, <2>1 DEF Sealed
  <2>3. QED
    BY <1>1, <1>2, <2>1, <2>2, BuildStep
<1>3. CASE Activate(p)
  <2> DEFINE c == [b EXCEPT !.flag = "activating", !.pc = IF b.reuse THEN "check" ELSE "seal"]
  <2>1. /\ b.pc \in {"reuse", "write"} /\ Send(p, "Activating", b) /\ build' = [build EXCEPT ![p] = c]
        /\ UNCHANGED <<source, written, control, log, rt, retiring, window, base, fence, faults, crashes>>
    BY <1>3 DEF Activate, disk, history, budget
  <2>2. c.pc = IF b.reuse THEN "check" ELSE "seal"
    BY <1>1 DEF BuildType
  <2>3. /\ c \in BuildType /\ c.rows = b.rows /\ c.rejected = b.rejected /\ c.old = b.old
        /\ c.parent = b.parent /\ c.expected = b.expected /\ c.gen = b.gen /\ c.db = b.db
        /\ c.force = b.force /\ c.reuse = b.reuse
    BY <1>1, ZenonT(60) DEF BuildType
  <2> HIDE DEF c
  <2>4. Progress(b, [c EXCEPT !.reuse = b.reuse])
    BY <1>1, <2>3 DEF BuildType, Progress
  <2>5. updates' \in [Procs -> Seq(UpdateType)]
    BY <2>1, SendType
  <2>6. Types'
    BY <1>1, <2>1, <2>3, <2>5 DEF Types
  <2>7. (b.pc = "reuse" => b.reuse) /\ (b.pc = "write" => ~b.reuse)
    BY <1>1 DEF Shape
  <2>8. CASE b.pc = "reuse"
    <3>1. c.pc = "check" /\ c.reuse /\ c.old # NoDb /\ c.db = NoDb
      BY <1>1, <2>2, <2>3, <2>7, <2>8 DEF Shape, Pinning, Owning
    <3>2. Shape(c)
      BY <3>1 DEF Shape, NoDb
    <3>3. QED
      BY <1>2, <2>1, <2>3, <2>4, <2>6, <3>1, <3>2
  <2>9. CASE b.pc = "write"
    <3>1. c.pc = "seal" /\ ~c.reuse /\ c.old # NoDb /\ c.db # NoDb /\ c.db # 0
      BY <1>1, <2>2, <2>3, <2>7, <2>9 DEF Shape, Pinning, Owning
    <3>2. Shape(c)
      BY <3>1 DEF Shape, Owning
    <3>3. b.pc \in Owning
      BY <2>9 DEF Owning
    <3>4. QED
      BY <1>2, <2>1, <2>3, <2>4, <2>6, <3>1, <3>2, <3>3
  <2>10. QED
    BY <2>1, <2>8, <2>9
<1>4. ASSUME NEW x \in {"reuse", "lock", "publish", "drop"}, NEW f \in {b.flag, "publishing"},
             NEW o \in {"none", "error", "receipt"}, NEW u \in BOOLEAN,
             build' = [build EXCEPT ![p] = [b EXCEPT !.pc = x, !.flag = f, !.outcome = o, !.reuse = u]],
             UNCHANGED <<source, written, control, log, rt, retiring, updates, window, base, crashes>>,
             faults' \in 0..MaxFaults, fence' \in [Procs -> Rows],
             CASE x = "reuse" -> u /\ b.pc = "route"
               [] x = "lock" -> u = b.reuse /\ b.pc = "check"
               [] x = "publish" -> u = b.reuse /\ b.pc = "lock" /\ ExclusiveFree /\ BaseUnchanged(b)
               [] x = "drop" -> u = b.reuse /\ b.pc \in Pinning
      PROVE  CatalogInv'
  <2> DEFINE c == [b EXCEPT !.pc = x, !.flag = f, !.outcome = o, !.reuse = u]
  <2>1. /\ c \in BuildType /\ c.pc = x /\ c.rows = b.rows /\ c.rejected = b.rejected /\ c.old = b.old
        /\ c.parent = b.parent /\ c.expected = b.expected /\ c.gen = b.gen /\ c.db = b.db
        /\ c.force = b.force /\ c.reuse = u
    <3>1. f \in {"running", "cancelled", "activating", "publishing"}
      BY <1>1 DEF BuildType
    <3>2. c \in BuildType
      BY <1>1, <3>1, ZenonT(60) DEF BuildType
    <3>3. QED
      BY <1>1, <3>2 DEF BuildType
  <2> HIDE DEF c
  <2>2. Progress(b, [c EXCEPT !.reuse = b.reuse])
    BY <1>1, <2>1 DEF BuildType, Progress
  <2>3. Types'
    BY <1>1, <1>4, <2>1 DEF Types, c
  <2>4. b.pc \in Pinning /\ b.old # NoDb /\ b.db # 0
    BY <1>1, <1>4 DEF Shape, Pinning
  <2>5. BaseUnchanged(b) => BaseUnchanged(c)
    BY <2>1 DEF BaseUnchanged
  <2>6. CASE x = "reuse"
    <3>1. c.db = NoDb /\ u
      BY <1>1, <1>4, <2>1, <2>6 DEF Shape, Owning
    <3>2. Shape(c)
      BY <2>1, <2>4, <2>6, <3>1 DEF Shape, Owning
    <3>3. QED
      BY <1>2, <1>4, <2>1, <2>2, <2>3, <2>6, <3>2 DEF Owning, c
  <2>7. CASE x = "drop"
    <3>1. Shape(c)
      BY <2>1, <2>4, <2>7 DEF Shape, Owning
    <3>2. QED
      BY <1>2, <1>4, <2>1, <2>2, <2>3, <2>7, <3>1 DEF Owning, c
  <2>8. CASE x \in {"lock", "publish"}
    <3>1. u = b.reuse /\ b.pc \in {"check", "lock"} /\ (x = "publish" => ExclusiveFree /\ BaseUnchanged(b))
      BY <1>4, <2>8
    <3>2. Shape(c)
      BY <1>1, <2>1, <2>4, <2>8, <3>1 DEF Shape, Owning
    <3>3. b.pc \in Owning /\ b.pc # "publish"
      BY <3>1 DEF Owning
    <3>4. QED
      BY <1>2, <1>4, <2>1, <2>2, <2>3, <2>5, <2>8, <3>1, <3>2, <3>3 DEF c
  <2>9. QED
    BY <2>6, <2>7, <2>8
<1>5. b = [b EXCEPT !.pc = b.pc, !.flag = b.flag, !.outcome = b.outcome, !.reuse = b.reuse]
  BY <1>1 DEF BuildType
<1>6. CASE CheckSources(p)
  <2>1. PICK x \in {"lock", "drop"}, o \in {"none", "error"} :
           build' = [build EXCEPT ![p] = [b EXCEPT !.pc = x, !.outcome = o]]
    BY <1>6 DEF CheckSources
  <2>2. /\ b.pc = "check" /\ fence' = [fence EXCEPT ![p] = source]
        /\ UNCHANGED <<source, written, control, log, rt, retiring, updates, window, base, faults, crashes>>
    BY <1>6 DEF CheckSources, disk, budget
  <2>3. [b EXCEPT !.pc = x, !.outcome = o] = [b EXCEPT !.pc = x, !.flag = b.flag, !.outcome = o, !.reuse = b.reuse]
    BY <1>1 DEF BuildType
  <2>4. fence' \in [Procs -> Rows] /\ faults' \in 0..MaxFaults /\ b.pc \in Pinning /\ b.reuse \in BOOLEAN
    BY <1>1, <2>2 DEF Types, Pinning, BuildType
  <2>5. QED
    BY <1>4, <2>1, <2>2, <2>3, <2>4
<1>7. CASE LockPublication(p)
  <2>1. /\ b.pc = "lock" /\ ExclusiveFree
        /\ UNCHANGED <<source, written, control, log, rt, retiring, updates, window, base, fence, faults, crashes>>
        /\ build' = [build EXCEPT ![p] =
              IF BaseUnchanged(b) THEN [b EXCEPT !.pc = "publish", !.flag = "publishing"]
                                  ELSE [b EXCEPT !.pc = "drop", !.outcome = "error"]]
    BY <1>7 DEF LockPublication, disk, history, budget
  <2>2. /\ [b EXCEPT !.pc = "publish", !.flag = "publishing"]
             = [b EXCEPT !.pc = "publish", !.flag = "publishing", !.outcome = b.outcome, !.reuse = b.reuse]
        /\ [b EXCEPT !.pc = "drop", !.outcome = "error"]
             = [b EXCEPT !.pc = "drop", !.flag = b.flag, !.outcome = "error", !.reuse = b.reuse]
    BY <1>1 DEF BuildType
  <2>3. /\ fence' \in [Procs -> Rows] /\ faults' \in 0..MaxFaults /\ b.pc \in Pinning
        /\ b.reuse \in BOOLEAN /\ b.outcome \in {"none", "error", "receipt"}
    BY <1>1, <2>1 DEF Types, Pinning, BuildType
  <2>4. CASE BaseUnchanged(b)
    BY <1>4, <2>1, <2>2, <2>3, <2>4
  <2>5. CASE ~BaseUnchanged(b)
    BY <1>4, <2>1, <2>2, <2>3, <2>5
  <2>6. QED
    BY <2>4, <2>5
<1>8. CASE Discard(p)
  <2>1. /\ b.pc \in {"reuse", "write", "seal", "check", "lock", "publish"}
        /\ UNCHANGED faults \/ (faults < MaxFaults /\ faults' = faults + 1)
        /\ build' = [build EXCEPT ![p] = [b EXCEPT !.pc = "drop", !.outcome = "error"]]
        /\ UNCHANGED <<source, written, control, log, rt, retiring, updates, window, base, fence, crashes>>
    BY <1>8 DEF Discard, disk, history
  <2>2. [b EXCEPT !.pc = "drop", !.outcome = "error"]
             = [b EXCEPT !.pc = "drop", !.flag = b.flag, !.outcome = "error", !.reuse = b.reuse]
    BY <1>1 DEF BuildType
  <2>3. /\ fence' \in [Procs -> Rows] /\ b.pc \in Pinning /\ b.reuse \in BOOLEAN
        /\ faults' \in 0..MaxFaults
    BY <1>1, <2>1, CatalogAssumption, SMTT(60) DEF Types, Pinning, BuildType
  <2>4. QED
    BY <1>4, <2>1, <2>2, <2>3
<1>9. CASE ChooseRoute(p) /\ CanReuse(build[p])
  <2>1. /\ b.pc = "route"
        /\ build' = [build EXCEPT ![p] = [b EXCEPT !.pc = "reuse", !.reuse = TRUE]]
        /\ UNCHANGED <<source, written, control, log, rt, retiring, updates, window, base, fence, faults, crashes>>
    BY <1>9 DEF ChooseRoute, disk, history, budget
  <2>2. [b EXCEPT !.pc = "reuse", !.reuse = TRUE]
             = [b EXCEPT !.pc = "reuse", !.flag = b.flag, !.outcome = b.outcome, !.reuse = TRUE]
    BY <1>1 DEF BuildType
  <2>3. /\ fence' \in [Procs -> Rows] /\ faults' \in 0..MaxFaults
        /\ b.outcome \in {"none", "error", "receipt"}
    BY <1>1, <2>1 DEF Types, BuildType
  <2>4. QED
    BY <1>4, <2>1, <2>2, <2>3
<1>10. QED
  BY <1>3, <1>6, <1>7, <1>8, <1>9

\* What a thread relies on stays when the files it has pinned do.
LEMMA RtKept ==
    ASSUME CatalogInv, NEW p \in Procs, rt'[p] = rt[p], window'[p] = window[p], PublicationStays,
           rt[p].db # NoDb => log'[rt[p].db] = log[rt[p].db]
    PROVE  RtInv(p)'
<1>1. RtInv(p)
  BY DEF CatalogInv
<1>2. Openable => Openable'
  BY DEF Openable, PublicationStays, Current
<1>3. rt[p].pc = "read" => Current(rt[p].db)' = Current(rt[p].db)
  BY <1>1 DEF RtInv, Current
<1>4. QED
  BY <1>1, <1>2, <1>3 DEF RtInv, PublicationStays

LEMMA NoBuildInv ==
    ASSUME NEW p \in Procs, build'[p] = NoBuild
    PROVE  BuildInv(p)' /\ Own(p)' = {}
<1>1. build'[p].pc = "none" /\ build'[p].old = NoDb /\ build'[p].db = NoDb
  BY NoBuildType
<1>2. Shape(build[p])'
  BY <1>1 DEF Shape, Pinning, Owning, NoDb
<1>3. QED
  BY <1>1, <1>2 DEF BuildInv, Own, Owning

LEMMA Sessions ==
    ASSUME CatalogInv, NEW p \in Procs, BeginSession(p) \/ StopScan(p)
    PROVE  CatalogInv'
<1> DEFINE b == build[p]
<1>1. /\ Types /\ b \in BuildType /\ BuildInv(p) /\ Shape(b) /\ retiring[p] \in SUBSET Dbs
      /\ control \in ControlType
  BY DEF CatalogInv, Types, BuildInv
<1>2. ASSUME rt' = rt, window' = window, log' = log, control' = control PROVE RtInv(p)'
  <2>1. PublicationStays
    BY <1>2 DEF PublicationStays
  <2>2. QED
    BY <1>2, <2>1, RtKept
<1>3. NoBase \in States
  BY DEF NoBase, States
<1>4. ASSUME NEW kind \in {"Cancelled", "Failed"}, Send(p, kind, b),
             build' = [build EXCEPT ![p] = NoBuild],
             NEW D \in SUBSET Dbs, retiring' = [retiring EXCEPT ![p] = @ \cup D],
             \A db \in D : db \in Shared(p) \/ (db = control.db /\ log[control.db] # <<>>),
             NEW x \in States, base' = [base EXCEPT ![p] = x], faults' \in 0..MaxFaults,
             UNCHANGED <<source, written, control, log, rt, window, fence, crashes>>
      PROVE  CatalogInv'
  <2>1. updates' \in [Procs -> Seq(UpdateType)]
    BY <1>4, SendType
  <2>2. Types'
    BY <1>1, <1>4, <2>1, NoBuildType DEF Types
  <2>3. /\ build'[p] = NoBuild /\ retiring'[p] = retiring[p] \cup D
        /\ \A q \in Procs \ {p} : /\ build'[q] = build[q] /\ retiring'[q] = retiring[q]
                                  /\ base'[q] = base[q] /\ rt'[q] = rt[q] /\ window'[q] = window[q]
    BY <1>1, <1>4 DEF Types
  <2>4. BuildInv(p)' /\ Own(p)' = {} /\ RtInv(p)'
    BY <1>2, <1>4, <2>3, NoBuildInv
  <2>5. \A db \in Shared(p)' \ {NoDb} :
           db \in Shared(p) \/ (db = control.db /\ log[control.db] # <<>>)
    BY <1>4, <2>3, NoBuildType DEF Shared
  <2>6. LocksTaken(p)
    BY <1>4, <2>3, NoBuildType DEF LocksTaken
  <2>7. QED
    BY <1>4, <2>2, <2>3, <2>4, <2>5, <2>6, NoBuildType, QuietStep
<1>5. CASE StopScan(p)
  <2>1. /\ build' = [build EXCEPT ![p] = NoBuild]
        /\ retiring' = [retiring EXCEPT ![p] = @ \cup ({b.old} \ {NoDb})]
        /\ base' = [base EXCEPT ![p] = NoBase]
        /\ UNCHANGED <<source, written, control, log, rt, window, fence, crashes>>
    BY <1>5 DEF StopScan, disk
  <2>5. PICK kind \in {"Cancelled", "Failed"} : Send(p, kind, b)
    BY <1>5 DEF StopScan
  <2>6. faults' \in 0..MaxFaults
    BY <1>1, <1>5, CatalogAssumption DEF StopScan, Types
  <2>2. PICK D \in SUBSET Dbs : D = {b.old} \ {NoDb}
    BY <1>1 DEF BuildType
  <2>3. \A db \in D : db \in Shared(p)
    BY <2>2 DEF Shared
  <2>4. QED
    BY <1>3, <1>4, <2>1, <2>2, <2>3, <2>5, <2>6
<1>6. CASE BeginSession(p)
  <2> DEFINE expected == Current(control.db).gen
             fp == IF b.force \/ expected = 0 THEN NoFingerprint ELSE control.fp
             c == [b EXCEPT !.pc = IF b.force THEN "route" ELSE "scan",
                            !.parent = Publication, !.expected = expected, !.old = control.db, !.fp = fp,
                            !.hashFirst = fp # NoFingerprint /\ Current(control.db).rejected = {}]
  <2>1. /\ b.pc = "begin" /\ faults' \in 0..MaxFaults
        /\ UNCHANGED <<source, written, control, log, rt, window, fence, faults, crashes>>
    BY <1>1, <1>6 DEF BeginSession, disk, budget, Types
  <2>2. CASE ~Openable \/ b.gen <= expected
    <3>1. /\ Send(p, "Failed", b) /\ build' = [build EXCEPT ![p] = NoBuild] /\ base' = base
          /\ retiring' = [retiring EXCEPT ![p] = IF Openable THEN @ \cup {control.db} ELSE @]
      BY <1>6, <2>2 DEF BeginSession
    <3>2. PICK D \in SUBSET Dbs : D = IF Openable THEN {control.db} ELSE {}
      BY <1>1 DEF ControlType
    <3>3. retiring' = [retiring EXCEPT ![p] = @ \cup D]
      BY <3>1, <3>2
    <3>4. \A db \in D : db = control.db /\ log[control.db] # <<>>
      BY <3>2 DEF Openable
    <3>5. PICK x \in States : x = base[p]
      BY <1>1 DEF Types
    <3>6. base' = [base EXCEPT ![p] = x]
      BY <1>1, <3>1, <3>5 DEF Types
    <3>7. QED
      BY <1>4, <2>1, <3>1, <3>3, <3>4, <3>6
  <2>3. CASE Openable /\ ~(b.gen <= expected)
    <3>1. /\ build' = [build EXCEPT ![p] = c] /\ base' = [base EXCEPT ![p] = Current(control.db)]
          /\ UNCHANGED <<updates, retiring>>
      BY <1>6, <2>3 DEF BeginSession
    <3>2. /\ control.db \in Dbs /\ log[control.db] # <<>> /\ Current(control.db) \in Content
          /\ expected \in 0..MaxGen
      BY <2>3, OpenableFacts DEF Content
    <3>3. /\ Publication \in [db : Dbs \cup {NoDb}, gen : 0..MaxGen] /\ Publication.db = control.db
          /\ fp \in Rows \cup {NoFingerprint}
      BY <1>1, <3>2 DEF Publication, ControlType
    <3>4. PICK h \in BOOLEAN : h = (fp # NoFingerprint /\ Current(control.db).rejected = {})
      BY Zenon
    <3>5. PICK x \in {"route", "scan"} : x = IF b.force THEN "route" ELSE "scan"
      OBVIOUS
    <3>6. c = [b EXCEPT !.pc = x, !.parent = Publication, !.expected = expected, !.old = control.db,
                        !.fp = fp, !.hashFirst = h]
      BY <3>4, <3>5
    <3> HIDE DEF c, fp
    <3>7. c \in BuildType
      BY <1>1, <3>2, <3>3, <3>6 DEF BuildType
    <3>8. /\ c.pc = x /\ c.parent = Publication /\ c.expected = expected /\ c.old = control.db
          /\ c.db = b.db /\ c.reuse = b.reuse /\ c.gen = b.gen /\ c.force = b.force
      BY <1>1, <3>6 DEF BuildType
    <3>9. Types'
      BY <1>1, <2>1, <3>1, <3>2, <3>7 DEF Types, States
    <3>10. /\ build'[p] = c /\ base'[p] = Current(control.db)
           /\ \A q \in Procs \ {p} : build'[q] = build[q] /\ base'[q] = base[q]
      BY <1>1, <3>1 DEF Types
    <3>11. Shape(c)
      <4>1. control.db # NoDb /\ c.db = NoDb /\ ~c.reuse
        BY <1>1, <2>1, <3>2, <3>8, CatalogAssumption DEF Shape, Dbs, NoDb, Owning
      <4>2. QED
        BY <3>8, <4>1 DEF Shape, Owning, NoDb
    <3>12. BuildInv(p)'
      <4>1. Current(build[p].old)' = Current(control.db)
        BY <2>1, <3>8, <3>10 DEF Current
      <4>2. Shape(build[p])'
        BY <3>10, <3>11
      <4>3. expected < b.gen
        <5>1. b.gen \in 0..MaxGen
          BY <1>1 DEF BuildType
        <5>2. QED
          BY <2>3, <3>2, <5>1, CatalogAssumption
      <4>4. expected <= expected
        BY <3>2, CatalogAssumption
      <4> HIDE DEF expected
      <4>5. /\ build'[p].parent.db = build'[p].old
            /\ base'[p] \in Content /\ base'[p].gen = build'[p].expected
            /\ build'[p].expected < build'[p].gen
        BY <3>2, <3>3, <3>8, <3>10, <4>3 DEF expected
      <4>6. build'[p].expected <= (Current(build[p].old)').gen /\ Current(build[p].old)' = base'[p]
        BY <3>8, <3>10, <4>1, <4>4 DEF expected
      <4>7. build'[p].pc \notin {"check", "lock", "publish"}
        BY <3>8, <3>10
      <4>8. QED
        BY <4>2, <4>5, <4>6, <4>7 DEF BuildInv
    <3>13. /\ \A db \in Shared(p)' \ {NoDb} :
                 db \in Shared(p) \/ (db = control.db /\ log[control.db] # <<>>)
           /\ Own(p)' = {}
      BY <2>1, <3>1, <3>2, <3>8, <3>10 DEF Shared, Own, Owning
    <3>14. LocksTaken(p)
      BY <2>1, <3>8, <3>10 DEF LocksTaken
    <3>15. RtInv(p)'
      BY <1>2, <2>1
    <3>16. QED
      BY <2>1, <3>1, <3>8, <3>9, <3>10, <3>12, <3>13, <3>14, <3>15, QuietStep
  <2>4. QED
    BY <2>2, <2>3
<1>7. QED
  BY <1>5, <1>6

\* A write to a file that is private, or did not exist, touches nobody else.
LEMMA PrivateWrite ==
    ASSUME CatalogInv, NEW p \in Procs, NEW db \in Dbs, NEW s \in Seq(States),
           db # 0, db # control.db, db \notin Shared(p), \A q \in Procs \ {p} : db \notin PinnedBy(q),
           db \in Own(p) \/ log[db] = <<>>, Len(s) = 1, log' = [log EXCEPT ![db] = s],
           NEW c \in BuildType, build' = [build EXCEPT ![p] = c], c.pc \in Owning \ {"publish"},
           c.db = db, c.old = build[p].old, c.parent = build[p].parent,
           c.expected = build[p].expected, c.gen = build[p].gen, Shape(c),
           c.pc \in {"check", "lock", "publish"} => s = Sealed(c),
           UNCHANGED <<source, written, control, rt, updates, retiring, window, base, fence, faults, crashes>>
    PROVE  CatalogInv'
<1>1. /\ Types /\ BuildInv(p) /\ LogInv /\ ControlInv
      /\ log \in [Dbs -> Seq(States)] /\ control.db \in Dbs
  BY DEF CatalogInv, Types, ControlType
<1>2. build'[p] = c /\ \A q \in Procs \ {p} : build'[q] = build[q]
  BY <1>1 DEF Types
<1>3. log'[db] = s /\ s # <<>> /\ \A x \in Dbs \ {db} : log'[x] = log[x]
  <2>1. Len(s) # Len(<<>>)
    OBVIOUS
  <2>2. s # <<>>
    BY <2>1, Zenon
  <2>3. QED
    BY <1>1, <2>2
<1>4. Types'
  BY <1>1 DEF Types
<1>5. LogInv'
  <2>1. ASSUME NEW x \in Dbs, NEW i \in 2..Len(log'[x]) PROVE log'[x][i] \in Content
    <3>1. CASE x = db
      <4>1. Len(log'[x]) = 1
        BY <1>3, <3>1
      <4>2. i \in 2..1
        BY <2>1, <4>1, Zenon
      <4>3. ~(i \in 2..1)
        OBVIOUS
      <4>4. QED
        BY <4>2, <4>3, Zenon
    <3>2. CASE x # db
      BY <1>1, <1>3, <2>1, <3>2 DEF LogInv
    <3>3. QED
      BY <3>1, <3>2
  <2>2. 0 \in Dbs \ {db}
    BY CatalogAssumption DEF Dbs
  <2>3. QED
    BY <1>1, <1>3, <2>1, <2>2 DEF LogInv
<1>6. ControlInv' /\ PublicationStays
  <2>1. 0 \in Dbs \ {db} /\ control.db \in Dbs \ {db}
    BY <1>1, CatalogAssumption DEF Dbs
  <2>2. log'[0] = log[0] /\ log'[control.db] = log[control.db]
    BY <1>3, <2>1
  <2>3. QED
    BY <1>1, <2>2 DEF ControlInv, PublicationStays
<1>7. \A q \in Procs : \A x \in PinnedBy(q) \ {NoDb} : x \in Dbs /\ log[x] # <<>>
  BY PinnedFiles
<1>8. OthersStay(p)
  <2>1. ASSUME NEW q \in Procs \ {p}, NEW x \in PinnedBy(q) \ {NoDb} PROVE log'[x] = log[x]
    BY <1>3, <1>7, <2>1
  <2>2. QED
    BY <1>2, <2>1 DEF OthersStay
<1>9. Shared(p)' = Shared(p) /\ Own(p)' = {db} /\ PinnedBy(p)' = Shared(p) \cup {db}
  <2>1. db # NoDb
    BY CatalogAssumption DEF Dbs, NoDb
  <2>2. QED
    BY <1>2, <2>1 DEF Shared, Own, PinnedBy
<1>10. \A x \in Shared(p) \ {NoDb} : x \in PinnedBy(p) /\ x \in Dbs /\ log'[x] = log[x] /\ log[x] # <<>>
  <2>1. Shared(p) \subseteq PinnedBy(p)
    BY DEF Shared, PinnedBy
  <2>2. QED
    BY <1>3, <1>7, <2>1
<1>11. PinsGrow(p)
  <2>1. db \in Own(p) => db \in PinnedBy(p)
    BY DEF Own, PinnedBy
  <2>2. QED
    BY <1>3, <1>9, <1>10, <2>1 DEF PinsGrow
<1>12. RtInv(p)'
  <2>1. rt[p].db # NoDb => log'[rt[p].db] = log[rt[p].db]
    BY <1>10 DEF Shared
  <2>2. QED
    BY <1>6, <2>1, RtKept
<1>13. BuildInv(p)'
  <2>1. c.old # NoDb => Current(build[p].old)' = Current(build[p].old)
    <3>1. c.old # NoDb => log'[c.old] = log[c.old]
      BY <1>10 DEF Shared
    <3>2. QED
      BY <1>2, <3>1 DEF Current
  <2>2. c.old # NoDb =>
          /\ c.parent.db = c.old
          /\ base[p] \in Content /\ base[p].gen = c.expected
          /\ c.expected < c.gen
          /\ c.expected <= Current(build[p].old).gen
          /\ Current(build[p].old).gen = c.expected => Current(build[p].old) = base[p]
    BY <1>1 DEF BuildInv
  <2>3. Shape(build[p])' /\ Sealed(build[p])' = Sealed(c)
    BY <1>2 DEF Sealed
  <2>4. QED
    BY <1>2, <1>3, <2>1, <2>2, <2>3 DEF BuildInv
<1>14. LocksTaken(p)
  BY <1>2 DEF LocksTaken
<1>15. QED
  BY <1>4, <1>5, <1>6, <1>8, <1>11, <1>12, <1>13, <1>14, LocalStep

LEMMA Allocates ==
    ASSUME CatalogInv, NEW p \in Procs, ChooseRoute(p), ~CanReuse(build[p])
    PROVE  CatalogInv'
<1> DEFINE b == build[p]
<1>1. Types /\ b \in BuildType /\ Shape(b) /\ ControlInv
  BY DEF CatalogInv, Types, BuildInv
<1>2. PICK db \in FreeDbs : /\ build' = [build EXCEPT ![p].pc = "write", ![p].db = db]
                            /\ log' = [log EXCEPT ![db] = <<NoSchema>>]
  BY DEF ChooseRoute
<1>3. /\ b.pc = "route"
      /\ UNCHANGED <<source, written, control, rt, updates, retiring, window, base, fence, faults, crashes>>
  BY DEF ChooseRoute, disk, history, budget
<1>4. db \in Dbs /\ db # 0 /\ log[db] = <<>> /\ db # NoDb
  BY CatalogAssumption DEF FreeDbs, Dbs, NoDb
<1> DEFINE c == [b EXCEPT !.pc = "write", !.db = db]
<1>5. build' = [build EXCEPT ![p] = c]
  BY <1>2
<1>6. /\ c \in BuildType /\ c.pc = "write" /\ c.db = db /\ c.old = b.old /\ c.parent = b.parent
      /\ c.expected = b.expected /\ c.gen = b.gen /\ c.reuse = b.reuse
  BY <1>1, <1>4 DEF BuildType
<1> HIDE DEF c
<1>7. Shape(c) /\ c.pc \in Owning
  BY <1>1, <1>3, <1>4, <1>6 DEF Shape, Owning, Pinning
<1>8. \A q \in Procs : db \notin PinnedBy(q)
  BY <1>4, PinnedFiles
<1>9. db # control.db /\ db \notin Shared(p)
  BY <1>1, <1>4, <1>8 DEF ControlInv, Shared, PinnedBy
<1>10. PICK s \in Seq(States) : s = <<NoSchema>> /\ Len(s) = 1
  <2>1. NoSchema \in States
    BY DEF States
  <2>2. <<NoSchema>> \in Seq(States) /\ Len(<<NoSchema>>) = 1
    BY <2>1
  <2>3. QED
    BY <2>2
<1>11. log' = [log EXCEPT ![db] = s]
  BY <1>2, <1>10
<1>12. QED
  BY <1>3, <1>4, <1>5, <1>6, <1>7, <1>8, <1>9, <1>10, <1>11, PrivateWrite

LEMMA Seals ==
    ASSUME CatalogInv, NEW p \in Procs, Seal(p)
    PROVE  CatalogInv'
<1> DEFINE b == build[p]
           c == [b EXCEPT !.pc = "check"]
<1>1. Types /\ b \in BuildType /\ Shape(b) /\ PrivateInv
  BY DEF CatalogInv, Types, BuildInv
<1>2. /\ b.pc = "seal" /\ build' = [build EXCEPT ![p] = c] /\ log' = [log EXCEPT ![b.db] = Sealed(b)]
      /\ UNCHANGED <<source, written, control, rt, updates, retiring, window, base, fence, faults, crashes>>
  BY DEF Seal, Sealed, disk, history, budget
<1>3. /\ c \in BuildType /\ c.pc = "check" /\ c.db = b.db /\ c.old = b.old /\ c.parent = b.parent
      /\ c.expected = b.expected /\ c.gen = b.gen /\ c.reuse = b.reuse /\ c.rows = b.rows
      /\ c.rejected = b.rejected
  BY <1>1 DEF BuildType
<1> HIDE DEF c
<1>4. b.db # NoDb /\ b.db # 0 /\ b.db \in Dbs /\ b.db \in Own(p) /\ ~b.reuse
  BY <1>1, <1>2 DEF Shape, Owning, Own, BuildType
<1>5. Shape(c) /\ c.pc \in Owning
  BY <1>1, <1>2, <1>3, <1>4 DEF Shape, Owning, Pinning
<1>6. /\ b.db # control.db /\ b.db \notin Shared(p) /\ \A q \in Procs \ {p} : b.db \notin PinnedBy(q)
  BY <1>1, <1>4 DEF PrivateInv
<1>7. PICK s \in Seq(States) : s = Sealed(b) /\ Len(s) = 1
  <2>1. PICK x \in Content : x = [gen |-> b.gen, rows |-> b.rows, rejected |-> b.rejected]
    BY <1>1 DEF BuildType, Content
  <2>2. Sealed(b) = <<x>> /\ x \in States
    BY <2>1 DEF Sealed, States
  <2>3. <<x>> \in Seq(States) /\ Len(<<x>>) = 1
    BY <2>2
  <2>4. QED
    BY <2>2, <2>3
<1>8. s = Sealed(c) /\ log' = [log EXCEPT ![b.db] = s]
  BY <1>2, <1>3, <1>7 DEF Sealed
<1>9. QED
  BY <1>2, <1>3, <1>4, <1>5, <1>6, <1>7, <1>8, PrivateWrite

-----------------------------------------------------------------------------
(* Pruning.                                                                *)

\* The active file and the pinned ones stay; a pruned one is gone.
LEMMA PruneFacts ==
    ASSUME CatalogInv, NEW pinned, Prune(pinned), control' = control
    PROVE  /\ log' \in [Dbs -> Seq(States)] /\ faults' \in 0..MaxFaults
           /\ \A db \in Dbs : db \in pinned => log'[db] = log[db]
           /\ LogInv' /\ ControlInv' /\ PublicationStays
<1>1. PICK gone \in SUBSET Prunable(pinned) :
         /\ gone # Prunable(pinned) => faults < MaxFaults
         /\ faults' = faults + (IF gone = Prunable(pinned) THEN 0 ELSE 1)
         /\ log' = [db \in Dbs |-> IF db \in gone THEN <<>> ELSE log[db]]
  BY DEF Prune
<1>2. /\ log \in [Dbs -> Seq(States)] /\ control.db \in Dbs /\ faults \in 0..MaxFaults
      /\ LogInv /\ ControlInv /\ 0 \in Dbs
  BY CatalogAssumption DEF CatalogInv, Types, ControlType, Dbs
<1>3. \A db \in Dbs : /\ log'[db] \in {log[db], <<>>}
                      /\ db \in pinned \/ db = control.db => log'[db] = log[db]
  BY <1>1 DEF Prunable
<1>4. log' \in [Dbs -> Seq(States)] /\ faults' \in 0..MaxFaults
  BY <1>1, <1>2, CatalogAssumption
<1>5. LogInv'
  <2>1. ASSUME NEW db \in Dbs, NEW i \in 2..Len(log'[db]) PROVE log'[db][i] \in Content
    <3>1. CASE log'[db] = log[db]
      BY <1>2, <2>1, <3>1 DEF LogInv
    <3>2. CASE log'[db] = <<>>
      BY <2>1, <3>2
    <3>3. QED
      BY <1>3, <3>1, <3>2
  <2>2. Len(log'[0]) >= 2 /\ log'[0][1] = NoSchema => log'[0][2] = Empty
    <3>1. CASE log'[0] = log[0]
      BY <1>2, <3>1 DEF LogInv
    <3>2. CASE log'[0] = <<>>
      BY <3>2
    <3>3. QED
      BY <1>2, <1>3, <3>1, <3>2
  <2>3. QED
    BY <2>1, <2>2 DEF LogInv
<1>6. ControlInv' /\ PublicationStays
  <2>1. log'[control.db] = log[control.db] /\ (log[0] = <<>> => log'[0] = <<>>)
    BY <1>2, <1>3
  <2>2. QED
    BY <1>2, <2>1 DEF ControlInv, PublicationStays
<1>7. QED
  BY <1>3, <1>4, <1>5, <1>6

LEMMA Prunes ==
    ASSUME CatalogInv, NEW p \in Procs, EndSession(p) \/ \E db \in Dbs : Retire(p, db)
    PROVE  CatalogInv'
<1> DEFINE b == build[p]
           others == UNION {PinnedBy(q) : q \in Procs \ {p}}
<1>1. /\ Types /\ b \in BuildType /\ BuildInv(p) /\ Shape(b) /\ PrivateInv
      /\ rt[p] \in RtType /\ retiring[p] \in SUBSET Dbs
  BY DEF CatalogInv, Types, BuildInv
<1>2. \A q \in Procs : \A db \in PinnedBy(q) \ {NoDb} : db \in Dbs /\ log[db] # <<>>
  BY PinnedFiles
<1>3. ASSUME NEW pinned, Prune(pinned), others \subseteq pinned, {rt[p].db} \cup retiring'[p] \subseteq pinned,
             control' = control, rt' = rt, window' = window,
             \A q \in Procs \ {p} : /\ build'[q] = build[q] /\ retiring'[q] = retiring[q]
                                    /\ base'[q] = base[q],
             PinnedBy(p)' \ {NoDb} \subseteq PinnedBy(p) \cap pinned, Own(p)' \subseteq Own(p),
             Shared(p)' \ {NoDb} \subseteq Shared(p), Types', BuildInv(p)',
             build'[p].pc = "publish" => build[p].pc = "publish"
      PROVE  CatalogInv'
  <2>1. /\ \A db \in Dbs : db \in pinned => log'[db] = log[db]
        /\ LogInv' /\ ControlInv' /\ PublicationStays
    BY <1>3, PruneFacts
  <2>2. OthersStay(p)
    <3>1. ASSUME NEW q \in Procs \ {p}, NEW db \in PinnedBy(q) \ {NoDb} PROVE log'[db] = log[db]
      BY <1>2, <1>3, <2>1, <3>1
    <3>2. QED
      BY <1>3, <3>1 DEF OthersStay
  <2>3. PinsGrow(p)
    <3>1. ASSUME NEW db \in PinnedBy(p)' \ {NoDb} PROVE log'[db] # <<>> /\ db \in PinnedBy(p)
      BY <1>2, <1>3, <2>1, <3>1
    <3>2. ASSUME NEW db \in Own(p)'
          PROVE  db # control.db /\ db \notin Shared(p)' /\ db \in Own(p)
      <4>1. db \in Own(p) /\ db # control.db /\ db \notin Shared(p) /\ db # NoDb
        BY <1>1, <1>3, <3>2 DEF PrivateInv, Own
      <4>2. QED
        BY <1>3, <4>1
    <3>3. QED
      BY <3>1, <3>2 DEF PinsGrow
  <2>4. RtInv(p)'
    <3>1. rt[p].db # NoDb => log'[rt[p].db] = log[rt[p].db]
      BY <1>1, <1>3, <2>1 DEF RtType
    <3>2. QED
      BY <1>3, <2>1, <3>1, RtKept
  <2>5. LocksTaken(p)
    BY <1>3 DEF LocksTaken
  <2>6. QED
    BY <1>3, <2>1, <2>2, <2>3, <2>4, <2>5, LocalStep
<1>4. CASE EndSession(p)
  <2> DEFINE pinned == others \cup {rt[p].db} \cup retiring'[p]
  <2>1. /\ b.pc = "drop" /\ retiring' = [retiring EXCEPT ![p] = @ \cup {b.old}]
        /\ Prune(pinned) /\ build' = [build EXCEPT ![p] = NoBuild]
        /\ base' = [base EXCEPT ![p] = NoBase] /\ fence' = [fence EXCEPT ![p] = NoRows]
        /\ UNCHANGED <<source, written, control, rt, window, crashes>>
    BY <1>4 DEF EndSession, disk
  <2>2. updates' \in [Procs -> Seq(UpdateType)]
    <3>1. PICK kind \in {"Complete", "Cancelled", "Failed"} : Send(p, kind, b)
      BY <1>4 DEF EndSession
    <3>2. QED
      BY <3>1, SendType
  <2>3. b.old \in Dbs
    BY <1>1, <2>1 DEF Shape, Pinning, BuildType
  <2>4. NoRows \in Rows /\ NoBase \in States
    BY CatalogAssumption DEF NoRows, Rows, Versions, NoBase, States
  <2>5. log' \in [Dbs -> Seq(States)] /\ faults' \in 0..MaxFaults
    BY <2>1, PruneFacts
  <2>6. Types'
    BY <1>1, <2>1, <2>2, <2>3, <2>4, <2>5, NoBuildType DEF Types
  <2>7. /\ build'[p] = NoBuild /\ retiring'[p] = retiring[p] \cup {b.old}
        /\ \A q \in Procs \ {p} : build'[q] = build[q] /\ retiring'[q] = retiring[q] /\ base'[q] = base[q]
    BY <1>1, <2>1 DEF Types
  <2>8. BuildInv(p)' /\ Own(p)' = {}
    BY <2>7, NoBuildInv
  <2>9. /\ PinnedBy(p)' \ {NoDb} \subseteq PinnedBy(p) \cap pinned
        /\ Shared(p)' \ {NoDb} \subseteq Shared(p)
    BY <2>1, <2>7, NoBuildType DEF PinnedBy, Shared
  <2>10. /\ others \subseteq pinned /\ {rt[p].db} \cup retiring'[p] \subseteq pinned
         /\ build'[p].pc # "publish"
    BY <2>7, NoBuildType
  <2> HIDE DEF pinned
  <2>11. QED
    BY <1>3, <2>1, <2>6, <2>7, <2>8, <2>9, <2>10
<1>5. ASSUME NEW x \in Dbs, Retire(p, x) PROVE CatalogInv'
  <2> DEFINE pinned == others \cup {rt[p].db, build[p].old, build[p].db} \cup retiring'[p]
  <2>1. /\ retiring' = [retiring EXCEPT ![p] = @ \ {x}] /\ Prune(pinned)
        /\ UNCHANGED <<source, written, control, rt, build, updates, window, base, fence, crashes>>
    BY <1>5 DEF Retire, disk, history
  <2>2. log' \in [Dbs -> Seq(States)] /\ faults' \in 0..MaxFaults
        /\ \A db \in Dbs : db \in pinned => log'[db] = log[db]
        /\ PublicationStays
    BY <2>1, PruneFacts
  <2>3. Types'
    BY <1>1, <2>1, <2>2 DEF Types
  <2>4. /\ retiring'[p] = retiring[p] \ {x} /\ \A q \in Procs \ {p} : retiring'[q] = retiring[q]
    BY <1>1, <2>1 DEF Types
  <2>5. BuildInv(p)'
    <3>1. /\ build[p].old # NoDb => log'[build[p].old] = log[build[p].old]
          /\ build[p].db # NoDb => log'[build[p].db] = log[build[p].db]
      BY <1>1, <2>2 DEF BuildType
    <3>2. build[p].old # NoDb => Current(build[p].old)' = Current(build[p].old)
      BY <2>1, <3>1 DEF Current
    <3>3. build[p].pc = "publish" => BaseUnchanged(build[p])'
      <4>1. build[p].pc = "publish" => build[p].old # NoDb /\ BaseUnchanged(build[p])
        BY <1>1 DEF BuildInv, Shape, Pinning
      <4>2. QED
        BY <2>1, <3>2, <4>1 DEF BaseUnchanged, Publication
    <3>4. QED
      BY <1>1, <2>1, <3>1, <3>2, <3>3 DEF BuildInv, Shape, Sealed, Owning
  <2>6. /\ PinnedBy(p)' \ {NoDb} \subseteq PinnedBy(p) \cap pinned /\ Own(p)' = Own(p)
        /\ Shared(p)' \ {NoDb} \subseteq Shared(p)
    BY <2>1, <2>4 DEF PinnedBy, Shared, Own
  <2>7. others \subseteq pinned /\ {rt[p].db} \cup retiring'[p] \subseteq pinned
    OBVIOUS
  <2> HIDE DEF pinned
  <2>8. QED
    BY <1>3, <2>1, <2>3, <2>4, <2>5, <2>6, <2>7
<1>6. QED
  BY <1>4, <1>5

-----------------------------------------------------------------------------
(* The machine and the workspace.                                          *)

\* Of every file one of the states it had since it was synced is left.
LEMMA PowerLossFacts ==
    ASSUME CatalogInv, PowerLoss
    PROVE  /\ \A db \in Dbs : log[db] = <<>> => log'[db] = <<>>
           /\ \A db \in Dbs : log[db] # <<>> =>
                 \E k \in 1..Len(log[db]) : log'[db] = <<log[db][k]>> /\ log[db][k] \in States
           /\ log' \in [Dbs -> Seq(States)]
<1>1. PICK lost \in [Dbs -> 0..MaxGen] :
           /\ \A db \in Dbs : lost[db] = 0 \/ lost[db] < Len(log[db])
           /\ log' = [db \in Dbs |-> IF log[db] = <<>> THEN <<>> ELSE <<log[db][Len(log[db]) - lost[db]]>>]
  BY DEF PowerLoss
<1>2. log \in [Dbs -> Seq(States)] /\ \A db \in Dbs : lost[db] \in Nat
  BY CatalogAssumption DEF CatalogInv, Types
<1>3. ASSUME NEW db \in Dbs, log[db] # <<>>
      PROVE  \E k \in 1..Len(log[db]) : log'[db] = <<log[db][k]>> /\ log[db][k] \in States
  <2>1. Len(log[db]) \in Nat /\ Len(log[db]) > 0
    BY <1>2, <1>3
  <2> DEFINE n == Len(log[db])
  <2>2. PICK k \in 1..n : k = n - lost[db]
    <3> HIDE DEF n
    <3>1. n - lost[db] \in 1..n
      BY <1>1, <1>2, <2>1 DEF n
    <3>2. QED
      BY <3>1
  <2>3. log'[db] = <<log[db][k]>>
    BY <1>1, <1>3, <2>2, Zenon
  <2>4. QED
    BY <1>2, <2>3
<1>4. ASSUME NEW db \in Dbs, log[db] = <<>> PROVE log'[db] = <<>>
  BY <1>1, <1>4, Zenon
<1>5. ASSUME NEW db \in Dbs PROVE log'[db] \in Seq(States)
  <2>1. CASE log[db] = <<>>
    <3>1. log'[db] = <<>> /\ <<>> \in Seq(States)
      BY <1>4, <2>1
    <3>2. QED
      BY <3>1, Zenon
  <2>2. CASE log[db] # <<>>
    <3>1. PICK x \in States : log'[db] = <<x>>
      BY <1>3, <2>2, Zenon
    <3>2. <<x>> \in Seq(States)
      OBVIOUS
    <3>3. QED
      BY <3>1, <3>2, Zenon
  <2>3. QED
    BY <2>1, <2>2
<1>6. log' \in [Dbs -> Seq(States)]
  <2>1. log' = [db \in Dbs |-> log'[db]]
    BY <1>1, Zenon
  <2>2. QED
    BY <1>5, <2>1, Zenon
<1>7. QED
  BY <1>3, <1>4, <1>6

LEMMA PowerLosses ==
    ASSUME CatalogInv, PowerLoss
    PROVE  CatalogInv'
<1>1. /\ crashes < MaxCrashes /\ crashes' = crashes + 1
      /\ rt' = [p \in Procs |-> Down] /\ build' = [p \in Procs |-> NoBuild]
      /\ updates' = [p \in Procs |-> <<>>] /\ retiring' = [p \in Procs |-> {}]
      /\ window' = [p \in Procs |-> {}] /\ base' = [p \in Procs |-> NoBase]
      /\ fence' = [p \in Procs |-> NoRows] /\ UNCHANGED <<source, written, control, faults>>
  BY DEF PowerLoss, disk
<1>2. /\ \A db \in Dbs : log[db] = <<>> => log'[db] = <<>>
      /\ \A db \in Dbs : log[db] # <<>> => \E k \in 1..Len(log[db]) : log'[db] = <<log[db][k]>>
      /\ log' \in [Dbs -> Seq(States)]
  BY PowerLossFacts
<1>3. Types /\ LogInv /\ ControlInv /\ control.db \in Dbs /\ 0 \in Dbs
  BY CatalogAssumption DEF CatalogInv, Types, ControlType, Dbs
<1>4. NoRows \in Rows /\ NoBase \in States
  BY CatalogAssumption DEF NoRows, Rows, Versions, NoBase, States
<1>5. Types'
  BY <1>1, <1>2, <1>3, <1>4, DownType, NoBuildType, CatalogAssumption DEF Types
<1>6. \A p \in Procs : /\ rt'[p] = Down /\ build'[p] = NoBuild /\ retiring'[p] = {}
                       /\ rt'[p].pc = "down" /\ rt'[p].db = NoDb
                       /\ build'[p].pc = "none" /\ build'[p].old = NoDb /\ build'[p].db = NoDb
  BY <1>1, DownType, NoBuildType
<1>7. ASSUME NEW db \in Dbs PROVE Len(log'[db]) <= 1 /\ Len(log'[db]) \in Nat
  <2>1. CASE log[db] = <<>>
    BY <1>2, <2>1
  <2>2. CASE log[db] # <<>>
    <3>1. PICK x : log'[db] = <<x>>
      BY <1>2, <2>2, Zenon
    <3>2. Len(<<x>>) = 1
      OBVIOUS
    <3>3. QED
      BY <3>1, <3>2
  <2>3. QED
    BY <2>1, <2>2
<1>8. LogInv'
  BY <1>3, <1>7 DEF LogInv
<1>9. ControlInv'
  <2>1. ASSUME control.db # 0
        PROVE  /\ log'[control.db] # <<>>
               /\ \A i \in 1..Len(log'[control.db]) : log'[control.db][i].gen >= control.gen
    <3>1. log[control.db] # <<>> /\ \A i \in 1..Len(log[control.db]) : log[control.db][i].gen >= control.gen
      BY <1>3, <2>1 DEF ControlInv
    <3>2. PICK k \in 1..Len(log[control.db]) : log'[control.db] = <<log[control.db][k]>>
      BY <1>2, <1>3, <3>1
    <3>3. PICK x : x = log[control.db][k] /\ x.gen >= control.gen
      BY <3>1
    <3>4. log'[control.db] = <<x>>
      BY <3>2, <3>3
    <3>5. Len(<<x>>) = 1 /\ <<x>>[1] = x
      OBVIOUS
    <3>6. QED
      BY <3>3, <3>4, <3>5
  <2>2. QED
    BY <1>1, <1>2, <1>3, <2>1 DEF ControlInv
<1>10. LockInv' /\ PrivateInv' /\ FilesInv'
  <2>1. \A p \in Procs : Own(p)' = {} /\ PinnedBy(p)' = {NoDb}
    BY <1>6 DEF Own, Owning, PinnedBy
  <2>2. QED
    BY <1>6, <2>1 DEF LockInv, PrivateInv, FilesInv
<1>11. ASSUME NEW p \in Procs PROVE RtInv(p)' /\ BuildInv(p)'
  BY <1>6, NoBuildInv DEF RtInv
<1>12. QED
  BY <1>5, <1>8, <1>9, <1>10, <1>11 DEF CatalogInv

\* A step that leaves the sidecars, the files and the control database alone.
LEMMA Idle ==
    ASSUME CatalogInv, Types', UNCHANGED <<control, log, rt, build, retiring, window, base>>
    PROVE  CatalogInv'
<1>1. LogInv' /\ ControlInv' /\ LockInv'
  BY DEF CatalogInv, LogInv, ControlInv, LockInv
<1>2. \A p \in Procs : PinnedBy(p)' = PinnedBy(p) /\ Shared(p)' = Shared(p) /\ Own(p)' = Own(p)
  BY DEF PinnedBy, Shared, Own
<1>3. PrivateInv' /\ FilesInv'
  BY <1>2 DEF CatalogInv, PrivateInv, FilesInv
<1>4. PublicationStays
  BY DEF PublicationStays
<1>5. ASSUME NEW p \in Procs PROVE RtInv(p)' /\ BuildInv(p)'
  <2>1. RtInv(p)'
    BY <1>4, RtKept
  <2>2. BuildInv(p)
    BY DEF CatalogInv
  <2>3. /\ Current(build[p].old)' = Current(build[p].old) /\ Sealed(build[p])' = Sealed(build[p])
        /\ Shape(build[p])' = Shape(build[p])
    BY DEF Current, Sealed, Shape
  <2>4. BaseUnchanged(build[p])' = BaseUnchanged(build[p])
    BY <2>3 DEF BaseUnchanged, Publication
  <2>5. QED
    BY <2>1, <2>2, <2>3, <2>4 DEF BuildInv
<1>6. QED
  BY <1>1, <1>3, <1>5 DEF CatalogInv

LEMMA Edits ==
    ASSUME CatalogInv, NEW d \in Docs, EditSource(d)
    PROVE  CatalogInv'
<1>1. /\ written < MaxVersion /\ written' = written + 1
      /\ \/ source' = [source EXCEPT ![d] = written']
         \/ source' = [source EXCEPT ![d] = 0]
      /\ UNCHANGED <<control, log, rt, build, updates, retiring, window, base, fence, faults, crashes>>
  BY DEF EditSource, history, budget
<1>2. Types
  BY DEF CatalogInv
<1>3. written' \in Versions /\ 0 \in Versions
  BY <1>1, <1>2, CatalogAssumption DEF Types, Versions
<1>4. source' \in Rows
  BY <1>1, <1>2, <1>3 DEF Types, Rows
<1>5. Types'
  BY <1>1, <1>2, <1>3, <1>4 DEF Types
<1>6. QED
  BY <1>1, <1>5, Idle

-----------------------------------------------------------------------------
(* The invariant holds of every behaviour.                                 *)

LEMMA CatalogInit == Init => CatalogInv
<1> HAVE Init
<1>1. /\ source = [d \in Docs |-> 1] /\ written = 1
      /\ control = [state |-> "absent", db |-> 0, gen |-> 0, fp |-> NoFingerprint]
      /\ log = [db \in Dbs |-> <<>>] /\ rt = [p \in Procs |-> Down]
      /\ build = [p \in Procs |-> NoBuild] /\ updates = [p \in Procs |-> <<>>]
      /\ retiring = [p \in Procs |-> {}] /\ window = [p \in Procs |-> {}]
      /\ base = [p \in Procs |-> NoBase] /\ fence = [p \in Procs |-> NoRows]
      /\ faults = 0 /\ crashes = 0
  BY DEF Init
<1>2. /\ NoRows \in Rows /\ NoBase \in States /\ 0 \in Dbs /\ [d \in Docs |-> 1] \in Rows
      /\ 1 \in Versions
  BY CatalogAssumption DEF NoRows, Rows, Versions, NoBase, States, Dbs
<1>3. /\ control \in ControlType /\ control.state = "absent" /\ control.db = 0 /\ control.gen = 0
  BY <1>1, <1>2, CatalogAssumption DEF ControlType
<1>4. Types
  BY <1>1, <1>2, <1>3, DownType, NoBuildType, CatalogAssumption DEF Types
<1>5. \A db \in Dbs : log[db] = <<>> /\ Len(log[db]) = 0
  BY <1>1
<1>6. LogInv /\ ControlInv
  BY <1>2, <1>3, <1>5 DEF LogInv, ControlInv
<1>7. \A p \in Procs : /\ rt[p].pc = "down" /\ rt[p].db = NoDb /\ retiring[p] = {}
                       /\ build[p].pc = "none" /\ build[p].old = NoDb /\ build[p].db = NoDb
  BY <1>1, DownType, NoBuildType
<1>8. LockInv /\ PrivateInv /\ FilesInv
  <2>1. \A p \in Procs : Own(p) = {} /\ PinnedBy(p) = {NoDb}
    BY <1>7 DEF Own, Owning, PinnedBy
  <2>2. QED
    BY <1>7, <2>1 DEF LockInv, PrivateInv, FilesInv
<1>9. ASSUME NEW p \in Procs PROVE RtInv(p) /\ BuildInv(p)
  <2>1. Shape(build[p])
    BY <1>7 DEF Shape, Pinning, Owning, NoDb
  <2>2. QED
    BY <1>7, <2>1 DEF RtInv, BuildInv
<1>10. QED
  BY <1>4, <1>6, <1>8, <1>9 DEF CatalogInv

LEMMA CatalogNext == CatalogInv /\ [Next]_vars => CatalogInv'
<1> SUFFICES ASSUME CatalogInv, [Next]_vars PROVE CatalogInv'
  OBVIOUS
<1>1. ASSUME NEW p \in Procs, ProtocolThread(p) \/ Start(p) \/ Exit(p) PROVE CatalogInv'
  BY <1>1, Bootstraps, StartsAndReads, RefreshesAndUpdates, Refreshes, CatalogRequests
     DEF ProtocolThread
<1>2. ASSUME NEW p \in Procs, CatalogThread(p) PROVE CatalogInv'
  BY <1>2, Sessions, ScansAndParses, Stages, Allocates, Seals, Publishes, Prunes DEF CatalogThread
<1>3. ASSUME NEW p \in Procs, \E db \in Dbs : Retire(p, db) PROVE CatalogInv'
  BY <1>3, Prunes
<1>4. CASE UNCHANGED vars
  <2>1. Types'
    BY <1>4 DEF CatalogInv, Types, vars
  <2>2. QED
    BY <1>4, <2>1, Idle DEF vars
<1>5. QED
  BY <1>1, <1>2, <1>3, <1>4, Edits, PowerLosses DEF Next

\* The inductive invariant of the sidecars: their files, leases, locks and sessions agree
\* with the publication control database in every reachable state.
THEOREM CatalogIsSound == Spec => []CatalogInv
  BY CatalogInit, CatalogNext, PTL DEF Spec

-----------------------------------------------------------------------------
(* What it means for the users of the index.                               *)

\* No file that is or may be needed goes: once a catalog was published the cache can be
\* opened for ever after, and prune takes no file that a connection, a session or a
\* reservation uses (open_published, catalog_files::prune).
THEOREM NeededFilesStay == Spec => []CacheFilesStay
<1>1. CatalogInv => CacheFilesStay
  <2> HAVE CatalogInv
  <2>1. TypeOK
    <3>1. Types
      BY DEF CatalogInv
    <3>2. ASSUME NEW p \in Procs
          PROVE  /\ rt[p].pc \in {"down", "new", "table", "row", "open", "failed", "idle", "read", "refresh"}
                 /\ rt[p].db \in Dbs \cup {NoDb} /\ rt[p].catalog \in 0..MaxGen
                 /\ rt[p].phase \in {"idle", "discovering", "activating", "cancelling", "cancelled",
                                     "ready", "partial", "degraded"}
      BY <3>1 DEF Types, RtType
    <3>3. ASSUME NEW p \in Procs
          PROVE  /\ build[p].pc \in {"none", "begin", "scan", "route", "reuse", "write", "seal",
                                     "check", "lock", "publish", "drop"}
                 /\ build[p].flag \in {"running", "cancelled", "activating", "publishing"}
                 /\ build[p].rows \in Rows /\ build[p].stamps \in Rows
                 /\ retiring[p] \subseteq Dbs
      BY <3>1 DEF Types, BuildType
    <3>4. ASSUME NEW p \in Procs, NEW i \in 1..Len(updates[p])
          PROVE  updates[p][i].kind \in {"Activating", "Complete", "Cancelled", "Failed"}
      <4>1. updates[p] \in Seq(UpdateType)
        BY <3>1 DEF Types
      <4>2. updates[p][i] \in UpdateType
        BY <4>1
      <4>3. QED
        BY <4>2 DEF UpdateType
    <3>5. ASSUME NEW db \in Dbs, NEW i \in 1..Len(log[db]) PROVE log[db][i] \in Content \cup {NoSchema}
      <4>1. log[db] \in Seq(States)
        BY <3>1 DEF Types
      <4>2. QED
        BY <4>1 DEF States
    <3>6. /\ source \in Rows /\ written \in Versions /\ control \in ControlType
          /\ faults \in 0..MaxFaults /\ crashes \in 0..MaxCrashes
      BY <3>1 DEF Types
    <3>7. QED
      BY <3>2, <3>3, <3>4, <3>5, <3>6 DEF TypeOK, ControlType
  <2>2. PublishedStaysOpenable
    <3>1. ControlInv /\ control.gen \in 0..MaxGen
      BY DEF CatalogInv, Types, ControlType
    <3>2. QED
      BY <3>1 DEF ControlInv, PublishedStaysOpenable
  <2>3. PinnedFilesExist
    BY PinnedFiles DEF PinnedFilesExist, Pinned
  <2>4. QED
    BY <2>1, <2>2, <2>3 DEF CacheFilesStay
<1>2. QED
  BY <1>1, CatalogIsSound, PTL

\* What a query returns is a state the index had while the query was under way, although
\* catalog-publication.lock is released before it runs (CatalogStore::access).
THEOREM QueriesAreCommitted == Spec => []ReadsAreCommitted
<1>1. CatalogInv => ReadsAreCommitted
  BY DEF CatalogInv, RtInv, ReadsAreCommitted, Answer
<1>2. QED
  BY <1>1, CatalogIsSound, PTL

-----------------------------------------------------------------------------
(* The index implements PublishedIndex.                                    *)

LEMMA AbstractContent == Abstract!Content = Content /\ Abstract!Empty = Empty
BY DEF Abstract!Content, Abstract!Empty, Content, Empty, Rows, Versions, NoRows

\* The committed states: those of the active file that carry the schema.
LEMMA PublishedStates ==
    ASSUME CatalogInv
    PROVE  LET s == log[control.db] IN
           /\ Published \in Seq(Content) /\ Published # <<>>
           /\ Openable => Published[Len(Published)] = Current(control.db)
           /\ \/ /\ Published = <<Empty>>
                 /\ control.state # "row" \/ s = <<>> \/ s = <<NoSchema>>
              \/ /\ control.state = "row" /\ Published = Tail(s) /\ s \in Seq(States)
                 /\ Len(s) > 1 /\ s[1] = NoSchema /\ s[2] = Empty
              \/ /\ control.state = "row" /\ Published = s /\ s \in Seq(Content)
                 /\ s # <<>> /\ s[1] # NoSchema
<1> DEFINE s == log[control.db]
<1>1. /\ s \in Seq(States) /\ control.db \in Dbs /\ LogInv /\ ControlInv /\ control.gen \in 0..MaxGen
  BY DEF CatalogInv, Types, ControlType
<1>2. \A i \in 2..Len(s) : s[i] \in Content
  BY <1>1 DEF LogInv
<1>3. Empty \in Content /\ NoSchema.gen = -1 /\ NoSchema \notin Content
  BY CatalogAssumption DEF Empty, Content, NoRows, Rows, Versions, NoSchema
<1>4. CASE control.state # "row" \/ s = <<>> \/ s = <<NoSchema>>
  <2>1. Published = <<Empty>>
    BY <1>4 DEF Published
  <2>2. ~Openable
    <3>1. CASE s = <<NoSchema>>
      <4>1. Current(control.db) = NoSchema
        BY <3>1 DEF Current
      <4>2. QED
        BY <1>3, <4>1 DEF Openable
    <3>2. CASE control.state # "row" \/ s = <<>>
      BY <3>2 DEF Openable
    <3>3. QED
      BY <1>4, <3>1, <3>2
  <2>3. <<Empty>> \in Seq(Content) /\ <<Empty>> # <<>>
    BY <1>3
  <2>4. QED
    BY <1>4, <2>1, <2>2, <2>3
<1>5. CASE control.state = "row" /\ s # <<>> /\ s # <<NoSchema>> /\ s[1] = NoSchema
  <2>1. Published = Tail(s)
    BY <1>5 DEF Published
  <2>2. Len(s) \in Nat /\ Len(s) > 1
    <3>1. Len(s) \in Nat /\ Len(s) # 0
      BY <1>1, <1>5
    <3>2. Len(s) = 1 => s = <<NoSchema>>
      BY <1>1, <1>5
    <3>3. Len(s) # 1
      BY <1>5, <3>2, Zenon
    <3>4. PICK n \in Nat : n = Len(s)
      BY <3>1
    <3>5. n # 0 /\ n # 1
      BY <3>1, <3>3, <3>4, Zenon
    <3>6. n > 1
      BY <3>5
    <3>7. QED
      BY <3>4, <3>6
  <2>3. /\ Tail(s) \in Seq(States) /\ Len(Tail(s)) = Len(s) - 1
        /\ \A i \in 1..Len(Tail(s)) : Tail(s)[i] = s[i + 1]
    BY <1>1, <1>5, HeadTailProperties
  <2>4. \A i \in 1..Len(Tail(s)) : Tail(s)[i] \in Content
    BY <1>2, <2>2, <2>3
  <2>5. Tail(s) \in Seq(Content) /\ Tail(s) # <<>>
    <3>1. PICK t \in Seq(States) : t = Tail(s)
      BY <2>3
    <3>2. Len(t) > 0 /\ \A i \in 1..Len(t) : t[i] \in Content
      BY <2>2, <2>3, <2>4, <3>1
    <3>3. t \in Seq(Content) /\ t # <<>>
      BY <3>2
    <3>4. QED
      BY <3>1, <3>3
  <2>6. Tail(s)[Len(Tail(s))] = Current(control.db)
    BY <2>2, <2>3 DEF Current
  <2>7. s[2] = Empty
    <3>1. control.db = 0
      <4>1. control.db # 0 => s[1].gen >= control.gen
        BY <1>1, <2>2 DEF ControlInv
      <4>2. QED
        BY <1>1, <1>3, <1>5, <4>1, CatalogAssumption
    <3>2. Len(log[0]) >= 2 /\ log[0][1] = NoSchema => log[0][2] = Empty
      BY <1>1 DEF LogInv
    <3>3. QED
      BY <1>5, <2>2, <3>1, <3>2
  <2>8. QED
    BY <1>1, <1>5, <2>1, <2>2, <2>5, <2>6, <2>7
<1>6. CASE control.state = "row" /\ s # <<>> /\ s # <<NoSchema>> /\ s[1] # NoSchema
  <2>1. Published = s
    BY <1>6 DEF Published
  <2>2. Len(s) \in Nat /\ Len(s) > 0 /\ s[1] \in States
    BY <1>1, <1>6
  <2>3. \A i \in 1..Len(s) : s[i] \in Content
    BY <1>2, <1>6, <2>2 DEF States
  <2>4. s \in Seq(Content)
    BY <1>1, <2>3
  <2>5. QED
    BY <1>6, <2>1, <2>4 DEF Current
<1>7. QED
  BY <1>4, <1>5, <1>6

\* Most steps leave the committed states as they are.
LEMMA PublishedKept ==
    ASSUME control'.db = control.db, control'.state = control.state,
           log'[control.db] = log[control.db]
    PROVE  Published' = Published
BY DEF Published

LEMMA RefineQuiet ==
    ASSUME CatalogInv, NEW p \in Procs,
           \/ Start(p) \/ OpenStore(p) \/ BeginRead(p) \/ EndRead(p) \/ CancelCatalog(p)
           \/ HandleUpdate(p) \/ ScanDoc(p) \/ Activate(p) \/ CheckSources(p)
           \/ LockPublication(p) \/ Discard(p)
           \/ \E d \in Docs, g \in 1..MaxGen : BeginRefresh(p, d, g)
           \/ \E force \in BOOLEAN : StartCatalog(p, force)
           \/ \E d \in Docs : Parse(p, d)
    PROVE  Published' = Published /\ base' = base
<1>1. log' = log /\ base' = base /\ (control' = control \/ control' = [control EXCEPT !.fp = NoFingerprint])
  BY DEF Start, OpenStore, BeginRead, EndRead, CancelCatalog, HandleUpdate, ScanDoc, Activate,
         CheckSources, LockPublication, Discard, BeginRefresh, StartCatalog, Parse, history
<1>2. control'.db = control.db /\ control'.state = control.state
  BY <1>1 DEF CatalogInv, Types, ControlType
<1>3. QED
  BY <1>1, <1>2, PublishedKept

LEMMA RefineBootstrap ==
    ASSUME CatalogInv, NEW p \in Procs, CreateControl(p) \/ InsertControl(p) \/ CreateBase(p)
    PROVE  Published' = Published /\ base' = base
<1>1. control \in ControlType /\ ControlInv /\ log \in [Dbs -> Seq(States)] /\ 0 \in Dbs
  BY CatalogAssumption DEF CatalogInv, Types, Dbs
<1>2. base' = base
  BY DEF CreateControl, InsertControl, CreateBase, history
<1>3. CASE CreateControl(p)
  <2>1. control.state = "absent" /\ control'.state = "table"
    BY <1>1, <1>3 DEF CreateControl, ControlType
  <2>2. QED
    BY <1>2, <2>1 DEF Published
<1>4. CASE InsertControl(p)
  <2>1. log' = log /\ control'.state = "row" /\ control'.db = control.db
    BY <1>1, <1>4 DEF InsertControl, ControlType
  <2>2. CASE control.state = "row"
    BY <1>2, <2>1, <2>2, PublishedKept
  <2>3. CASE control.state # "row"
    <3>1. control.db = 0 /\ log[0] = <<>>
      BY <1>1, <2>3 DEF ControlInv
    <3>2. QED
      BY <1>2, <2>1, <2>3, <3>1 DEF Published
  <2>4. QED
    BY <2>2, <2>3
<1>5. CASE CreateBase(p)
  <2>1. control' = control /\ log' = [log EXCEPT ![0] = IF @ = <<>> THEN <<NoSchema, Empty>> ELSE @]
    BY <1>5 DEF CreateBase
  <2>2. CASE control.db # 0 \/ log[0] # <<>>
    <3>1. log'[control.db] = log[control.db]
      BY <1>1, <2>1, <2>2 DEF ControlType
    <3>2. QED
      BY <1>2, <2>1, <3>1, PublishedKept
  <2>3. CASE control.db = 0 /\ log[0] = <<>>
    <3>1. Published = <<Empty>>
      BY <2>3 DEF Published
    <3>2. log'[0] = <<NoSchema, Empty>>
      BY <1>1, <2>1, <2>3
    <3>3. /\ <<NoSchema, Empty>> # <<>> /\ <<NoSchema, Empty>> # <<NoSchema>>
          /\ <<NoSchema, Empty>>[1] = NoSchema /\ Tail(<<NoSchema, Empty>>) = <<Empty>>
      <4>1. Len(<<NoSchema, Empty>>) = 2 /\ Len(<<>>) = 0 /\ Len(<<NoSchema>>) = 1
        OBVIOUS
      <4>2. <<NoSchema, Empty>> # <<>> /\ <<NoSchema, Empty>> # <<NoSchema>>
        BY <4>1
      <4>3. <<NoSchema, Empty>>[1] = NoSchema
        OBVIOUS
      <4>4. Tail(<<NoSchema, Empty>>) = <<Empty>>
        OBVIOUS
      <4>5. QED
        BY <4>2, <4>3, <4>4
    <3>4. Published' = <<Empty>>
      BY <2>1, <2>3, <3>2, <3>3 DEF Published
    <3>5. QED
      BY <1>2, <3>1, <3>4
  <2>4. QED
    BY <2>2, <2>3
<1>6. QED
  BY <1>3, <1>4, <1>5

\* Sessions begin from the current state and are abandoned.
LEMMA RefineSessions ==
    ASSUME CatalogInv, NEW p \in Procs,
           \/ BeginSession(p) \/ StopScan(p) \/ EndSession(p) \/ Exit(p) \/ ChooseRoute(p) \/ Seal(p)
           \/ \E db \in Dbs : Retire(p, db)
    PROVE  \/ Published' = Published /\ base' = base
           \/ Abstract!Begin(p) \/ Abstract!Abandon(p)
<1>1. control' = control /\ log'[control.db] = log[control.db]
  <2>1. /\ log \in [Dbs -> Seq(States)] /\ control.db \in Dbs /\ build[p] \in BuildType
        /\ BuildInv(p) /\ ControlInv /\ PrivateInv
    BY DEF CatalogInv, Types, ControlType
  <2>2. control' = control
    BY DEF BeginSession, StopScan, EndSession, Exit, ChooseRoute, Seal, Retire
  <2>3. CASE BeginSession(p) \/ StopScan(p) \/ Exit(p)
    BY <2>2, <2>3 DEF BeginSession, StopScan, Exit
  <2>4. CASE EndSession(p) \/ \E db \in Dbs : Retire(p, db)
    <3>1. PICK pinned : Prune(pinned)
      BY <2>4 DEF EndSession, Retire
    <3>2. PICK gone \in SUBSET Prunable(pinned) :
             log' = [db \in Dbs |-> IF db \in gone THEN <<>> ELSE log[db]]
      BY <3>1 DEF Prune
    <3>3. QED
      BY <2>1, <2>2, <3>2 DEF Prunable
  <2>5. CASE ChooseRoute(p)
    <3>1. CASE log' = log
      BY <2>2, <3>1
    <3>2. CASE log' # log
      <4>1. PICK db \in FreeDbs : log' = [log EXCEPT ![db] = <<NoSchema>>]
        BY <2>5, <3>2 DEF ChooseRoute
      <4>2. db # control.db
        BY <2>1 DEF FreeDbs, ControlInv
      <4>3. QED
        BY <2>1, <2>2, <4>1, <4>2
    <3>3. QED
      BY <3>1, <3>2
  <2>6. CASE Seal(p)
    <3>1. build[p].pc = "seal" /\ log' = [log EXCEPT ![build[p].db] = Sealed(build[p])]
      BY <2>6 DEF Seal, Sealed
    <3>2. build[p].db \in Own(p)
      BY <2>1, <3>1 DEF BuildInv, Shape, Own, Owning
    <3>3. build[p].db # control.db
      BY <2>1, <3>2 DEF PrivateInv
    <3>4. QED
      BY <2>1, <2>2, <3>1, <3>3
  <2>7. QED
    BY <2>3, <2>4, <2>5, <2>6
<1>2. Published' = Published
  BY <1>1, PublishedKept
<1>3. CASE base' = base
  BY <1>2, <1>3
<1>4. CASE base' = [base EXCEPT ![p] = NoBase]
  BY <1>2, <1>4 DEF Abstract!Abandon
<1>5. CASE BeginSession(p) /\ base' # base
  <2>1. Openable /\ base' = [base EXCEPT ![p] = Current(control.db)]
    BY <1>5 DEF BeginSession
  <2>2. Published[Len(Published)] = Current(control.db)
    BY <2>1, PublishedStates
  <2>3. QED
    BY <1>2, <2>1, <2>2 DEF Abstract!Begin, Abstract!Current
<1>6. QED
  BY <1>3, <1>4, <1>5 DEF BeginSession, StopScan, EndSession, Exit, ChooseRoute, Seal, Retire, history

\* A state with the schema alone in the active file is the only committed one.
LEMMA OneState ==
    ASSUME NEW x \in Content
    PROVE  /\ <<x>> # <<>> /\ <<x>> # <<NoSchema>> /\ <<x>>[1] = x /\ Len(<<x>>) = 1
           /\ x # NoSchema
<1>1. x # NoSchema
  <2>1. NoSchema.gen = -1 /\ x.gen \in 0..MaxGen
    BY DEF NoSchema, Content
  <2>2. -1 \notin 0..MaxGen
    BY CatalogAssumption
  <2>3. QED
    BY <2>1, <2>2
<1>2. Len(<<x>>) = 1 /\ Len(<<>>) = 0 /\ <<x>>[1] = x /\ <<NoSchema>>[1] = NoSchema
  OBVIOUS
<1>3. <<x>> # <<>> /\ <<x>> # <<NoSchema>>
  BY <1>1, <1>2
<1>4. QED
  BY <1>1, <1>2, <1>3

\* A full catalog replaces the state it was begun from.
LEMMA RefinePublish ==
    ASSUME CatalogInv, NEW p \in Procs, Publish(p)
    PROVE  Abstract!CommitCatalog(p)
<1> DEFINE b == build[p]
<1>1. b.pc = "publish" /\ base' = base
  BY DEF Publish
<1>2. /\ Openable /\ b.old = control.db /\ control.db \in Dbs
      /\ Current(control.db) = base[p] /\ Current(control.db) \in Content
      /\ Current(control.db).gen < b.gen
      /\ ~b.reuse => log[b.db] = Sealed(b) /\ b.db \in Dbs
  BY <1>1, PublisherFacts, OpenableFacts
<1>3. b \in BuildType /\ control \in ControlType /\ log \in [Dbs -> Seq(States)]
  BY DEF CatalogInv, Types
<1>4. b.gen \in 0..MaxGen /\ b.rows \in Rows /\ b.rejected \in SUBSET Docs
  BY <1>3 DEF BuildType
<1>5. PICK x \in Content : /\ x.gen = b.gen
                           /\ control'.state = "row" /\ log'[control'.db] = <<x>>
  <2>1. control.state = "row"
    BY <1>2 DEF Openable
  <2>2. CASE b.reuse
    <3> DEFINE new == [Current(control.db) EXCEPT !.gen = b.gen]
    <3>1. log' = [log EXCEPT ![control.db] = <<new>>] /\ control' = control
      BY <1>2, <2>2 DEF Publish
    <3>2. new \in Content /\ new.gen = b.gen
      BY <1>2, <1>4 DEF Content
    <3> HIDE DEF new
    <3>3. log'[control.db] = <<new>>
      BY <1>2, <1>3, <3>1
    <3>4. QED
      BY <2>1, <3>1, <3>2, <3>3
  <2>3. CASE ~b.reuse
    <3> DEFINE new == [gen |-> b.gen, rows |-> b.rows, rejected |-> b.rejected]
    <3>1. log' = log /\ control' = [control EXCEPT !.db = b.db, !.gen = b.gen, !.fp = CompleteFingerprint(b)]
      BY <2>3 DEF Publish
    <3>2. control'.state = control.state /\ control'.db = b.db
      BY <1>3, <3>1 DEF ControlType
    <3>3. new \in Content /\ new.gen = b.gen /\ Sealed(b) = <<new>>
      BY <1>4 DEF Content, Sealed
    <3> HIDE DEF new
    <3>4. QED
      BY <1>2, <2>1, <2>3, <3>1, <3>2, <3>3
  <2>4. QED
    BY <2>2, <2>3
<1>6. Published' = <<x>>
  BY <1>5, OneState DEF Published
<1>7. Published[Len(Published)] = base[p]
  BY <1>2, PublishedStates
<1>8. Len(Published') = 1 /\ Published'[1] = x
  BY <1>6, OneState
<1>9. /\ Published[Len(Published)] = Current(control.db) /\ x.gen > Current(control.db).gen
  <2>1. Current(control.db).gen \in 0..MaxGen
    BY <1>2 DEF Content
  <2>2. QED
    BY <1>2, <1>4, <1>5, <1>7, <2>1, CatalogAssumption
<1>10. x \in Abstract!Content
  BY AbstractContent
<1>11. QED
  BY <1>1, <1>7, <1>8, <1>9, <1>10 DEF Abstract!CommitCatalog, Abstract!Current

\* A refresh adds a newer state in which one document differs.
LEMMA RefineRefresh ==
    ASSUME CatalogInv, NEW p \in Procs, ApplyRefresh(p)
    PROVE  (Published' = Published /\ base' = base) \/ Abstract!CommitRefresh
<1>1. control' = control /\ base' = base
  BY RefreshFacts
<1>2. CASE log' = log
  BY <1>1, <1>2, PublishedKept
<1>3. ASSUME NEW new \in Content, RefreshCommit(p, new) PROVE Abstract!CommitRefresh
  <2> DEFINE s == log[control.db]
             t == Published
  <2>1. /\ Openable /\ Commits(new) /\ log' = [log EXCEPT ![control.db] = Append(@, new)]
        /\ \E d \in Docs : \A e \in Docs \ {d} :
              /\ new.rows[e] = Current(control.db).rows[e]
              /\ e \in new.rejected <=> e \in Current(control.db).rejected
    BY <1>3 DEF RefreshCommit
  <2>2. control.db \in Dbs /\ control.state = "row" /\ s # <<>> /\ s \in Seq(States)
        /\ Current(control.db) \in Content
    BY <2>1, OpenableFacts
  <2>3. log'[control'.db] = Append(s, new) /\ control'.state = "row"
    BY <1>1, <2>1, <2>2 DEF CatalogInv, Types
  <2>4. new \in States
    BY DEF States
  <2>5. s # <<NoSchema>>
    <3>1. CASE s = <<NoSchema>>
      <4>1. Current(control.db) = NoSchema
        BY <3>1 DEF Current
      <4>2. QED
        BY <2>2, <4>1, OneState
    <3>2. QED
      BY <3>1
  <2>6. /\ Append(s, new) # <<>> /\ Append(s, new) # <<NoSchema>> /\ Append(s, new)[1] = s[1]
        /\ Tail(Append(s, new)) = Append(Tail(s), new)
    <3>1. /\ Len(Append(s, new)) = Len(s) + 1 /\ Append(s, new) # <<>>
          /\ \A i \in 1..Len(s) : Append(s, new)[i] = s[i]
      BY <2>2, <2>4, AppendProperties
    <3>2. Len(s) \in Nat /\ Len(s) > 0
      BY <2>2
    <3>3. Tail(Append(s, new)) = Append(Tail(s), new)
      BY <2>2, HeadTailAppend
    <3>4. Len(Append(s, new)) # Len(<<NoSchema>>)
      BY <3>1, <3>2
    <3>5. Append(s, new) # <<NoSchema>>
      BY <3>4, Zenon
    <3>6. QED
      BY <3>1, <3>2, <3>3, <3>5
  <2>7. Published' = Append(t, new)
    <3>1. CASE s[1] = NoSchema
      <4>1. Published = Tail(s)
        BY <2>2, <2>5, <3>1 DEF Published
      <4>2. Published' = Tail(Append(s, new))
        BY <2>3, <2>6, <3>1 DEF Published
      <4>3. QED
        BY <2>6, <4>1, <4>2
    <3>2. CASE s[1] # NoSchema
      <4>1. Published = s
        BY <2>2, <2>5, <3>2 DEF Published
      <4>2. Published' = Append(s, new)
        BY <2>3, <2>6, <3>2 DEF Published
      <4>3. QED
        BY <4>1, <4>2
    <3>3. QED
      BY <3>1, <3>2
  <2>8. t \in Seq(Content) /\ t[Len(t)] = Current(control.db)
    BY <2>1, PublishedStates
  <2> HIDE DEF t
  <2>9. /\ Len(Append(t, new)) = Len(t) + 1 /\ Append(t, new)[Len(t) + 1] = new
        /\ \A i \in 1..Len(t) : Append(t, new)[i] = t[i] /\ Append(t, new) \in Seq(Content)
    BY <2>8, AppendProperties
  <2>10. SubSeq(Append(t, new), 1, Len(t)) = t
    BY <2>8, <2>9
  <2>11. new.gen > Current(control.db).gen
    <3>1. Current(control.db).gen < new.gen
      BY <2>1 DEF Commits
    <3>2. new.gen \in Nat /\ Current(control.db).gen \in Nat
      BY <2>2, CatalogAssumption DEF Content
    <3>3. QED
      BY <3>1, <3>2
  <2>12. QED
    BY <1>1, <2>1, <2>7, <2>8, <2>9, <2>10, <2>11, AbstractContent
       DEF Abstract!CommitRefresh, Abstract!Current, t
<1>4. QED
  BY <1>2, <1>3, RefreshFacts

\* A power failure leaves one of the committed states.
LEMMA RefinePowerLoss ==
    ASSUME CatalogInv, PowerLoss
    PROVE  Abstract!Lose
<1> DEFINE s == log[control.db]
<1>1. control' = control /\ base' = [p \in Procs |-> NoBase] /\ control.db \in Dbs
  BY DEF PowerLoss, CatalogInv, Types, ControlType
<1>2. SUFFICES \E k \in 1..Len(Published) : Published' = <<Published[k]>>
  BY <1>1, Zenon DEF Abstract!Lose
<1>3. CASE control.state # "row" \/ s = <<>> \/ s = <<NoSchema>>
  <2>1. Published = <<Empty>>
    BY <1>3 DEF Published
  <2>2. Published' = <<Empty>>
    <3>1. CASE control.state # "row"
      BY <1>1, <3>1 DEF Published
    <3>2. CASE s = <<>>
      <4>1. log'[control.db] = <<>>
        BY <1>1, <3>2, PowerLossFacts
      <4>2. QED
        BY <1>1, <4>1 DEF Published
    <3>3. CASE control.state = "row" /\ s = <<NoSchema>>
      <4>1. Len(<<NoSchema>>) = 1 /\ <<NoSchema>>[1] = NoSchema /\ <<NoSchema>> # <<>>
        OBVIOUS
      <4>2. PICK k \in 1..Len(s) : log'[control.db] = <<s[k]>>
        BY <1>1, <3>3, <4>1, PowerLossFacts, Zenon
      <4>3. k = 1
        BY <3>3, <4>1, <4>2
      <4>4. log'[control.db] = <<NoSchema>>
        BY <3>3, <4>1, <4>2, <4>3
      <4>5. QED
        BY <1>1, <4>1, <4>4 DEF Published
    <3>4. QED
      BY <1>3, <3>1, <3>2, <3>3
  <2>3. Len(<<Empty>>) = 1 /\ <<Empty>>[1] = Empty /\ 1 \in 1..1
    OBVIOUS
  <2>4. QED
    BY <2>1, <2>2, <2>3
<1>4. CASE /\ control.state = "row" /\ Published = Tail(s) /\ s \in Seq(States)
           /\ Len(s) > 1 /\ s[1] = NoSchema /\ s[2] = Empty
  <2>1. s # <<>> /\ Len(s) \in Nat
    BY <1>4
  <2>2. PICK k \in 1..Len(s) : log'[control.db] = <<s[k]>>
    BY <1>1, <2>1, PowerLossFacts, Zenon
  <2>3. /\ Len(Tail(s)) = Len(s) - 1 /\ \A i \in 1..Len(Tail(s)) : Tail(s)[i] = s[i + 1]
    BY <1>4, <2>1, HeadTailProperties
  <2>4. CASE k = 1
    <3>1. log'[control.db] = <<NoSchema>>
      BY <1>4, <2>2, <2>4
    <3>2. <<NoSchema>> # <<>>
      OBVIOUS
    <3>3. Published' = <<Empty>>
      BY <1>1, <1>4, <3>1, <3>2 DEF Published
    <3>4. 1 \in 1..Len(Tail(s)) /\ Tail(s)[1] = Empty
      BY <1>4, <2>1, <2>3
    <3>5. QED
      BY <1>4, <3>3, <3>4
  <2>5. CASE k # 1
    <3>1. k - 1 \in 1..Len(Tail(s)) /\ Tail(s)[k - 1] = s[k]
      BY <2>1, <2>2, <2>3, <2>5
    <3>2. PICK x \in Content : x = s[k]
      <4>1. k \in 2..Len(s)
        BY <2>1, <2>2, <2>5
      <4>2. QED
        BY <1>1, <4>1 DEF CatalogInv, LogInv
    <3>3. log'[control.db] = <<x>>
      BY <2>2, <3>2
    <3>4. Published' = <<x>>
      BY <1>1, <1>4, <3>3, OneState DEF Published
    <3>5. QED
      BY <1>4, <3>1, <3>2, <3>4
  <2>6. QED
    BY <2>4, <2>5
<1>5. CASE /\ control.state = "row" /\ Published = s /\ s \in Seq(Content)
           /\ s # <<>> /\ s[1] # NoSchema
  <2>1. PICK k \in 1..Len(s) : log'[control.db] = <<s[k]>>
    BY <1>1, <1>5, PowerLossFacts, Zenon
  <2>2. PICK x \in Content : x = s[k]
    BY <1>5
  <2>3. log'[control.db] = <<x>>
    BY <2>1, <2>2
  <2>4. Published' = <<x>>
    BY <1>1, <1>5, <2>3, OneState DEF Published
  <2>5. QED
    BY <1>5, <2>1, <2>2, <2>4
<1>6. QED
  BY <1>3, <1>4, <1>5, PublishedStates

\* The index is the single sequence of committed states that PublishedIndex describes:
\* whatever sidecars build, cancel, refresh, publish, prune and die, every commit is atomic,
\* none is undone by a catalog begun before it, and a power failure costs refreshes only
\* (CatalogBuildSession::run, Control::publish, apply_batch, catalog_files::prune).
THEOREM CatalogRefinesIndex == Spec => ImplementsPublishedIndex
<1>1. Init => Abstract!Init
  <2> HAVE Init
  <2>1. Published = <<Empty>> /\ base = [p \in Procs |-> NoBase]
    BY DEF Init, Published
  <2>2. QED
    BY <2>1, AbstractContent DEF Abstract!Init
<1>2. CatalogInv /\ [Next]_vars => [Abstract!Next]_(Abstract!vars)
  <2> SUFFICES ASSUME CatalogInv, [Next]_vars PROVE [Abstract!Next]_(Abstract!vars)
    OBVIOUS
  <2>1. ASSUME Published' = Published, base' = base PROVE UNCHANGED Abstract!vars
    BY <2>1 DEF Abstract!vars
  <2>2. ASSUME NEW p \in Procs, Start(p) \/ ProtocolThread(p) \/ Exit(p)
        PROVE  [Abstract!Next]_(Abstract!vars)
    BY <2>1, <2>2, RefineQuiet, RefineBootstrap, RefineRefresh, RefineSessions
       DEF ProtocolThread, Abstract!Next
  <2>3. ASSUME NEW p \in Procs, CatalogThread(p) \/ \E db \in Dbs : Retire(p, db)
        PROVE  [Abstract!Next]_(Abstract!vars)
    BY <2>1, <2>3, RefineQuiet, RefineSessions, RefinePublish DEF CatalogThread, Abstract!Next
  <2>4. CASE PowerLoss
    BY <2>4, RefinePowerLoss DEF Abstract!Next
  <2>5. ASSUME NEW d \in Docs, EditSource(d) PROVE [Abstract!Next]_(Abstract!vars)
    BY <2>1, <2>5, PublishedKept DEF EditSource, history
  <2>6. CASE UNCHANGED vars
    BY <2>1, <2>6, PublishedKept DEF vars
  <2>7. QED
    BY <2>2, <2>3, <2>4, <2>5, <2>6 DEF Next
<1>3. QED
  BY <1>1, <1>2, CatalogIsSound, PTL DEF Spec, ImplementsPublishedIndex, Abstract!Spec

-----------------------------------------------------------------------------
(***************************************************************************)
(* What a catalog commits.                                                 *)
(***************************************************************************)

\* A stored fingerprint is of the one state that the active private file has,
\* which no refresh is about to change.
FingerprintInv ==
    /\ control.fp # NoFingerprint =>
          /\ control.db # 0
          /\ Len(log[control.db]) = 1
          /\ log[control.db][1].rows = control.fp /\ log[control.db][1].rejected = {}
    /\ \A p \in Procs : rt[p].pc = "refresh" => control.fp = NoFingerprint

\* A document is scanned before it is a job, and is a job before it has rows,
\* which are of the version its stamp says.
ScanOk(b) ==
    /\ b.todo \cap b.jobs = {}
    /\ \A d \in b.todo : b.stamps[d] = 0 /\ b.rows[d] = 0
    /\ \A d \in b.jobs : /\ b.rows[d] = 0
                         /\ ~b.hashFirst => b.stamps[d] = 0
                         /\ b.stamps[d] \notin Oversized
    /\ \A d \in Docs : b.rows[d] # 0 => b.rows[d] = b.stamps[d]
    /\ \A d \in Docs \ b.jobs : b.reuse \/ b.changed \/ d \in b.rejected \/ b.rows[d] = b.stamps[d]

\* Stages: what was hashed first is compared with the fingerprint of the parent,
\* and a build goes on to its seal when all was parsed.
StageOk(b) ==
    /\ b.pc = "begin" => ~b.hashFirst /\ (b.force \/ b.jobs = {})
    /\ b.pc = "scan" /\ b.force => ~b.hashFirst
    /\ b.hashFirst => b.fp # NoFingerprint
    /\ b.reuse => b.hashFirst /\ b.stamps = b.fp
    /\ b.pc \in {"seal", "check", "lock", "publish"} /\ ~b.reuse => b.jobs = {} /\ ~b.changed

\* The parent had the rows of the fingerprint; the stamps are what was on disk
\* when the sources were checked.
WitnessOk(b, from, seen) ==
    /\ b.fp # NoFingerprint => b.old # NoDb /\ from.rows = b.fp
    /\ b.pc \in {"lock", "publish"} => \A d \in Docs : b.stamps[d] # 0 => seen[d] = b.stamps[d]

\* A catalog has at most one terminal update, its last, and only when its
\* thread has ended; one that is being cancelled does not commit.
CancelOk(r, b, u) ==
    /\ \A i \in 1 .. Len(u) - 1 : u[i].kind = "Activating"
    /\ b.pc # "none" \/ r.catalog = 0 => \A i \in 1 .. Len(u) : u[i].kind = "Activating"
    /\ r.catalog = 0 => b.pc = "none"
    /\ r.pc \in {"down", "new", "table", "row", "open", "failed"} => r.catalog = 0
    /\ b.pc = "none" => b.gen = 0 /\ b.outcome = "none"
    /\ b.pc = "publish" \/ b.outcome = "receipt" => b.flag = "publishing"
    /\ b.outcome = "receipt" => b.pc = "drop"
    /\ r.phase = "cancelling" =>
          IF b.pc = "none" THEN \A i \in 1 .. Len(u) : u[i].kind # "Complete" ELSE b.flag = "cancelled"

CommitInv ==
    /\ FingerprintInv
    /\ \A p \in Procs : /\ ScanOk(build[p]) /\ StageOk(build[p])
                        /\ WitnessOk(build[p], base[p], fence[p])
                        /\ CancelOk(rt[p], build[p], updates[p])

-----------------------------------------------------------------------------

SessionOk(p) ==
    /\ ScanOk(build[p]) /\ StageOk(build[p])
    /\ WitnessOk(build[p], base[p], fence[p])
    /\ CancelOk(rt[p], build[p], updates[p])

\* A step of one process keeps the invariant if it keeps what it says of it.
LEMMA SessionStep ==
    ASSUME CommitInv, NEW p \in Procs, FingerprintInv', SessionOk(p)',
           \A q \in Procs \ {p} : /\ rt'[q] = rt[q] /\ build'[q] = build[q] /\ updates'[q] = updates[q]
                                  /\ base'[q] = base[q] /\ fence'[q] = fence[q]
    PROVE  CommitInv'
<1>1. ASSUME NEW q \in Procs, q # p
      PROVE  /\ ScanOk(build'[q]) /\ StageOk(build'[q])
             /\ WitnessOk(build'[q], base'[q], fence'[q])
             /\ CancelOk(rt'[q], build'[q], updates'[q])
  BY <1>1 DEF CommitInv
<1>2. QED
  BY <1>1 DEF CommitInv, SessionOk, ScanOk, StageOk, WitnessOk, CancelOk

\* The stored fingerprint and its file stay, and no refresh begins.
LEMMA FingerprintKept ==
    ASSUME CommitInv, control'.fp = control.fp, control'.db = control.db,
           control.fp # NoFingerprint => log'[control.db] = log[control.db],
           \A p \in Procs : rt'[p].pc = "refresh" => rt[p].pc = "refresh"
    PROVE  FingerprintInv'
  BY DEF CommitInv, FingerprintInv

\* A process that stands still in its catalog.
LEMMA RuntimeStep ==
    ASSUME NEW r, NEW s, NEW b, NEW u, CancelOk(r, b, u),
           \/ s.catalog = r.catalog /\ s.phase = r.phase
           \/ r.catalog = 0 /\ s.catalog = 0 /\ s.phase = "idle",
           s.pc \in {"down", "new", "table", "row", "open", "failed"} => s.catalog = 0
    PROVE  CancelOk(s, b, u)
  BY DEF CancelOk

\* No build is sound.
LEMMA NoBuildOk ==
    ASSUME NEW from, NEW seen
    PROVE  ScanOk(NoBuild) /\ StageOk(NoBuild) /\ WitnessOk(NoBuild, from, seen)
<1>1. /\ NoBuild.pc = "none" /\ NoBuild.force = FALSE /\ NoBuild.fp = NoFingerprint
      /\ NoBuild.hashFirst = FALSE /\ NoBuild.todo = {} /\ NoBuild.jobs = {} /\ NoBuild.stamps = NoRows
      /\ NoBuild.rows = NoRows /\ NoBuild.reuse = FALSE
  BY DEF NoBuild
<1>2. QED
  BY <1>1 DEF ScanOk, StageOk, WitnessOk, NoRows

\* Nor does one leave anything to commit, at the end of a process.
LEMMA DownOk == CancelOk(Down, NoBuild, <<>>)
<1>1. /\ NoBuild.pc = "none" /\ NoBuild.gen = 0 /\ NoBuild.outcome = "none"
      /\ Down.catalog = 0 /\ Down.phase = "idle"
  BY DEF NoBuild, Down
<1>2. QED
  BY <1>1 DEF CancelOk

\* A thread that ends reports so; only a committed one reports that it is complete.
LEMMA EndOk ==
    ASSUME NEW r, NEW b, NEW u \in Seq(UpdateType), NEW kind \in {"Complete", "Cancelled", "Failed"},
           CancelOk(r, b, u), b.pc # "none", kind = "Complete" => b.outcome = "receipt",
           NEW e, e.kind = kind
    PROVE  CancelOk(r, NoBuild, Append(u, e))
<1> DEFINE v == Append(u, e)
<1>1. /\ NoBuild.pc = "none" /\ NoBuild.gen = 0 /\ NoBuild.outcome = "none"
  BY DEF NoBuild
<1>2. Len(u) \in Nat /\ Len(v) = Len(u) + 1 /\ v[Len(u) + 1] = e /\ \A i \in 1 .. Len(u) : v[i] = u[i]
  OBVIOUS
<1> HIDE DEF v
<1>3. /\ r.catalog # 0 /\ \A i \in 1 .. Len(u) : u[i].kind = "Activating"
      /\ r.phase = "cancelling" => b.flag = "cancelled"
      /\ b.outcome = "receipt" => b.flag = "publishing"
  BY DEF CancelOk
<1>4. r.pc \in {"down", "new", "table", "row", "open", "failed"} => r.catalog = 0
  BY DEF CancelOk
<1>5. \A i \in 1 .. Len(v) : v[i].kind = IF i = Len(v) THEN kind ELSE "Activating"
  BY <1>2, <1>3
<1>6. QED
  BY <1>1, <1>2, <1>3, <1>4, <1>5 DEF CancelOk, v

\* Steps of the protocol thread that leave its catalog alone.
LEMMA ThreadStep ==
    ASSUME CatalogInv, CommitInv, NEW p \in Procs, NEW r, rt' = [rt EXCEPT ![p] = r],
           UNCHANGED <<build, updates, base, fence>>, FingerprintInv',
           \/ r.catalog = rt[p].catalog /\ r.phase = rt[p].phase
           \/ rt[p].catalog = 0 /\ r.catalog = 0 /\ r.phase = "idle",
           r.pc \in {"down", "new", "table", "row", "open", "failed"} => r.catalog = 0
    PROVE  CommitInv'
<1>1. rt'[p] = r /\ \A q \in Procs \ {p} : rt'[q] = rt[q]
  BY DEF CatalogInv, Types
<1>2. /\ ScanOk(build[p]) /\ StageOk(build[p]) /\ WitnessOk(build[p], base[p], fence[p])
      /\ CancelOk(rt[p], build[p], updates[p])
  BY DEF CommitInv
<1>3. CancelOk(r, build[p], updates[p])
  BY <1>2, RuntimeStep
<1>4. ScanOk(build'[p]) /\ StageOk(build'[p]) /\ WitnessOk(build'[p], base'[p], fence'[p])
  BY <1>2
<1>5. SessionOk(p)'
  BY <1>1, <1>3, <1>4 DEF SessionOk, ScanOk, StageOk, WitnessOk, CancelOk
<1>6. QED
  BY <1>1, <1>5, SessionStep

\* The protocol thread starts, opens the store and reads.
LEMMA CommitsProtocol ==
    ASSUME CatalogInv, CommitInv, NEW p \in Procs,
           \/ Start(p) \/ CreateControl(p) \/ InsertControl(p) \/ CreateBase(p) \/ OpenStore(p)
           \/ BeginRead(p) \/ EndRead(p)
    PROVE  CommitInv'
<1>1. /\ Types /\ rt[p] \in RtType /\ control \in ControlType /\ control.db \in Dbs
      /\ CancelOk(rt[p], build[p], updates[p])
  BY DEF CatalogInv, Types, ControlType, CommitInv
<1>2. rt[p].pc \in {"down", "new", "table", "row", "open", "failed"} => rt[p].catalog = 0
  BY <1>1 DEF CancelOk
<1>3. ASSUME NEW r, rt' = [rt EXCEPT ![p] = r], r.pc # "refresh",
             control'.fp = control.fp, control'.db = control.db,
             control.fp # NoFingerprint => log'[control.db] = log[control.db]
      PROVE  FingerprintInv'
  <2>1. \A q \in Procs : rt'[q].pc = "refresh" => rt[q].pc = "refresh"
    BY <1>1, <1>3 DEF Types
  <2>2. QED
    BY <1>3, <2>1, FingerprintKept
<1>4. ASSUME NEW x \in {"new", "table", "row", "idle", "read"}, NEW db \in Dbs \cup {NoDb},
             rt' = [rt EXCEPT ![p] = [rt[p] EXCEPT !.pc = x, !.db = db]],
             control'.fp = control.fp, control'.db = control.db,
             control.fp # NoFingerprint => log'[control.db] = log[control.db],
             UNCHANGED <<build, updates, base, fence>>,
             x \in {"new", "table", "row"} => rt[p].catalog = 0
      PROVE  CommitInv'
  <2> DEFINE r == [rt[p] EXCEPT !.pc = x, !.db = db]
  <2>1. r.pc = x /\ r.catalog = rt[p].catalog /\ r.phase = rt[p].phase
    BY <1>1 DEF RtType
  <2>2. rt' = [rt EXCEPT ![p] = r]
    BY <1>4
  <2> HIDE DEF r
  <2>3. FingerprintInv'
    BY <1>3, <1>4, <2>1, <2>2
  <2>4. QED
    BY <1>4, <2>1, <2>2, <2>3, ThreadStep
<1>5. rt[p].db \in Dbs \cup {NoDb} /\ rt[p] = [rt[p] EXCEPT !.db = rt[p].db]
  BY <1>1 DEF RtType
<1>6. \A x : [rt EXCEPT ![p].pc = x] = [rt EXCEPT ![p] = [rt[p] EXCEPT !.pc = x, !.db = rt[p].db]]
  <2>1. \A x : [rt[p] EXCEPT !.pc = x] = [rt[p] EXCEPT !.pc = x, !.db = rt[p].db]
    BY <1>1 DEF RtType
  <2>2. QED
    BY <2>1, Zenon
<1>7. CASE Start(p) \/ CreateControl(p) \/ InsertControl(p)
  <2>1. PICK x \in {"new", "table", "row"} : rt' = [rt EXCEPT ![p].pc = x]
    BY <1>7 DEF Start, CreateControl, InsertControl
  <2>2. rt[p].catalog = 0 /\ UNCHANGED <<log, build, updates, base, fence>>
    BY <1>2, <1>7 DEF Start, CreateControl, InsertControl, history
  <2>3. control'.fp = control.fp /\ control'.db = control.db
    BY <1>1, <1>7 DEF Start, CreateControl, InsertControl, ControlType
  <2>4. QED
    BY <1>4, <1>5, <1>6, <2>1, <2>2, <2>3
<1>8. CASE CreateBase(p)
  <2> DEFINE r == [rt[p] EXCEPT !.pc = "open", !.db = 0]
  <2>1. /\ rt[p].catalog = 0 /\ rt' = [rt EXCEPT ![p] = r]
        /\ log' = [log EXCEPT ![0] = IF @ = <<>> THEN <<NoSchema, Empty>> ELSE @]
        /\ UNCHANGED <<control, build, updates, base, fence>>
    BY <1>2, <1>8 DEF CreateBase, history
  <2>2. r.pc = "open" /\ r.catalog = rt[p].catalog /\ r.phase = rt[p].phase
    BY <1>1 DEF RtType
  <2> HIDE DEF r
  <2>3. control.fp # NoFingerprint => log'[control.db] = log[control.db]
    BY <1>1, <2>1 DEF Types, CommitInv, FingerprintInv
  <2>4. FingerprintInv'
    BY <1>3, <2>1, <2>2, <2>3
  <2>5. QED
    BY <2>1, <2>2, <2>4, ThreadStep
<1>9. CASE OpenStore(p)
  <2>1. PICK r : /\ rt' = [rt EXCEPT ![p] = r]
                 /\ r = IF Openable
                        THEN [Down EXCEPT !.pc = "idle", !.db = control.db, !.next = Current(control.db).gen + 1]
                        ELSE [Down EXCEPT !.pc = "failed"]
    BY <1>9 DEF OpenStore
  <2>2. r.catalog = 0 /\ r.phase = "idle" /\ r.pc # "refresh"
    BY <2>1 DEF Down
  <2>3. rt[p].catalog = 0 /\ UNCHANGED <<control, log, build, updates, base, fence>>
    BY <1>2, <1>9 DEF OpenStore, history
  <2>4. FingerprintInv'
    BY <1>3, <2>1, <2>2, <2>3
  <2>5. QED
    BY <2>1, <2>2, <2>3, <2>4, ThreadStep
<1>10. CASE BeginRead(p)
  <2>1. /\ rt' = [rt EXCEPT ![p] = [rt[p] EXCEPT !.pc = "read", !.db = Resolved(p)]]
        /\ UNCHANGED <<control, log, build, updates, base, fence>>
    BY <1>10 DEF BeginRead
  <2>2. Resolved(p) \in Dbs \cup {NoDb}
    BY <1>1, <1>5 DEF Resolved
  <2>3. QED
    BY <1>4, <2>1, <2>2
<1>11. CASE EndRead(p)
  <2>1. rt' = [rt EXCEPT ![p].pc = "idle"] /\ UNCHANGED <<control, log, build, updates, base, fence>>
    BY <1>11 DEF EndRead
  <2>2. QED
    BY <1>4, <1>5, <1>6, <2>1
<1>12. QED
  BY <1>7, <1>8, <1>9, <1>10, <1>11

\* A refresh drops the fingerprint before it writes.
LEMMA CommitsRefreshes ==
    ASSUME CatalogInv, CommitInv, NEW p \in Procs,
           ApplyRefresh(p) \/ \E d \in Docs, g \in 1..MaxGen : BeginRefresh(p, d, g)
    PROVE  CommitInv'
<1>1. Types /\ rt[p] \in RtType /\ control \in ControlType
  BY DEF CatalogInv, Types
<1>2. ASSUME NEW d \in Docs, NEW g \in 1..MaxGen, BeginRefresh(p, d, g) PROVE CommitInv'
  <2> DEFINE r == [rt[p] EXCEPT !.pc = "refresh", !.db = Resolved(p), !.doc = d, !.gen = g]
  <2>0. rt' = [rt EXCEPT ![p] = r]
    BY <1>2 DEF BeginRefresh
  <2>1. /\ rt' = [rt EXCEPT ![p] = r] /\ control' = [control EXCEPT !.fp = NoFingerprint]
        /\ UNCHANGED <<build, updates, base, fence>>
    BY <1>2, <2>0 DEF BeginRefresh, history
  <2>2. r.pc = "refresh" /\ r.catalog = rt[p].catalog /\ r.phase = rt[p].phase
    BY <1>1 DEF RtType
  <2> HIDE DEF r
  <2>3. control'.fp = NoFingerprint
    BY <1>1, <2>1 DEF ControlType
  <2>4. FingerprintInv'
    BY <2>3 DEF FingerprintInv
  <2>5. QED
    BY <2>1, <2>2, <2>4, ThreadStep
<1>3. CASE ApplyRefresh(p)
  <2> DEFINE idle == [rt[p] EXCEPT !.pc = "idle", !.doc = 0, !.gen = 0]
  <2>1. rt[p].pc = "refresh" /\ UNCHANGED <<control, build, updates, base, fence>>
    BY <1>3 DEF ApplyRefresh
  <2>2. idle \in RtType /\ idle.pc = "idle" /\ idle.catalog = rt[p].catalog /\ idle.phase = rt[p].phase
    <3>1. 0 \in Docs \cup {0} /\ 0 \in 0..MaxGen
      BY CatalogAssumption
    <3>2. idle \in RtType
      BY <1>1, <3>1, Zenon DEF RtType
    <3>3. QED
      BY <1>1, <3>2 DEF RtType
  <2>3. PICK r : /\ rt' = [rt EXCEPT ![p] = r]
                 /\ r.pc = "idle" /\ r.catalog = rt[p].catalog /\ r.phase = rt[p].phase
    <3>1. \/ rt' = [rt EXCEPT ![p] = idle]
          \/ rt' = [rt EXCEPT ![p] = [idle EXCEPT !.next = IF @ > rt[p].gen THEN @ ELSE rt[p].gen + 1]]
      BY <1>3 DEF ApplyRefresh
    <3>2. \A n : /\ [idle EXCEPT !.next = n].pc = idle.pc /\ [idle EXCEPT !.next = n].catalog = idle.catalog
                 /\ [idle EXCEPT !.next = n].phase = idle.phase
      BY <2>2 DEF RtType
    <3> HIDE DEF idle
    <3>3. PICK r : rt' = [rt EXCEPT ![p] = r] /\ (r = idle \/ \E n : r = [idle EXCEPT !.next = n])
      BY <3>1, Zenon
    <3>4. QED
      BY <2>2, <3>2, <3>3
  <2>4. FingerprintInv'
    <3>1. control.fp = NoFingerprint
      BY <2>1 DEF CommitInv, FingerprintInv
    <3>2. QED
      BY <2>1, <3>1 DEF FingerprintInv
  <2>5. QED
    BY <2>1, <2>3, <2>4, ThreadStep
<1>4. QED
  BY <1>2, <1>3

\* A step of the session of p, given by its new records.
LEMMA RecordStep ==
    ASSUME CatalogInv, CommitInv, NEW p \in Procs, NEW r, NEW b, NEW u, NEW x, NEW y,
           rt' = [rt EXCEPT ![p] = r], build' = [build EXCEPT ![p] = b],
           updates' = [updates EXCEPT ![p] = u], base' = [base EXCEPT ![p] = x],
           fence' = [fence EXCEPT ![p] = y], FingerprintInv',
           ScanOk(b), StageOk(b), WitnessOk(b, x, y), CancelOk(r, b, u)
    PROVE  CommitInv'
<1>1. /\ rt'[p] = r /\ build'[p] = b /\ updates'[p] = u /\ base'[p] = x /\ fence'[p] = y
      /\ \A q \in Procs \ {p} : /\ rt'[q] = rt[q] /\ build'[q] = build[q] /\ updates'[q] = updates[q]
                                /\ base'[q] = base[q] /\ fence'[q] = fence[q]
  BY DEF CatalogInv, Types
<1>2. ScanOk(build'[p]) /\ StageOk(build'[p]) /\ WitnessOk(build'[p], base'[p], fence'[p])
  BY <1>1
<1>3. CancelOk(rt'[p], build'[p], updates'[p])
  BY <1>1
<1>4. SessionOk(p)'
  BY <1>2, <1>3 DEF SessionOk, ScanOk, StageOk, WitnessOk, CancelOk
<1>5. QED
  BY <1>1, <1>4, SessionStep

\* What did not change is written as an update by itself.
LEMMA SelfUpdates ==
    ASSUME CatalogInv, NEW p \in Procs
    PROVE  /\ rt = [rt EXCEPT ![p] = rt[p]] /\ build = [build EXCEPT ![p] = build[p]]
           /\ updates = [updates EXCEPT ![p] = updates[p]] /\ base = [base EXCEPT ![p] = base[p]]
           /\ fence = [fence EXCEPT ![p] = fence[p]]
<1>1. /\ rt \in [Procs -> RtType] /\ build \in [Procs -> BuildType] /\ base \in [Procs -> States]
      /\ updates \in [Procs -> Seq(UpdateType)] /\ fence \in [Procs -> Rows]
  BY DEF CatalogInv, Types
<1>2. QED
  BY <1>1

\* Requests for a catalog, its updates and the end of a process.
LEMMA CommitsRequests ==
    ASSUME CatalogInv, CommitInv, NEW p \in Procs,
           \/ CancelCatalog(p) \/ HandleUpdate(p) \/ Exit(p)
           \/ \E force \in BOOLEAN : StartCatalog(p, force)
    PROVE  CommitInv'
<1> DEFINE b == build[p]
           u == updates[p]
<1>1. /\ Types /\ rt[p] \in RtType /\ b \in BuildType /\ u \in Seq(UpdateType)
      /\ ScanOk(b) /\ StageOk(b) /\ WitnessOk(b, base[p], fence[p]) /\ CancelOk(rt[p], b, u)
  BY DEF CatalogInv, Types, CommitInv
<1>2. ASSUME NEW r, rt' = [rt EXCEPT ![p] = r], r.pc # "refresh", UNCHANGED <<control, log>>
      PROVE  FingerprintInv'
  <2>1. \A q \in Procs : rt'[q].pc = "refresh" => rt[q].pc = "refresh"
    BY <1>1, <1>2 DEF Types
  <2>2. QED
    BY <1>2, <2>1, FingerprintKept
<1>3. ASSUME NEW force \in BOOLEAN, StartCatalog(p, force) PROVE CommitInv'
  <2>1. PICK gen : /\ rt' = [rt EXCEPT ![p].db = Resolved(p), ![p].next = gen + 1, ![p].catalog = gen,
                                       ![p].phase = "discovering"]
                   /\ build' = [build EXCEPT ![p] =
                         [NoBuild EXCEPT !.pc = IF force THEN "scan" ELSE "begin",
                                         !.force = force, !.gen = gen, !.todo = Docs]]
                   /\ gen = IF rt[p].next > Current(control.db).gen THEN rt[p].next
                            ELSE Current(control.db).gen + 1
    BY <1>3 DEF StartCatalog
  <2>2. /\ rt[p].pc = "idle" /\ rt[p].catalog = 0 /\ b.pc = "none" /\ Openable
        /\ UNCHANGED <<control, log, updates, base, fence>>
    BY <1>3 DEF StartCatalog, history
  <2>3. gen # 0
    <3>1. Current(control.db).gen \in Nat /\ rt[p].next \in Nat
      BY <1>1, <2>2, OpenableFacts, CatalogAssumption DEF Content, RtType
    <3>2. QED
      BY <2>1, <3>1
  <2> DEFINE r == [rt[p] EXCEPT !.db = Resolved(p), !.next = gen + 1, !.catalog = gen,
                                !.phase = "discovering"]
             c == [NoBuild EXCEPT !.pc = IF force THEN "scan" ELSE "begin",
                                  !.force = force, !.gen = gen, !.todo = Docs]
  <2>4. rt' = [rt EXCEPT ![p] = r] /\ build' = [build EXCEPT ![p] = c]
    BY <2>1
  <2>5. r.pc = "idle" /\ r.catalog = gen /\ r.phase = "discovering"
    BY <1>1, <2>2 DEF RtType
  <2>6. /\ c.pc = IF force THEN "scan" ELSE "begin"
        /\ c.force = force /\ c.todo = Docs /\ c.fp = NoFingerprint /\ c.hashFirst = FALSE
        /\ c.jobs = {} /\ c.stamps = NoRows /\ c.rows = NoRows /\ c.reuse = FALSE
        /\ c.outcome = "none"
    BY DEF NoBuild
  <2> HIDE DEF r, c
  <2>7. ScanOk(c) /\ StageOk(c) /\ WitnessOk(c, base[p], fence[p])
    BY <2>6 DEF ScanOk, StageOk, WitnessOk, NoRows
  <2>8. CancelOk(r, c, u)
    <3>1. /\ \A i \in 1 .. Len(u) : u[i].kind = "Activating"
          /\ \A i \in 1 .. Len(u) - 1 : u[i].kind = "Activating"
      BY <1>1, <2>2 DEF CancelOk
    <3>2. QED
      BY <2>3, <2>5, <2>6, <3>1 DEF CancelOk
  <2>9. FingerprintInv'
    BY <1>2, <2>2, <2>4, <2>5
  <2>10. QED
    BY <2>2, <2>4, <2>7, <2>8, <2>9, RecordStep, SelfUpdates
<1>4. CASE CancelCatalog(p)
  <2> DEFINE r == [rt[p] EXCEPT !.phase = "cancelling"]
             c == [b EXCEPT !.flag = "cancelled"]
  <2>1. /\ rt' = [rt EXCEPT ![p] = r] /\ build' = [build EXCEPT ![p] = c]
        /\ rt[p].pc = "idle" /\ rt[p].catalog # 0 /\ b.gen = rt[p].catalog
        /\ b.flag \in {"running", "activating"}
        /\ UNCHANGED <<control, log, updates, base, fence>>
    BY <1>4 DEF CancelCatalog, history
  <2>2. r.pc = "idle" /\ r.catalog = rt[p].catalog /\ r.phase = "cancelling"
    BY <1>1, <2>1 DEF RtType
  <2>3. /\ c.pc = b.pc /\ c.force = b.force /\ c.todo = b.todo /\ c.fp = b.fp /\ c.hashFirst = b.hashFirst
        /\ c.jobs = b.jobs /\ c.stamps = b.stamps /\ c.rows = b.rows /\ c.reuse = b.reuse
        /\ c.outcome = b.outcome /\ c.changed = b.changed /\ c.rejected = b.rejected /\ c.old = b.old
        /\ c.flag = "cancelled" /\ c.gen = b.gen
    BY <1>1 DEF BuildType
  <2> HIDE DEF r, c
  <2>4. ScanOk(c) /\ StageOk(c) /\ WitnessOk(c, base[p], fence[p])
    BY <1>1, <2>3 DEF ScanOk, StageOk, WitnessOk
  <2>5. CancelOk(r, c, u)
    <3>1. b.pc # "none" /\ b.pc # "publish" /\ b.outcome # "receipt"
      BY <1>1, <2>1 DEF CancelOk
    <3>2. QED
      BY <1>1, <2>1, <2>2, <2>3, <3>1 DEF CancelOk
  <2>6. FingerprintInv'
    BY <1>2, <2>1, <2>2
  <2>7. QED
    BY <2>1, <2>4, <2>5, <2>6, RecordStep, SelfUpdates
<1>5. CASE HandleUpdate(p)
  <2> DEFINE h == Head(u)
             v == Tail(u)
             done == [rt[p] EXCEPT !.catalog = 0]
             phase == IF h.errors THEN "degraded" ELSE IF h.skipped THEN "partial" ELSE "ready"
  <2>1. /\ rt[p].pc = "idle" /\ u # <<>> /\ updates' = [updates EXCEPT ![p] = v]
        /\ UNCHANGED <<control, log, build, base, fence>>
    BY <1>5 DEF HandleUpdate, history
  <2> DEFINE handled ==
               IF h.gen # rt[p].catalog THEN rt[p]
               ELSE CASE h.kind = "Activating" ->
                           [rt[p] EXCEPT !.phase = IF @ = "cancelling" THEN @ ELSE "activating"]
                      [] h.kind = "Cancelled" -> [done EXCEPT !.phase = "cancelled"]
                      [] h.kind = "Failed" -> [done EXCEPT !.phase = "degraded"]
                      [] h.kind = "Complete" -> [done EXCEPT !.phase = phase]
  <2>2. PICK r : rt' = [rt EXCEPT ![p] = r] /\ r = handled
    <3>1. rt' = [rt EXCEPT ![p] = handled]
      BY <1>5 DEF HandleUpdate
    <3> HIDE DEF handled
    <3>2. QED
      BY <3>1
  <2>3. /\ h = u[1] /\ Len(u) \in Nat /\ Len(u) >= 1 /\ v \in Seq(UpdateType) /\ Len(v) = Len(u) - 1
        /\ \A i \in 1 .. Len(v) : v[i] = u[i + 1]
    BY <1>1, <2>1
  <2>4. h.kind \in {"Activating", "Complete", "Cancelled", "Failed"}
    <3>1. u[1] \in UpdateType
      BY <1>1, <2>3
    <3>2. QED
      BY <2>3, <3>1 DEF UpdateType
  <2>5. /\ \A x : /\ [rt[p] EXCEPT !.phase = x].pc = rt[p].pc /\ [rt[p] EXCEPT !.phase = x].phase = x
                  /\ [rt[p] EXCEPT !.phase = x].catalog = rt[p].catalog
                  /\ [done EXCEPT !.phase = x].pc = rt[p].pc /\ [done EXCEPT !.phase = x].phase = x
                  /\ [done EXCEPT !.phase = x].catalog = 0
    BY <1>1 DEF RtType
  <2> HIDE DEF h, v, done
  <2>6. phase # "cancelling"
    OBVIOUS
  <2> HIDE DEF phase
  <2>7. /\ r.pc = "idle"
        /\ r.phase = "cancelling" => rt[p].phase = "cancelling" /\ r.catalog = rt[p].catalog
        /\ r.catalog = rt[p].catalog \/ (r.catalog = 0 /\ h.kind # "Activating")
    BY <2>1, <2>2, <2>4, <2>5, <2>6
  <2>8. h.kind # "Activating" => Len(u) = 1 /\ b.pc = "none" /\ rt[p].catalog # 0
    <3>1. /\ Len(u) >= 2 => 1 \in 1 .. Len(u) - 1
          /\ 1 \in 1 .. Len(u)
      BY <2>3
    <3>2. /\ 1 \in 1 .. Len(u) - 1 => u[1].kind = "Activating"
          /\ b.pc # "none" \/ rt[p].catalog = 0 => u[1].kind = "Activating"
      BY <1>1, <3>1 DEF CancelOk
    <3>3. h.kind = u[1].kind
      BY <2>3
    <3> HIDE DEF b, u, handled
    <3>4. Len(u) = 1 \/ Len(u) >= 2
      BY <2>3
    <3>5. QED
      BY <3>1, <3>2, <3>3, <3>4
  <2>9. CancelOk(r, b, v)
    <3>1. \A i \in 1 .. Len(v) - 1 : v[i].kind = "Activating"
      BY <1>1, <2>3 DEF CancelOk
    <3>2. b.pc # "none" \/ r.catalog = 0 => \A i \in 1 .. Len(v) : v[i].kind = "Activating"
      BY <1>1, <2>3, <2>7, <2>8 DEF CancelOk
    <3>3. r.catalog = 0 => b.pc = "none"
      BY <1>1, <2>7, <2>8 DEF CancelOk
    <3>4. r.phase = "cancelling" =>
            IF b.pc = "none" THEN \A i \in 1 .. Len(v) : v[i].kind # "Complete" ELSE b.flag = "cancelled"
      BY <1>1, <2>3, <2>7 DEF CancelOk
    <3>5. QED
      BY <1>1, <2>7, <3>1, <3>2, <3>3, <3>4 DEF CancelOk
  <2>10. FingerprintInv'
    BY <1>2, <2>1, <2>2, <2>7
  <2>11. QED
    <3>1. build' = [build EXCEPT ![p] = b] /\ base' = [base EXCEPT ![p] = base[p]]
      BY <2>1, SelfUpdates
    <3>2. fence' = [fence EXCEPT ![p] = fence[p]]
      BY <2>1, SelfUpdates
    <3>3. rt' = [rt EXCEPT ![p] = r] /\ updates' = [updates EXCEPT ![p] = v]
      BY <2>1, <2>2
    <3> HIDE DEF handled, b, u
    <3>4. QED
      BY <1>1, <2>9, <2>10, <3>1, <3>2, <3>3, RecordStep
<1>6. CASE Exit(p)
  <2>1. /\ rt' = [rt EXCEPT ![p] = Down] /\ build' = [build EXCEPT ![p] = NoBuild]
        /\ updates' = [updates EXCEPT ![p] = <<>>] /\ base' = [base EXCEPT ![p] = NoBase]
        /\ fence' = [fence EXCEPT ![p] = NoRows] /\ UNCHANGED <<control, log>>
    BY <1>6 DEF Exit
  <2>2. FingerprintInv'
    BY <1>2, <2>1, DownType
  <2>3. QED
    BY <2>1, <2>2, NoBuildOk, DownOk, RecordStep
<1>7. QED
  BY <1>3, <1>4, <1>5, <1>6

\* The machine stops: the one state of a file with a fingerprint is on disk.
LEMMA CommitsPowerLoss == CatalogInv /\ CommitInv /\ PowerLoss => CommitInv'
<1> SUFFICES ASSUME CatalogInv, CommitInv, PowerLoss PROVE CommitInv'
  OBVIOUS
<1>1. PICK lost \in [Dbs -> 0..MaxGen] :
           /\ \A db \in Dbs : lost[db] = 0 \/ lost[db] < Len(log[db])
           /\ log' = [db \in Dbs |-> IF log[db] = <<>> THEN <<>> ELSE <<log[db][Len(log[db]) - lost[db]]>>]
  BY DEF PowerLoss
<1>2. /\ rt' = [p \in Procs |-> Down] /\ build' = [p \in Procs |-> NoBuild]
      /\ updates' = [p \in Procs |-> <<>>] /\ base' = [p \in Procs |-> NoBase]
      /\ fence' = [p \in Procs |-> NoRows] /\ control' = control
  BY DEF PowerLoss
<1>3. control.fp # NoFingerprint => log'[control.db] = log[control.db]
  <2> HAVE control.fp # NoFingerprint
  <2>1. control.db \in Dbs /\ log[control.db] \in Seq(States) /\ Len(log[control.db]) = 1
    BY DEF CatalogInv, Types, ControlType, CommitInv, FingerprintInv
  <2>2. log[control.db] # <<>> /\ log[control.db] = <<log[control.db][1]>>
    BY <2>1
  <2>3. lost[control.db] = 0
    <3>1. PICK n \in 0..MaxGen : n = lost[control.db]
      BY <2>1
    <3>2. lost[control.db] = 0 \/ lost[control.db] < Len(log[control.db])
      BY <1>1, <2>1, Zenon
    <3>3. n = 0 \/ n < 1
      BY <2>1, <3>1, <3>2
    <3>4. n \in Nat
      BY <3>1, CatalogAssumption
    <3>5. QED
      BY <3>1, <3>3, <3>4
  <2>4. Len(log[control.db]) - lost[control.db] = 1
    BY <2>1, <2>3
  <2>5. log'[control.db] = <<log[control.db][Len(log[control.db]) - lost[control.db]]>>
    BY <1>1, <2>1, <2>2, Zenon
  <2>6. QED
    BY <2>2, <2>4, <2>5
<1>4. FingerprintInv'
  <2>1. \A p \in Procs : rt'[p].pc # "refresh"
    BY <1>2, DownType
  <2>2. QED
    BY <1>2, <1>3, <2>1, FingerprintKept
<1>5. ASSUME NEW p \in Procs
      PROVE  /\ ScanOk(build'[p]) /\ StageOk(build'[p])
             /\ WitnessOk(build'[p], base'[p], fence'[p])
             /\ CancelOk(rt'[p], build'[p], updates'[p])
  <2>1. /\ rt'[p] = Down /\ build'[p] = NoBuild /\ updates'[p] = <<>> /\ base'[p] = NoBase
        /\ fence'[p] = NoRows
    BY <1>2
  <2>2. QED
    BY <2>1, NoBuildOk, DownOk
<1>6. QED
  BY <1>4, <1>5 DEF CommitInv, ScanOk, StageOk, WitnessOk, CancelOk

\* Edits of the sources are not the index's.
LEMMA CommitsIdle ==
    ASSUME CommitInv, UNCHANGED <<control, log, rt, build, updates, base, fence>>
    PROVE  CommitInv'
<1>1. FingerprintInv'
  BY FingerprintKept
<1>2. ASSUME NEW p \in Procs
      PROVE  /\ ScanOk(build'[p]) /\ StageOk(build'[p])
             /\ WitnessOk(build'[p], base'[p], fence'[p])
             /\ CancelOk(rt'[p], build'[p], updates'[p])
  BY DEF CommitInv
<1>3. QED
  BY <1>1, <1>2 DEF CommitInv, ScanOk, StageOk, WitnessOk, CancelOk

\* Pruning leaves the active file.
LEMMA CommitsPrune ==
    ASSUME CatalogInv, CommitInv, NEW pinned, Prune(pinned), UNCHANGED <<control, rt>>
    PROVE  FingerprintInv'
<1>1. PICK gone \in SUBSET Prunable(pinned) :
         log' = [db \in Dbs |-> IF db \in gone THEN <<>> ELSE log[db]]
  BY DEF Prune
<1>2. control.db \in Dbs /\ control.db \notin gone
  BY <1>1 DEF Prunable, CatalogInv, Types, ControlType
<1>3. log'[control.db] = log[control.db]
  BY <1>1, <1>2
<1>4. QED
  BY <1>3, FingerprintKept

\* Threads that end or close an old connection.
LEMMA CommitsEnd ==
    ASSUME CatalogInv, CommitInv, NEW p \in Procs,
           EndSession(p) \/ StopScan(p) \/ \E db \in Dbs : Retire(p, db)
    PROVE  CommitInv'
<1> DEFINE b == build[p]
<1>1. /\ b \in BuildType /\ updates[p] \in Seq(UpdateType)
      /\ CancelOk(rt[p], b, updates[p])
  BY DEF CatalogInv, Types, CommitInv
<1>2. ASSUME NEW kind \in {"Complete", "Cancelled", "Failed"}, Send(p, kind, b),
             kind = "Complete" => b.outcome = "receipt", b.pc # "none",
             build' = [build EXCEPT ![p] = NoBuild], NEW x, NEW y,
             base' = [base EXCEPT ![p] = x], fence' = [fence EXCEPT ![p] = y],
             UNCHANGED rt, FingerprintInv'
      PROVE  CommitInv'
  <2> DEFINE e == [kind |-> kind, gen |-> b.gen, errors |-> b.errors, skipped |-> b.skipped]
  <2>1. updates' = [updates EXCEPT ![p] = Append(updates[p], e)] /\ e.kind = kind
    BY <1>2 DEF Send
  <2> HIDE DEF e
  <2>2. CancelOk(rt[p], NoBuild, Append(updates[p], e))
    BY <1>1, <1>2, <2>1, EndOk
  <2>3. rt' = [rt EXCEPT ![p] = rt[p]]
    BY <1>2, SelfUpdates
  <2>4. QED
    BY <1>2, <2>1, <2>2, <2>3, NoBuildOk, RecordStep
<1>3. CASE StopScan(p)
  <2>1. /\ b.pc = "scan" /\ build' = [build EXCEPT ![p] = NoBuild]
        /\ base' = [base EXCEPT ![p] = NoBase] /\ UNCHANGED <<control, log, rt, fence>>
        /\ Send(p, "Cancelled", b) \/ Send(p, "Failed", b)
    BY <1>3 DEF StopScan
  <2>2. FingerprintInv'
    BY <2>1, FingerprintKept
  <2>3. fence' = [fence EXCEPT ![p] = fence[p]]
    BY <2>1, SelfUpdates
  <2>4. QED
    BY <1>2, <2>1, <2>2, <2>3
<1>4. CASE EndSession(p)
  <2>1. /\ b.pc = "drop" /\ build' = [build EXCEPT ![p] = NoBuild] /\ UNCHANGED <<control, rt>>
        /\ base' = [base EXCEPT ![p] = NoBase] /\ fence' = [fence EXCEPT ![p] = NoRows]
        /\ \E pinned : Prune(pinned)
    BY <1>4 DEF EndSession
  <2>2. PICK kind \in {"Complete", "Cancelled", "Failed"} :
           Send(p, kind, b) /\ (kind = "Complete" => b.outcome = "receipt")
    BY <1>4 DEF EndSession
  <2>3. FingerprintInv'
    BY <2>1, CommitsPrune
  <2>4. QED
    BY <1>2, <2>1, <2>2, <2>3
<1>5. ASSUME NEW db \in Dbs, Retire(p, db) PROVE CommitInv'
  <2>1. /\ \E pinned : Prune(pinned)
        /\ UNCHANGED <<control, rt, build, updates, base, fence>>
    BY <1>5 DEF Retire, history
  <2>2. FingerprintInv'
    BY <2>1, CommitsPrune
  <2>3. /\ rt' = [rt EXCEPT ![p] = rt[p]] /\ build' = [build EXCEPT ![p] = b]
        /\ updates' = [updates EXCEPT ![p] = updates[p]] /\ base' = [base EXCEPT ![p] = base[p]]
        /\ fence' = [fence EXCEPT ![p] = fence[p]]
    BY <2>1, SelfUpdates
  <2>4. ScanOk(b) /\ StageOk(b) /\ WitnessOk(b, base[p], fence[p])
    BY DEF CommitInv
  <2>5. QED
    BY <1>1, <2>2, <2>3, <2>4, RecordStep
<1>6. QED
  BY <1>3, <1>4, <1>5

\* The catalog thread goes on to another stage.
LEMMA StageMove ==
    ASSUME NEW r, NEW b, NEW c, NEW u, CancelOk(r, b, u), b.pc # "none", c.pc # "none",
           b.flag = "cancelled" => c.flag = "cancelled",
           c.pc = "publish" => c.flag = "publishing",
           c.outcome = "receipt" => c.flag = "publishing" /\ c.pc = "drop"
    PROVE  CancelOk(r, c, u)
  BY DEF CancelOk

\* The records of a scan: what was read and how.
SameScan(b, c) ==
    /\ c.force = b.force /\ c.hashFirst = b.hashFirst /\ c.fp = b.fp /\ c.old = b.old
    /\ c.todo = b.todo /\ c.jobs = b.jobs /\ c.stamps = b.stamps /\ c.rows = b.rows
    /\ c.rejected = b.rejected /\ c.changed = b.changed

\* What holds of a scan holds while its records stay.
LEMMA SameScanOk ==
    ASSUME NEW b, NEW c, SameScan(b, c), ScanOk(b), b.reuse => c.reuse
    PROVE  ScanOk(c)
  BY DEF ScanOk, SameScan

\* A step of the catalog thread within its build, short of the publication.
LEMMA ThreadMove ==
    ASSUME CatalogInv, CommitInv, NEW p \in Procs, NEW c, build' = [build EXCEPT ![p] = c],
           UNCHANGED <<rt, updates, base, fence>>, FingerprintInv',
           ScanOk(c), StageOk(c), WitnessOk(c, base[p], fence[p]), build[p].pc # "none",
           c.pc \notin {"none", "publish"}, c.flag = build[p].flag, c.outcome # "receipt"
    PROVE  CommitInv'
<1>1. /\ rt' = [rt EXCEPT ![p] = rt[p]] /\ updates' = [updates EXCEPT ![p] = updates[p]]
      /\ base' = [base EXCEPT ![p] = base[p]] /\ fence' = [fence EXCEPT ![p] = fence[p]]
  BY SelfUpdates
<1>2. CancelOk(rt[p], c, updates[p])
  <2>1. CancelOk(rt[p], build[p], updates[p])
    BY DEF CommitInv
  <2>2. QED
    BY <2>1, StageMove
<1>3. QED
  BY <1>1, <1>2, RecordStep

\* One entry of the directory scan.
LEMMA ScannedOk ==
    ASSUME CatalogInv, NEW b \in BuildType, NEW d \in b.todo,
           NEW result \in {"ok", "hidden", "unreadable"}, b.pc = "scan", ~b.reuse,
           ScanOk(b), StageOk(b), NEW c, c = Scanned(b, d, result)
    PROVE  /\ ScanOk(c) /\ StageOk(c) /\ c.fp = b.fp /\ c.old = b.old
           /\ c.flag = b.flag /\ c.outcome = b.outcome
           /\ c.pc \in {"scan", IF b.force THEN "begin" ELSE "route"}
<1> DEFINE rest == [b EXCEPT !.todo = @ \ {d},
                             !.pc = IF b.todo # {d} THEN "scan" ELSE IF b.force THEN "begin" ELSE "route"]
<1>1. d \in Docs /\ b.stamps \in [Docs -> Versions] /\ b.rows \in [Docs -> Versions]
      /\ b.jobs \subseteq Docs /\ b.todo \subseteq Docs
  BY DEF BuildType, Rows
<1>2. /\ rest.todo = b.todo \ {d} /\ rest.pc \in {"scan", IF b.force THEN "begin" ELSE "route"}
      /\ rest.force = b.force /\ rest.hashFirst = b.hashFirst /\ rest.fp = b.fp /\ rest.old = b.old
      /\ rest.jobs = b.jobs /\ rest.stamps = b.stamps /\ rest.rows = b.rows
      /\ rest.rejected = b.rejected /\ rest.changed = b.changed /\ rest.reuse = b.reuse
      /\ rest.flag = b.flag /\ rest.outcome = b.outcome
      /\ DOMAIN rest = DOMAIN b
  BY DEF BuildType
<1>3. rest \in BuildType
  <2>1. PICK x \in {"scan", "begin", "route"} :
           x = IF b.todo # {d} THEN "scan" ELSE IF b.force THEN "begin" ELSE "route"
    OBVIOUS
  <2>2. PICK T \in SUBSET Docs : T = b.todo \ {d}
    BY <1>1
  <2>3. rest = [b EXCEPT !.todo = T, !.pc = x]
    BY <2>1, <2>2
  <2> HIDE DEF rest
  <2>4. QED
    BY <2>3 DEF BuildType
<1>4. PICK J, S, R : /\ c.jobs = J /\ c.stamps = S /\ c.rejected = R
                     /\ \/ J = b.jobs /\ S = b.stamps
                        \/ /\ J = b.jobs \cup {d}
                           /\ S = [b.stamps EXCEPT ![d] = IF b.hashFirst THEN source[d] ELSE 0]
                           /\ source[d] \notin Oversized
                     /\ b.rejected \subseteq R
                     /\ c.todo = rest.todo /\ c.pc = rest.pc /\ c.force = rest.force
                     /\ c.hashFirst = rest.hashFirst /\ c.fp = rest.fp /\ c.old = rest.old
                     /\ c.rows = rest.rows /\ c.changed = rest.changed /\ c.reuse = rest.reuse
                     /\ c.flag = rest.flag /\ c.outcome = rest.outcome
  <2>1. \/ c = [rest EXCEPT !.errors = TRUE, !.complete = FALSE]
        \/ c = [rest EXCEPT !.errors = TRUE, !.complete = FALSE, !.rejected = @ \cup {d}]
        \/ c = rest
        \/ c = [rest EXCEPT !.skipped = TRUE]
        \/ /\ c = [rest EXCEPT !.jobs = @ \cup {d}, !.stamps[d] = IF b.hashFirst THEN source[d] ELSE 0]
           /\ source[d] \notin Oversized
    <3>1. CASE result # "ok"
      BY <3>1 DEF Scanned
    <3>2. CASE result = "ok" /\ source[d] = 0
      BY <3>2, CatalogAssumption DEF Scanned
    <3>3. CASE result = "ok" /\ source[d] # 0 /\ source[d] \in Oversized
      BY <3>3 DEF Scanned
    <3>4. CASE result = "ok" /\ source[d] # 0 /\ source[d] \notin Oversized
      BY <3>4 DEF Scanned
    <3>5. QED
      BY <3>1, <3>2, <3>3, <3>4
  <2> HIDE DEF rest
  <2>2. CASE c = rest \/ c = [rest EXCEPT !.errors = TRUE, !.complete = FALSE] \/ c = [rest EXCEPT !.skipped = TRUE]
    <3>1. /\ c.jobs = rest.jobs /\ c.stamps = rest.stamps /\ c.rejected = rest.rejected
          /\ c.todo = rest.todo /\ c.pc = rest.pc /\ c.force = rest.force
          /\ c.hashFirst = rest.hashFirst /\ c.fp = rest.fp /\ c.old = rest.old
          /\ c.rows = rest.rows /\ c.changed = rest.changed /\ c.reuse = rest.reuse
          /\ c.flag = rest.flag /\ c.outcome = rest.outcome
      BY <1>3, <2>2 DEF BuildType
    <3>2. QED
      BY <1>2, <3>1
  <2>3. CASE c = [rest EXCEPT !.errors = TRUE, !.complete = FALSE, !.rejected = @ \cup {d}]
    <3>1. /\ c.jobs = rest.jobs /\ c.stamps = rest.stamps /\ c.rejected = rest.rejected \cup {d}
          /\ c.todo = rest.todo /\ c.pc = rest.pc /\ c.force = rest.force
          /\ c.hashFirst = rest.hashFirst /\ c.fp = rest.fp /\ c.old = rest.old
          /\ c.rows = rest.rows /\ c.changed = rest.changed /\ c.reuse = rest.reuse
          /\ c.flag = rest.flag /\ c.outcome = rest.outcome
      BY <1>3, <2>3 DEF BuildType
    <3>2. QED
      BY <1>2, <3>1
  <2>4. CASE /\ c = [rest EXCEPT !.jobs = @ \cup {d}, !.stamps[d] = IF b.hashFirst THEN source[d] ELSE 0]
             /\ source[d] \notin Oversized
    <3>1. PICK J, S : J = rest.jobs \cup {d}
                      /\ S = [rest.stamps EXCEPT ![d] = IF b.hashFirst THEN source[d] ELSE 0]
      OBVIOUS
    <3>2. c = [rest EXCEPT !.jobs = J, !.stamps = S]
      BY <2>4, <3>1, Zenon
    <3>3. /\ c.jobs = J /\ c.stamps = S /\ c.rejected = rest.rejected
          /\ c.todo = rest.todo /\ c.pc = rest.pc /\ c.force = rest.force
          /\ c.hashFirst = rest.hashFirst /\ c.fp = rest.fp /\ c.old = rest.old
          /\ c.rows = rest.rows /\ c.changed = rest.changed /\ c.reuse = rest.reuse
          /\ c.flag = rest.flag /\ c.outcome = rest.outcome
      BY <1>3, <3>2 DEF BuildType
    <3>4. QED
      BY <1>2, <2>4, <3>1, <3>3
  <2>5. QED
    BY <2>1, <2>2, <2>3, <2>4
<1> HIDE DEF rest
<1>5. ScanOk(c)
  <2>1. \A e \in Docs : e # d => S[e] = b.stamps[e]
    BY <1>1, <1>4
  <2>2. b.stamps[d] = 0 /\ b.rows[d] = 0 /\ d \notin b.jobs /\ 0 \notin Oversized
    BY CatalogAssumption DEF ScanOk
  <2>3. d \in J => S[d] \notin Oversized /\ (~b.hashFirst => S[d] = 0)
    BY <1>1, <1>4, <2>2
  <2>4. d \notin J => S[d] = 0
    BY <1>4, <2>2
  <2>5. c.todo \cap J = {} /\ J \ {d} = b.jobs
    BY <1>2, <1>4, <2>2 DEF ScanOk
  <2>6. \A e \in c.todo : e # d /\ e \in b.todo
    BY <1>2, <1>4
  <2>7. QED
    BY <1>1, <1>2, <1>4, <2>1, <2>2, <2>3, <2>4, <2>5, <2>6 DEF ScanOk
<1>6. StageOk(c)
  BY <1>2, <1>4 DEF StageOk
<1>7. QED
  BY <1>2, <1>4, <1>5, <1>6

\* One job of a parser.
LEMMA ParsedOk ==
    ASSUME CatalogInv, NEW b \in BuildType, NEW d \in b.jobs, NEW result \in {"ok", "unreadable", "unparsable"}, ~b.reuse,
           b.pc \in {"begin", "route", "write"}, b.pc = "begin" => b.force,
           ScanOk(b), StageOk(b), NEW c, c = Parsed(b, d, result)
    PROVE  /\ ScanOk(c) /\ StageOk(c) /\ c.fp = b.fp /\ c.old = b.old
           /\ c.flag = b.flag /\ c.outcome = b.outcome /\ c.pc = b.pc
<1> DEFINE rest == [b EXCEPT !.jobs = @ \ {d}]
           failed == result = "unparsable"
<1>1. /\ d \in Docs /\ b.stamps \in [Docs -> Versions] /\ b.rows \in [Docs -> Versions]
      /\ b.jobs \subseteq Docs /\ b.todo \subseteq Docs
  BY DEF BuildType, Rows
<1>2. /\ rest.todo = b.todo /\ rest.pc = b.pc
      /\ rest.force = b.force /\ rest.hashFirst = b.hashFirst /\ rest.fp = b.fp /\ rest.old = b.old
      /\ rest.jobs = b.jobs \ {d} /\ rest.stamps = b.stamps /\ rest.rows = b.rows
      /\ rest.rejected = b.rejected /\ rest.changed = b.changed /\ rest.reuse = b.reuse
      /\ rest.flag = b.flag /\ rest.outcome = b.outcome
  BY DEF BuildType
<1>3. rest \in BuildType
  <2>1. PICK J \in SUBSET Docs : J = b.jobs \ {d}
    BY <1>1
  <2>2. rest = [b EXCEPT !.jobs = J]
    BY <2>1
  <2> HIDE DEF rest
  <2>3. QED
    BY <2>2 DEF BuildType
<1>4. PICK S, T, R, x : /\ c.stamps = S /\ c.rows = T /\ c.rejected = R /\ c.changed = x
                        /\ \/ x /\ S = b.stamps /\ T = b.rows /\ R = b.rejected
                           \/ d \in R /\ S = b.stamps /\ T = b.rows /\ x = b.changed
                           \/ /\ S = b.stamps /\ T = b.rows /\ R = b.rejected /\ x = b.changed
                              /\ b.hashFirst => source[d] = b.stamps[d]
                              /\ source[d] \in Oversized
                           \/ /\ S = [b.stamps EXCEPT ![d] = source[d]] /\ x = b.changed
                              /\ T = [b.rows EXCEPT ![d] = IF failed THEN 0 ELSE source[d]]
                              /\ failed => d \in R
                        /\ b.rejected \subseteq R
                        /\ c.todo = rest.todo /\ c.jobs = rest.jobs /\ c.pc = rest.pc /\ c.force = rest.force
                        /\ c.hashFirst = rest.hashFirst /\ c.fp = rest.fp /\ c.old = rest.old
                        /\ c.reuse = rest.reuse /\ c.flag = rest.flag /\ c.outcome = rest.outcome
  <2> DEFINE full == [rest EXCEPT !.stamps[d] = source[d],
                                  !.rows[d] = IF failed THEN 0 ELSE source[d],
                                  !.rejected = IF failed THEN @ \cup {d} ELSE @,
                                  !.errors = @ \/ failed]
  <2>1. \/ c = [rest EXCEPT !.changed = TRUE]
        \/ c = [rest EXCEPT !.rejected = @ \cup {d}, !.errors = TRUE]
        \/ /\ c = [rest EXCEPT !.skipped = TRUE]
           /\ b.hashFirst => source[d] = b.stamps[d]
           /\ source[d] \in Oversized
        \/ c = full
    BY Zenon DEF Parsed
  <2> HIDE DEF rest, full
  <2>2. CASE c = [rest EXCEPT !.changed = TRUE]
    BY <1>2, <1>3, <2>2 DEF BuildType
  <2>3. CASE c = [rest EXCEPT !.rejected = @ \cup {d}, !.errors = TRUE]
    <3>1. /\ c.stamps = rest.stamps /\ c.rows = rest.rows /\ c.changed = rest.changed
          /\ c.rejected = rest.rejected \cup {d}
          /\ c.todo = rest.todo /\ c.jobs = rest.jobs /\ c.pc = rest.pc /\ c.force = rest.force
          /\ c.hashFirst = rest.hashFirst /\ c.fp = rest.fp /\ c.old = rest.old
          /\ c.reuse = rest.reuse /\ c.flag = rest.flag /\ c.outcome = rest.outcome
      BY <1>3, <2>3 DEF BuildType
    <3>2. QED
      BY <1>2, <3>1
  <2>4. CASE /\ c = [rest EXCEPT !.skipped = TRUE]
             /\ b.hashFirst => source[d] = b.stamps[d]
             /\ source[d] \in Oversized
    BY <1>2, <1>3, <2>4 DEF BuildType
  <2>5. CASE c = full
    <3>1. PICK S, T, R, e : /\ S = [rest.stamps EXCEPT ![d] = source[d]]
                            /\ T = [rest.rows EXCEPT ![d] = IF failed THEN 0 ELSE source[d]]
                            /\ R = IF failed THEN rest.rejected \cup {d} ELSE rest.rejected
                            /\ e = (rest.errors \/ failed)
      BY Zenon
    <3>2. c = [rest EXCEPT !.stamps = S, !.rows = T, !.rejected = R, !.errors = e]
      BY <2>5, <3>1, Zenon DEF full
    <3>3. /\ c.stamps = S /\ c.rows = T /\ c.rejected = R /\ c.changed = rest.changed
          /\ c.todo = rest.todo /\ c.jobs = rest.jobs /\ c.pc = rest.pc /\ c.force = rest.force
          /\ c.hashFirst = rest.hashFirst /\ c.fp = rest.fp /\ c.old = rest.old
          /\ c.reuse = rest.reuse /\ c.flag = rest.flag /\ c.outcome = rest.outcome
      BY <1>3, <3>2 DEF BuildType
    <3>4. S = [b.stamps EXCEPT ![d] = source[d]]
          /\ T = [b.rows EXCEPT ![d] = IF failed THEN 0 ELSE source[d]]
      BY <1>2, <3>1
    <3>5. b.rejected \subseteq R /\ (failed => d \in R)
      BY <1>2, <3>1
    <3>6. QED
      BY <1>2, <3>3, <3>4, <3>5
  <2>6. QED
    BY <2>1, <2>2, <2>3, <2>4, <2>5
<1> HIDE DEF rest
<1>5. ScanOk(c)
  <2>1. /\ \A e \in Docs : e # d => S[e] = b.stamps[e] /\ T[e] = b.rows[e]
        /\ c.jobs = b.jobs \ {d}
    BY <1>1, <1>2, <1>4
  <2>2. b.rows[d] = 0 /\ (~b.hashFirst => b.stamps[d] = 0) /\ b.stamps[d] \notin Oversized /\ d \notin b.todo
    BY DEF ScanOk
  <2>3. (T[d] # 0 => T[d] = S[d]) /\ (x \/ d \in R \/ T[d] = S[d])
    <3>1. CASE S = [b.stamps EXCEPT ![d] = source[d]]
               /\ T = [b.rows EXCEPT ![d] = IF failed THEN 0 ELSE source[d]] /\ (failed => d \in R)
      BY <1>1, <3>1
    <3>2. CASE T = b.rows /\ (x \/ d \in R)
      BY <2>2, <3>2
    <3>3. CASE S = b.stamps /\ T = b.rows /\ (b.hashFirst => source[d] = b.stamps[d]) /\ source[d] \in Oversized
      BY <2>2, <3>3
    <3>4. QED
      BY <1>4, <3>1, <3>2, <3>3
  <2>4. x = TRUE \/ x = b.changed
    BY <1>4
  <2>5. QED
    BY <1>1, <1>2, <1>4, <2>1, <2>2, <2>3, <2>4 DEF ScanOk
<1>6. StageOk(c)
  BY <1>2, <1>4 DEF StageOk
<1>7. QED
  BY <1>2, <1>4, <1>5, <1>6

\* A session begins from the state that the stored fingerprint is of.
LEMMA CommitsSession ==
    ASSUME CatalogInv, CommitInv, NEW p \in Procs, BeginSession(p)
    PROVE  CommitInv'
<1> DEFINE b == build[p]
           expected == Current(control.db).gen
           fp == IF b.force \/ expected = 0 THEN NoFingerprint ELSE control.fp
           hashed == fp # NoFingerprint /\ Current(control.db).rejected = {}
           c == [b EXCEPT !.pc = IF b.force THEN "route" ELSE "scan",
                          !.parent = Publication, !.expected = expected, !.old = control.db, !.fp = fp,
                          !.hashFirst = hashed]
<1>1. /\ b \in BuildType /\ control.db \in Dbs /\ Shape(b) /\ updates[p] \in Seq(UpdateType)
      /\ ScanOk(b) /\ StageOk(b) /\ WitnessOk(b, base[p], fence[p]) /\ CancelOk(rt[p], b, updates[p])
  BY DEF CatalogInv, Types, ControlType, BuildInv, CommitInv
<1>2. b.pc = "begin" /\ UNCHANGED <<control, log, rt, fence>>
  BY DEF BeginSession
<1>3. FingerprintInv'
  BY <1>2, FingerprintKept
<1>4. /\ rt' = [rt EXCEPT ![p] = rt[p]] /\ fence' = [fence EXCEPT ![p] = fence[p]]
      /\ updates = [updates EXCEPT ![p] = updates[p]] /\ base = [base EXCEPT ![p] = base[p]]
  BY <1>2, SelfUpdates
<1>5. CASE ~Openable \/ b.gen <= expected
  <2> DEFINE e == [kind |-> "Failed", gen |-> b.gen, errors |-> b.errors, skipped |-> b.skipped]
  <2>1. /\ Send(p, "Failed", b) /\ build' = [build EXCEPT ![p] = NoBuild] /\ base' = base
    BY <1>5 DEF BeginSession
  <2>2. updates' = [updates EXCEPT ![p] = Append(updates[p], e)] /\ e.kind = "Failed"
    BY <2>1 DEF Send
  <2> HIDE DEF e
  <2>3. CancelOk(rt[p], NoBuild, Append(updates[p], e))
    BY <1>1, <1>2, <2>2, EndOk
  <2>4. base' = [base EXCEPT ![p] = base[p]]
    BY <1>4, <2>1
  <2>5. QED
    BY <1>3, <1>4, <2>1, <2>2, <2>3, <2>4, NoBuildOk, RecordStep
<1>6. CASE ~(~Openable \/ b.gen <= expected)
  <2>1. /\ build' = [build EXCEPT ![p] = c] /\ base' = [base EXCEPT ![p] = Current(control.db)]
        /\ updates' = updates
    BY <1>6 DEF BeginSession
  <2>2. /\ c.pc = (IF b.force THEN "route" ELSE "scan") /\ c.old = control.db /\ c.fp = fp
        /\ c.hashFirst = hashed /\ c.force = b.force /\ c.todo = b.todo /\ c.jobs = b.jobs
        /\ c.stamps = b.stamps /\ c.rows = b.rows /\ c.rejected = b.rejected /\ c.changed = b.changed
        /\ c.reuse = b.reuse /\ c.flag = b.flag /\ c.outcome = b.outcome
    BY <1>1 DEF BuildType
  <2>3. /\ hashed => fp # NoFingerprint
        /\ fp # NoFingerprint => ~b.force /\ fp = control.fp
    OBVIOUS
  <2>4. b.reuse = FALSE
    BY <1>1, <1>2 DEF Shape, BuildType
  <2> HIDE DEF c, fp, hashed
  <2>5. ScanOk(c)
    <3>1. b.jobs = {} \/ ~hashed
      BY <1>1, <1>2, <2>3 DEF StageOk
    <3>2. \A d \in b.jobs : b.stamps[d] = 0
      BY <1>1, <1>2 DEF StageOk, ScanOk
    <3>3. QED
      BY <1>1, <2>2, <3>1, <3>2 DEF ScanOk
  <2>6. StageOk(c)
    BY <2>2, <2>3, <2>4 DEF StageOk
  <2>7. WitnessOk(c, Current(control.db), fence[p])
    <3>1. control.db # NoDb
      BY <1>1, CatalogAssumption DEF Dbs, NoDb
    <3>2. control.fp # NoFingerprint => Current(control.db).rows = control.fp
      BY DEF CommitInv, FingerprintInv, Current
    <3>3. QED
      BY <2>2, <2>3, <3>1, <3>2 DEF WitnessOk
  <2>8. CancelOk(rt[p], c, updates[p])
    <3>1. b.outcome # "receipt"
      BY <1>1, <1>2 DEF CancelOk
    <3>2. QED
      BY <1>1, <1>2, <2>2, <3>1, StageMove
  <2>9. updates' = [updates EXCEPT ![p] = updates[p]]
    BY <1>4, <2>1
  <2>10. QED
    BY <1>3, <1>4, <2>1, <2>5, <2>6, <2>7, <2>8, <2>9, RecordStep
<1>7. QED
  BY <1>5, <1>6

\* The directory scan and the parsers.
LEMMA CommitsScans ==
    ASSUME CatalogInv, CommitInv, NEW p \in Procs, ScanDoc(p) \/ \E d \in Docs : Parse(p, d)
    PROVE  CommitInv'
<1> DEFINE b == build[p]
<1>1. /\ b \in BuildType /\ Shape(b) /\ ScanOk(b) /\ StageOk(b) /\ WitnessOk(b, base[p], fence[p])
      /\ CancelOk(rt[p], b, updates[p])
  BY DEF CatalogInv, Types, BuildInv, CommitInv
<1>2. UNCHANGED <<control, log, rt, updates, base, fence>>
  BY DEF ScanDoc, Parse, history
<1>3. FingerprintInv'
  BY <1>2, FingerprintKept
<1>4. b.pc \in {"scan", "begin", "route", "write"} => ~b.reuse /\ b.outcome # "receipt"
  BY <1>1 DEF Shape, CancelOk
<1>5. ASSUME NEW c, build' = [build EXCEPT ![p] = c], ScanOk(c), StageOk(c), c.fp = b.fp, c.old = b.old,
             c.flag = b.flag, c.outcome = b.outcome, c.pc \in {"scan", "begin", "route", "write"},
             b.pc \in {"scan", "begin", "route", "write"}
      PROVE  CommitInv'
  <2>1. WitnessOk(c, base[p], fence[p])
    BY <1>1, <1>5 DEF WitnessOk
  <2>2. QED
    BY <1>2, <1>3, <1>4, <1>5, <2>1, ThreadMove
<1>6. CASE ScanDoc(p)
  <2>1. PICK d \in b.todo, result \in {"ok", "hidden", "unreadable"} :
           build' = [build EXCEPT ![p] = Scanned(b, d, result)]
    BY <1>6 DEF ScanDoc
  <2>2. b.pc = "scan"
    BY <1>6 DEF ScanDoc
  <2>3. PICK c : c = Scanned(b, d, result)
    OBVIOUS
  <2>4. /\ ScanOk(c) /\ StageOk(c) /\ c.fp = b.fp /\ c.old = b.old
        /\ c.flag = b.flag /\ c.outcome = b.outcome
        /\ c.pc \in {"scan", IF b.force THEN "begin" ELSE "route"}
    BY <1>1, <1>4, <2>2, <2>3, ScannedOk
  <2>5. QED
    BY <1>5, <2>1, <2>2, <2>3, <2>4
<1>7. ASSUME NEW d \in Docs, Parse(p, d) PROVE CommitInv'
  <2>1. PICK result \in {"ok", "unreadable", "unparsable"} : build' = [build EXCEPT ![p] = Parsed(b, d, result)]
    BY <1>7 DEF Parse
  <2>2. b.pc \in {"begin", "route", "write"} /\ (b.pc = "begin" => b.force) /\ d \in b.jobs
    BY <1>7 DEF Parse
  <2>3. PICK c : c = Parsed(b, d, result)
    OBVIOUS
  <2>4. /\ ScanOk(c) /\ StageOk(c) /\ c.fp = b.fp /\ c.old = b.old
        /\ c.flag = b.flag /\ c.outcome = b.outcome /\ c.pc = b.pc
    BY <1>1, <1>4, <2>2, <2>3, ParsedOk
  <2>5. QED
    BY <1>5, <2>1, <2>2, <2>3, <2>4
<1>8. QED
  BY <1>6, <1>7

\* The stages after the scan.
LEMMA CommitsStages ==
    ASSUME CatalogInv, CommitInv, NEW p \in Procs,
           \/ ChooseRoute(p) \/ Activate(p) \/ Seal(p) \/ CheckSources(p) \/ LockPublication(p)
           \/ Discard(p)
    PROVE  CommitInv'
<1> DEFINE b == build[p]
           u == updates[p]
<1>1. /\ Types /\ b \in BuildType /\ Shape(b) /\ ScanOk(b) /\ StageOk(b) /\ WitnessOk(b, base[p], fence[p])
      /\ CancelOk(rt[p], b, u) /\ u \in Seq(UpdateType) /\ control.db \in Dbs
  BY DEF CatalogInv, Types, BuildInv, CommitInv, ControlType
<1>2. /\ rt = [rt EXCEPT ![p] = rt[p]] /\ updates = [updates EXCEPT ![p] = u]
      /\ base = [base EXCEPT ![p] = base[p]] /\ fence = [fence EXCEPT ![p] = fence[p]]
  BY SelfUpdates
<1>3. ASSUME NEW c, SameScan(b, c), b.pc # "none", c.pc \notin {"none", "publish"},
             build' = [build EXCEPT ![p] = c], UNCHANGED <<rt, updates, base, fence>>, FingerprintInv',
             c.flag = b.flag, c.reuse = b.reuse, c.outcome # "receipt",
             c.pc \in {"write", "check", "drop"},
             c.pc = "check" => b.pc = "seal"
      PROVE  CommitInv'
  <2>1. ScanOk(c)
    BY <1>1, <1>3, SameScanOk
  <2>2. StageOk(c)
    BY <1>1, <1>3 DEF StageOk, SameScan
  <2>3. WitnessOk(c, base[p], fence[p])
    BY <1>1, <1>3 DEF WitnessOk, SameScan
  <2>4. QED
    BY <1>3, <2>1, <2>2, <2>3, ThreadMove
<1>4. CASE ChooseRoute(p)
  <2>1. b.pc = "route" /\ UNCHANGED <<control, rt, updates, base, fence>>
    BY <1>4 DEF ChooseRoute, history
  <2>2. b.outcome # "receipt"
    BY <1>1, <2>1 DEF CancelOk
  <2>3. CASE CanReuse(b)
    <3> DEFINE c == [b EXCEPT !.pc = "reuse", !.reuse = TRUE]
    <3>1. build' = [build EXCEPT ![p] = c] /\ log' = log
      BY <1>4, <2>3 DEF ChooseRoute
    <3>2. SameScan(b, c) /\ c.pc = "reuse" /\ c.reuse = TRUE /\ c.flag = b.flag /\ c.outcome = b.outcome
      BY <1>1 DEF BuildType, SameScan
    <3> HIDE DEF c
    <3>3. FingerprintInv'
      BY <2>1, <3>1, FingerprintKept
    <3>4. ScanOk(c)
      BY <1>1, <3>2, SameScanOk
    <3>5. StageOk(c)
      BY <1>1, <2>3, <3>2 DEF StageOk, SameScan, CanReuse
    <3>6. WitnessOk(c, base[p], fence[p])
      BY <1>1, <3>2 DEF WitnessOk, SameScan
    <3>7. QED
      BY <2>1, <2>2, <3>1, <3>2, <3>3, <3>4, <3>5, <3>6, ThreadMove
  <2>4. CASE ~CanReuse(b)
    <3>1. PICK db \in FreeDbs : /\ build' = [build EXCEPT ![p].pc = "write", ![p].db = db]
                                /\ log' = [log EXCEPT ![db] = <<NoSchema>>]
      BY <1>4, <2>4 DEF ChooseRoute
    <3> DEFINE c == [b EXCEPT !.pc = "write", !.db = db]
    <3>2. build' = [build EXCEPT ![p] = c]
      BY <3>1
    <3>3. SameScan(b, c) /\ c.pc = "write" /\ c.reuse = b.reuse /\ c.flag = b.flag /\ c.outcome = b.outcome
      BY <1>1 DEF BuildType, SameScan
    <3> HIDE DEF c
    <3>4. control.fp # NoFingerprint => log'[control.db] = log[control.db]
      <4>1. control.fp # NoFingerprint => log[control.db] # <<>>
        BY DEF CommitInv, FingerprintInv
      <4>2. log[db] = <<>> /\ log \in [Dbs -> Seq(States)]
        BY <1>1, <3>1 DEF FreeDbs, Types
      <4>3. QED
        BY <1>1, <3>1, <4>1, <4>2
    <3>5. FingerprintInv'
      BY <2>1, <3>4, FingerprintKept
    <3>6. QED
      BY <1>3, <2>1, <2>2, <3>2, <3>3, <3>5
  <2>5. QED
    BY <2>3, <2>4
<1>5. CASE Activate(p)
  <2> DEFINE c == [b EXCEPT !.flag = "activating", !.pc = IF b.reuse THEN "check" ELSE "seal"]
             e == [kind |-> "Activating", gen |-> b.gen, errors |-> b.errors, skipped |-> b.skipped]
  <2>1. /\ b.pc = "reuse" \/ (b.pc = "write" /\ b.jobs = {} /\ ~b.changed)
        /\ b.flag = "running" /\ Send(p, "Activating", b) /\ build' = [build EXCEPT ![p] = c]
        /\ UNCHANGED <<control, log, rt, base, fence>>
    BY <1>5 DEF Activate, history
  <2>2. /\ SameScan(b, c) /\ c.pc = (IF b.reuse THEN "check" ELSE "seal") /\ c.reuse = b.reuse
        /\ c.flag = "activating" /\ c.outcome = b.outcome /\ c.gen = b.gen
    BY <1>1 DEF BuildType, SameScan
  <2>3. updates' = [updates EXCEPT ![p] = Append(u, e)] /\ e.kind = "Activating"
    BY <2>1 DEF Send
  <2> HIDE DEF c, e
  <2>4. b.outcome # "receipt" /\ (b.pc = "reuse" => b.reuse)
    BY <1>1, <2>1 DEF CancelOk, Shape
  <2>5. ScanOk(c)
    BY <1>1, <2>2, SameScanOk
  <2>6. StageOk(c)
    BY <1>1, <2>1, <2>2, <2>4 DEF StageOk, SameScan
  <2>7. WitnessOk(c, base[p], fence[p])
    BY <1>1, <2>2 DEF WitnessOk, SameScan
  <2>8. CancelOk(rt[p], c, Append(u, e))
    <3> DEFINE v == Append(u, e)
    <3>1. Len(u) \in Nat /\ Len(v) = Len(u) + 1 /\ v[Len(u) + 1] = e /\ \A i \in 1 .. Len(u) : v[i] = u[i]
      BY <1>1
    <3> HIDE DEF v
    <3>2. /\ \A i \in 1 .. Len(u) : u[i].kind = "Activating"
          /\ rt[p].catalog # 0 /\ rt[p].phase # "cancelling"
      BY <1>1, <2>1 DEF CancelOk
    <3>3. \A i \in 1 .. Len(v) : v[i].kind = "Activating"
      BY <2>3, <3>1, <3>2
    <3>4. rt[p].pc \in {"down", "new", "table", "row", "open", "failed"} => rt[p].catalog = 0
      BY <1>1 DEF CancelOk
    <3>5. \A i \in 1 .. Len(v) - 1 : v[i].kind = "Activating"
      BY <3>1, <3>3
    <3>6. QED
      BY <2>2, <2>4, <3>2, <3>3, <3>4, <3>5 DEF CancelOk, v
  <2>9. FingerprintInv'
    BY <2>1, FingerprintKept
  <2>10. rt' = [rt EXCEPT ![p] = rt[p]] /\ base' = [base EXCEPT ![p] = base[p]]
         /\ fence' = [fence EXCEPT ![p] = fence[p]]
    BY <1>2, <2>1
  <2>11. QED
    BY <2>1, <2>3, <2>5, <2>6, <2>7, <2>8, <2>9, <2>10, RecordStep
<1>6. CASE Seal(p)
  <2> DEFINE c == [b EXCEPT !.pc = "check"]
  <2>1. /\ b.pc = "seal" /\ build' = [build EXCEPT ![p] = c]
        /\ log' = [log EXCEPT ![b.db] = <<[gen |-> b.gen, rows |-> b.rows, rejected |-> b.rejected]>>]
        /\ UNCHANGED <<control, rt, updates, base, fence>>
    BY <1>6 DEF Seal, history
  <2>2. SameScan(b, c) /\ c.pc = "check" /\ c.reuse = b.reuse /\ c.flag = b.flag /\ c.outcome = b.outcome
    BY <1>1 DEF BuildType, SameScan
  <2> HIDE DEF c
  <2>3. b.outcome # "receipt"
    BY <1>1, <2>1 DEF CancelOk
  <2>4. b.db # control.db
    <3>1. b.db \in Own(p)
      BY <1>1, <2>1 DEF Shape, Own, Owning
    <3>2. QED
      BY <3>1 DEF CatalogInv, PrivateInv
  <2>5. log'[control.db] = log[control.db]
    BY <1>1, <2>1, <2>4 DEF Types
  <2>6. FingerprintInv'
    BY <2>1, <2>5, FingerprintKept
  <2>7. QED
    BY <1>3, <2>1, <2>2, <2>3, <2>6
<1>7. CASE CheckSources(p)
  <2>1. PICK x, o : /\ build' = [build EXCEPT ![p].pc = x, ![p].outcome = o]
                    /\ x = (IF AllCurrent(b) THEN "lock" ELSE "drop")
                    /\ o = (IF AllCurrent(b) THEN "none" ELSE "error")
    BY <1>7 DEF CheckSources
  <2> DEFINE c == [b EXCEPT !.pc = x, !.outcome = o]
  <2>2. /\ build' = [build EXCEPT ![p] = c] /\ b.pc = "check" /\ fence' = [fence EXCEPT ![p] = source]
        /\ UNCHANGED <<control, log, rt, updates, base>>
    BY <1>7, <2>1 DEF CheckSources
  <2>3. SameScan(b, c) /\ c.pc = x /\ c.reuse = b.reuse /\ c.flag = b.flag /\ c.outcome = o
    BY <1>1 DEF BuildType, SameScan
  <2> HIDE DEF c
  <2>4. FingerprintInv'
    BY <2>2, FingerprintKept
  <2>5. ScanOk(c)
    BY <1>1, <2>3, SameScanOk
  <2>6. StageOk(c)
    BY <1>1, <2>1, <2>2, <2>3 DEF StageOk, SameScan
  <2>7. WitnessOk(c, base[p], source)
    BY <1>1, <2>1, <2>3 DEF WitnessOk, SameScan, AllCurrent
  <2>8. CancelOk(rt[p], c, u)
    BY <1>1, <2>1, <2>2, <2>3, StageMove
  <2>9. rt' = [rt EXCEPT ![p] = rt[p]] /\ updates' = [updates EXCEPT ![p] = u]
        /\ base' = [base EXCEPT ![p] = base[p]]
    BY <1>2, <2>2
  <2>10. QED
    BY <2>2, <2>4, <2>5, <2>6, <2>7, <2>8, <2>9, RecordStep
<1>8. CASE LockPublication(p)
  <2>1. /\ b.pc = "lock" /\ b.flag = "activating" /\ UNCHANGED <<control, log, rt, updates, base, fence>>
        /\ build' = [build EXCEPT ![p] = IF BaseUnchanged(b)
                                         THEN [b EXCEPT !.pc = "publish", !.flag = "publishing"]
                                         ELSE [b EXCEPT !.pc = "drop", !.outcome = "error"]]
    BY <1>8 DEF LockPublication, history
  <2>2. FingerprintInv'
    BY <2>1, FingerprintKept
  <2>3. b.outcome # "receipt"
    BY <1>1, <2>1 DEF CancelOk
  <2>4. CASE BaseUnchanged(b)
    <3> DEFINE c == [b EXCEPT !.pc = "publish", !.flag = "publishing"]
    <3>1. build' = [build EXCEPT ![p] = c]
      BY <2>1, <2>4
    <3>2. SameScan(b, c) /\ c.pc = "publish" /\ c.reuse = b.reuse /\ c.flag = "publishing" /\ c.outcome = b.outcome
      BY <1>1 DEF BuildType, SameScan
    <3> HIDE DEF c
    <3>3. ScanOk(c)
      BY <1>1, <3>2, SameScanOk
    <3>4. StageOk(c)
      BY <1>1, <2>1, <3>2 DEF StageOk, SameScan
    <3>5. WitnessOk(c, base[p], fence[p])
      BY <1>1, <2>1, <3>2 DEF WitnessOk, SameScan
    <3>6. CancelOk(rt[p], c, u)
      BY <1>1, <2>1, <2>3, <3>2, StageMove
    <3>7. rt' = [rt EXCEPT ![p] = rt[p]] /\ updates' = [updates EXCEPT ![p] = u]
          /\ base' = [base EXCEPT ![p] = base[p]] /\ fence' = [fence EXCEPT ![p] = fence[p]]
      BY <1>2, <2>1
    <3>8. QED
      BY <2>2, <3>1, <3>3, <3>4, <3>5, <3>6, <3>7, RecordStep
  <2>5. CASE ~BaseUnchanged(b)
    <3> DEFINE c == [b EXCEPT !.pc = "drop", !.outcome = "error"]
    <3>1. build' = [build EXCEPT ![p] = c]
      BY <2>1, <2>5
    <3>2. SameScan(b, c) /\ c.pc = "drop" /\ c.reuse = b.reuse /\ c.flag = b.flag /\ c.outcome = "error"
      BY <1>1 DEF BuildType, SameScan
    <3> HIDE DEF c
    <3>3. QED
      BY <1>3, <2>1, <2>2, <3>1, <3>2
  <2>6. QED
    BY <2>4, <2>5
<1>9. CASE Discard(p)
  <2> DEFINE c == [b EXCEPT !.pc = "drop", !.outcome = "error"]
  <2>1. /\ b.pc # "none" /\ build' = [build EXCEPT ![p] = c]
        /\ UNCHANGED <<control, log, rt, updates, base, fence>>
    BY <1>9 DEF Discard, history
  <2>2. SameScan(b, c) /\ c.pc = "drop" /\ c.reuse = b.reuse /\ c.flag = b.flag /\ c.outcome = "error"
    BY <1>1 DEF BuildType, SameScan
  <2> HIDE DEF c
  <2>3. FingerprintInv'
    BY <2>1, FingerprintKept
  <2>4. QED
    BY <1>3, <2>1, <2>2, <2>3
<1>10. QED
  BY <1>4, <1>5, <1>6, <1>7, <1>8, <1>9

\* What a publication makes of the active file: one state, of the rows that were
\* stamped, and of the fingerprint if it keeps or stores one.
LEMMA PublishedRows ==
    ASSUME CatalogInv, CommitInv, NEW p \in Procs, Publish(p)
    PROVE  \E x \in Content :
              /\ control'.state = "row" /\ log'[control'.db] = <<x>>
              /\ control'.fp # NoFingerprint =>
                    control'.db # 0 /\ x.rows = control'.fp /\ x.rejected = {}
              /\ \A d \in Docs : x.rows[d] # 0 => x.rows[d] = build[p].stamps[d]
<1> DEFINE b == build[p]
<1>1. b.pc = "publish"
  BY DEF Publish
<1>2. /\ Openable /\ b.old = control.db /\ control.db \in Dbs
      /\ Current(control.db) = base[p] /\ Current(control.db) \in Content
      /\ ~b.reuse => log[b.db] = Sealed(b) /\ b.db \in Dbs /\ b.db # 0
  BY <1>1, PublisherFacts, OpenableFacts
<1>3. /\ b \in BuildType /\ control \in ControlType /\ log \in [Dbs -> Seq(States)]
      /\ ScanOk(b) /\ StageOk(b) /\ WitnessOk(b, base[p], fence[p])
  BY DEF CatalogInv, Types, CommitInv
<1>4. b.gen \in 0..MaxGen /\ b.rows \in Rows /\ b.stamps \in Rows /\ b.rejected \in SUBSET Docs
  BY <1>3 DEF BuildType
<1>5. control.state = "row"
  BY <1>2 DEF Openable
<1>6. CASE b.reuse
  <2> DEFINE old == Current(control.db)
             new == [old EXCEPT !.gen = b.gen]
  <2>1. log' = [log EXCEPT ![control.db] = <<new>>] /\ control' = control
    BY <1>2, <1>6 DEF Publish
  <2>2. new \in Content /\ new.rows = old.rows /\ new.rejected = old.rejected
    BY <1>2, <1>4 DEF Content
  <2>3. old.rows = b.stamps
    <3>1. b.hashFirst /\ b.stamps = b.fp /\ b.fp # NoFingerprint
      BY <1>3, <1>6 DEF StageOk
    <3>2. QED
      BY <1>2, <1>3, <3>1 DEF WitnessOk
  <2>4. control.fp # NoFingerprint => control.db # 0 /\ old.rows = control.fp /\ old.rejected = {}
    BY DEF CommitInv, FingerprintInv, Current
  <2> HIDE DEF new, old
  <2>5. log'[control.db] = <<new>>
    BY <1>2, <1>3, <2>1
  <2>6. QED
    BY <1>5, <2>1, <2>2, <2>3, <2>4, <2>5
<1>7. CASE ~b.reuse
  <2> DEFINE new == [gen |-> b.gen, rows |-> b.rows, rejected |-> b.rejected]
  <2>1. log' = log /\ control' = [control EXCEPT !.db = b.db, !.gen = b.gen, !.fp = CompleteFingerprint(b)]
    BY <1>7 DEF Publish
  <2>2. control'.state = control.state /\ control'.db = b.db /\ control'.fp = CompleteFingerprint(b)
    BY <1>3, <2>1 DEF ControlType
  <2>3. /\ new \in Content /\ new.rows = b.rows /\ new.rejected = b.rejected /\ Sealed(b) = <<new>>
    BY <1>4 DEF Content, Sealed
  <2>4. \A d \in Docs : b.rows[d] # 0 => b.rows[d] = b.stamps[d]
    BY <1>3 DEF ScanOk
  <2>5. CompleteFingerprint(b) # NoFingerprint => b.rows = CompleteFingerprint(b) /\ b.rejected = {}
    <3> HAVE CompleteFingerprint(b) # NoFingerprint
    <3>1. CompleteFingerprint(b) = b.stamps /\ b.rejected = {}
      BY DEF CompleteFingerprint
    <3>2. b.jobs = {} /\ ~b.changed
      BY <1>1, <1>3, <1>7 DEF StageOk
    <3>3. \A d \in Docs : b.rows[d] = b.stamps[d]
      BY <1>3, <1>7, <3>1, <3>2 DEF ScanOk
    <3>4. b.rows = b.stamps
      BY <1>4, <3>3 DEF Rows
    <3>5. QED
      BY <3>1, <3>4
  <2> HIDE DEF new
  <2>6. QED
    BY <1>2, <1>5, <1>7, <2>1, <2>2, <2>3, <2>4, <2>5
<1>8. QED
  BY <1>6, <1>7

\* A publication keeps the invariant, and all it commits was checked.
LEMMA CommitsPublish ==
    ASSUME CatalogInv, CommitInv, NEW p \in Procs, Publish(p)
    PROVE  CommitInv' /\ CommitsCheckedSources
<1> DEFINE b == build[p]
           c == [b EXCEPT !.pc = "drop", !.outcome = "receipt"]
<1>1. /\ b.pc = "publish" /\ build' = [build EXCEPT ![p] = c]
      /\ UNCHANGED <<rt, updates, base, fence>>
  BY DEF Publish
<1>2. /\ Types /\ b \in BuildType /\ ScanOk(b) /\ StageOk(b) /\ WitnessOk(b, base[p], fence[p])
      /\ CancelOk(rt[p], b, updates[p])
  BY DEF CatalogInv, Types, CommitInv
<1>3. SameScan(b, c) /\ c.pc = "drop" /\ c.reuse = b.reuse /\ c.flag = b.flag /\ c.outcome = "receipt"
  BY <1>2 DEF BuildType, SameScan
<1> HIDE DEF c
<1>4. PICK x \in Content :
         /\ control'.state = "row" /\ log'[control'.db] = <<x>>
         /\ control'.fp # NoFingerprint => control'.db # 0 /\ x.rows = control'.fp /\ x.rejected = {}
         /\ \A d \in Docs : x.rows[d] # 0 => x.rows[d] = b.stamps[d]
  BY PublishedRows
<1>5. CommitInv'
  <2>1. FingerprintInv'
    <3>1. Len(log'[control'.db]) = 1 /\ log'[control'.db][1] = x
      BY <1>4
    <3>2. \A q \in Procs : rt'[q].pc # "refresh"
      BY <1>1, PublisherFacts
    <3>3. QED
      BY <1>4, <3>1, <3>2 DEF FingerprintInv
  <2>2. ScanOk(c)
    BY <1>2, <1>3, SameScanOk
  <2>3. StageOk(c)
    BY <1>2, <1>3 DEF StageOk, SameScan
  <2>4. WitnessOk(c, base[p], fence[p])
    BY <1>2, <1>3 DEF WitnessOk, SameScan
  <2>5. CancelOk(rt[p], c, updates[p])
    <3>1. b.flag = "publishing"
      BY <1>1, <1>2 DEF CancelOk
    <3>2. QED
      BY <1>1, <1>2, <1>3, <3>1, StageMove
  <2>6. /\ rt' = [rt EXCEPT ![p] = rt[p]] /\ updates' = [updates EXCEPT ![p] = updates[p]]
        /\ base' = [base EXCEPT ![p] = base[p]] /\ fence' = [fence EXCEPT ![p] = fence[p]]
    BY <1>1, SelfUpdates
  <2>7. QED
    BY <1>1, <2>1, <2>2, <2>3, <2>4, <2>5, <2>6, RecordStep
<1>6. CommitsCheckedSources
  <2>1. Published' = <<x>> /\ Len(Published') = 1 /\ (Published')[1] = x
    BY <1>4, OneState DEF Published
  <2>2. \A q \in Procs : build[q].outcome = "none" /\ build'[q].outcome = "receipt" => q = p
    BY <1>1, <1>2 DEF Types
  <2>3. \A d \in Docs : x.rows[d] # 0 => x.rows[d] = fence[p][d]
    BY <1>1, <1>2, <1>4 DEF WitnessOk
  <2>4. QED
    BY <2>1, <2>2, <2>3 DEF CommitsCheckedSources
<1>7. QED
  BY <1>5, <1>6

\* Every other step leaves no receipt where there was none.
LEMMA OnlyPublishCommits ==
    ASSUME CatalogInv, NEW p \in Procs, NEW c, build' = [build EXCEPT ![p] = c],
           c.outcome # "receipt" \/ c.outcome = build[p].outcome
    PROVE  CommitsCheckedSources
<1>1. \A q \in Procs : ~(build[q].outcome = "none" /\ build'[q].outcome = "receipt")
  BY DEF CatalogInv, Types
<1>2. QED
  BY <1>1 DEF CommitsCheckedSources

\* In a step without a publication no catalog is committed.
LEMMA OtherCommits ==
    ASSUME CatalogInv, CommitInv, [Next]_vars, ~\E p \in Procs : Publish(p)
    PROVE  CommitsCheckedSources
<1>1. /\ build \in [Procs -> BuildType] /\ NoBuild.outcome = "none"
  BY DEF CatalogInv, Types, NoBuild
<1>2. ASSUME build' = build PROVE CommitsCheckedSources
  BY <1>2 DEF CommitsCheckedSources
<1>3. ASSUME NEW p \in Procs, build' = [build EXCEPT ![p] = NoBuild] PROVE CommitsCheckedSources
  BY <1>1, <1>3, OnlyPublishCommits
<1>4. ASSUME NEW p \in Procs, ScanDoc(p) \/ \E d \in Docs : Parse(p, d)
      PROVE  CommitsCheckedSources
  <2> DEFINE b == build[p]
  <2>1. /\ b \in BuildType /\ Shape(b) /\ ScanOk(b) /\ StageOk(b)
    BY DEF CatalogInv, Types, BuildInv, CommitInv
  <2>2. CASE ScanDoc(p)
    <3>1. PICK d \in b.todo, result \in {"ok", "hidden", "unreadable"} :
             build' = [build EXCEPT ![p] = Scanned(b, d, result)]
      BY <2>2 DEF ScanDoc
    <3>2. b.pc = "scan" /\ ~b.reuse
      BY <2>1, <2>2 DEF ScanDoc, Shape
    <3>3. Scanned(b, d, result).outcome = b.outcome
      BY <2>1, <3>2, ScannedOk
    <3>4. QED
      BY <3>1, <3>3, OnlyPublishCommits
  <2>3. ASSUME NEW d \in Docs, Parse(p, d) PROVE CommitsCheckedSources
    <3>1. PICK result \in {"ok", "unreadable", "unparsable"} : build' = [build EXCEPT ![p] = Parsed(b, d, result)]
      BY <2>3 DEF Parse
    <3>2. b.pc \in {"begin", "route", "write"} /\ (b.pc = "begin" => b.force) /\ d \in b.jobs /\ ~b.reuse
      BY <2>1, <2>3 DEF Parse, Shape
    <3>3. Parsed(b, d, result).outcome = b.outcome
      BY <2>1, <3>2, ParsedOk
    <3>4. QED
      BY <3>1, <3>3, OnlyPublishCommits
  <2>4. QED
    BY <1>4, <2>2, <2>3
<1>5. ASSUME NEW p \in Procs,
             \/ BeginSession(p) \/ StopScan(p) \/ ChooseRoute(p) \/ Activate(p) \/ Seal(p)
             \/ CheckSources(p) \/ LockPublication(p) \/ Discard(p) \/ EndSession(p)
             \/ CancelCatalog(p) \/ Exit(p) \/ \E force \in BOOLEAN : StartCatalog(p, force)
      PROVE  CommitsCheckedSources
  <2> DEFINE b == build[p]
  <2>1. build[p] \in BuildType
    BY <1>1
  <2>2. CASE StopScan(p) \/ EndSession(p) \/ Exit(p)
    BY <1>3, <2>2 DEF StopScan, EndSession, Exit
  <2>3. CASE BeginSession(p)
    <3> DEFINE expected == Current(control.db).gen
               fp == IF b.force \/ expected = 0 THEN NoFingerprint ELSE control.fp
               c == [b EXCEPT !.pc = IF b.force THEN "route" ELSE "scan",
                              !.parent = Publication, !.expected = expected, !.old = control.db, !.fp = fp,
                              !.hashFirst = fp # NoFingerprint /\ Current(control.db).rejected = {}]
    <3>1. build' = [build EXCEPT ![p] = NoBuild] \/ build' = [build EXCEPT ![p] = c]
      BY <2>3 DEF BeginSession
    <3>2. c.outcome = b.outcome
      BY <2>1 DEF BuildType
    <3> HIDE DEF c
    <3>3. QED
      BY <1>3, <3>1, <3>2, OnlyPublishCommits
  <2>4. ASSUME NEW x, NEW c \in {[b EXCEPT !.pc = x], [b EXCEPT !.flag = x]}
        PROVE  c.outcome = b.outcome
    BY <2>1, <2>4 DEF BuildType
  <2>5. CASE ChooseRoute(p)
    <3>1. \/ build' = [build EXCEPT ![p] = [b EXCEPT !.pc = "reuse", !.reuse = TRUE]]
          \/ \E db \in FreeDbs : build' = [build EXCEPT ![p] = [b EXCEPT !.pc = "write", !.db = db]]
      BY <2>5 DEF ChooseRoute
    <3>2. /\ [b EXCEPT !.pc = "reuse", !.reuse = TRUE].outcome = b.outcome
          /\ \A db \in FreeDbs : [b EXCEPT !.pc = "write", !.db = db].outcome = b.outcome
      BY <2>1 DEF BuildType
    <3>3. QED
      BY <3>1, <3>2, OnlyPublishCommits
  <2>6. CASE Activate(p)
    <3>1. /\ build' = [build EXCEPT ![p] = [b EXCEPT !.flag = "activating",
                                               !.pc = IF b.reuse THEN "check" ELSE "seal"]]
      BY <2>6 DEF Activate
    <3>2. [b EXCEPT !.flag = "activating", !.pc = IF b.reuse THEN "check" ELSE "seal"].outcome = b.outcome
      BY <2>1 DEF BuildType
    <3>3. QED
      BY <3>1, <3>2, OnlyPublishCommits
  <2>7. CASE Seal(p) \/ CancelCatalog(p)
    <3>1. PICK c \in {[b EXCEPT !.pc = "check"], [b EXCEPT !.flag = "cancelled"]} :
             build' = [build EXCEPT ![p] = c]
      BY <2>7 DEF Seal, CancelCatalog
    <3>2. c.outcome = b.outcome
      BY <2>4, <3>1
    <3>3. QED
      BY <3>1, <3>2, OnlyPublishCommits
  <2>8. ASSUME NEW x, NEW o \in {"none", "error"}
        PROVE  [b EXCEPT !.pc = x, !.outcome = o].outcome # "receipt"
    BY <2>1 DEF BuildType
  <2>9. CASE CheckSources(p) \/ Discard(p)
    <3> DEFINE x == IF AllCurrent(b) THEN "lock" ELSE "drop"
               o == IF AllCurrent(b) THEN "none" ELSE "error"
    <3>1. \/ build' = [build EXCEPT ![p] = [b EXCEPT !.pc = x, !.outcome = o]]
          \/ build' = [build EXCEPT ![p] = [b EXCEPT !.pc = "drop", !.outcome = "error"]]
      BY <2>9 DEF CheckSources, Discard
    <3>2. o \in {"none", "error"}
      OBVIOUS
    <3> HIDE DEF x, o
    <3>3. QED
      BY <2>8, <3>1, <3>2, OnlyPublishCommits
  <2>10. CASE LockPublication(p)
    <3>1. PICK c \in {[b EXCEPT !.pc = "publish", !.flag = "publishing"], [b EXCEPT !.pc = "drop", !.outcome = "error"]} :
             build' = [build EXCEPT ![p] = c]
      BY <2>10 DEF LockPublication
    <3>2. c.outcome # "receipt" \/ c.outcome = b.outcome
      BY <2>1, <3>1 DEF BuildType
    <3>3. QED
      BY <3>1, <3>2, OnlyPublishCommits
  <2>11. ASSUME NEW force \in BOOLEAN, StartCatalog(p, force) PROVE CommitsCheckedSources
    <3>1. PICK x, g : build' = [build EXCEPT ![p] =
             [NoBuild EXCEPT !.pc = x, !.force = force, !.gen = g, !.todo = Docs]]
      BY <2>11, Zenon DEF StartCatalog
    <3>2. [NoBuild EXCEPT !.pc = x, !.force = force, !.gen = g, !.todo = Docs].outcome = "none"
      BY DEF NoBuild
    <3>3. QED
      BY <3>1, <3>2, OnlyPublishCommits
  <2>12. QED
    BY <1>5, <2>2, <2>3, <2>5, <2>6, <2>7, <2>9, <2>10, <2>11
<1>6. CASE PowerLoss
  <2>1. \A p \in Procs : build'[p].outcome = "none"
    BY <1>1, <1>6 DEF PowerLoss
  <2>2. QED
    BY <2>1 DEF CommitsCheckedSources
<1>7. CASE \/ \E p \in Procs :
                 \/ Start(p) \/ CreateControl(p) \/ InsertControl(p) \/ CreateBase(p) \/ OpenStore(p)
                 \/ BeginRead(p) \/ EndRead(p) \/ ApplyRefresh(p) \/ HandleUpdate(p)
                 \/ \E d \in Docs, g \in 1..MaxGen : BeginRefresh(p, d, g)
                 \/ \E db \in Dbs : Retire(p, db)
           \/ \E d \in Docs : EditSource(d)
           \/ UNCHANGED vars
  BY <1>2, <1>7 DEF Start, CreateControl, InsertControl, CreateBase, OpenStore, BeginRead, EndRead,
       ApplyRefresh, HandleUpdate, BeginRefresh, Retire, EditSource, vars
<1>8. QED
  BY <1>4, <1>5, <1>6, <1>7 DEF Next, ProtocolThread, CatalogThread

\* The machine has not started.
LEMMA CommitsInit == Init => CommitInv
<1> HAVE Init
<1>1. FingerprintInv
  BY DownType DEF Init, FingerprintInv
<1>2. ASSUME NEW p \in Procs
      PROVE  /\ ScanOk(build[p]) /\ StageOk(build[p])
             /\ WitnessOk(build[p], base[p], fence[p])
             /\ CancelOk(rt[p], build[p], updates[p])
  <2>1. rt[p] = Down /\ build[p] = NoBuild /\ updates[p] = <<>>
    BY DEF Init
  <2>2. QED
    BY <2>1, NoBuildOk, DownOk
<1>3. QED
  BY <1>1, <1>2 DEF CommitInv

\* Every step keeps the invariant and commits what was checked.
LEMMA CommitsNext ==
    ASSUME CatalogInv, CommitInv, [Next]_vars PROVE CommitInv' /\ CommitsCheckedSources
<1>1. CommitInv'
  <2>1. ASSUME NEW p \in Procs, Start(p) \/ ProtocolThread(p) \/ Exit(p) PROVE CommitInv'
    BY <2>1, CommitsProtocol, CommitsRefreshes, CommitsRequests DEF ProtocolThread
  <2>2. ASSUME NEW p \in Procs, CatalogThread(p) \/ \E db \in Dbs : Retire(p, db) PROVE CommitInv'
    BY <2>2, CommitsSession, CommitsScans, CommitsStages, CommitsPublish, CommitsEnd DEF CatalogThread
  <2>3. ASSUME NEW d \in Docs, EditSource(d) PROVE CommitInv'
    BY <2>3, CommitsIdle DEF EditSource, history
  <2>4. CASE UNCHANGED vars
    BY <2>4, CommitsIdle DEF vars
  <2>5. QED
    BY <2>1, <2>2, <2>3, <2>4, CommitsPowerLoss DEF Next
<1>2. CommitsCheckedSources
  BY CommitsPublish, OtherCommits
<1>3. QED
  BY <1>1, <1>2

\* What the invariant says of the fingerprint and of cancellation.
LEMMA CommitsFacts ==
    ASSUME CatalogInv, CommitInv PROVE FingerprintIsSound /\ CancelledNeverCommits
<1>1. FingerprintIsSound
  <2> DEFINE s == log[control.db]
  <2>1. SUFFICES ASSUME control.fp # NoFingerprint
                 PROVE  Published[Len(Published)].rows = control.fp /\ Published[Len(Published)].rejected = {}
    BY DEF FingerprintIsSound
  <2>2. /\ control.db # 0 /\ Len(s) = 1 /\ s[1].rows = control.fp /\ s[1].rejected = {}
    BY <2>1 DEF CommitInv, FingerprintInv
  <2>3. /\ control.state = "row" /\ s # <<>> /\ s[1].gen >= control.gen /\ control.gen \in 0..MaxGen
    BY <2>2 DEF CatalogInv, ControlInv, Types, ControlType
  <2>4. s[1] # NoSchema
    <3>1. NoSchema.gen = -1
      BY DEF NoSchema
    <3>2. QED
      BY <2>3, <3>1, CatalogAssumption
  <2>5. Published = s
    <3>1. s # <<NoSchema>>
      <4>1. <<NoSchema>>[1] = NoSchema
        OBVIOUS
      <4>2. QED
        BY <2>4, <4>1
    <3>2. QED
      BY <2>3, <2>4, <3>1 DEF Published
  <2>6. QED
    BY <2>2, <2>5
<1>2. CancelledNeverCommits
  <2>1. SUFFICES ASSUME NEW p \in Procs, rt[p].phase = "cancelling"
                 PROVE  /\ build[p].pc # "publish" /\ build[p].outcome # "receipt"
                        /\ \A i \in 1..Len(updates[p]) : updates[p][i].kind # "Complete"
    BY DEF CancelledNeverCommits
  <2>2. CancelOk(rt[p], build[p], updates[p])
    BY DEF CommitInv
  <2>3. QED
    BY <2>1, <2>2 DEF CancelOk
<1>3. QED
  BY <1>1, <1>2

\* Whatever is edited, cancelled, refreshed, published and killed meanwhile, a stored
\* fingerprint describes the rows of the active file, a catalog whose cancellation was
\* accepted is never committed, and the rows of a committed one are of the versions that
\* were on disk when its sources were checked (Control::publish, invalidate_fingerprint,
\* CatalogControl::cancel, StorageObserver, has_qualified_reuse_candidate).
THEOREM CommitsAreSound == Spec => CatalogCommitsAreSound
<1>1. Init => CommitInv
  BY CommitsInit
<1>2. CatalogInv /\ CommitInv /\ [Next]_vars => CommitInv' /\ CommitsCheckedSources
  BY CommitsNext
<1>3. CatalogInv /\ CommitInv => FingerprintIsSound /\ CancelledNeverCommits
  BY CommitsFacts
<1>4. QED
  BY <1>1, <1>2, <1>3, CatalogIsSound, PTL DEF Spec, CatalogCommitsAreSound

=============================================================================
