---------------------------- MODULE ServicesProofs ----------------------------
(***************************************************************************)
(* Proofs about the smaller services around a request, for any files, jobs *)
(* and bounds: the snapshots of call hierarchies (CallHierarchy), the      *)
(* delivery of watched changes (FileChanges), of a reference search the    *)
(* verification thread (VerifierClient), the executor (ReferenceSearch)    *)
(* and the routes through the persistent index (ReferenceRouting), the     *)
(* watchdog of the semantic worker (Watchdog), and the resolution of       *)
(* completion items and quick fixes (ItemResolution).                      *)
(* Each component is reached through an instance whose parameters are the  *)
(* constants and variables declared here under the component's own names.  *)
(***************************************************************************)
EXTENDS Integers, FiniteSets, Sequences, FiniteSetTheorems, SequenceTheorems, WellFoundedInduction, TLAPS

-----------------------------------------------------------------------------
(* Call hierarchies                                                         *)

CONSTANTS Files, Texts, MaxSources, MaxChanges
VARIABLES disk, editor, call, changes

Calls == INSTANCE CallHierarchy

Identities == [kind : {"open", "disk"}, at : Nat, text : Texts]
Partial(T) == UNION {[S -> T] : S \in SUBSET Files}

Phases == {"resolve", "execute", "read", "recheck", "origin", "answered", "failed"}
Requests ==
    [pc : Phases, origin : Files, aborted : BOOLEAN, source : Identities,
     answer : Partial(Texts), read : Partial(Identities), checked : SUBSET Files, held : BOOLEAN]

CallTypes ==
    /\ disk \in [Files -> [place : {"root", "outside", "gone"}, text : Texts, stamp : Nat]]
    /\ editor \in [Files -> [open : BOOLEAN, version : Nat, text : Texts]]
    /\ changes \in Nat
    /\ call \in Requests

\* An identity was read from f while no document changed: what an open document
\* showed it still shows, and a file with the same stamp has the same text.
Seen(f, s) ==
    /\ editor[f].open <=> s.kind = "open"
    /\ s.kind = "open" => s.text = editor[f].text
    /\ s.kind = "disk" => s.at <= disk[f].stamp /\ (s.at = disk[f].stamp => s.text = disk[f].text)

\* The file was changed since, and its stamp will never be that one again.
Moved(f, s) == s.kind = "disk" /\ disk[f].stamp # s.at

SeenInv ==
    /\ \A f \in Files : disk[f].stamp <= changes
    /\ ~call.aborted => Seen(call.origin, call.source)
    /\ \A f \in DOMAIN call.read : ~call.aborted => Seen(f, call.read[f])

PassInv ==
    /\ DOMAIN call.read \subseteq DOMAIN call.answer
    /\ \A f \in DOMAIN call.read : call.read[f].text = call.answer[f]
    /\ call.pc \in {"resolve", "execute"} => DOMAIN call.read = {}
    /\ call.pc \in {"resolve", "execute", "read"} => call.checked = {}
    /\ call.pc = "recheck" => DOMAIN call.read = DOMAIN call.answer

\* What was not a snapshot when the first pass ended will not pass the second.
HeldInv ==
    /\ call.pc = "recheck" /\ ~call.aborted /\ ~call.held =>
          \/ Moved(call.origin, call.source)
          \/ \E f \in DOMAIN call.answer \ call.checked : Moved(f, call.read[f])
    /\ call.pc = "origin" /\ ~call.aborted /\ ~call.held => Moved(call.origin, call.source)
    /\ call.pc = "answered" => call.held

CallInv == CallTypes /\ SeenInv /\ PassInv /\ HeldInv

-----------------------------------------------------------------------------

\* A source that is read has an identity, of what is there at that moment.
LEMMA SourceFacts ==
    ASSUME CallTypes, NEW f \in Files
    PROVE  /\ Calls!Source(f) \in Identities
           /\ Seen(f, Calls!Source(f))
           /\ Calls!Shown(f) = Calls!Source(f).text
  BY DEF CallTypes, Calls!Source, Calls!Shown, Identities, Seen

\* One more entry keeps a partial function partial.
LEMMA PartialFacts ==
    /\ \A T : \A m \in Partial(T) : DOMAIN m \subseteq Files /\ m \in [DOMAIN m -> T]
    /\ \A T : \A m \in Partial(T) : \A f \in Files : \A x \in T :
          [g \in DOMAIN m \cup {f} |-> IF g = f THEN x ELSE m[g]] \in Partial(T)
    /\ \A T : <<>> \in Partial(T)
    /\ \A T : \A S \in SUBSET Files : \A m \in [S -> T] : m \in Partial(T)
  <1>1. \A T : \A S \in SUBSET Files : \A m \in [S -> T] : m \in Partial(T)
    BY DEF Partial
  <1>2. \A T : <<>> \in [{} -> T]
    OBVIOUS
  <1>3. \A T : \A m \in Partial(T) : DOMAIN m \subseteq Files /\ m \in [DOMAIN m -> T]
    BY DEF Partial
  <1>4. ASSUME NEW T, NEW m \in Partial(T), NEW f \in Files, NEW x \in T
        PROVE  [g \in DOMAIN m \cup {f} |-> IF g = f THEN x ELSE m[g]] \in Partial(T)
    <2> DEFINE S == DOMAIN m \cup {f}
               n == [g \in S |-> IF g = f THEN x ELSE m[g]]
    <2>1. S \in SUBSET Files
      BY <1>3
    <2>2. n \in [S -> T]
      BY <1>3
    <2> QED
      BY <1>1, <2>1, <2>2
  <1> QED
    BY <1>1, <1>2, <1>3, <1>4

\* What an update of the request changes, and what it keeps.
LEMMA RequestUpdates ==
    ASSUME NEW c \in Requests
    PROVE  /\ c.origin \in Files /\ c.source \in Identities /\ c.checked \in SUBSET Files
           /\ c.answer \in Partial(Texts) /\ c.read \in Partial(Identities)
           /\ c.aborted \in BOOLEAN /\ c.held \in BOOLEAN
           /\ LET d == [c EXCEPT !.aborted = TRUE]
              IN  /\ d \in Requests /\ d.aborted
                  /\ d.pc = c.pc /\ d.origin = c.origin /\ d.source = c.source /\ d.answer = c.answer
                  /\ d.read = c.read /\ d.checked = c.checked /\ d.held = c.held
  BY DEF Requests

\* The world outside: a document that changes aborts the request, and a file
\* that changes gets a stamp no file had.
LEMMA CallWorld ==
    ASSUME CallInv, NEW f \in Files,
           Calls!DiskChanges(f) \/ Calls!DidChange(f) \/ Calls!DidClose(f)
    PROVE  CallInv'
  <1>1. CASE Calls!DiskChanges(f)
    <2> PICK text \in Texts, place \in {"root", "outside", "gone"} :
             disk' = [disk EXCEPT ![f] = [place |-> place, text |-> text, stamp |-> changes + 1]]
      BY <1>1 DEF Calls!DiskChanges
    <2>1. UNCHANGED <<editor, call>> /\ changes' = changes + 1
      BY <1>1 DEF Calls!DiskChanges, Calls!Changed
    <2>2. CallTypes'
      BY <2>1 DEF CallInv, CallTypes
    <2>3. \A g \in Files : /\ disk'[g].stamp <= changes'
                           /\ disk[g].stamp <= disk'[g].stamp
                           /\ disk[g] = disk'[g] \/ disk[g].stamp < disk'[g].stamp
      BY <2>1 DEF CallInv, CallTypes, SeenInv
    <2>4. \A g \in Files : \A s \in Identities : Seen(g, s) => Seen(g, s)'
      BY <2>1, <2>2, <2>3 DEF CallInv, CallTypes, Seen, Identities
    <2>5. \A g \in Files : \A s \in Identities : Seen(g, s) /\ Moved(g, s) => Moved(g, s)'
      BY <2>1, <2>2, <2>3 DEF CallInv, CallTypes, Seen, Moved, Identities
    <2>6. /\ call.origin \in Files /\ call.source \in Identities
          /\ \A g \in DOMAIN call.read : g \in Files /\ call.read[g] \in Identities
      <3>1. call \in Requests
        BY DEF CallInv, CallTypes
      <3>2. call.origin \in Files /\ call.source \in Identities /\ call.read \in Partial(Identities)
        BY <3>1, RequestUpdates
      <3> QED
        BY <3>2, PartialFacts
    <2>7. SeenInv'
      BY <2>1, <2>3, <2>4, <2>6 DEF CallInv, SeenInv
    <2>8. PassInv'
      BY <2>1 DEF CallInv, PassInv
    <2>9. HeldInv'
      BY <2>1, <2>5, <2>6 DEF CallInv, HeldInv, SeenInv, PassInv
    <2> QED
      BY <2>2, <2>7, <2>8, <2>9 DEF CallInv
  <1>2. CASE Calls!DidChange(f) \/ Calls!DidClose(f)
    <2>1. /\ call' = [call EXCEPT !.aborted = TRUE]
          /\ UNCHANGED disk
      <3>1. call' = Calls!Aborted /\ UNCHANGED disk
        BY <1>2 DEF Calls!DidChange, Calls!DidClose
      <3> QED
        BY <3>1, Zenon DEF Calls!Aborted
    <2>0. changes' = changes + 1 /\ call.pc # "answered"
      BY <1>2 DEF Calls!DidChange, Calls!DidClose, Calls!Changed, Calls!Ended
    <2>2. editor' \in [Files -> [open : BOOLEAN, version : Nat, text : Texts]]
      <3>1. CASE Calls!DidChange(f)
        <4>1. PICK text \in Texts, version \in 1 .. 2 :
                 editor' = [editor EXCEPT ![f] = [open |-> TRUE, version |-> version, text |-> text]]
          BY <3>1 DEF Calls!DidChange
        <4> QED
          BY <4>1 DEF CallInv, CallTypes
      <3>2. CASE Calls!DidClose(f)
        <4>1. editor' = [editor EXCEPT ![f] = [editor[f] EXCEPT !.open = FALSE]]
          BY <3>2 DEF Calls!DidClose
        <4>2. [editor[f] EXCEPT !.open = FALSE] \in [open : BOOLEAN, version : Nat, text : Texts]
          BY DEF CallInv, CallTypes
        <4> QED
          BY <4>1, <4>2, Zenon DEF CallInv, CallTypes
      <3> QED
        BY <1>2, <3>1, <3>2
    <2>3. /\ call'.aborted /\ call' \in Requests
          /\ call'.pc = call.pc /\ call'.read = call.read /\ call'.answer = call.answer
          /\ call'.checked = call.checked
      BY <2>1, RequestUpdates, Zenon DEF CallInv, CallTypes
    <2>4. CallTypes'
      BY <2>0, <2>1, <2>2, <2>3 DEF CallInv, CallTypes
    <2>5. SeenInv' /\ PassInv' /\ HeldInv'
      BY <2>0, <2>1, <2>3 DEF CallInv, CallTypes, SeenInv, PassInv, HeldInv
    <2> QED
      BY <2>4, <2>5 DEF CallInv
  <1> QED
    BY <1>1, <1>2

\* A request that fails has nothing to answer for.
LEMMA CallFails ==
    ASSUME CallInv, Calls!Fail, UNCHANGED <<disk, editor, changes>>
    PROVE  CallInv'
  <1>0. call \in Requests /\ call' = [call EXCEPT !.pc = "failed"] /\ "failed" \in Phases
    BY Zenon DEF CallInv, CallTypes, Calls!Fail, Phases
  <1>1. /\ call'.pc = "failed" /\ call'.aborted = call.aborted /\ call'.read = call.read
        /\ call'.answer = call.answer /\ call'.origin = call.origin /\ call'.source = call.source
        /\ call' \in Requests
    BY <1>0 DEF Requests, Phases
  <1>2. CallTypes'
    BY <1>1 DEF CallInv, CallTypes
  <1> QED
    BY <1>1, <1>2 DEF CallInv, SeenInv, PassInv, HeldInv, Seen

\* Each step of the runner.
LEMMA CallRunner ==
    ASSUME CallInv, Calls!Runner
    PROVE  CallInv'
  <1> UNCHANGED <<disk, editor, changes>>
    BY DEF Calls!Runner, Calls!ResolveOrigin, Calls!Execute, Calls!ReadSource, Calls!Recheck,
           Calls!CheckOrigin
  <1>1. CASE Calls!ResolveOrigin
    <2>1. CASE call' = [call EXCEPT !.pc = "execute", !.source = Calls!Source(call.origin)]
      <3> DEFINE s == Calls!Source(call.origin)
      <3>1. call \in Requests /\ call.origin \in Files
        BY RequestUpdates DEF CallInv, CallTypes
      <3>2. s \in Identities /\ Seen(call.origin, s)
        BY <3>1, SourceFacts DEF CallInv
      <3> HIDE DEF s
      <3>3. call' = [call EXCEPT !.pc = "execute", !.source = s]
        BY <2>1 DEF s
      <3>4. /\ call' \in Requests /\ call'.aborted = call.aborted /\ call'.pc = "execute"
            /\ call'.origin = call.origin /\ call'.source = s /\ call'.answer = call.answer
            /\ call'.read = call.read /\ call'.checked = call.checked
        BY <3>1, <3>2, <3>3 DEF Requests, Phases
      <3>5. CallTypes'
        BY <3>4 DEF CallInv, CallTypes
      <3>6. SeenInv' /\ PassInv' /\ HeldInv'
        BY <1>1, <3>2, <3>4 DEF CallInv, SeenInv, PassInv, HeldInv, Seen, Calls!ResolveOrigin
      <3> QED
        BY <3>5, <3>6 DEF CallInv
    <2> QED
      BY <1>1, <2>1, CallFails DEF Calls!ResolveOrigin
  <1>2. CASE Calls!Execute
    <2>1. ASSUME NEW of \in SUBSET Files, NEW answer \in [of -> Texts],
                 call' = [call EXCEPT !.pc = "read", !.answer = answer]
          PROVE  CallInv'
      <3>1. call \in Requests /\ answer \in Partial(Texts)
        BY PartialFacts DEF CallInv, CallTypes
      <3>2. /\ call' \in Requests /\ call'.aborted = call.aborted /\ call'.pc = "read"
            /\ call'.origin = call.origin /\ call'.source = call.source /\ call'.answer = answer
            /\ call'.read = call.read /\ call'.checked = call.checked
        BY <2>1, <3>1 DEF Requests, Phases
      <3>3. CallTypes'
        BY <3>2 DEF CallInv, CallTypes
      <3>4. call.pc = "execute"
        BY <1>2 DEF Calls!Execute
      <3>5. SeenInv' /\ PassInv' /\ HeldInv'
        BY <3>2, <3>4 DEF CallInv, SeenInv, PassInv, HeldInv, Seen
      <3> QED
        BY <3>3, <3>5 DEF CallInv
    <2> QED
      BY <1>2, <2>1, CallFails DEF Calls!Execute
  <1>3. CASE Calls!ReadSource
    <2> DEFINE left == DOMAIN call.answer \ DOMAIN call.read
               first == CHOOSE f \in left : TRUE
               known == [f \in DOMAIN call.read \cup {first} |->
                            IF f = first THEN Calls!Source(f) ELSE call.read[f]]
               held == /\ Calls!Shown(call.origin) = call.source.text
                       /\ \A f \in DOMAIN call.answer : Calls!Shown(f) = call.answer[f]
    <2>0. /\ call \in Requests /\ call.pc = "read" /\ call.origin \in Files /\ call.source \in Identities
          /\ call.read \in Partial(Identities) /\ call.answer \in Partial(Texts)
          /\ call.read \in [DOMAIN call.read -> Identities]
          /\ DOMAIN call.read \subseteq Files /\ DOMAIN call.answer \subseteq Files
      BY <1>3, RequestUpdates, PartialFacts DEF CallInv, CallTypes, Calls!ReadSource
    <2>1. CASE left = {} /\ call' = [call EXCEPT !.pc = "recheck", !.held = held]
      <3>1. held \in BOOLEAN
        OBVIOUS
      <3>2. /\ call' \in Requests /\ call'.aborted = call.aborted /\ call'.pc = "recheck"
            /\ call'.origin = call.origin /\ call'.source = call.source /\ call'.answer = call.answer
            /\ call'.read = call.read /\ call'.checked = call.checked
        <4> HIDE DEF held
        <4> QED BY <2>0, <2>1, <3>1 DEF Requests, Phases
      <3>3. call'.held = held
        <4> HIDE DEF held
        <4> QED BY <2>0, <2>1, <3>1 DEF Requests, Phases
      <3>4. ASSUME ~call.aborted, ~held
            PROVE  \/ Moved(call.origin, call.source)
                   \/ \E f \in DOMAIN call.answer : Moved(f, call.read[f])
        <4>1. ASSUME NEW f \in Files, NEW s \in Identities, Seen(f, s), Calls!Shown(f) # s.text
              PROVE  Moved(f, s)
          BY <4>1 DEF Seen, Moved, Calls!Shown, CallInv, CallTypes, Identities
        <4>2. CASE Calls!Shown(call.origin) # call.source.text
          BY <2>0, <3>4, <4>1, <4>2 DEF CallInv, SeenInv
        <4>3. ASSUME NEW f \in DOMAIN call.answer, Calls!Shown(f) # call.answer[f]
              PROVE  Moved(f, call.read[f])
          <5>1. f \in DOMAIN call.read /\ f \in Files
            BY <2>0, <2>1
          <5>2. Seen(f, call.read[f]) /\ call.read[f].text = call.answer[f] /\ call.read[f] \in Identities
            BY <2>0, <3>4, <5>1 DEF CallInv, SeenInv, PassInv
          <5> QED
            BY <4>1, <4>3, <5>1, <5>2
        <4> QED
          BY <3>4, <4>2, <4>3
      <3>5. CallTypes'
        BY <3>2 DEF CallInv, CallTypes
      <3>6. SeenInv' /\ PassInv'
        <4>1. DOMAIN call.read = DOMAIN call.answer
          BY <2>1 DEF CallInv, PassInv
        <4> HIDE DEF left, first, known, held
        <4> QED
          BY <2>0, <3>2, <4>1 DEF CallInv, SeenInv, PassInv, Seen
      <3>7. HeldInv'
        <4> HIDE DEF held
        <4>1. call.checked = {}
          BY <2>0 DEF CallInv, PassInv
        <4> QED BY <2>0, <3>2, <3>3, <3>4, <4>1 DEF HeldInv, Moved
      <3> QED
        BY <3>5, <3>6, <3>7 DEF CallInv
    <2>2. CASE /\ left # {} /\ Calls!Source(first).text = call.answer[first]
               /\ call' = [call EXCEPT !.read = known]
      <3>1. first \in left /\ first \in Files
        BY <2>0, <2>2
      <3>2. Calls!Source(first) \in Identities /\ Seen(first, Calls!Source(first))
        BY <3>1, SourceFacts DEF CallInv
      <3> DEFINE s == Calls!Source(first)
      <3>3. known = [g \in DOMAIN call.read \cup {first} |-> IF g = first THEN s ELSE call.read[g]]
        OBVIOUS
      <3> HIDE DEF left, first, known, s
      <3>4. known \in Partial(Identities)
        <4>1. s \in Identities
          BY <3>2 DEF s
        <4> QED
          BY <2>0, <3>1, <3>3, <4>1, PartialFacts
      <3>5. /\ call' \in Requests /\ call'.aborted = call.aborted /\ call'.pc = "read"
            /\ call'.origin = call.origin /\ call'.source = call.source /\ call'.answer = call.answer
            /\ call'.read = known /\ call'.checked = call.checked
        BY <2>0, <2>2, <3>4 DEF Requests, Phases
      <3>6. CallTypes'
        BY <3>5 DEF CallInv, CallTypes
      <3>7. SeenInv'
        BY <2>0, <3>2, <3>3, <3>5 DEF CallInv, SeenInv, Seen, s
      <3>8. PassInv'
        BY <2>0, <2>2, <3>1, <3>2, <3>3, <3>5 DEF CallInv, PassInv, s, left
      <3>9. HeldInv'
        BY <3>5 DEF HeldInv
      <3> QED
        BY <3>6, <3>7, <3>8, <3>9 DEF CallInv
    <2> QED
      BY <1>3, <2>1, <2>2, CallFails DEF Calls!ReadSource
  <1>4. CASE Calls!Recheck
    <2> DEFINE left == DOMAIN call.answer \ call.checked
               first == CHOOSE f \in left : TRUE
    <2>0. /\ call \in Requests /\ call.pc = "recheck" /\ call.checked \in SUBSET Files
          /\ DOMAIN call.answer \subseteq Files
      BY <1>4, RequestUpdates, PartialFacts DEF CallInv, CallTypes, Calls!Recheck
    <2>1. CASE left = {} /\ Calls!Goto("origin")
      <3>1. /\ call' \in Requests /\ call'.aborted = call.aborted /\ call'.pc = "origin"
            /\ call'.origin = call.origin /\ call'.source = call.source /\ call'.answer = call.answer
            /\ call'.read = call.read /\ call'.checked = call.checked /\ call'.held = call.held
        BY <2>0, <2>1 DEF Calls!Goto, Phases, Requests
      <3>2. CallTypes'
        BY <3>1 DEF CallInv, CallTypes
      <3>3. SeenInv' /\ PassInv'
        BY <2>0, <3>1 DEF CallInv, SeenInv, PassInv, Seen
      <3>4. HeldInv'
        BY <2>0, <2>1, <3>1 DEF CallInv, HeldInv, Moved
      <3> QED
        BY <3>2, <3>3, <3>4 DEF CallInv
    <2>2. CASE /\ left # {} /\ Calls!IsCurrent(first, call.read[first])
               /\ call' = [call EXCEPT !.checked = @ \cup {first}]
      <3>1. first \in left /\ first \in Files
        BY <2>0, <2>2
      <3>2. ~Moved(first, call.read[first])
        <4>1. /\ editor[first].open <=> call.read[first].kind = "open"
              /\ Calls!Source(first).at = call.read[first].at
          BY <2>2 DEF Calls!IsCurrent
        <4> HIDE DEF first
        <4> QED
          BY <4>1 DEF Moved, Calls!Source
      <3> HIDE DEF left, first
      <3>3. /\ call' \in Requests /\ call'.aborted = call.aborted /\ call'.pc = call.pc
            /\ call'.origin = call.origin /\ call'.source = call.source /\ call'.answer = call.answer
            /\ call'.read = call.read /\ call'.checked = call.checked \cup {first}
            /\ call'.held = call.held
        BY <2>0, <2>2, <3>1 DEF Requests
      <3>4. CallTypes'
        BY <3>3 DEF CallInv, CallTypes
      <3>5. SeenInv' /\ PassInv'
        BY <2>0, <3>3 DEF CallInv, SeenInv, PassInv, Seen
      <3>6. HeldInv'
        BY <2>0, <3>2, <3>3 DEF CallInv, HeldInv, Moved
      <3> QED
        BY <3>4, <3>5, <3>6 DEF CallInv
    <2> QED
      BY <1>4, <2>1, <2>2, CallFails DEF Calls!Recheck
  <1>5. CASE Calls!CheckOrigin
    <2>1. CASE /\ ~call.aborted /\ Calls!IsCurrent(call.origin, call.source)
               /\ Calls!Goto("answered")
      <3>1. call \in Requests /\ call.pc = "origin" /\ call.origin \in Files
        BY <1>5, RequestUpdates DEF CallInv, CallTypes, Calls!CheckOrigin
      <3>2. ~Moved(call.origin, call.source)
        BY <2>1 DEF Calls!IsCurrent, Calls!Source, Moved
      <3>3. /\ call' \in Requests /\ call'.aborted = call.aborted /\ call'.pc = "answered"
            /\ call'.origin = call.origin /\ call'.source = call.source /\ call'.answer = call.answer
            /\ call'.read = call.read /\ call'.checked = call.checked /\ call'.held = call.held
        BY <2>1, <3>1 DEF Calls!Goto, Phases, Requests
      <3>4. CallTypes'
        BY <3>3 DEF CallInv, CallTypes
      <3>5. SeenInv' /\ PassInv' /\ HeldInv'
        BY <2>1, <3>1, <3>2, <3>3 DEF CallInv, SeenInv, PassInv, HeldInv, Seen
      <3> QED
        BY <3>4, <3>5 DEF CallInv
    <2> QED
      BY <1>5, <2>1, CallFails DEF Calls!CheckOrigin
  <1> QED
    BY <1>1, <1>2, <1>3, <1>4, <1>5 DEF Calls!Runner

\* A call hierarchy that is answered is a snapshot: after its last source was
\* read and before any was looked at again, all of them, and the source the
\* request is about, had the texts the answer was computed from
\* (CallHierarchySourceAuthority.validateResultItems, isCurrent), for any files
\* that anyone changes at any time.
THEOREM AnswersAreSnapshots == Calls!Spec => []Calls!AnswersAreSnapshots
  <1>1. Calls!Init => CallInv
    <2> SUFFICES ASSUME Calls!Init PROVE CallInv
      OBVIOUS
    <2>1. disk \in [Files -> [place : {"root", "outside", "gone"}, text : Texts, stamp : Nat]]
      BY DEF Calls!Init
    <2>2. editor \in [Files -> [open : BOOLEAN, version : Nat, text : Texts]]
      BY DEF Calls!Init
    <2>3. PICK f \in Files :
            call = [pc |-> "resolve", origin |-> f, aborted |-> FALSE, source |-> Calls!Source(f),
                    answer |-> <<>>, read |-> <<>>, checked |-> {}, held |-> FALSE]
      BY DEF Calls!Init
    <2>4. Calls!Source(f) \in Identities /\ Seen(f, Calls!Source(f))
      BY <2>1, <2>2 DEF Calls!Source, Identities, Seen
    <2>5. call \in Requests
      BY <2>3, <2>4, PartialFacts DEF Requests, Phases
    <2>6. CallTypes
      BY <2>1, <2>2, <2>5 DEF CallTypes, Calls!Init
    <2>7. \A g \in Files : disk[g].stamp <= changes
      BY DEF Calls!Init
    <2>8. SeenInv /\ PassInv /\ HeldInv
      BY <2>3, <2>4, <2>7 DEF SeenInv, PassInv, HeldInv
    <2> QED
      BY <2>6, <2>8 DEF CallInv
  <1>2. CallInv /\ [Calls!Next]_Calls!hierarchyVars => CallInv'
    <2> SUFFICES ASSUME CallInv, [Calls!Next]_Calls!hierarchyVars PROVE CallInv'
      OBVIOUS
    <2>1. CASE UNCHANGED Calls!hierarchyVars
      BY <2>1 DEF Calls!hierarchyVars, CallInv, CallTypes, SeenInv, PassInv, HeldInv, Seen, Moved
    <2> QED
      BY <2>1, CallWorld, CallRunner DEF Calls!Next
  <1>3. CallInv => Calls!AnswersAreSnapshots
    BY DEF CallInv, HeldInv, Calls!AnswersAreSnapshots
  <1> QED
    BY <1>1, <1>2, <1>3, PTL DEF Calls!Spec

-----------------------------------------------------------------------------
(* Watched files                                                            *)

CONSTANTS Sources, Resources, Configurations, Roots, MaxPendingPaths, MaxEvents
VARIABLES onDisk, reported, pending, dirty, members, outdated, events, merged

Watched == INSTANCE FileChanges

\* What is assumed of the constants: each file has one root and one domain.
WatchParameters ==
    /\ Sources \in [DOMAIN Sources -> Roots]
    /\ Resources \in [DOMAIN Resources -> Roots]
    /\ Configurations \in [DOMAIN Configurations -> Roots]
    /\ DOMAIN Sources \cap DOMAIN Resources = {}
    /\ (DOMAIN Sources \cup DOMAIN Resources) \cap DOMAIN Configurations = {}
    /\ MaxPendingPaths \in Nat

Kinds == {"created", "changed", "deleted"}
Known == Watched!Files \cup DOMAIN Configurations

WatchTypes ==
    /\ onDisk \subseteq DOMAIN Sources
    /\ reported \in Seq(Known \X Kinds)
    /\ pending \in [DOMAIN pending -> Kinds]
    /\ DOMAIN pending \subseteq Watched!Files
    /\ IsFiniteSet(DOMAIN pending) /\ Cardinality(DOMAIN pending) <= MaxPendingPaths
    /\ dirty \in [source : SUBSET Roots, resource : SUBSET Roots, configuration : SUBSET Roots]
    /\ members \in [Roots -> SUBSET DOMAIN Sources]
    /\ outdated \subseteq Watched!Domains \X Roots

\* A root that is dirty lists none of its changes.
ListInv ==
    \A f \in DOMAIN pending :
        /\ f \in DOMAIN Sources => Sources[f] \notin dirty.source
        /\ f \in DOMAIN Resources => Resources[f] \notin dirty.resource

\* Every document that is outdated is so for a change that is on its way.
OnItsWay(d, r) ==
    \/ \E i \in 1 .. Len(reported) : Watched!Domain(reported[i][1]) = d /\ Watched!Root(reported[i][1]) = r
    \/ \E f \in DOMAIN pending : Watched!Domain(f) = d /\ Watched!Root(f) = r
    \/ d = "source" /\ r \in dirty.source
    \/ d = "resource" /\ r \in dirty.resource
DiagnosisInv == \A d \in Watched!Domains, r \in Roots : <<d, r>> \in outdated => OnItsWay(d, r)

WatchInv == WatchTypes /\ ListInv /\ DiagnosisInv

\* The roots and domains of files.
LEMMA RootFacts ==
    ASSUME WatchParameters
    PROVE  /\ \A f \in Known : Watched!Root(f) \in Roots /\ Watched!Domain(f) \in {"source", "resource"}
           /\ \A f \in DOMAIN Sources : Watched!Root(f) = Sources[f] /\ Watched!Domain(f) = "source"
           /\ \A f \in DOMAIN Resources : Watched!Root(f) = Resources[f] /\ Watched!Domain(f) = "resource"
           /\ \A f \in DOMAIN Configurations :
                 Watched!Root(f) = Configurations[f] /\ Watched!Domain(f) = "source"
  BY DEF WatchParameters, Known, Watched!Root, Watched!Domain, Watched!Files

\* What accepting an event does: the root becomes dirty and its changes are
\* forgotten, or it is dirty already, or the change is listed.
Accepted(f, kind) ==
    /\ merged \subseteq merged'
    /\ \/ /\ f \in DOMAIN Configurations \cup DOMAIN Sources
          /\ dirty'.source = dirty.source \cup {Watched!Root(f)} /\ dirty'.resource = dirty.resource
          /\ pending' = [h \in {g \in DOMAIN pending : Watched!Root(g) # Watched!Root(f)
                                                       \/ Watched!Domain(g) # "source"} |-> pending[h]]
       \/ /\ f \in DOMAIN Resources
          /\ dirty'.resource = dirty.resource \cup {Watched!Root(f)} /\ dirty'.source = dirty.source
          /\ pending' = [h \in {g \in DOMAIN pending : Watched!Root(g) # Watched!Root(f)
                                                       \/ Watched!Domain(g) # "resource"} |-> pending[h]]
       \/ /\ UNCHANGED <<pending, dirty>>
          /\ \/ f \in DOMAIN Sources /\ Sources[f] \in dirty.source
             \/ f \in DOMAIN Resources /\ Resources[f] \in dirty.resource
       \/ /\ f \in Watched!Files
          /\ f \in DOMAIN Sources => Sources[f] \notin dirty.source
          /\ f \in DOMAIN Resources => Resources[f] \notin dirty.resource
          /\ f \in DOMAIN pending \/ Cardinality(DOMAIN pending) < MaxPendingPaths
          /\ pending' = [g \in DOMAIN pending \cup {f} |-> IF g = f THEN kind ELSE pending[g]]
          /\ kind = "changed" /\ f \in DOMAIN pending /\ pending[f] # "changed" => f \in merged'
          /\ UNCHANGED dirty

\* The instance counts as this module does.
LEMMA SameCardinality == \A S : Watched!Cardinality(S) = Cardinality(S)
  BY Zenon DEF Watched!Cardinality, Cardinality, Watched!IsFiniteSet, IsFiniteSet

\* accept: an event is merged into the list, or its root becomes dirty because
\* the list is full, or it is about a configuration (acceptOne).
LEMMA AcceptCases ==
    ASSUME WatchParameters, WatchTypes, Watched!AcceptOne
    PROVE  /\ reported # <<>> /\ reported' = Tail(reported)
           /\ UNCHANGED <<onDisk, members, outdated, events>>
           /\ Head(reported) \in Known \X Kinds
           /\ dirty' \in [source : SUBSET Roots, resource : SUBSET Roots, configuration : SUBSET Roots]
           /\ Accepted(Head(reported)[1], Head(reported)[2])
  <1>1. /\ reported # <<>> /\ reported' = Tail(reported)
        /\ UNCHANGED <<onDisk, members, outdated, events>>
    BY DEF Watched!AcceptOne
  <1>2. Head(reported) \in Known \X Kinds
    BY <1>1 DEF WatchTypes
  <1> DEFINE f == Head(reported)[1]
             kind == Head(reported)[2]
  <1>3. f \in Known /\ kind \in Kinds
    BY <1>2
  <1> DEFINE Dirt == [source : SUBSET Roots, resource : SUBSET Roots, configuration : SUBSET Roots]
  <1>4. dirty \in Dirt
    BY DEF WatchTypes
  <1>5. Watched!Root(f) \in Roots
    BY <1>3, RootFacts
  <1> HIDE DEF f, kind
  <1>6. CASE f \in DOMAIN Configurations
    <2>0. f \notin Watched!Files
      BY <1>6 DEF WatchParameters, Watched!Files
    <2>1. Watched!Configured(Watched!Root(f))
      BY <1>6, <2>0, Zenon DEF Watched!AcceptOne, Watched!Configured, f, kind
    <2>2. dirty' = [dirty EXCEPT !.source = @ \cup {Watched!Root(f)}, !.configuration = @ \cup {Watched!Root(f)}]
      BY <2>1 DEF Watched!Configured
    <2>3. /\ dirty' \in Dirt /\ dirty'.source = dirty.source \cup {Watched!Root(f)}
          /\ dirty'.resource = dirty.resource
      BY <1>4, <1>5, <2>2
    <2>4. Accepted(f, kind)
      BY <1>6, <2>1, <2>3 DEF Accepted, Watched!Configured
    <2> QED
      BY <1>1, <1>2, <2>3, <2>4 DEF f, kind
  <1>7. CASE f \in DOMAIN Sources
    <2>1. f \in Watched!Files /\ f \notin DOMAIN Configurations /\ f \notin DOMAIN Resources
      BY <1>7 DEF WatchParameters, Watched!Files
    <2>2. Watched!Domain(f) = "source" /\ Watched!Root(f) = Sources[f]
      BY <1>7, RootFacts
    <2>3. dirty[Watched!Domain(f)] = dirty.source
      BY <2>2
    <2>4. CASE Sources[f] \in dirty.source
      <3>1. UNCHANGED <<pending, dirty, merged>>
        BY <2>1, <2>2, <2>3, <2>4 DEF Watched!AcceptOne, f
      <3>2. Accepted(f, kind)
        BY <1>7, <2>4, <3>1 DEF Accepted
      <3> QED
        BY <1>1, <1>2, <1>4, <3>1, <3>2 DEF f, kind
    <2>5. CASE Sources[f] \notin dirty.source /\ f \notin DOMAIN pending
               /\ Cardinality(DOMAIN pending) >= MaxPendingPaths
      <3>1. Watched!MarkRootDirty(Watched!Root(f), "source")
        BY <2>1, <2>2, <2>3, <2>5, SameCardinality DEF Watched!AcceptOne, Watched!MarkRootDirty, f
      <3>2. dirty' = [dirty EXCEPT !.source = @ \cup {Watched!Root(f)}]
        BY <3>1 DEF Watched!MarkRootDirty
      <3>3. dirty' \in Dirt /\ dirty'.source = dirty.source \cup {Watched!Root(f)} /\ dirty'.resource = dirty.resource
        BY <1>4, <1>5, <3>2
      <3>4. Accepted(f, kind)
        BY <1>7, <3>1, <3>3 DEF Accepted, Watched!MarkRootDirty
      <3> QED
        BY <1>1, <1>2, <3>3, <3>4 DEF f, kind
    <2>6. CASE /\ Sources[f] \notin dirty.source
               /\ ~(f \notin DOMAIN pending /\ Cardinality(DOMAIN pending) >= MaxPendingPaths)
      <3>1. Watched!Record(f, kind)
        BY <2>1, <2>2, <2>3, <2>6, SameCardinality DEF Watched!AcceptOne, Watched!Record, f, kind
      <3>2. f \in DOMAIN pending \/ Cardinality(DOMAIN pending) < MaxPendingPaths
        BY <2>6, FS_CardinalityType DEF WatchTypes, WatchParameters
      <3>a. /\ merged \subseteq merged'
            /\ kind = "changed" /\ f \in DOMAIN pending /\ pending[f] # "changed" => f \in merged'
        BY <3>1 DEF Watched!Record, Watched!Replaces
      <3>b. /\ pending' = [g \in DOMAIN pending \cup {f} |-> IF g = f THEN kind ELSE pending[g]]
            /\ UNCHANGED dirty
        BY <3>1 DEF Watched!Record
      <3>3. Accepted(f, kind)
        BY <1>7, <2>1, <2>6, <3>2, <3>a, <3>b DEF Accepted
      <3> QED
        BY <1>1, <1>2, <1>4, <3>1, <3>3 DEF f, kind, Watched!Record
    <2> QED
      BY <2>4, <2>5, <2>6
  <1>8. CASE f \in DOMAIN Resources
    <2>1. f \in Watched!Files /\ f \notin DOMAIN Configurations /\ f \notin DOMAIN Sources
      BY <1>8 DEF WatchParameters, Watched!Files
    <2>2. Watched!Domain(f) = "resource" /\ Watched!Root(f) = Resources[f]
      BY <1>8, RootFacts
    <2>3. dirty[Watched!Domain(f)] = dirty.resource
      BY <2>2
    <2>4. CASE Resources[f] \in dirty.resource
      <3>1. UNCHANGED <<pending, dirty, merged>>
        BY <2>1, <2>2, <2>3, <2>4 DEF Watched!AcceptOne, f
      <3>2. Accepted(f, kind)
        BY <1>8, <2>4, <3>1 DEF Accepted
      <3> QED
        BY <1>1, <1>2, <1>4, <3>1, <3>2 DEF f, kind
    <2>5. CASE Resources[f] \notin dirty.resource /\ f \notin DOMAIN pending
               /\ Cardinality(DOMAIN pending) >= MaxPendingPaths
      <3>1. Watched!MarkRootDirty(Watched!Root(f), "resource")
        BY <2>1, <2>2, <2>3, <2>5, SameCardinality DEF Watched!AcceptOne, Watched!MarkRootDirty, f
      <3>2. dirty' = [dirty EXCEPT !.resource = @ \cup {Watched!Root(f)}]
        BY <3>1 DEF Watched!MarkRootDirty
      <3>3. dirty' \in Dirt /\ dirty'.resource = dirty.resource \cup {Watched!Root(f)} /\ dirty'.source = dirty.source
        BY <1>4, <1>5, <3>2
      <3>4. Accepted(f, kind)
        BY <1>8, <3>1, <3>3 DEF Accepted, Watched!MarkRootDirty
      <3> QED
        BY <1>1, <1>2, <3>3, <3>4 DEF f, kind
    <2>6. CASE /\ Resources[f] \notin dirty.resource
               /\ ~(f \notin DOMAIN pending /\ Cardinality(DOMAIN pending) >= MaxPendingPaths)
      <3>1. Watched!Record(f, kind)
        BY <2>1, <2>2, <2>3, <2>6, SameCardinality DEF Watched!AcceptOne, Watched!Record, f, kind
      <3>2. f \in DOMAIN pending \/ Cardinality(DOMAIN pending) < MaxPendingPaths
        BY <2>6, FS_CardinalityType DEF WatchTypes, WatchParameters
      <3>a. /\ merged \subseteq merged'
            /\ kind = "changed" /\ f \in DOMAIN pending /\ pending[f] # "changed" => f \in merged'
        BY <3>1 DEF Watched!Record, Watched!Replaces
      <3>b. /\ pending' = [g \in DOMAIN pending \cup {f} |-> IF g = f THEN kind ELSE pending[g]]
            /\ UNCHANGED dirty
        BY <3>1 DEF Watched!Record
      <3>3. Accepted(f, kind)
        BY <1>8, <2>1, <2>6, <3>2, <3>a, <3>b DEF Accepted
      <3> QED
        BY <1>1, <1>2, <1>4, <3>1, <3>3 DEF f, kind, Watched!Record
    <2> QED
      BY <2>4, <2>5, <2>6
  <1> QED
    BY <1>3, <1>6, <1>7, <1>8 DEF Known, Watched!Files

\* Files change, and the client reports them.
LEMMA WatchHappens ==
    ASSUME WatchParameters, WatchInv, NEW f \in Known, NEW kind \in Kinds,
           Watched!Happens(f, kind), UNCHANGED <<pending, dirty, members>>,
           onDisk' \subseteq DOMAIN Sources
    PROVE  WatchInv'
  <1>1. /\ reported' = Append(reported, <<f, kind>>)
        /\ outdated' = outdated \cup {<<Watched!Domain(f), Watched!Root(f)>>}
    BY DEF Watched!Happens
  <1>2. Watched!Root(f) \in Roots /\ Watched!Domain(f) \in Watched!Domains
    BY RootFacts DEF Watched!Domains
  <1>3. WatchTypes'
    BY <1>1, <1>2 DEF WatchInv, WatchTypes
  <1>4. /\ Len(reported') = Len(reported) + 1 /\ reported'[Len(reported')] = <<f, kind>>
        /\ \A i \in 1 .. Len(reported) : reported'[i] = reported[i]
        /\ Len(reported) \in Nat
    BY <1>1 DEF WatchInv, WatchTypes
  <1>5. ASSUME NEW d \in Watched!Domains, NEW r \in Roots, <<d, r>> \in outdated'
        PROVE  OnItsWay(d, r)'
    <2>1. CASE <<d, r>> \in outdated
      <3>1. OnItsWay(d, r)
        BY <2>1 DEF WatchInv, DiagnosisInv
      <3>2. ASSUME NEW i \in 1 .. Len(reported) PROVE i \in 1 .. Len(reported') /\ reported'[i] = reported[i]
        BY <1>4
      <3> QED
        BY <3>1, <3>2 DEF OnItsWay
    <2>2. CASE d = Watched!Domain(f) /\ r = Watched!Root(f)
      <3>1. Len(reported') \in 1 .. Len(reported') /\ reported'[Len(reported')][1] = f
        BY <1>4
      <3> QED
        BY <2>2, <3>1 DEF OnItsWay
    <2> QED
      BY <1>1, <1>5, <2>1, <2>2
  <1>6. ListInv'
    BY DEF WatchInv, ListInv
  <1> QED
    BY <1>3, <1>5, <1>6 DEF WatchInv, DiagnosisInv

\* An event is accepted.
LEMMA WatchAccept ==
    ASSUME WatchParameters, WatchInv, Watched!AcceptOne
    PROVE  WatchInv'
  <1> DEFINE f == Head(reported)[1]
             kind == Head(reported)[2]
  <1>1. /\ reported # <<>> /\ reported' = Tail(reported)
        /\ UNCHANGED <<onDisk, members, outdated, events>>
        /\ dirty' \in [source : SUBSET Roots, resource : SUBSET Roots, configuration : SUBSET Roots]
        /\ f \in Known /\ kind \in Kinds
        /\ Accepted(f, kind)
    BY AcceptCases DEF WatchInv
  <1>2. /\ \A i \in 1 .. Len(reported) : i = 1 \/ (i - 1 \in 1 .. Len(reported') /\ reported'[i - 1] = reported[i])
        /\ reported[1] = Head(reported)
        /\ reported' \in Seq(Known \X Kinds)
    BY <1>1 DEF WatchInv, WatchTypes
  <1> HIDE DEF f, kind
  <1>3. /\ pending' \in [DOMAIN pending' -> Kinds]
        /\ DOMAIN pending' \subseteq Watched!Files
        /\ DOMAIN pending' \subseteq DOMAIN pending \cup {f}
        /\ \/ DOMAIN pending' \subseteq DOMAIN pending
           \/ Cardinality(DOMAIN pending) < MaxPendingPaths /\ DOMAIN pending' = DOMAIN pending \cup {f}
    BY <1>1 DEF Accepted, WatchInv, WatchTypes
  <1>4. IsFiniteSet(DOMAIN pending') /\ Cardinality(DOMAIN pending') <= MaxPendingPaths
    <2>1. CASE DOMAIN pending' \subseteq DOMAIN pending
      BY <2>1, FS_Subset, FS_CardinalityType DEF WatchInv, WatchTypes, WatchParameters
    <2>2. CASE Cardinality(DOMAIN pending) < MaxPendingPaths /\ DOMAIN pending' = DOMAIN pending \cup {f}
      <3>1. IsFiniteSet(DOMAIN pending) /\ Cardinality(DOMAIN pending) \in Nat
        BY FS_CardinalityType DEF WatchInv, WatchTypes
      <3>2. /\ IsFiniteSet(DOMAIN pending \cup {f})
            /\ \/ Cardinality(DOMAIN pending \cup {f}) = Cardinality(DOMAIN pending)
               \/ Cardinality(DOMAIN pending \cup {f}) = Cardinality(DOMAIN pending) + 1
        BY <3>1, FS_AddElement
      <3> QED
        BY <2>2, <3>1, <3>2 DEF WatchParameters
    <2> QED
      BY <1>3, <2>1, <2>2
  <1>5. WatchTypes'
    BY <1>1, <1>2, <1>3, <1>4 DEF WatchInv, WatchTypes
  <1>6. ListInv'
    <2> SUFFICES ASSUME NEW g \in DOMAIN pending'
                 PROVE  /\ g \in DOMAIN Sources => Sources[g] \notin dirty'.source
                        /\ g \in DOMAIN Resources => Resources[g] \notin dirty'.resource
      BY DEF ListInv
    <2>1. g \in DOMAIN Sources => Watched!Root(g) = Sources[g] /\ Watched!Domain(g) = "source"
      BY RootFacts
    <2>2. g \in DOMAIN Resources => Watched!Root(g) = Resources[g] /\ Watched!Domain(g) = "resource"
      BY RootFacts
    <2> QED
      BY <1>1, <2>1, <2>2 DEF WatchInv, ListInv, Accepted
  <1>7. ASSUME NEW d \in Watched!Domains, NEW r \in Roots, <<d, r>> \in outdated'
        PROVE  OnItsWay(d, r)'
    <2>0. OnItsWay(d, r)
      BY <1>1, <1>7 DEF WatchInv, DiagnosisInv
    <2>a. /\ f \in DOMAIN Sources => Watched!Root(f) = Sources[f] /\ Watched!Domain(f) = "source"
          /\ f \in DOMAIN Resources => Watched!Root(f) = Resources[f] /\ Watched!Domain(f) = "resource"
          /\ f \in DOMAIN Configurations => Watched!Domain(f) = "source"
      BY RootFacts
    <2>1. CASE Watched!Domain(f) = d /\ Watched!Root(f) = r
      <3>1. \/ (d = "source" /\ r \in dirty'.source) \/ (d = "resource" /\ r \in dirty'.resource)
            \/ f \in DOMAIN pending'
        BY <1>1, <2>1, <2>a DEF Accepted
      <3> QED
        BY <2>1, <3>1 DEF OnItsWay
    <2>2. CASE \E i \in 1 .. Len(reported) : Watched!Domain(reported[i][1]) = d /\ Watched!Root(reported[i][1]) = r
      <3>1. PICK i \in 1 .. Len(reported) : Watched!Domain(reported[i][1]) = d /\ Watched!Root(reported[i][1]) = r
        BY <2>2
      <3>2. CASE i = 1
        BY <1>2, <2>1, <3>1, <3>2 DEF f
      <3>3. CASE i - 1 \in 1 .. Len(reported') /\ reported'[i - 1] = reported[i]
        BY <3>1, <3>3 DEF OnItsWay
      <3> QED
        BY <1>2, <3>2, <3>3
    <2>3. CASE \E g \in DOMAIN pending : Watched!Domain(g) = d /\ Watched!Root(g) = r
      <3>1. PICK g \in DOMAIN pending : Watched!Domain(g) = d /\ Watched!Root(g) = r
        BY <2>3
      <3>2. CASE g \in DOMAIN pending'
        BY <3>1, <3>2 DEF OnItsWay
      <3>3. CASE g \notin DOMAIN pending'
        <4>1. (d = "source" /\ r \in dirty'.source) \/ (d = "resource" /\ r \in dirty'.resource)
          BY <1>1, <3>1, <3>3 DEF Accepted
        <4> QED
          BY <4>1 DEF OnItsWay
      <3> QED
        BY <3>2, <3>3
    <2>4. CASE (d = "source" /\ r \in dirty.source) \/ (d = "resource" /\ r \in dirty.resource)
      <3>1. (d = "source" /\ r \in dirty'.source) \/ (d = "resource" /\ r \in dirty'.resource)
        BY <1>1, <2>4 DEF Accepted
      <3> QED
        BY <3>1 DEF OnItsWay
    <2> QED
      BY <2>0, <2>2, <2>3, <2>4 DEF OnItsWay
  <1> QED
    BY <1>5, <1>6, <1>7 DEF WatchInv, DiagnosisInv

\* The batches are delivered.
LEMMA WatchDrain ==
    ASSUME WatchParameters, WatchInv, Watched!Drain
    PROVE  WatchInv'
  <1>1. /\ pending' = <<>> /\ dirty' = Watched!Clean /\ UNCHANGED <<onDisk, reported, events>>
        /\ members' = [r \in Roots |-> IF Watched!HasBatch(r) THEN Watched!Membership(r) ELSE members[r]]
        /\ outdated' = outdated \ UNION {Watched!Scheduled(r) : r \in Roots}
    BY DEF Watched!Drain
  <1>2. DOMAIN pending' = {} /\ dirty'.source = {} /\ dirty'.resource = {} /\ dirty'.configuration = {}
    BY <1>1 DEF Watched!Clean
  <1>3. members' \in [Roots -> SUBSET DOMAIN Sources]
    <2>1. \A r \in Roots : Watched!Membership(r) \subseteq DOMAIN Sources
      BY DEF Watched!Membership, Watched!Enumerated, Watched!OfRoot, WatchInv, WatchTypes
    <2> QED
      BY <1>1, <2>1 DEF WatchInv, WatchTypes
  <1>4. IsFiniteSet(DOMAIN pending') /\ Cardinality(DOMAIN pending') <= MaxPendingPaths
    BY <1>2, FS_EmptySet DEF WatchParameters
  <1>5. WatchTypes'
    <2>1. pending' \in [DOMAIN pending' -> Kinds]
      BY <1>1
    <2>2. dirty' \in [source : SUBSET Roots, resource : SUBSET Roots, configuration : SUBSET Roots]
      BY <1>1 DEF Watched!Clean
    <2> QED
      BY <1>1, <1>2, <1>3, <1>4, <2>1, <2>2 DEF WatchInv, WatchTypes
  <1>6. ASSUME NEW d \in Watched!Domains, NEW r \in Roots, <<d, r>> \in outdated'
        PROVE  OnItsWay(d, r)'
    <2>1. OnItsWay(d, r) /\ <<d, r>> \notin Watched!Scheduled(r)
      BY <1>1, <1>6 DEF WatchInv, DiagnosisInv
    <2>2. /\ d = "source" => r \notin dirty.source /\ Watched!Changes(r) \cap DOMAIN Sources = {}
          /\ d = "resource" => r \notin dirty.resource /\ Watched!Changes(r) \cap DOMAIN Resources = {}
      BY <2>1 DEF Watched!Scheduled
    <2>3. ASSUME NEW f \in DOMAIN pending, Watched!Domain(f) = d, Watched!Root(f) = r
          PROVE  FALSE
      <3>1. f \in DOMAIN Sources \/ f \in DOMAIN Resources
        BY DEF WatchInv, WatchTypes, Watched!Files
      <3>2. f \in Watched!Changes(r)
        BY <2>3 DEF Watched!Changes
      <3> QED
        BY <2>2, <2>3, <3>1, <3>2, RootFacts
    <2> QED
      BY <1>1, <2>1, <2>2, <2>3 DEF OnItsWay
  <1> QED
    BY <1>2, <1>5, <1>6 DEF WatchInv, ListInv, DiagnosisInv

\* Nothing has been reported at first.
LEMMA WatchInit ==
    ASSUME WatchParameters, Watched!Init
    PROVE  WatchInv
  <1>1. DOMAIN pending = {} /\ dirty.source = {} /\ dirty.resource = {} /\ dirty.configuration = {}
        /\ outdated = {}
    BY DEF Watched!Init, Watched!Clean
  <1>2. IsFiniteSet(DOMAIN pending) /\ Cardinality(DOMAIN pending) <= MaxPendingPaths
    BY <1>1, FS_EmptySet DEF WatchParameters
  <1>3. pending \in [DOMAIN pending -> Kinds]
    BY DEF Watched!Init
  <1>4. dirty \in [source : SUBSET Roots, resource : SUBSET Roots, configuration : SUBSET Roots]
    BY DEF Watched!Init, Watched!Clean
  <1>5. reported \in Seq(Known \X Kinds)
    BY DEF Watched!Init
  <1>6. onDisk \subseteq DOMAIN Sources /\ members \in [Roots -> SUBSET DOMAIN Sources]
    BY DEF Watched!Init
  <1> QED
    BY <1>1, <1>2, <1>3, <1>4, <1>5, <1>6 DEF WatchInv, WatchTypes, ListInv, DiagnosisInv

\* Every step keeps what is on its way to the diagnostics.
LEMMA WatchNext ==
    ASSUME WatchParameters, WatchInv, [Watched!Next]_Watched!fileVars
    PROVE  WatchInv'
  <1>1. ASSUME NEW f \in DOMAIN Sources, Watched!FileCreated(f) \/ Watched!FileDeleted(f)
        PROVE  WatchInv'
    <2>1. f \in Known /\ UNCHANGED <<pending, dirty, members>> /\ onDisk' \subseteq DOMAIN Sources
      BY <1>1 DEF Known, Watched!Files, Watched!FileCreated, Watched!FileDeleted, WatchInv, WatchTypes
    <2>2. PICK kind \in Kinds : Watched!Happens(f, kind)
      BY <1>1, Zenon DEF Watched!FileCreated, Watched!FileDeleted, Kinds
    <2> QED
      BY <2>1, <2>2, WatchHappens
  <1>2. ASSUME NEW f \in Watched!Files \cup DOMAIN Configurations, Watched!FileWritten(f)
        PROVE  WatchInv'
    <2>1. f \in Known /\ UNCHANGED <<pending, dirty, members>> /\ onDisk' \subseteq DOMAIN Sources
      BY <1>2 DEF Known, Watched!FileWritten, WatchInv, WatchTypes
    <2>2. Watched!Happens(f, "changed") /\ "changed" \in Kinds
      BY <1>2, Zenon DEF Watched!FileWritten, Kinds
    <2> QED
      BY <2>1, <2>2, WatchHappens
  <1>3. CASE UNCHANGED Watched!fileVars
    BY <1>3 DEF Watched!fileVars, WatchInv, WatchTypes, ListInv, DiagnosisInv, OnItsWay
  <1> QED
    BY <1>1, <1>2, <1>3, WatchAccept, WatchDrain DEF Watched!Next

\* Every document whose sources, resources or configuration changed has been
\* scheduled for diagnosis once every notification is handled, whatever the
\* bounds of the coordinator and however the client splits and merges events
\* (onDidChangeWatchedFiles).
THEOREM ChangesAreDiagnosed == WatchParameters /\ Watched!Spec => []Watched!ChangesAreDiagnosed
  <1> SUFFICES ASSUME WatchParameters PROVE Watched!Spec => []Watched!ChangesAreDiagnosed
    OBVIOUS
  <1>1. Watched!Init => WatchInv
    BY WatchInit
  <1>2. WatchInv /\ [Watched!Next]_Watched!fileVars => WatchInv'
    BY WatchNext
  <1>3. WatchInv => Watched!ChangesAreDiagnosed
    <2> SUFFICES ASSUME WatchInv, Watched!Delivered PROVE outdated = {}
      BY DEF Watched!ChangesAreDiagnosed
    <2>1. Len(reported) = 0 /\ DOMAIN pending = {} /\ dirty.source = {} /\ dirty.resource = {}
      BY DEF Watched!Delivered, Watched!Clean
    <2>2. \A d, r : ~OnItsWay(d, r)
      BY <2>1 DEF OnItsWay
    <2> QED
      BY <2>2 DEF WatchInv, WatchTypes, DiagnosisInv
  <1> QED
    BY <1>1, <1>2, <1>3, PTL DEF Watched!Spec

\* The membership of a source.
Structural(e, f) == e = <<f, "created">> \/ e = <<f, "deleted">>
Quiet(f) == \A i \in 1 .. Len(reported) : ~Structural(reported[i], f)
LastOf(f, i) == Structural(reported[i], f) /\ \A j \in i + 1 .. Len(reported) : ~Structural(reported[j], f)
Admitted(f) == f \in members[Sources[f]]
Settled(f) == f \in DOMAIN pending => pending[f] = "changed"

\* The last event of a source that is on its way tells whether it exists; when
\* none is, its entry in the list does, or else the store knows already or the
\* entry was replaced by a write.  A file that was written last is there.
MemberInv(f) ==
    /\ ~Quiet(f) => \E i \in 1 .. Len(reported) :
                       LastOf(f, i) /\ (reported[i] = <<f, "created">> <=> f \in onDisk)
    /\ Quiet(f) /\ Sources[f] \notin dirty.source =>
          IF Settled(f) THEN (Admitted(f) => f \in onDisk) /\ (f \in onDisk => Admitted(f) \/ f \in merged)
          ELSE pending[f] = "created" <=> f \in onDisk
    /\ \A i \in 1 .. Len(reported) :
          reported[i] = <<f, "changed">> /\ (\A j \in i + 1 .. Len(reported) : ~Structural(reported[j], f))
             => f \in onDisk

MembersInv ==
    /\ \A f \in DOMAIN Sources : MemberInv(f)
    /\ \A r \in Roots : members[r] \subseteq Watched!OfRoot(r)

\* Nothing about f happens when another file is created, deleted or written.
LEMMA MemberOther ==
    ASSUME WatchTypes, NEW f \in DOMAIN Sources, MemberInv(f), NEW e, e \in Known \X Kinds,
           ~Structural(e, f), e # <<f, "changed">>,
           reported' = Append(reported, e), f \in onDisk' <=> f \in onDisk,
           UNCHANGED <<pending, dirty, members, merged>>
    PROVE  MemberInv(f)'
  <1>1. /\ Len(reported') = Len(reported) + 1 /\ reported'[Len(reported')] = e
        /\ \A i \in 1 .. Len(reported) : reported'[i] = reported[i]
        /\ Len(reported) \in Nat
    BY DEF WatchTypes
  <1>2. \A i \in 1 .. Len(reported') : i \in 1 .. Len(reported) \/ i = Len(reported')
    BY <1>1
  <1>3. ASSUME ~Quiet(f)'
        PROVE  \E i \in 1 .. Len(reported') :
                  LastOf(f, i)' /\ (reported'[i] = <<f, "created">> <=> f \in onDisk')
    <2>1. ~Quiet(f)
      BY <1>1, <1>2, <1>3 DEF Quiet
    <2>2. PICK i \in 1 .. Len(reported) : LastOf(f, i) /\ (reported[i] = <<f, "created">> <=> f \in onDisk)
      BY <2>1 DEF MemberInv
    <2>3. i \in 1 .. Len(reported') /\ reported'[i] = reported[i]
      BY <1>1
    <2>4. ASSUME NEW j \in i + 1 .. Len(reported') PROVE ~Structural(reported'[j], f)
      <3>1. j \in i + 1 .. Len(reported) \/ j = Len(reported')
        BY <1>1
      <3> QED
        BY <1>1, <2>2, <3>1 DEF LastOf
    <2> QED
      BY <2>2, <2>3, <2>4 DEF LastOf
  <1>4. Quiet(f)' => Quiet(f)
    BY <1>1 DEF Quiet
  <1>5. ASSUME NEW i \in 1 .. Len(reported'), reported'[i] = <<f, "changed">>,
               \A j \in i + 1 .. Len(reported') : ~Structural(reported'[j], f)
        PROVE  f \in onDisk'
    <2>1. i \in 1 .. Len(reported) /\ reported'[i] = reported[i]
      BY <1>1, <1>2, <1>5
    <2>2. \A j \in i + 1 .. Len(reported) : j \in i + 1 .. Len(reported') /\ reported'[j] = reported[j]
      BY <1>1, <2>1
    <2> QED
      BY <1>5, <2>1, <2>2 DEF MemberInv
  <1>6. (Settled(f)' <=> Settled(f)) /\ (Admitted(f)' <=> Admitted(f))
    BY DEF Settled, Admitted
  <1> QED
    BY <1>3, <1>4, <1>5, <1>6 DEF MemberInv

\* f is created or deleted: its last event is this one.
LEMMA MemberChanges ==
    ASSUME WatchTypes, NEW f \in DOMAIN Sources, MemberInv(f),
           NEW kind \in {"created", "deleted"}, kind = "created" <=> f \in onDisk',
           f \in Known, reported' = Append(reported, <<f, kind>>),
           UNCHANGED <<pending, dirty, members, merged>>
    PROVE  MemberInv(f)'
  <1>1. /\ Len(reported') = Len(reported) + 1 /\ reported'[Len(reported')] = <<f, kind>>
        /\ \A i \in 1 .. Len(reported) : reported'[i] = reported[i]
        /\ Len(reported) \in Nat
    BY DEF WatchTypes, Kinds
  <1>2. \A i \in 1 .. Len(reported') : i \in 1 .. Len(reported) \/ i = Len(reported')
    BY <1>1
  <1>3. Structural(reported'[Len(reported')], f) /\ reported'[Len(reported')] # <<f, "changed">>
    BY <1>1 DEF Structural
  <1>4. Len(reported') \in 1 .. Len(reported') /\ Len(reported') + 1 .. Len(reported') = {}
    BY <1>1
  <1>5. reported'[Len(reported')] = <<f, "created">> <=> f \in onDisk'
    BY <1>1
  <1>6. ASSUME NEW i \in 1 .. Len(reported'), reported'[i] = <<f, "changed">>,
               \A j \in i + 1 .. Len(reported') : ~Structural(reported'[j], f)
        PROVE  FALSE
    <2>1. i # Len(reported')
      BY <1>3, <1>6
    <2>2. Len(reported') \in i + 1 .. Len(reported')
      BY <1>1, <2>1
    <2> QED
      BY <1>3, <1>6, <2>2
  <1>7. Settled(f)' <=> Settled(f)
    BY DEF Settled
  <1>8. ~Quiet(f)'
    BY <1>1, <1>3 DEF Quiet
  <1>9. \E i \in 1 .. Len(reported') : LastOf(f, i)' /\ (reported'[i] = <<f, "created">> <=> f \in onDisk')
    <2>1. PICK i \in 1 .. Len(reported') : i = Len(reported')
      BY <1>4
    <2>2. LastOf(f, i)'
      BY <1>3, <1>4, <2>1 DEF LastOf
    <2> QED
      BY <1>5, <2>1, <2>2
  <1> QED
    BY <1>6, <1>7, <1>8, <1>9 DEF MemberInv

\* f is written: it is there, and what was known of it stays known.
LEMMA MemberWritten ==
    ASSUME WatchTypes, NEW f \in DOMAIN Sources, MemberInv(f), f \in onDisk,
           f \in Known, reported' = Append(reported, <<f, "changed">>),
           UNCHANGED <<onDisk, pending, dirty, members, merged>>
    PROVE  MemberInv(f)'
  <1>1. /\ Len(reported') = Len(reported) + 1 /\ reported'[Len(reported')] = <<f, "changed">>
        /\ \A i \in 1 .. Len(reported) : reported'[i] = reported[i]
        /\ Len(reported) \in Nat
    BY DEF WatchTypes, Kinds
  <1>2. \A i \in 1 .. Len(reported') : i \in 1 .. Len(reported) \/ i = Len(reported')
    BY <1>1
  <1>3. ~Structural(reported'[Len(reported')], f)
    BY <1>1 DEF Structural
  <1>4. ASSUME ~Quiet(f)'
        PROVE  \E i \in 1 .. Len(reported') :
                  LastOf(f, i)' /\ (reported'[i] = <<f, "created">> <=> f \in onDisk')
    <2>1. ~Quiet(f)
      BY <1>1, <1>2, <1>3, <1>4 DEF Quiet
    <2>2. PICK i \in 1 .. Len(reported) : LastOf(f, i) /\ (reported[i] = <<f, "created">> <=> f \in onDisk)
      BY <2>1 DEF MemberInv
    <2>3. i \in 1 .. Len(reported') /\ reported'[i] = reported[i]
      BY <1>1
    <2>4. ASSUME NEW j \in i + 1 .. Len(reported') PROVE ~Structural(reported'[j], f)
      <3>1. j \in i + 1 .. Len(reported) \/ j = Len(reported')
        BY <1>1
      <3> QED
        BY <1>1, <1>3, <2>2, <3>1 DEF LastOf
    <2> QED
      BY <2>2, <2>3, <2>4 DEF LastOf
  <1>5. Quiet(f)' => Quiet(f)
    BY <1>1 DEF Quiet
  <1>6. (Settled(f)' <=> Settled(f)) /\ (Admitted(f)' <=> Admitted(f))
    BY DEF Settled, Admitted
  <1> QED
    BY <1>4, <1>5, <1>6 DEF MemberInv

\* An event is accepted: if it was the last of f then the list, or a dirty root,
\* tells now what it told.
LEMMA MemberAccept ==
    ASSUME WatchParameters, WatchTypes, ListInv, NEW f \in DOMAIN Sources, MemberInv(f), Watched!AcceptOne
    PROVE  MemberInv(f)'
  <1> DEFINE e == Head(reported)
             h == e[1]
             kind == e[2]
  <1>1. /\ reported # <<>> /\ reported' = Tail(reported)
        /\ UNCHANGED <<onDisk, members>>
        /\ e \in Known \X Kinds /\ e = <<h, kind>> /\ e = reported[1]
        /\ Accepted(h, kind)
    BY AcceptCases DEF WatchTypes
  <1>2. /\ Len(reported) = Len(reported') + 1 /\ Len(reported') \in Nat
        /\ \A i \in 1 .. Len(reported') : reported'[i] = reported[i + 1]
    BY <1>1 DEF WatchTypes
  <1>3. \A i \in 1 .. Len(reported) : i = 1 \/ (i - 1 \in 1 .. Len(reported') /\ reported'[i - 1] = reported[i])
    BY <1>2
  <1> HIDE DEF e, h, kind
  <1>4. Admitted(f)' <=> Admitted(f)
    BY <1>1 DEF Admitted
  <1>5. ASSUME ~Quiet(f)'
        PROVE  \E i \in 1 .. Len(reported') :
                  LastOf(f, i)' /\ (reported'[i] = <<f, "created">> <=> f \in onDisk')
    <2>1. PICK k \in 1 .. Len(reported') : Structural(reported'[k], f)
      BY <1>5 DEF Quiet
    <2>2. k + 1 \in 1 .. Len(reported) /\ Structural(reported[k + 1], f)
      BY <1>2, <2>1
    <2>3. PICK i \in 1 .. Len(reported) : LastOf(f, i) /\ (reported[i] = <<f, "created">> <=> f \in onDisk)
      BY <2>2 DEF MemberInv, Quiet
    <2>4. i # 1
      BY <1>2, <2>2, <2>3 DEF LastOf
    <2>5. i - 1 \in 1 .. Len(reported') /\ reported'[i - 1] = reported[i]
      BY <1>3, <2>4
    <2>6. ASSUME NEW j \in (i - 1) + 1 .. Len(reported') PROVE ~Structural(reported'[j], f)
      <3>1. j + 1 \in i + 1 .. Len(reported) /\ j \in 1 .. Len(reported')
        BY <1>2
      <3> QED
        BY <1>2, <2>3, <3>1 DEF LastOf
    <2>7. PICK n \in 1 .. Len(reported') : n = i - 1
      BY <2>5
    <2>8. LastOf(f, n)' /\ (reported'[n] = <<f, "created">> <=> f \in onDisk')
      BY <1>1, <2>3, <2>5, <2>6, <2>7 DEF LastOf
    <2> QED
      BY <2>8
  <1>6. ASSUME NEW i \in 1 .. Len(reported'), reported'[i] = <<f, "changed">>,
               \A j \in i + 1 .. Len(reported') : ~Structural(reported'[j], f)
        PROVE  f \in onDisk'
    <2>1. i + 1 \in 1 .. Len(reported) /\ reported[i + 1] = <<f, "changed">>
      BY <1>2, <1>6
    <2>2. ASSUME NEW j \in (i + 1) + 1 .. Len(reported) PROVE ~Structural(reported[j], f)
      <3>1. j - 1 \in i + 1 .. Len(reported') /\ reported'[j - 1] = reported[j]
        BY <1>2, <1>3
      <3> QED
        BY <1>6, <3>1
    <2> QED
      BY <1>1, <2>1, <2>2 DEF MemberInv
  <1>7. ASSUME Quiet(f)', Sources[f] \notin dirty'.source
        PROVE  IF Settled(f)' THEN (Admitted(f) => f \in onDisk) /\ (f \in onDisk => Admitted(f) \/ f \in merged')
               ELSE pending'[f] = "created" <=> f \in onDisk
    <2>0. Watched!Root(f) = Sources[f] /\ Watched!Domain(f) = "source" /\ Sources[f] \notin dirty.source
          /\ f \notin DOMAIN Resources /\ f \notin DOMAIN Configurations
      BY <1>1, <1>7, RootFacts DEF Accepted, WatchParameters
    <2>a. merged \subseteq merged'
      BY <1>1 DEF Accepted
    <2>1. CASE h # f
      <3>1. Quiet(f)
        <4>1. ~Structural(reported[1], f)
          BY <1>1, <2>1 DEF Structural
        <4> QED
          BY <1>3, <1>7, <4>1 DEF Quiet
      <3>2. (f \in DOMAIN pending' <=> f \in DOMAIN pending) /\ (f \in DOMAIN pending => pending'[f] = pending[f])
        BY <1>1, <1>7, <2>0, <2>1 DEF Accepted
      <3> QED
        BY <2>0, <2>a, <3>1, <3>2 DEF MemberInv, Settled
    <2>2. CASE h = f
      <3>1. f \in DOMAIN pending' /\ pending'[f] = kind
        <4>1. Watched!Root(f) \notin dirty'.source
          BY <1>7, <2>0
        <4> QED
          BY <1>1, <2>0, <2>2, <4>1 DEF Accepted
      <3>2. CASE kind = "changed"
        <4>1. reported[1] = <<f, "changed">> /\ 1 \in 1 .. Len(reported)
          BY <1>1, <1>2, <2>2, <3>2
        <4>2. ~Structural(reported[1], f)
          BY <4>1 DEF Structural
        <4>3. Quiet(f)
          BY <1>3, <1>7, <4>2 DEF Quiet
        <4>4. f \in onDisk
          BY <4>1, <4>3 DEF MemberInv, Quiet
        <4>5. Settled(f)'
          BY <3>1, <3>2 DEF Settled
        <4>6. CASE Settled(f)
          BY <2>0, <2>a, <4>3, <4>4, <4>5, <4>6 DEF MemberInv
        <4>7. CASE ~Settled(f)
          <5>1. f \in merged'
            BY <1>1, <1>7, <2>0, <2>2, <3>2, <4>7 DEF Accepted, Settled
          <5> QED
            BY <4>4, <4>5, <5>1
        <4> QED
          BY <4>6, <4>7
      <3>3. CASE kind # "changed"
        <4>1. Structural(reported[1], f) /\ 1 \in 1 .. Len(reported)
          BY <1>1, <1>2, <2>2, <3>3 DEF Structural, Kinds
        <4>2. PICK i \in 1 .. Len(reported) : LastOf(f, i) /\ (reported[i] = <<f, "created">> <=> f \in onDisk)
          BY <4>1 DEF MemberInv, Quiet
        <4>3. i = 1
          BY <1>3, <1>7, <4>2 DEF Quiet, LastOf
        <4>4. pending'[f] = "created" <=> f \in onDisk
          BY <1>1, <2>2, <3>1, <4>2, <4>3
        <4> QED
          BY <3>1, <3>3, <4>4 DEF Settled
      <3> QED
        BY <3>2, <3>3
    <2> QED
      BY <2>1, <2>2
  <1> QED
    BY <1>1, <1>4, <1>5, <1>6, <1>7 DEF MemberInv

\* The batches are delivered: what the list says of a source, the store knows.
LEMMA MemberDrain ==
    ASSUME WatchParameters, WatchTypes, ListInv, MembersInv, Watched!Drain
    PROVE  MembersInv'
  <1>1. /\ pending' = <<>> /\ dirty' = Watched!Clean /\ UNCHANGED <<onDisk, reported, events>>
        /\ members' = [r \in Roots |-> IF Watched!HasBatch(r) THEN Watched!Membership(r) ELSE members[r]]
        /\ merged' = merged \cap (onDisk \ UNION {members'[r] : r \in Roots})
    BY DEF Watched!Drain
  <1>2. DOMAIN pending' = {}
    BY <1>1
  <1>3. ASSUME NEW r \in Roots PROVE members'[r] \subseteq Watched!OfRoot(r)
    <2>1. Watched!Changes(r) \cap DOMAIN Sources \subseteq Watched!OfRoot(r)
      BY RootFacts DEF Watched!Changes, Watched!OfRoot
    <2> QED
      BY <1>1, <2>1 DEF MembersInv, Watched!Membership, Watched!Enumerated
  <1>4. ASSUME NEW f \in DOMAIN Sources PROVE MemberInv(f)'
    <2>0. MemberInv(f)
      BY DEF MembersInv
    <2>1. Settled(f)'
      BY <1>2 DEF Settled
    <2>2. (Quiet(f)' <=> Quiet(f)) /\ \A i : LastOf(f, i)' <=> LastOf(f, i)
      BY <1>1 DEF Quiet, LastOf
    <2>a. f \in onDisk /\ f \in merged /\ ~Admitted(f)' => f \in merged'
      <3>1. \A r \in Roots : f \in members'[r] => r = Sources[f]
        BY <1>3 DEF Watched!OfRoot
      <3> QED
        BY <1>1, <3>1 DEF Admitted
    <2>3. ASSUME Quiet(f) PROVE (Admitted(f)' => f \in onDisk) /\ (f \in onDisk => Admitted(f)' \/ f \in merged')
      <3> DEFINE r == Sources[f]
      <3>1. r \in Roots /\ Watched!Root(f) = r /\ f \in Watched!OfRoot(r)
        BY RootFacts DEF WatchParameters, Watched!OfRoot
      <3>2. CASE r \in dirty.source \/ Watched!Rejected(r) # {}
        <4>1. Watched!HasBatch(r) /\ Watched!Membership(r) = onDisk \cap Watched!OfRoot(r)
          BY <3>2 DEF Watched!HasBatch, Watched!Membership, Watched!Rejected, Watched!Enumerated
        <4> QED
          BY <1>1, <3>1, <4>1 DEF Admitted
      <3>3. CASE r \notin dirty.source /\ Watched!Rejected(r) = {}
        <4>1. f \in DOMAIN pending <=> f \in Watched!Changes(r)
          BY <3>1 DEF Watched!Changes
        <4>2. CASE Watched!HasBatch(r)
          <5>1. f \in Watched!Membership(r) <=>
                   \/ f \in members[r] /\ (f \in DOMAIN pending => pending[f] # "deleted")
                   \/ f \in DOMAIN pending /\ pending[f] = "created"
            BY <3>3, <4>1 DEF Watched!Membership
          <5>2. f \in DOMAIN pending => pending[f] \in {"created", "changed", "deleted"}
            BY DEF WatchTypes, Kinds
          <5> QED
            BY <1>1, <2>0, <2>a, <2>3, <3>1, <3>3, <4>2, <5>1, <5>2 DEF MemberInv, Admitted, Settled
        <4>3. CASE ~Watched!HasBatch(r)
          <5>1. f \notin DOMAIN pending
            BY <4>1, <4>3 DEF Watched!HasBatch
          <5> QED
            BY <1>1, <2>0, <2>a, <2>3, <3>1, <3>3, <4>3, <5>1 DEF MemberInv, Admitted, Settled
        <4> QED
          BY <4>2, <4>3
      <3> QED
        BY <3>2, <3>3
    <2> QED
      BY <1>1, <2>0, <2>1, <2>2, <2>3 DEF MemberInv
  <1> QED
    BY <1>3, <1>4 DEF MembersInv

\* Every step keeps what is known of the membership of each source.
LEMMA MemberNext ==
    ASSUME WatchParameters, WatchTypes, ListInv, MembersInv, [Watched!Next]_Watched!fileVars
    PROVE  MembersInv'
  <1>1. ASSUME NEW f \in DOMAIN Sources, Watched!FileCreated(f) \/ Watched!FileDeleted(f)
        PROVE  MembersInv'
    <2>1. PICK kind \in {"created", "deleted"} :
             reported' = Append(reported, <<f, kind>>) /\ (kind = "created" <=> f \in onDisk')
      BY <1>1 DEF Watched!FileCreated, Watched!FileDeleted, Watched!Happens
    <2>2. /\ UNCHANGED <<pending, dirty, members, merged>>
          /\ \A g \in DOMAIN Sources : g # f => (g \in onDisk' <=> g \in onDisk)
      BY <1>1 DEF Watched!FileCreated, Watched!FileDeleted
    <2>3. f \in Known /\ <<f, kind>> \in Known \X Kinds
      BY DEF Known, Watched!Files, Kinds
    <2>4. ASSUME NEW g \in DOMAIN Sources PROVE MemberInv(g)'
      <3>1. CASE g = f
        <4>1. MemberInv(f)'
          BY <2>1, <2>2, <2>3, MemberChanges DEF MembersInv
        <4> QED
          BY <3>1, <4>1
      <3>2. CASE g # f
        <4>1. ~Structural(<<f, kind>>, g) /\ <<f, kind>> # <<g, "changed">>
          BY <3>2 DEF Structural
        <4> QED
          BY <2>1, <2>2, <2>3, <3>2, <4>1, MemberOther DEF MembersInv
      <3> QED
        BY <3>1, <3>2
    <2> QED
      BY <2>2, <2>4 DEF MembersInv
  <1>2. ASSUME NEW f \in Watched!Files \cup DOMAIN Configurations, Watched!FileWritten(f)
        PROVE  MembersInv'
    <2>1. /\ UNCHANGED <<onDisk, pending, dirty, members, merged>>
          /\ reported' = Append(reported, <<f, "changed">>)
          /\ f \in onDisk \/ f \notin DOMAIN Sources
      BY <1>2 DEF Watched!FileWritten, Watched!Happens
    <2>2. f \in Known /\ <<f, "changed">> \in Known \X Kinds
      BY DEF Known, Kinds
    <2>3. ASSUME NEW g \in DOMAIN Sources PROVE MemberInv(g)'
      <3>1. CASE g = f
        <4>1. f \in DOMAIN Sources => MemberInv(f)'
          BY <2>1, <2>2, MemberWritten DEF MembersInv
        <4> QED
          BY <3>1, <4>1
      <3>2. CASE g # f
        <4>1. ~Structural(<<f, "changed">>, g) /\ <<f, "changed">> # <<g, "changed">>
          BY <3>2 DEF Structural
        <4> QED
          BY <2>1, <2>2, <3>2, <4>1, MemberOther DEF MembersInv
      <3> QED
        BY <3>1, <3>2
    <2> QED
      BY <2>1, <2>3 DEF MembersInv
  <1>3. CASE UNCHANGED Watched!fileVars
    BY <1>3 DEF Watched!fileVars, MembersInv, MemberInv, Quiet, LastOf, Settled, Admitted
  <1>4. CASE Watched!AcceptOne
    BY <1>4, MemberAccept DEF MembersInv, Watched!AcceptOne
  <1> QED
    BY <1>1, <1>2, <1>3, <1>4, MemberDrain DEF Watched!Next

\* When every notification is handled the projects of the store list no source
\* that is gone and lack none that is on disk, however the events were split into
\* notifications, merged, or replaced by a dirty root, except one whose creation was
\* merged with a later write (DocumentStore.workspaceFilesChanged,
\* WorkspaceFileChangeCoordinator).
THEOREM MembersFollowDisk == WatchParameters /\ Watched!Spec => []Watched!MembersFollowDisk
  <1> SUFFICES ASSUME WatchParameters PROVE Watched!Spec => []Watched!MembersFollowDisk
    OBVIOUS
  <1>1. Watched!Init => WatchInv /\ MembersInv
    <2> SUFFICES ASSUME Watched!Init PROVE MembersInv
      BY WatchInit
    <2>1. Len(reported) = 0 /\ DOMAIN pending = {}
      BY DEF Watched!Init
    <2>2. \A r \in Roots : members[r] = onDisk \cap Watched!OfRoot(r)
      BY DEF Watched!Init
    <2>3. ASSUME NEW f \in DOMAIN Sources PROVE f \in members[Sources[f]] <=> f \in onDisk
      BY <2>2 DEF Watched!OfRoot, WatchParameters
    <2> QED
      BY <2>1, <2>2, <2>3 DEF MembersInv, MemberInv, Quiet, Settled, Admitted
  <1>2. WatchInv /\ MembersInv /\ [Watched!Next]_Watched!fileVars => WatchInv' /\ MembersInv'
    BY WatchNext, MemberNext DEF WatchInv
  <1>3. WatchInv /\ MembersInv => Watched!MembersFollowDisk
    <2> SUFFICES ASSUME WatchInv, MembersInv, Watched!Delivered, NEW r \in Roots
                 PROVE  /\ members[r] \subseteq onDisk \cap Watched!OfRoot(r)
                        /\ (onDisk \cap Watched!OfRoot(r)) \ members[r] \subseteq merged
      BY DEF Watched!MembersFollowDisk, Watched!Enumerated
    <2>1. Len(reported) = 0 /\ DOMAIN pending = {} /\ dirty.source = {}
      BY DEF Watched!Delivered, Watched!Clean
    <2>2. ASSUME NEW f \in Watched!OfRoot(r)
          PROVE  (f \in members[r] => f \in onDisk) /\ (f \in onDisk => f \in members[r] \/ f \in merged)
      <3>1. f \in DOMAIN Sources /\ Sources[f] = r /\ MemberInv(f)
        BY DEF Watched!OfRoot, MembersInv
      <3> QED
        BY <2>1, <3>1 DEF MemberInv, Quiet, Settled, Admitted
    <2> QED
      BY <2>2 DEF MembersInv
  <1> QED
    BY <1>1, <1>2, <1>3, PTL DEF Watched!Spec

\* Whatever the client reports, the coordinator lists at most as many changes as
\* its bound allows, and the store's projects and the diagnoses that are due are
\* about known files and roots (WorkspaceFileChangeCoordinator.acceptOne).
THEOREM WatchedTypes == WatchParameters /\ Watched!Spec => []Watched!TypeOK
  <1> SUFFICES ASSUME WatchParameters PROVE Watched!Spec => []Watched!TypeOK
    OBVIOUS
  <1>1. Watched!Init => WatchInv
    BY WatchInit
  <1>2. WatchInv /\ [Watched!Next]_Watched!fileVars => WatchInv'
    BY WatchNext
  <1>3. WatchInv => Watched!TypeOK
    BY SameCardinality DEF WatchInv, WatchTypes, Watched!TypeOK
  <1> QED
    BY <1>1, <1>2, <1>3, PTL DEF Watched!Spec

-----------------------------------------------------------------------------
(* The verification thread                                                  *)

CONSTANTS Jobs, MaxThreads, MaxReleases
VARIABLES job, chain, thread, worker, stopping, retire, releases

Verifier == INSTANCE VerifierClient

None == Verifier!NoJob
Slots == Verifier!Threads
MaybeJob == Jobs \cup {None}
States == {"none", "live", "stopping", "crashed", "exited"}
Pcs == {"idle", "waiting", "starting", "running", "failing", "failed", "done"}
JobRecs == [pc : Pcs, cancelled : BOOLEAN, on : Slots \cup {0}, got : MaybeJob]
ThreadRecs == [state : States, work : MaybeJob, answer : MaybeJob]

VerifierTypes ==
    /\ job \in [Jobs -> JobRecs]
    /\ chain \in Seq(Jobs)
    /\ thread \in [Slots -> ThreadRecs]
    /\ worker \in Slots \cup {0} /\ stopping \in Slots \cup {0}
    /\ retire \in BOOLEAN

\* Which threads there are: the one in use, or else the one that is stopping.
ThreadsOk(t, w, s) ==
    /\ w # 0 => t[w].state \in {"live", "crashed"} /\ (s = 0 \/ t[s].state = "exited")
    /\ s # 0 => t[s].state \in {"stopping", "crashed", "exited"}
    /\ \A i \in Slots : t[i].state \in {"live", "stopping", "crashed"} => i = w \/ i = s
    /\ \A i \in Slots : t[i].state = "none" => t[i].work = None /\ t[i].answer = None

\* One job is active; the thread it runs on has its work or its answer, and a
\* thread nothing runs on has neither.
Busy(b) == {j \in Jobs : b[j].pc \in {"starting", "running", "failing"}}
RunsOn(b, t, j, w) ==
    /\ b[j].on \in Slots
    /\ w # 0 => w = b[j].on
    /\ t[b[j].on].work \in {j, None} /\ t[b[j].on].answer \in {j, None}
    /\ t[b[j].on].work # None => t[b[j].on].answer = None
JobsOk(b, t, w) ==
    /\ \A j, k \in Busy(b) : j = k
    /\ \A j \in Jobs : b[j].pc = "running" => RunsOn(b, t, j, w)
    /\ w # 0 => \/ \E j \in Jobs : b[j].pc = "running" /\ b[j].on = w
                \/ t[w].work = None /\ t[w].answer = None
    /\ \A j \in Jobs : b[j].got \in {None, j}

VerifierInv == VerifierTypes /\ ThreadsOk(thread, worker, stopping) /\ JobsOk(job, thread, worker)

-----------------------------------------------------------------------------

\* dispose: the thread in use, if there is one, becomes the one that stops.
LEMMA DisposedFacts ==
    ASSUME VerifierTypes, NEW t \in [Slots -> ThreadRecs], ThreadsOk(t, worker, stopping),
           Verifier!Disposed(t)
    PROVE  /\ worker' = 0 /\ stopping' \in Slots \cup {0}
           /\ thread' \in [Slots -> ThreadRecs] /\ ThreadsOk(thread', worker', stopping')
           /\ \A i \in Slots : thread'[i].work = t[i].work /\ thread'[i].answer = t[i].answer
  <1>1. worker' = 0 /\ stopping' = IF worker = 0 THEN stopping ELSE worker
    BY DEF Verifier!Disposed
  <1>2. CASE worker = 0 \/ t[worker].state # "live"
    <2>1. thread' = t
      BY <1>2 DEF Verifier!Disposed
    <2> QED
      BY <1>1, <1>2, <2>1 DEF VerifierTypes, ThreadsOk
  <1>3. CASE worker # 0 /\ t[worker].state = "live"
    <2>1. worker \in Slots /\ t[worker] \in ThreadRecs /\ 0 \notin Slots
      BY <1>3 DEF VerifierTypes, Slots, Verifier!Threads
    <2>2. PICK x \in ThreadRecs : x = [t[worker] EXCEPT !.state = "stopping"]
      BY <2>1 DEF ThreadRecs, States
    <2>3. x.state = "stopping" /\ x.work = t[worker].work /\ x.answer = t[worker].answer
      BY <2>1, <2>2 DEF ThreadRecs
    <2>4. thread' = [t EXCEPT ![worker] = x]
      BY <1>3, <2>2, Zenon DEF Verifier!Disposed
    <2> QED
      BY <1>1, <1>3, <2>1, <2>2, <2>3, <2>4 DEF ThreadsOk
  <1> QED
    BY <1>2, <1>3

\* runJob's catch block: nothing runs, and the thread is given up.
LEMMA ThrowFacts ==
    ASSUME VerifierInv, NEW j \in Jobs, job[j].pc \in {"starting", "running", "failing"},
           NEW t \in [Slots -> ThreadRecs], ThreadsOk(t, worker, stopping),
           Verifier!Throw(j, t), UNCHANGED <<chain, retire, releases>>
    PROVE  VerifierInv'
  <1>0. job[j] \in JobRecs
    BY DEF VerifierInv, VerifierTypes
  <1>a. PICK x \in JobRecs : x = [job[j] EXCEPT !.pc = "failing"]
    BY <1>0 DEF JobRecs, Pcs
  <1>1. x.pc = "failing" /\ x.got = job[j].got
    BY <1>0, <1>a DEF JobRecs
  <1>2. job' = [job EXCEPT ![j] = x]
    BY <1>a, Zenon DEF Verifier!Throw
  <1>3. /\ job' \in [Jobs -> JobRecs] /\ job'[j].pc = "failing" /\ job'[j].got = job[j].got
        /\ \A k \in Jobs : k # j => job'[k] = job[k]
    BY <1>1, <1>2 DEF VerifierInv, VerifierTypes
  <1>4. /\ worker' = 0 /\ stopping' \in Slots \cup {0}
        /\ thread' \in [Slots -> ThreadRecs] /\ ThreadsOk(thread', worker', stopping')
    BY DisposedFacts, Zenon DEF Verifier!Throw, VerifierInv
  <1>5. VerifierTypes'
    BY <1>3, <1>4 DEF VerifierInv, VerifierTypes
  <1>6. \A k \in Jobs : k # j => job[k].pc \notin {"starting", "running", "failing"}
    BY DEF VerifierInv, JobsOk, Busy
  <1>7. JobsOk(job', thread', worker')
    BY <1>3, <1>4, <1>6 DEF VerifierInv, JobsOk, Busy
  <1> QED
    BY <1>4, <1>5, <1>7 DEF VerifierInv

\* The end of runJob: the thread is idle, or given up.
LEMMA SettleFacts ==
    ASSUME VerifierInv, NEW j \in Jobs, job[j].pc \in {"starting", "running", "failing"},
           NEW t \in [Slots -> ThreadRecs], ThreadsOk(t, worker, stopping),
           worker # 0 => t[worker].work = None /\ t[worker].answer = None,
           NEW p \in {"done", "failed"}, NEW g \in {None, j},
           Verifier!Settle(j, p, g, t), UNCHANGED <<chain, retire, releases>>
    PROVE  VerifierInv'
  <1>0. job[j] \in JobRecs
    BY DEF VerifierInv, VerifierTypes
  <1>a. PICK x \in JobRecs : x = [job[j] EXCEPT !.pc = p, !.got = g]
    BY <1>0 DEF JobRecs, Pcs, MaybeJob
  <1>1. x.pc = p /\ x.got = g
    BY <1>0, <1>a DEF JobRecs
  <1>2. job' = [job EXCEPT ![j] = x]
    BY <1>a DEF Verifier!Settle, VerifierInv, VerifierTypes
  <1>3. /\ job' \in [Jobs -> JobRecs] /\ job'[j].pc = p /\ job'[j].got = g
        /\ \A k \in Jobs : k # j => job'[k] = job[k]
    BY <1>1, <1>2 DEF VerifierInv, VerifierTypes
  <1>4. /\ worker' \in Slots \cup {0} /\ stopping' \in Slots \cup {0}
        /\ thread' \in [Slots -> ThreadRecs] /\ ThreadsOk(thread', worker', stopping')
        /\ worker' # 0 => thread'[worker'].work = None /\ thread'[worker'].answer = None
    <2>1. CASE retire
      BY <2>1, DisposedFacts, Zenon DEF Verifier!Settle, VerifierInv
    <2>2. CASE ~retire
      BY <2>2 DEF Verifier!Settle, VerifierInv, VerifierTypes
    <2> QED
      BY <2>1, <2>2
  <1>5. VerifierTypes'
    BY <1>3, <1>4 DEF VerifierInv, VerifierTypes
  <1>6. \A k \in Jobs : k # j => job[k].pc \notin {"starting", "running", "failing"}
    BY DEF VerifierInv, JobsOk, Busy
  <1>7. JobsOk(job', thread', worker')
    BY <1>3, <1>4, <1>6 DEF VerifierInv, JobsOk, Busy
  <1> QED
    BY <1>4, <1>5, <1>7 DEF VerifierInv

\* A job is begun, cancelled or gives up its turn: the threads stay as they are.
LEMMA PcFacts ==
    ASSUME VerifierInv, NEW j \in Jobs, NEW x \in JobRecs, job' = [job EXCEPT ![j] = x],
           x.got = job[j].got, x.on = job[j].on,
           \/ x.pc = job[j].pc
           \/ Busy(job) = {} /\ x.pc = "starting"
           \/ job[j].pc # "running" /\ x.pc \in {"waiting", "failed"},
           UNCHANGED <<thread, worker, stopping>>,
           chain' \in Seq(Jobs), retire' \in BOOLEAN
    PROVE  VerifierInv'
  <1>1. /\ job' \in [Jobs -> JobRecs] /\ job'[j] = x /\ \A k \in Jobs : k # j => job'[k] = job[k]
    BY DEF VerifierInv, VerifierTypes
  <1>2. VerifierTypes' /\ ThreadsOk(thread, worker, stopping)'
    BY <1>1 DEF VerifierInv, VerifierTypes
  <1>3. \A k, l \in Busy(job') : k = l
    BY <1>1 DEF VerifierInv, JobsOk, Busy
  <1>4. \A k \in Jobs : /\ job'[k].on = job[k].on /\ job'[k].got = job[k].got
                        /\ job'[k].pc = "running" <=> job[k].pc = "running"
    BY <1>1 DEF Busy
  <1>5. JobsOk(job', thread', worker')
    BY <1>3, <1>4, ZenonT(60) DEF VerifierInv, JobsOk, RunsOn
  <1> QED
    BY <1>2, <1>5 DEF VerifierInv

\* Jobs are called, are cancelled, and get or give up their turn in the chain.
LEMMA VerifierJobs ==
    ASSUME VerifierInv, NEW j \in Jobs, Verifier!Run(j) \/ Verifier!Cancel(j) \/ Verifier!Poll(j)
    PROVE  VerifierInv'
  <1>0. job[j] \in JobRecs /\ ThreadsOk(thread, worker, stopping) /\ thread \in [Slots -> ThreadRecs]
        /\ chain \in Seq(Jobs) /\ retire \in BOOLEAN
    BY DEF VerifierInv, VerifierTypes
  <1>1. CASE Verifier!Run(j)
    <2>1. PICK x \in JobRecs : x = [job[j] EXCEPT !.pc = "waiting"]
      BY <1>0 DEF JobRecs, Pcs
    <2>2. x.pc = "waiting" /\ x.got = job[j].got /\ x.on = job[j].on
      BY <1>0, <2>1 DEF JobRecs
    <2>3. job' = [job EXCEPT ![j] = x]
      BY <1>1, <2>1, Zenon DEF Verifier!Run
    <2>4. /\ chain' \in Seq(Jobs) /\ retire' \in BOOLEAN /\ UNCHANGED <<thread, worker, stopping>>
          /\ job[j].pc = "idle"
      BY <1>0, <1>1 DEF Verifier!Run
    <2> QED
      BY <2>2, <2>3, <2>4, PcFacts
  <1>2. CASE Verifier!Cancel(j)
    <2>1. PICK x \in JobRecs : x = [job[j] EXCEPT !.cancelled = TRUE]
      BY <1>0 DEF JobRecs
    <2>2. x.pc = job[j].pc /\ x.got = job[j].got /\ x.on = job[j].on
      BY <1>0, <2>1 DEF JobRecs
    <2>3. job' = [job EXCEPT ![j] = x]
      BY <1>2, <2>1, Zenon DEF Verifier!Cancel
    <2>4. chain' \in Seq(Jobs) /\ retire' \in BOOLEAN /\ UNCHANGED <<thread, worker, stopping>>
      BY <1>0, <1>2 DEF Verifier!Cancel
    <2> QED
      BY <2>2, <2>3, <2>4, PcFacts
  <1>3. CASE Verifier!Poll(j)
    <2>1. UNCHANGED <<chain, retire, releases>>
      BY <1>3 DEF Verifier!Poll
    <2>2. CASE job[j].pc = "running" /\ Verifier!Throw(j, thread)
      BY <1>0, <2>1, <2>2, ThrowFacts
    <2>3. CASE /\ job[j].pc = "waiting" /\ job' = [job EXCEPT ![j].pc = "failed"]
               /\ UNCHANGED <<thread, worker, stopping>>
      <3>1. PICK x \in JobRecs : x = [job[j] EXCEPT !.pc = "failed"]
        BY <1>0 DEF JobRecs, Pcs
      <3>2. x.pc = "failed" /\ x.got = job[j].got /\ x.on = job[j].on
        BY <1>0, <3>1 DEF JobRecs
      <3>3. job' = [job EXCEPT ![j] = x]
        BY <2>3, <3>1, Zenon
      <3>4. chain' \in Seq(Jobs) /\ retire' \in BOOLEAN /\ UNCHANGED <<thread, worker, stopping>>
        BY <1>0, <2>1, <2>3
      <3> QED
        BY <2>3, <3>2, <3>3, <3>4, PcFacts
    <2> QED
      BY <1>3, <2>2, <2>3, Zenon DEF Verifier!Poll
  <1> QED
    BY <1>1, <1>2, <1>3

\* runJob up to its first await.
LEMMA VerifierBegins ==
    ASSUME VerifierInv, Verifier!Begin
    PROVE  VerifierInv'
  <1> DEFINE j == Head(chain)
  <1>1. /\ j \in Jobs /\ chain' \in Seq(Jobs) /\ retire' \in BOOLEAN
        /\ UNCHANGED <<thread, worker, stopping>> /\ Busy(job) = {}
    <2>1. j \in Jobs /\ chain' \in Seq(Jobs) /\ UNCHANGED <<thread, worker, stopping>> /\ Busy(job) = {}
      BY DEF Verifier!Begin, VerifierInv, VerifierTypes, Busy, Verifier!Active
    <2>2. retire' = FALSE \/ retire' = retire
      BY Zenon DEF Verifier!Begin
    <2> QED
      BY <2>1, <2>2 DEF VerifierInv, VerifierTypes
  <1>2. PICK p \in {"failed", "starting"} : job' = [job EXCEPT ![j].pc = p]
    BY Zenon DEF Verifier!Begin
  <1> HIDE DEF j
  <1>3. job[j] \in JobRecs /\ job[j].pc # "running"
    BY <1>1 DEF VerifierInv, VerifierTypes, Busy
  <1>4. PICK x \in JobRecs : x = [job[j] EXCEPT !.pc = p]
    BY <1>3 DEF JobRecs, Pcs
  <1>5. x.pc = p /\ x.got = job[j].got /\ x.on = job[j].on
    BY <1>3, <1>4 DEF JobRecs
  <1>6. job' = [job EXCEPT ![j] = x]
    BY <1>2, <1>4, Zenon
  <1> QED
    BY <1>1, <1>3, <1>5, <1>6, PcFacts

\* The old thread has gone: no other is alive when one is started.
LEMMA VerifierAcquires ==
    ASSUME VerifierInv, NEW j \in Jobs, Verifier!Acquire(j)
    PROVE  VerifierInv'
  <1>0. /\ VerifierTypes /\ job[j] \in JobRecs /\ job[j].pc = "starting" /\ Verifier!Terminated
        /\ UNCHANGED <<chain, stopping, retire, releases>>
    BY DEF VerifierInv, VerifierTypes, Verifier!Acquire
  <1>1. PICK i \in Slots :
           /\ IF worker # 0 THEN i = worker ELSE thread[i].state = "none"
           /\ worker' = i
           /\ thread' = [thread EXCEPT ![i].work = j, ![i].state = IF worker = 0 THEN "live" ELSE @]
           /\ job' = [job EXCEPT ![j].pc = "running", ![j].on = i]
    BY Zenon DEF Verifier!Acquire, Slots
  <1>2. thread[i] \in ThreadRecs /\ i # 0
    BY <1>0 DEF VerifierTypes, Slots, Verifier!Threads
  <1>3. PICK s \in States : s = IF worker = 0 THEN "live" ELSE thread[i].state
    BY <1>2 DEF ThreadRecs, States
  <1>4. PICK t \in ThreadRecs : t = [thread[i] EXCEPT !.work = j, !.state = s]
    BY <1>2, <1>3 DEF ThreadRecs, MaybeJob
  <1>5. t.work = j /\ t.state = s /\ t.answer = thread[i].answer
    BY <1>2, <1>4 DEF ThreadRecs
  <1>6. PICK x \in JobRecs : x = [job[j] EXCEPT !.pc = "running", !.on = i]
    BY <1>0 DEF JobRecs, Pcs
  <1>7. x.pc = "running" /\ x.on = i /\ x.got = job[j].got
    BY <1>0, <1>6 DEF JobRecs
  <1>8. thread' = [thread EXCEPT ![i] = t]
    BY <1>0, <1>1, <1>2, <1>3, <1>4 DEF VerifierTypes
  <1>9. job' = [job EXCEPT ![j] = x]
    BY <1>0, <1>1, <1>6 DEF VerifierTypes
  <1>10. /\ job' \in [Jobs -> JobRecs] /\ job'[j] = x /\ \A k \in Jobs : k # j => job'[k] = job[k]
         /\ thread' \in [Slots -> ThreadRecs] /\ thread'[i] = t
         /\ \A k \in Slots : k # i => thread'[k] = thread[k]
    BY <1>0, <1>8, <1>9 DEF VerifierTypes
  <1>11. VerifierTypes'
    BY <1>0, <1>1, <1>10 DEF VerifierTypes
  <1>12. \A k \in Jobs : k # j => job[k].pc \notin {"starting", "running", "failing"}
    BY <1>0 DEF VerifierInv, JobsOk, Busy
  <1>13. thread[i].answer = None /\ t.state \in {"live", "crashed"}
    <2>1. CASE worker = 0
      BY <1>1, <1>3, <1>5, <2>1 DEF VerifierInv, ThreadsOk
    <2>2. CASE worker # 0
      BY <1>0, <1>1, <1>3, <1>5, <1>12, <2>2 DEF VerifierInv, ThreadsOk, JobsOk
    <2> QED
      BY <2>1, <2>2
  <1>14. ThreadsOk(thread', worker', stopping')
    <2>1. stopping = 0 \/ (stopping \in Slots /\ thread[stopping].state = "exited")
      BY <1>0 DEF Verifier!Terminated, VerifierTypes, Slots
    <2>2. stopping # i
      BY <1>1, <1>2, <2>1 DEF VerifierInv, ThreadsOk
    <2>3. \A k \in Slots : thread[k].state \in {"live", "stopping", "crashed"} => k = i
      <3>1. \A k \in Slots : k # 0
        BY DEF Slots, Verifier!Threads
      <3> QED
        BY <1>1, <2>1, <3>1 DEF VerifierInv, ThreadsOk
    <2> QED
      BY <1>0, <1>1, <1>2, <1>5, <1>10, <1>13, <2>1, <2>2, <2>3 DEF VerifierInv, ThreadsOk
  <1>15. JobsOk(job', thread', worker')
    <2>1. \A k, l \in Busy(job') : k = l
      BY <1>10, <1>12 DEF Busy
    <2>2. RunsOn(job', thread', j, worker')
      BY <1>1, <1>5, <1>7, <1>10, <1>13 DEF RunsOn
    <2>3. \A k \in Jobs : job'[k].pc = "running" => k = j
      BY <1>10, <1>12
    <2>4. \A k \in Jobs : job'[k].got \in {None, k}
      BY <1>7, <1>10 DEF VerifierInv, JobsOk
    <2>5. job'[j].pc = "running" /\ job'[j].on = worker'
      BY <1>1, <1>7, <1>10
    <2> QED
      BY <2>1, <2>2, <2>3, <2>4, <2>5 DEF JobsOk
  <1> QED
    BY <1>11, <1>14, <1>15 DEF VerifierInv

\* A thread that has answered, whose answer was read or that crashed is the
\* thread it was.
LEMMA ThreadKept ==
    ASSUME VerifierInv, NEW i \in Slots, NEW x \in ThreadRecs, NEW t, t = [thread EXCEPT ![i] = x],
           \/ x.state = thread[i].state
           \/ thread[i].state = "live" /\ x.state = "crashed",
           x.state # "none" \/ (x.work = None /\ x.answer = None)
    PROVE  t \in [Slots -> ThreadRecs] /\ ThreadsOk(t, worker, stopping)
  <1>1. t \in [Slots -> ThreadRecs] /\ t[i] = x /\ \A k \in Slots : k # i => t[k] = thread[k]
    BY DEF VerifierInv, VerifierTypes
  <1>2. worker \in Slots \cup {0} /\ stopping \in Slots \cup {0}
    BY DEF VerifierInv, VerifierTypes
  <1> QED
    BY <1>1, <1>2 DEF VerifierInv, ThreadsOk

\* The jobs do not notice a change of a thread that none of them runs on, or of
\* the idle thread in use.
LEMMA JobsKept ==
    ASSUME VerifierInv, NEW t, NEW i \in Slots, \A k \in Slots : k # i => t[k] = thread[k],
           \A j \in Jobs : job[j].pc = "running" /\ job[j].on = i => RunsOn(job, t, j, worker),
           worker = i => \/ \E j \in Jobs : job[j].pc = "running" /\ job[j].on = i
                         \/ t[i].work = None /\ t[i].answer = None
    PROVE  JobsOk(job, t, worker)
  <1>1. worker \in Slots \cup {0}
    BY DEF VerifierInv, VerifierTypes
  <1> QED
    BY <1>1 DEF VerifierInv, JobsOk, RunsOn

\* Threads answer, crash and exit, and the job that waits for one notices.
LEMMA VerifierThreads ==
    ASSUME VerifierInv, NEW i \in Slots, Verifier!Thread(i) \/ Verifier!Crash(i)
    PROVE  VerifierInv'
  <1>0. VerifierTypes /\ thread[i] \in ThreadRecs /\ i # 0 /\ worker \in Slots \cup {0}
    BY DEF VerifierInv, VerifierTypes, Slots, Verifier!Threads
  <1>a. \A j \in Jobs : job[j].pc = "running" /\ job[j].on = i => RunsOn(job, thread, j, worker)
    BY DEF VerifierInv, JobsOk
  <1>b. /\ thread[i].work \in MaybeJob /\ thread[i].answer \in MaybeJob /\ thread[i].state \in States
    BY <1>0 DEF ThreadRecs
  <1>c. worker = i => \/ \E j \in Jobs : job[j].pc = "running" /\ job[j].on = i
                      \/ thread[i].work = None /\ thread[i].answer = None
    BY <1>0 DEF VerifierInv, JobsOk
  <1>d. \A j \in Jobs : j \in Verifier!Running(i) <=> job[j].pc = "running" /\ job[j].on = i
    BY DEF Verifier!Running
  <1>1. CASE Verifier!Respond(i)
    <2>1. PICK x \in ThreadRecs : x = [thread[i] EXCEPT !.answer = thread[i].work, !.work = None]
      BY <1>0, <1>b DEF ThreadRecs, MaybeJob
    <2>2. x.state = thread[i].state /\ x.answer = thread[i].work /\ x.work = None
      BY <1>0, <2>1 DEF ThreadRecs
    <2>3. thread' = [thread EXCEPT ![i] = x]
      BY <1>0, <1>1, <2>1 DEF Verifier!Respond, VerifierTypes, None
    <2>4. thread[i].state = "live" /\ thread[i].work # None /\ UNCHANGED <<job, chain, worker, stopping, retire>>
      BY <1>1 DEF Verifier!Respond, None
    <2>5. thread' \in [Slots -> ThreadRecs] /\ ThreadsOk(thread', worker, stopping)
      BY <2>2, <2>3, <2>4, ThreadKept
    <2>6. \A k \in Slots : k # i => thread'[k] = thread[k]
      BY <1>0, <2>3 DEF VerifierTypes
    <2>7. thread'[i] = x
      BY <1>0, <2>3 DEF VerifierTypes
    <2>8. JobsOk(job, thread', worker)
      <3>1. \A j \in Jobs : job[j].pc = "running" /\ job[j].on = i => RunsOn(job, thread', j, worker)
        BY <1>a, <2>2, <2>4, <2>7 DEF RunsOn
      <3>2. worker = i => \E j \in Jobs : job[j].pc = "running" /\ job[j].on = i
        BY <1>c, <2>4
      <3> QED
        BY <2>6, <3>1, <3>2, JobsKept
    <2> QED
      BY <1>0, <2>4, <2>5, <2>8 DEF VerifierInv, VerifierTypes
  <1>2. CASE Verifier!Deliver(i)
    <2>1. PICK x \in ThreadRecs : x = [thread[i] EXCEPT !.answer = None]
      BY <1>0 DEF ThreadRecs, MaybeJob
    <2>2. x.state = thread[i].state /\ x.answer = None /\ x.work = thread[i].work
      BY <1>0, <2>1 DEF ThreadRecs
    <2>3. PICK read : read = [thread EXCEPT ![i] = x]
      OBVIOUS
    <2>4. read = [thread EXCEPT ![i].answer = None]
      BY <2>1, <2>3, Zenon
    <2>5. thread[i].answer # None /\ UNCHANGED <<chain, retire, releases>>
      BY <1>2 DEF Verifier!Deliver, None
    <2>6. x.state # "none" \/ (x.work = None /\ x.answer = None)
      BY <2>2 DEF VerifierInv, ThreadsOk
    <2>7. read \in [Slots -> ThreadRecs] /\ ThreadsOk(read, worker, stopping)
      BY <2>2, <2>3, <2>6, ThreadKept
    <2>8. read[i] = x /\ \A k \in Slots : k # i => read[k] = thread[k]
      BY <1>0, <2>3 DEF VerifierTypes
    <2>9. CASE /\ Verifier!Running(i) = {} /\ thread' = read
               /\ UNCHANGED <<job, worker, stopping>>
      <3>1. JobsOk(job, read, worker)
        <4>1. \A j \in Jobs : ~(job[j].pc = "running" /\ job[j].on = i)
          BY <1>d, <2>9
        <4>2. worker = i => read[i].work = None /\ read[i].answer = None
          BY <1>c, <2>2, <2>8, <4>1
        <4> QED
          BY <2>8, <4>1, <4>2, JobsKept
      <3> QED
        BY <1>0, <2>5, <2>7, <2>9, <3>1 DEF VerifierInv, VerifierTypes
    <2>10. ASSUME NEW j \in Verifier!Running(i), Verifier!Settle(j, "done", thread[i].answer, read)
           PROVE  VerifierInv'
      <3>1. j \in Jobs /\ job[j].pc = "running" /\ job[j].on = i
        BY <2>10 DEF Verifier!Running
      <3>2. RunsOn(job, thread, j, worker)
        BY <1>a, <3>1
      <3>3. thread[i].answer = j /\ thread[i].work = None
        BY <2>5, <3>1, <3>2 DEF RunsOn
      <3>4. worker # 0 => read[worker].work = None /\ read[worker].answer = None
        BY <2>2, <2>8, <3>1, <3>2, <3>3 DEF RunsOn
      <3> QED
        BY <2>5, <2>7, <2>10, <3>1, <3>3, <3>4, SettleFacts
    <2>11. ASSUME NEW j \in Verifier!Running(i), Verifier!Throw(j, read)
           PROVE  VerifierInv'
      <3>1. j \in Jobs /\ job[j].pc = "running"
        BY <2>11 DEF Verifier!Running
      <3> QED
        BY <2>5, <2>7, <2>11, <3>1, ThrowFacts
    <2> QED
      BY <1>2, <2>4, <2>9, <2>10, <2>11, Zenon DEF Verifier!Deliver, None
  <1>3. CASE Verifier!Crash(i)
    <2>1. PICK x \in ThreadRecs : x = [thread[i] EXCEPT !.state = "crashed", !.work = None]
      BY <1>0 DEF ThreadRecs, MaybeJob, States
    <2>2. x.state = "crashed" /\ x.answer = thread[i].answer /\ x.work = None
      BY <1>0, <2>1 DEF ThreadRecs
    <2>3. PICK crashed : crashed = [thread EXCEPT ![i] = x]
      OBVIOUS
    <2>4. crashed = [thread EXCEPT ![i].state = "crashed", ![i].work = None]
      BY <1>0, <2>1, <2>3 DEF VerifierTypes
    <2>5. thread[i].state = "live" /\ UNCHANGED <<chain, retire, releases>>
      BY <1>3 DEF Verifier!Crash
    <2>7. crashed \in [Slots -> ThreadRecs] /\ ThreadsOk(crashed, worker, stopping)
      BY <2>2, <2>3, <2>5, ThreadKept
    <2>8. crashed[i] = x /\ \A k \in Slots : k # i => crashed[k] = thread[k]
      BY <1>0, <2>3 DEF VerifierTypes
    <2>9. CASE /\ Verifier!Running(i) = {} /\ thread' = crashed
               /\ UNCHANGED <<job, worker, stopping>>
      <3>1. JobsOk(job, crashed, worker)
        <4>1. \A j \in Jobs : ~(job[j].pc = "running" /\ job[j].on = i)
          BY <1>d, <2>9
        <4>2. worker = i => crashed[i].work = None /\ crashed[i].answer = None
          BY <1>c, <2>2, <2>8, <4>1
        <4> QED
          BY <2>8, <4>1, <4>2, JobsKept
      <3> QED
        BY <1>0, <2>5, <2>7, <2>9, <3>1 DEF VerifierInv, VerifierTypes
    <2>11. ASSUME NEW j \in Verifier!Running(i), Verifier!Throw(j, crashed)
           PROVE  VerifierInv'
      <3>1. j \in Jobs /\ job[j].pc = "running"
        BY <2>11 DEF Verifier!Running
      <3> QED
        BY <2>5, <2>7, <2>11, <3>1, ThrowFacts
    <2> QED
      BY <1>3, <2>4, <2>9, <2>11, Zenon DEF Verifier!Crash, None
  <1>4. CASE Verifier!Exit(i)
    <2>1. PICK x \in ThreadRecs : x = [thread[i] EXCEPT !.state = "exited", !.work = None, !.answer = None]
      BY <1>0 DEF ThreadRecs, MaybeJob, States
    <2>2. x.state = "exited" /\ x.answer = None /\ x.work = None
      BY <1>0, <2>1 DEF ThreadRecs
    <2>3. thread' = [thread EXCEPT ![i] = x]
      BY <1>0, <1>4, <2>1 DEF Verifier!Exit, VerifierTypes, None
    <2>4. /\ thread[i].state \in {"stopping", "crashed"} /\ UNCHANGED <<chain, retire, stopping, releases>>
          /\ worker' = IF worker = i THEN 0 ELSE worker
          /\ job' = [j \in Jobs |-> IF j \in Verifier!Running(i) THEN [job[j] EXCEPT !.pc = "failing"] ELSE job[j]]
      BY <1>4, Zenon DEF Verifier!Exit
    <2>5. thread' \in [Slots -> ThreadRecs] /\ thread'[i] = x /\ \A k \in Slots : k # i => thread'[k] = thread[k]
      BY <1>0, <2>3 DEF VerifierTypes
    <2>6. \A j \in Jobs : /\ job'[j] \in JobRecs /\ job'[j].on = job[j].on /\ job'[j].got = job[j].got
                          /\ \/ job'[j].pc = job[j].pc /\ ~(job[j].pc = "running" /\ job[j].on = i)
                             \/ job'[j].pc = "failing" /\ job[j].pc = "running" /\ job[j].on = i
      <3> SUFFICES ASSUME NEW j \in Jobs
                   PROVE  /\ job'[j] \in JobRecs /\ job'[j].on = job[j].on /\ job'[j].got = job[j].got
                          /\ \/ job'[j].pc = job[j].pc /\ ~(job[j].pc = "running" /\ job[j].on = i)
                             \/ job'[j].pc = "failing" /\ job[j].pc = "running" /\ job[j].on = i
        OBVIOUS
      <3>1. job[j] \in JobRecs
        BY <1>0 DEF VerifierTypes
      <3>2. PICK y \in JobRecs : y = [job[j] EXCEPT !.pc = "failing"]
        BY <3>1 DEF JobRecs, Pcs
      <3>3. y.pc = "failing" /\ y.on = job[j].on /\ y.got = job[j].got
        BY <3>1, <3>2 DEF JobRecs
      <3>4. job'[j] = IF j \in Verifier!Running(i) THEN y ELSE job[j]
        BY <2>4, <3>2, Zenon
      <3> QED
        BY <1>d, <3>1, <3>3, <3>4
    <2>7. job' \in [Jobs -> JobRecs]
      <3>1. DOMAIN job' = Jobs /\ job' = [j \in Jobs |-> job'[j]]
        BY <2>4
      <3> QED
        BY <2>6, <3>1
    <2>8. VerifierTypes'
      BY <1>0, <2>4, <2>5, <2>7 DEF VerifierTypes
    <2>9. ThreadsOk(thread', worker', stopping')
      BY <1>0, <2>2, <2>4, <2>5 DEF VerifierInv, ThreadsOk, VerifierTypes
    <2>10. JobsOk(job', thread', worker')
      <3>1. \A j, k \in Busy(job') : j = k
        BY <2>6 DEF VerifierInv, JobsOk, Busy
      <3>2. ASSUME NEW j \in Jobs, job'[j].pc = "running" PROVE RunsOn(job', thread', j, worker')
        <4>1. job[j].pc = "running" /\ job[j].on # i /\ job'[j].on = job[j].on
          BY <2>6, <3>2
        <4>2. RunsOn(job, thread, j, worker)
          BY <4>1 DEF VerifierInv, JobsOk
        <4> QED
          BY <2>4, <2>5, <4>1, <4>2 DEF RunsOn
      <3>3. worker' # 0 => \/ \E j \in Jobs : job'[j].pc = "running" /\ job'[j].on = worker'
                           \/ thread'[worker'].work = None /\ thread'[worker'].answer = None
        <4>1. SUFFICES ASSUME worker' # 0
                       PROVE  \/ \E j \in Jobs : job'[j].pc = "running" /\ job'[j].on = worker'
                              \/ thread'[worker'].work = None /\ thread'[worker'].answer = None
          OBVIOUS
        <4>2. worker' = worker /\ worker # i /\ worker # 0 /\ thread'[worker] = thread[worker]
          BY <1>0, <2>4, <2>5, <4>1
        <4>3. CASE \E j \in Jobs : job[j].pc = "running" /\ job[j].on = worker
          BY <2>6, <4>2, <4>3
        <4> QED
          BY <4>2, <4>3 DEF VerifierInv, JobsOk
      <3>4. \A j \in Jobs : job'[j].got \in {None, j}
        BY <2>6 DEF VerifierInv, JobsOk
      <3> QED
        BY <3>1, <3>2, <3>3, <3>4 DEF JobsOk
    <2> QED
      BY <2>8, <2>9, <2>10 DEF VerifierInv
  <1> QED
    BY <1>1, <1>2, <1>3, <1>4 DEF Verifier!Thread

\* Releases from outside, and jobs that give up or end.
LEMMA VerifierReleases ==
    ASSUME VerifierInv, Verifier!ReleaseWhenIdle \/ Verifier!Dispose
    PROVE  VerifierInv'
  <1>0. VerifierTypes /\ thread \in [Slots -> ThreadRecs] /\ ThreadsOk(thread, worker, stopping)
    BY DEF VerifierInv, VerifierTypes
  <1>1. UNCHANGED <<job, chain>> /\ (retire' = TRUE \/ retire' = retire)
    BY Zenon DEF Verifier!ReleaseWhenIdle, Verifier!Dispose
  <1>2. CASE Verifier!Disposed(thread)
    <2>1. /\ worker' = 0 /\ stopping' \in Slots \cup {0}
          /\ thread' \in [Slots -> ThreadRecs] /\ ThreadsOk(thread', worker', stopping')
          /\ \A i \in Slots : thread'[i].work = thread[i].work /\ thread'[i].answer = thread[i].answer
      BY <1>0, <1>2, DisposedFacts
    <2>2. JobsOk(job', thread', worker')
      BY <1>1, <2>1 DEF VerifierInv, JobsOk, RunsOn, Busy
    <2> QED
      BY <1>0, <1>1, <2>1, <2>2 DEF VerifierInv, VerifierTypes
  <1>3. CASE UNCHANGED <<thread, worker, stopping>>
    BY <1>0, <1>1, <1>3 DEF VerifierInv, VerifierTypes
  <1> QED
    BY <1>2, <1>3, Zenon DEF Verifier!ReleaseWhenIdle, Verifier!Dispose

\* Every step keeps the threads and the jobs in order.
LEMMA VerifierNext ==
    ASSUME VerifierInv, [Verifier!Next]_Verifier!clientVars
    PROVE  VerifierInv'
  <1>0. thread \in [Slots -> ThreadRecs] /\ ThreadsOk(thread, worker, stopping)
    BY DEF VerifierInv, VerifierTypes
  <1>1. ASSUME NEW j \in Jobs, Verifier!GiveUp(j) PROVE VerifierInv'
    BY <1>0, <1>1, ThrowFacts DEF Verifier!GiveUp
  <1>2. ASSUME NEW j \in Jobs, Verifier!Rethrow(j) PROVE VerifierInv'
    <2>1. /\ job[j].pc = "failing" /\ UNCHANGED <<chain, retire, releases>>
          /\ Verifier!Settle(j, "failed", None, thread)
      BY <1>2 DEF Verifier!Rethrow, None
    <2>2. worker # 0 => thread[worker].work = None /\ thread[worker].answer = None
      <3>1. \A k \in Jobs : job[k].pc # "running"
        BY <2>1 DEF VerifierInv, JobsOk, Busy
      <3> QED
        BY <3>1 DEF VerifierInv, JobsOk
    <2> QED
      BY <1>0, <2>1, <2>2, SettleFacts
  <1>3. CASE Verifier!Client
    BY <1>1, <1>2, <1>3, VerifierBegins, VerifierAcquires DEF Verifier!Client
  <1>4. CASE UNCHANGED Verifier!clientVars
    <2>1. UNCHANGED <<job, chain, thread, worker, stopping, retire>>
      BY <1>4 DEF Verifier!clientVars
    <2> QED
      BY <2>1 DEF VerifierInv, VerifierTypes
  <1> QED
    BY <1>3, <1>4, VerifierReleases, VerifierJobs, VerifierThreads DEF Verifier!Next, Slots

\* The instance counts as this module does.
LEMMA SameVerifierCardinality == \A S : Verifier!Cardinality(S) = Cardinality(S)
  BY Zenon DEF Verifier!Cardinality, Cardinality, Verifier!IsFiniteSet, IsFiniteSet

\* The verifier is exclusive, also if nothing is ever scheduled again.
LEMMA VerifierSafety ==
    Verifier!Init /\ [][Verifier!Next]_Verifier!clientVars => []Verifier!VerifierIsExclusive
  <1>1. Verifier!Init => VerifierInv
    <2> SUFFICES ASSUME Verifier!Init PROVE VerifierInv
      OBVIOUS
    <2>1. VerifierTypes
      <3>1. job \in [Jobs -> JobRecs]
        <4>1. [pc |-> "idle", cancelled |-> FALSE, on |-> 0, got |-> None] \in JobRecs
          BY DEF JobRecs, Pcs, MaybeJob
        <4> QED
          BY <4>1 DEF Verifier!Init, None
      <3>2. thread \in [Slots -> ThreadRecs]
        <4>1. [state |-> "none", work |-> None, answer |-> None] \in ThreadRecs
          BY DEF ThreadRecs, States, MaybeJob
        <4> QED
          BY <4>1 DEF Verifier!Init, None, Slots
      <3>3. chain \in Seq(Jobs) /\ worker = 0 /\ stopping = 0
        BY DEF Verifier!Init
      <3>4. retire \in BOOLEAN
        BY Zenon DEF Verifier!Init
      <3> QED
        BY <3>1, <3>2, <3>3, <3>4 DEF VerifierTypes
    <2>2. ThreadsOk(thread, worker, stopping)
      BY DEF Verifier!Init, ThreadsOk, None, Slots
    <2>3. JobsOk(job, thread, worker)
      BY DEF Verifier!Init, JobsOk, Busy, None
    <2> QED
      BY <2>1, <2>2, <2>3 DEF VerifierInv
  <1>2. VerifierInv /\ [Verifier!Next]_Verifier!clientVars => VerifierInv'
    BY VerifierNext
  <1>3. VerifierInv => Verifier!VerifierIsExclusive
    <2> SUFFICES ASSUME VerifierInv PROVE Verifier!VerifierIsExclusive
      OBVIOUS
    <2>1. \A j \in Jobs : job[j].got \in {Verifier!NoJob, j}
      BY DEF VerifierInv, JobsOk, None
    <2>2. \E i : Verifier!Alive \subseteq {i}
      <3>1. CASE worker # 0
        <4>1. ASSUME NEW i \in Verifier!Alive PROVE i = worker
          BY <3>1, <4>1 DEF Verifier!Alive, VerifierInv, ThreadsOk, Slots, Verifier!Threads
        <4> QED
          BY <4>1
      <3>2. CASE worker = 0
        <4>1. ASSUME NEW i \in Verifier!Alive PROVE i = stopping
          BY <3>2, <4>1 DEF Verifier!Alive, VerifierInv, ThreadsOk, Slots, Verifier!Threads
        <4> QED
          BY <4>1
      <3> QED
        BY <3>1, <3>2
    <2>3. PICK i : Verifier!Alive \subseteq {i}
      BY <2>2
    <2>4. Cardinality(Verifier!Alive) <= 1
      <3>1. IsFiniteSet({i}) /\ Cardinality({i}) = 1
        BY FS_Singleton
      <3>2. IsFiniteSet(Verifier!Alive) /\ Cardinality(Verifier!Alive) <= Cardinality({i})
        BY <2>3, <3>1, FS_Subset
      <3> QED
        BY <3>1, <3>2
    <2> QED
      BY <2>1, <2>4, SameVerifierCardinality DEF Verifier!VerifierIsExclusive
  <1> QED
    BY <1>1, <1>2, <1>3, PTL

\* There are never two verification threads, and a job is only given the answer
\* to that job, whatever is cancelled, released or crashes while jobs wait or run
\* (ReferenceVerifierClient.runJob, dispose, releaseWhenIdle), for any number of
\* jobs and threads.
THEOREM VerifierIsExclusive == Verifier!Spec => []Verifier!VerifierIsExclusive
BY VerifierSafety, PTL DEF Verifier!Spec

-----------------------------------------------------------------------------
(* The executor of a reference search                                       *)

CONSTANTS Searchable, Overlays, Projects, UnitOf, Depends, BatchLimit, MaxAltered
VARIABLES query, altered, run

Search == INSTANCE ReferenceSearch WITH Files <- Searchable, disk <- altered, MaxChanges <- MaxAltered

\* What is assumed of the constants: units and overlays are about the project's
\* files, one of which is the file the search begins in.
SearchParameters ==
    /\ Search!Pinned \subseteq Searchable
    /\ UnitOf \in [Searchable -> DOMAIN Depends]

Loadable == Searchable \cup Nat
Scopes == [indexed : BOOLEAN, paths : SUBSET Searchable, support : SUBSET Loadable, seeded : BOOLEAN]
Stages == {"plan", "admit", "verify", "merge", "complete", "incomplete"}
Runs ==
    [pc : Stages, scope : Scopes, graph : BOOLEAN, exclude : BOOLEAN, identity : BOOLEAN,
     units : BOOLEAN, remaining : SUBSET Searchable, chunk : SUBSET Searchable, later : BOOLEAN,
     admitted : SUBSET Loadable, attempts : Nat, found : SUBSET Searchable,
     searched : SUBSET Loadable, consumed : SUBSET Searchable, replanned : BOOLEAN]

\* What the search knows of its request: a scope without candidates is the whole
\* project, and candidates whose seed is right have every use.
ScopeInv ==
    /\ ~run.scope.indexed => run.scope.paths = Searchable
    /\ (run.scope.seeded => query.right) => query.uses \subseteq run.scope.paths

\* A closed module has no use of the constructor.
QueryInv ==
    query.uses \subseteq Searchable /\ query.closed \subseteq Searchable /\ query.closed \cap query.uses = {}

\* What was found is what the searched files have; each candidate was searched,
\* is excluded, or is still to come; a batch that ended has confirmed the seed.
ProgressInv ==
    /\ run.found = query.uses \cap run.searched
    /\ run.consumed \subseteq query.closed
    /\ run.pc = "plan" => run.searched = {} /\ run.consumed = {}
    /\ run.pc = "admit" =>
          run.scope.paths \subseteq run.searched \cup run.consumed \cup run.remaining \cup Search!Pinned
    /\ run.pc = "verify" =>
          /\ run.scope.paths
                \subseteq run.searched \cup run.consumed \cup run.remaining \cup run.chunk \cup Search!Pinned
          /\ Search!Roots(run.chunk) \subseteq run.admitted
    /\ run.pc = "merge" =>
          /\ run.scope.seeded => query.right
          /\ run.scope.paths \subseteq run.searched \cup run.consumed

SearchInv ==
    /\ run \in Runs /\ QueryInv /\ ScopeInv /\ ProgressInv
    /\ Search!CompleteAnswersAreExact

\* What a closure starts from is in it.
LEMMA ClosureHasSeeds ==
    ASSUME NEW seeds, NEW next, seeds \subseteq DOMAIN next
    PROVE  /\ seeds \subseteq Search!Closure(seeds, next)
           /\ Search!Closure(seeds, next) \subseteq DOMAIN next
  BY DEF Search!Closure

\* The search starts, or starts over with a scope that is wide enough.
LEMMA SearchStarts ==
    ASSUME NEW scope \in Scopes, NEW graph \in BOOLEAN, NEW exclude \in BOOLEAN, QueryInv,
           ~scope.indexed => scope.paths = Searchable,
           (scope.seeded => query.right) => query.uses \subseteq scope.paths,
           UNCHANGED query, run' = Search!Execute(scope, graph, exclude)
    PROVE  SearchInv'
<1> DEFINE r == Search!Execute(scope, graph, exclude)
<1>1. /\ r \in Runs /\ r.pc = "plan" /\ r.scope = scope
      /\ r.found = {} /\ r.searched = {} /\ r.consumed = {}
  BY DEF Search!Execute, Runs, Stages
<1>2. run' = r
  OBVIOUS
<1> HIDE DEF r
<1>3. QueryInv'
  BY DEF QueryInv
<1>4. ScopeInv'
  BY <1>1, <1>2 DEF ScopeInv
<1>5. ProgressInv' /\ Search!CompleteAnswersAreExact'
  BY <1>1, <1>2 DEF ProgressInv, Search!CompleteAnswersAreExact
<1> QED BY <1>1, <1>2, <1>3, <1>4, <1>5 DEF SearchInv

\* The whole project is a scope.
LEMMA NoneIsScope ==
    Search!None \in Scopes /\ Search!None.paths = Searchable /\ ~Search!None.indexed /\ ~Search!None.seeded
  BY DEF Search!None, Scopes

\* Every request the search can be given.
LEMMA SearchInit == ASSUME SearchParameters, Search!Init PROVE SearchInv
<1>1. PICK imports \in Projects, uses \in {u \in SUBSET Searchable : Search!Current \in u} :
      \E scope \in Search!Requests(uses), closed \in {Searchable \ uses, {}}, graph \in BOOLEAN,
         ctor \in BOOLEAN, limited \in BOOLEAN :
          /\ query = [imports |-> imports, uses |-> uses, closed |-> closed, ctor |-> ctor,
                      right |-> uses \subseteq scope.paths, limited |-> limited]
          /\ run = Search!Execute(scope, graph, TRUE)
  BY DEF Search!Init
<1>2. PICK scope \in Search!Requests(uses), closed \in {Searchable \ uses, {}}, graph \in BOOLEAN,
         ctor \in BOOLEAN, limited \in BOOLEAN :
          /\ query = [imports |-> imports, uses |-> uses, closed |-> closed, ctor |-> ctor,
                      right |-> uses \subseteq scope.paths, limited |-> limited]
          /\ run = Search!Execute(scope, graph, TRUE)
  BY <1>1
<1>3. query.uses = uses /\ query.closed = closed /\ (query.right <=> uses \subseteq scope.paths)
  BY <1>2, Zenon
<1>4. /\ scope \in Scopes /\ (~scope.indexed => scope.paths = Searchable)
      /\ ~scope.seeded => uses \subseteq scope.paths
  <2>1. CASE scope = Search!None
    BY <2>1, <1>1, NoneIsScope
  <2>2. CASE scope = [indexed |-> TRUE, paths |-> {Search!Current}, support |-> {Search!Current}, seeded |-> TRUE]
    BY <2>2, <1>1 DEF Scopes, Loadable, Search!Current
  <2>3. ASSUME NEW paths \in {p \in SUBSET Searchable : uses \subseteq p},
               NEW support \in {{}, {Search!Current}, {Search!Current, 2}}, NEW seeded \in BOOLEAN,
               scope = [indexed |-> TRUE, paths |-> paths, support |-> support, seeded |-> seeded]
        PROVE  scope \in Scopes /\ scope.indexed /\ uses \subseteq scope.paths
    BY <2>3 DEF Scopes, Loadable, Search!Current
  <2> QED BY <1>2, <2>1, <2>2, <2>3 DEF Search!Requests
<1>5. QueryInv
  BY <1>1, <1>2, <1>3 DEF QueryInv
<1> DEFINE r == Search!Execute(scope, graph, TRUE)
<1>6. /\ r \in Runs /\ r.pc = "plan" /\ r.scope = scope
      /\ r.found = {} /\ r.searched = {} /\ r.consumed = {}
  BY <1>4 DEF Search!Execute, Runs, Stages
<1>7. run = r
  BY <1>2
<1> HIDE DEF r
<1>8. ScopeInv
  BY <1>3, <1>4, <1>6, <1>7 DEF ScopeInv
<1>9. ProgressInv /\ Search!CompleteAnswersAreExact
  BY <1>6, <1>7 DEF ProgressInv, Search!CompleteAnswersAreExact
<1> QED BY <1>5, <1>6, <1>7, <1>8, <1>9 DEF SearchInv

\* A run that ends without an answer, or goes on where it was.
LEMMA SearchGivesUp ==
    ASSUME SearchInv, Search!Finish("incomplete"), UNCHANGED query
    PROVE  SearchInv'
<1>1. /\ run' \in Runs /\ run'.pc = "incomplete" /\ run'.scope = run.scope /\ run'.found = run.found
      /\ run'.searched = run.searched /\ run'.consumed = run.consumed
  BY DEF SearchInv, Search!Finish, Runs, Stages
<1>2. QueryInv' /\ ScopeInv'
  BY <1>1 DEF SearchInv, QueryInv, ScopeInv
<1>3. ProgressInv' /\ Search!CompleteAnswersAreExact'
  BY <1>1 DEF SearchInv, ProgressInv, Search!CompleteAnswersAreExact
<1> QED BY <1>1, <1>2, <1>3 DEF SearchInv

\* The candidates are planned.
LEMMA SearchPlans == ASSUME SearchInv, Search!Plan PROVE SearchInv'
<1> DEFINE scope == IF run.scope.indexed /\ ~Search!IdentitiesCurrent THEN Search!None ELSE run.scope
<1>1. run \in Runs /\ run.pc = "plan" /\ run.scope \in Scopes /\ Search!Started(scope) /\ UNCHANGED <<query, altered>>
  BY DEF Search!Plan, SearchInv, Runs
<1>2. /\ scope \in Scopes /\ (~scope.indexed => scope.paths = Searchable)
      /\ (scope.seeded => query.right) => query.uses \subseteq scope.paths
  BY <1>1, NoneIsScope DEF SearchInv, ScopeInv, QueryInv
<1> HIDE DEF scope
<1>3. CASE Search!Finish("incomplete")
  BY <1>1, <1>3, SearchGivesUp
<1>4. CASE run' = [run EXCEPT !.pc = "admit", !.scope = scope, !.remaining = scope.paths \ Search!Pinned,
                              !.identity = Search!IdentityProfile(scope), !.units = run.graph]
  <2>1. Search!IdentityProfile(scope) \in BOOLEAN
    BY <1>2 DEF Search!IdentityProfile, Scopes
  <2>2. run.graph \in BOOLEAN /\ scope.paths \subseteq Searchable
    BY <1>1, <1>2 DEF Runs, Scopes
  <2>3. /\ run' \in Runs /\ run'.pc = "admit" /\ run'.scope = scope /\ run'.found = run.found
        /\ run'.remaining = scope.paths \ Search!Pinned
        /\ run'.searched = run.searched /\ run'.consumed = run.consumed
    BY <1>1, <1>2, <1>4, <2>1, <2>2 DEF Runs, Stages
  <2>4. QueryInv' /\ ScopeInv'
    BY <1>1, <1>2, <2>3 DEF SearchInv, QueryInv, ScopeInv
  <2>5. ProgressInv' /\ Search!CompleteAnswersAreExact'
    BY <1>1, <2>3 DEF SearchInv, ProgressInv, Search!CompleteAnswersAreExact, Search!Pinned
  <2> QED BY <2>3, <2>4, <2>5 DEF SearchInv
<1> QED BY <1>1, <1>3, <1>4 DEF Search!Started

\* A batch is formed: it may load its own roots, whichever way it was planned.
LEMMA SearchAdmits == ASSUME SearchParameters, SearchInv, Search!Admit PROVE SearchInv'
<1> DEFINE chunk == Search!NextChunk(run.remaining, run.graph)
           given == IF run.identity THEN Search!Roots(chunk) ELSE Search!AdmittedPaths(chunk, run.graph)
<1>1. /\ run \in Runs /\ run.pc = "admit" /\ UNCHANGED <<query, altered>>
      /\ run' = [run EXCEPT !.pc = "verify", !.attempts = 0, !.chunk = chunk,
                            !.remaining = run.remaining \ chunk, !.admitted = given]
  BY DEF Search!Admit, SearchInv
<1>2. chunk \subseteq run.remaining /\ run.remaining \subseteq Searchable
  BY <1>1 DEF Search!NextChunk, Search!Chunk, Search!Packed, Runs
<1>3. run.scope.support \subseteq Loadable /\ Search!Pinned \subseteq Searchable
  BY <1>1 DEF Runs, Scopes, SearchParameters
<1>4. Search!Roots(chunk) \subseteq given /\ given \subseteq Loadable
  <2>1. CASE run.identity
    BY <2>1, <1>2, <1>3 DEF Search!Roots, Loadable
  <2>2. CASE ~run.identity
    <3>1. Search!Roots(chunk) = Search!Pinned \cup chunk
      BY <2>2 DEF Search!Roots
    <3>2. CASE ~run.graph \/ chunk = {}
      BY <2>2, <3>1, <3>2, <1>2, <1>3 DEF Search!AdmittedPaths, Loadable
    <3>3. CASE ~(~run.graph \/ chunk = {})
      <4> DEFINE units == {UnitOf[f] : f \in chunk \cup Search!Pinned}
      <4>1. units \subseteq DOMAIN Depends
        BY <1>2, <1>3 DEF SearchParameters
      <4>2. units \subseteq Search!Closure(units, Depends)
        BY <4>1, ClosureHasSeeds
      <4>3. given = Search!Members(Search!Closure(units, Depends))
        BY <2>2, <3>3 DEF Search!AdmittedPaths
      <4>4. \A f \in chunk \cup Search!Pinned : f \in Searchable /\ UnitOf[f] \in Search!Closure(units, Depends)
        BY <4>2, <1>2, <1>3
      <4> HIDE DEF units, given
      <4> QED BY <3>1, <4>3, <4>4 DEF Search!Members, Loadable
    <3> QED BY <3>2, <3>3
  <2> QED BY <2>1, <2>2
<1> HIDE DEF chunk, given
<1>5. /\ run' \in Runs /\ run'.pc = "verify" /\ run'.scope = run.scope /\ run'.found = run.found
      /\ run'.remaining = run.remaining \ chunk /\ run'.chunk = chunk /\ run'.admitted = given
      /\ run'.searched = run.searched /\ run'.consumed = run.consumed /\ run'.identity = run.identity
  BY <1>1, <1>2, <1>4 DEF Runs, Stages
<1>6. QueryInv' /\ ScopeInv'
  BY <1>1, <1>5 DEF SearchInv, QueryInv, ScopeInv
<1>7. Search!Roots(run.chunk)' \subseteq run'.admitted
  BY <1>4, <1>5 DEF Search!Roots, Search!Pinned
<1>8. ProgressInv' /\ Search!CompleteAnswersAreExact'
  BY <1>1, <1>2, <1>5, <1>7 DEF SearchInv, ProgressInv, Search!CompleteAnswersAreExact, Search!Pinned
<1> QED BY <1>5, <1>6, <1>8 DEF SearchInv

\* The verifier's compiler loads the roots it is given.
LEMMA RootsAreLoaded ==
    ASSUME SearchInv, run.pc = "verify"
    PROVE  /\ Search!Pinned \cup run.chunk \subseteq Search!Loaded
           /\ Search!Loaded \subseteq run.admitted /\ Search!Loaded \subseteq Loadable
<1>1. Search!Roots(run.chunk) \subseteq run.admitted /\ run.admitted \subseteq Loadable
  BY DEF SearchInv, ProgressInv, Runs
<1> DEFINE within == [f \in run.admitted |-> query.imports[f] \cap run.admitted]
<1>2. DOMAIN within = run.admitted /\ Search!Loaded = Search!Closure(Search!Roots(run.chunk), within)
  BY DEF Search!Loaded
<1> HIDE DEF within
<1>3. Search!Roots(run.chunk) \subseteq Search!Loaded /\ Search!Loaded \subseteq run.admitted
  BY <1>1, <1>2, ClosureHasSeeds
<1> QED BY <1>1, <1>3 DEF Search!Roots

\* A batch that cannot be verified as it is.
LEMMA SearchRetries ==
    ASSUME SearchInv, Search!AnchorMismatch \/ Search!VerifyIncomplete
    PROVE  SearchInv'
<1>1. run \in Runs /\ run.pc = "verify" /\ UNCHANGED <<query, altered>>
  BY DEF Search!AnchorMismatch, Search!VerifyIncomplete, SearchInv
<1>2. run.graph \in BOOLEAN /\ run.exclude \in BOOLEAN /\ run.scope \in Scopes /\ QueryInv
  BY <1>1 DEF Runs, SearchInv
<1>3. CASE Search!AnchorMismatch
  <2>1. run' = Search!Execute(Search!None, run.graph, run.exclude)
    BY <1>3 DEF Search!AnchorMismatch, Search!Restart
  <2> QED BY <1>1, <1>2, <2>1, NoneIsScope, SearchStarts DEF QueryInv
<1>4. CASE Search!Finish("incomplete")
  BY <1>1, <1>4, SearchGivesUp
<1>5. CASE Search!Restart([run.scope EXCEPT !.support = {}], FALSE, run.exclude)
  <2> DEFINE scope == [run.scope EXCEPT !.support = {}]
  <2>1. /\ scope \in Scopes /\ scope.indexed = run.scope.indexed /\ scope.paths = run.scope.paths
        /\ scope.seeded = run.scope.seeded
    BY <1>2 DEF Scopes
  <2>2. run' = Search!Execute(scope, FALSE, run.exclude)
    BY <1>5 DEF Search!Restart
  <2>3. /\ ~scope.indexed => scope.paths = Searchable
        /\ (scope.seeded => query.right) => query.uses \subseteq scope.paths
    BY <2>1 DEF SearchInv, ScopeInv
  <2> HIDE DEF scope
  <2> QED BY <1>1, <1>2, <2>1, <2>2, <2>3, SearchStarts
<1>6. CASE run' = [run EXCEPT !.admitted = Search!Expanded(run.admitted, Search!Unavailable),
                              !.attempts = run.attempts + 1]
  <2> DEFINE wider == Search!Expanded(run.admitted, Search!Unavailable)
  <2>1. run.admitted \subseteq wider /\ wider \subseteq Loadable /\ run.attempts + 1 \in Nat
    BY <1>1 DEF Search!Expanded, Search!Members, Loadable, Runs
  <2> HIDE DEF wider
  <2>2. run' = [run EXCEPT !.admitted = wider, !.attempts = run.attempts + 1]
    BY <1>6 DEF wider
  <2>3. /\ run' \in Runs /\ run'.pc = "verify" /\ run'.scope = run.scope /\ run'.found = run.found
        /\ run'.remaining = run.remaining /\ run'.chunk = run.chunk /\ run'.admitted = wider
        /\ run'.searched = run.searched /\ run'.consumed = run.consumed /\ run'.identity = run.identity
    BY <1>1, <2>1, <2>2 DEF Runs, Stages
  <2>4. QueryInv' /\ ScopeInv'
    BY <1>1, <2>3 DEF SearchInv, QueryInv, ScopeInv
  <2>5. Search!Roots(run.chunk)' \subseteq run'.admitted
    BY <1>1, <2>1, <2>3 DEF Search!Roots, Search!Pinned, SearchInv, ProgressInv
  <2>6. ProgressInv' /\ Search!CompleteAnswersAreExact'
    BY <1>1, <2>3, <2>5 DEF SearchInv, ProgressInv, Search!CompleteAnswersAreExact, Search!Pinned
  <2> QED BY <2>3, <2>4, <2>6 DEF SearchInv
<1> QED BY <1>3, <1>4, <1>5, <1>6 DEF Search!VerifyIncomplete

\* A batch is verified: its candidates are searched or excluded.
LEMMA SearchVerifies == ASSUME SearchInv, Search!VerifyComplete PROVE SearchInv'
<1>1. run \in Runs /\ run.pc = "verify" /\ UNCHANGED <<query, altered>> /\ (run.scope.seeded => query.right)
  BY DEF Search!VerifyComplete, SearchInv, Search!Anchored
<1> DEFINE Stop(x) == ~run.identity /\ Search!CoversWholeScope(x)
           Replan(x) == ~Stop(x) /\ Search!Replans(x)
           Taken(x) == IF Stop(x) THEN x ELSE IF Replan(x) THEN run.remaining \cap x ELSE {}
           Left(x) == IF Replan(x) THEN run.remaining \ x ELSE run.remaining
           To(x) == IF Stop(x) \/ (run.remaining = {} /\ ~Replan(x)) THEN "merge" ELSE "admit"
<1>2. PICK x \in Search!Exclusions :
         run' = [run EXCEPT !.found = run.found \cup (query.uses \cap Search!Loaded),
                            !.searched = run.searched \cup Search!Loaded,
                            !.consumed = run.consumed \cup Taken(x), !.remaining = Left(x),
                            !.replanned = run.replanned \/ Replan(x), !.later = TRUE,
                            !.attempts = 0, !.pc = To(x)]
  BY DEF Search!VerifyComplete
<1>3. x \subseteq query.closed /\ x \subseteq run.admitted /\ (x # {} => x \cap Overlays = {})
  BY DEF Search!Exclusions
<1>4. Search!Pinned \cup run.chunk \subseteq Search!Loaded /\ Search!Loaded \subseteq Loadable
  BY <1>1, RootsAreLoaded
<1> DEFINE loaded == Search!Loaded
           taken == Taken(x)
           left == Left(x)
           re == run.replanned \/ Replan(x)
           to == To(x)
<1>5. /\ taken \subseteq x /\ left \subseteq run.remaining
      /\ Stop(x) \/ run.remaining \subseteq left \cup taken
      /\ to \in {"merge", "admit"} /\ re \in BOOLEAN
      /\ to = "merge" => Stop(x) \/ (run.remaining = {} /\ left = {})
  BY <1>1 DEF Runs
<1>6. Stop(x) => Searchable \subseteq loaded \cup taken
  BY DEF Search!CoversWholeScope
<1>7. run' = [run EXCEPT !.found = run.found \cup (query.uses \cap loaded),
                         !.searched = run.searched \cup loaded, !.consumed = run.consumed \cup taken,
                         !.remaining = left, !.replanned = re, !.later = TRUE, !.attempts = 0, !.pc = to]
  BY <1>2
<1>8. /\ query.uses \subseteq Searchable /\ run.consumed \subseteq query.closed
      /\ run.found = query.uses \cap run.searched
      /\ run.scope.paths
            \subseteq run.searched \cup run.consumed \cup run.remaining \cup run.chunk \cup Search!Pinned
      /\ run.scope.paths \subseteq Searchable
  BY <1>1 DEF SearchInv, QueryInv, ProgressInv, Runs, Scopes
<1> HIDE DEF taken, left, re, to, Stop
<1>9. taken \subseteq Searchable /\ taken \subseteq query.closed
  BY <1>3, <1>5 DEF SearchInv, QueryInv
<1>10. /\ run' \in Runs /\ run'.pc = to /\ run'.scope = run.scope
       /\ run'.found = run.found \cup (query.uses \cap loaded)
       /\ run'.searched = run.searched \cup loaded /\ run'.consumed = run.consumed \cup taken
       /\ run'.remaining = left
  <2>1. run.found \cup (query.uses \cap loaded) \subseteq Searchable
    BY <1>1, <1>8 DEF Runs
  <2>2. run.searched \cup loaded \subseteq Loadable /\ run.consumed \cup taken \subseteq Searchable
    BY <1>1, <1>4, <1>9 DEF Runs
  <2>3. left \subseteq Searchable /\ to \in Stages
    BY <1>1, <1>5 DEF Runs, Stages
  <2> HIDE DEF loaded
  <2> QED BY <1>1, <1>5, <1>7, <2>1, <2>2, <2>3 DEF Runs
<1>11. QueryInv' /\ ScopeInv'
  BY <1>1, <1>10 DEF SearchInv, QueryInv, ScopeInv
<1>12. run'.found = query.uses \cap run'.searched /\ run'.consumed \subseteq query.closed
  BY <1>8, <1>9, <1>10
<1>13. run.scope.paths \subseteq run.searched \cup loaded \cup run.consumed \cup taken \cup left
  BY <1>4, <1>5, <1>6, <1>8
<1>14. to = "merge" => run.scope.paths \subseteq run.searched \cup loaded \cup run.consumed \cup taken
  BY <1>5, <1>6, <1>8, <1>13
<1>15. ProgressInv' /\ Search!CompleteAnswersAreExact'
  BY <1>1, <1>5, <1>10, <1>12, <1>13, <1>14 DEF ProgressInv, Search!CompleteAnswersAreExact, Search!Pinned
<1> QED BY <1>10, <1>11, <1>15 DEF SearchInv

\* The answer: nothing it passed over has changed.
LEMMA SearchMerges == ASSUME SearchInv, Search!Merge PROVE SearchInv'
<1>1. run \in Runs /\ run.pc = "merge" /\ UNCHANGED <<query, altered>> /\ QueryInv /\ ScopeInv /\ ProgressInv
  BY DEF Search!Merge, SearchInv
<1>2. CASE run.consumed \cap altered # {}
  <2>1. run' = Search!Execute(run.scope, run.graph, FALSE)
    BY <1>2 DEF Search!Merge, Search!Restart
  <2>2. run.scope \in Scopes /\ run.graph \in BOOLEAN
    BY <1>1 DEF Runs
  <2> QED BY <1>1, <2>1, <2>2, SearchStarts DEF ScopeInv
<1>3. CASE run.consumed \cap altered = {} /\ run.scope.indexed /\ ~Search!IdentitiesCurrent
  <2>1. Search!Finish("incomplete")
    BY <1>3 DEF Search!Merge
  <2> QED BY <1>1, <2>1, SearchGivesUp
<1>4. CASE run.consumed \cap altered = {} /\ ~(run.scope.indexed /\ ~Search!IdentitiesCurrent)
  <2>1. Search!Finish("complete")
    BY <1>4 DEF Search!Merge
  <2>2. /\ run' \in Runs /\ run'.pc = "complete" /\ run'.scope = run.scope /\ run'.found = run.found
        /\ run'.searched = run.searched /\ run'.consumed = run.consumed
    BY <1>1, <2>1 DEF Search!Finish, Runs, Stages
  <2>3. QueryInv' /\ ScopeInv' /\ ProgressInv'
    BY <1>1, <2>2 DEF QueryInv, ScopeInv, ProgressInv
  <2>4. run.found = query.uses
    BY <1>1 DEF QueryInv, ScopeInv, ProgressInv
  <2>5. (Searchable \ run.searched) \cap (altered \ Overlays) = {}
    <3>1. CASE run.scope.indexed
      BY <1>4, <3>1 DEF Search!IdentitiesCurrent
    <3>2. CASE ~run.scope.indexed
      BY <1>1, <1>4, <3>2 DEF ScopeInv, ProgressInv
    <3> QED BY <3>1, <3>2
  <2>6. Search!CompleteAnswersAreExact'
    BY <1>1, <2>2, <2>4, <2>5 DEF Search!CompleteAnswersAreExact
  <2> QED BY <2>2, <2>3, <2>6 DEF SearchInv
<1> QED BY <1>2, <1>3, <1>4

\* Complete answers are exact, also if the execution stops at any point.
LEMMA SearchSafety ==
    ASSUME SearchParameters
    PROVE  Search!Init /\ [][Search!Next]_Search!searchVars => []Search!CompleteAnswersAreExact
<1>1. Search!Init => SearchInv
  BY SearchInit
<1>2. ASSUME SearchInv, [Search!Next]_Search!searchVars PROVE SearchInv'
  <2>1. CASE UNCHANGED Search!searchVars
    BY <1>2, <2>1 DEF Search!searchVars, SearchInv, QueryInv, ScopeInv, ProgressInv,
                      Search!CompleteAnswersAreExact, Search!Roots, Search!Pinned
  <2>2. ASSUME NEW f \in Searchable, Search!DiskChanges(f) PROVE SearchInv'
    BY <1>2, <2>2 DEF Search!DiskChanges, SearchInv, QueryInv, ScopeInv, ProgressInv,
                      Search!CompleteAnswersAreExact, Search!Roots, Search!Pinned
  <2>3. CASE Search!RejectBudget \/ Search!VerifierFails
    BY <1>2, <2>3, SearchGivesUp DEF Search!RejectBudget, Search!VerifierFails
  <2> QED BY <1>2, <2>1, <2>2, <2>3, SearchPlans, SearchAdmits, SearchRetries, SearchVerifies, SearchMerges
          DEF Search!Next, Search!Execution
<1>3. SearchInv => Search!CompleteAnswersAreExact
  BY DEF SearchInv
<1> QED BY <1>1, <1>2, <1>3, PTL

\* Whichever narrowing was tried and abandoned on the way, a complete answer
\* names every reference of the snapshot, and what it passed over on the word of
\* the index or of an exclusion was unchanged when it was given
\* (ReferenceSearchExecutor.execute), for any project, units and batches.
THEOREM CompleteAnswersAreExact ==
    ASSUME SearchParameters
    PROVE  Search!Spec => []Search!CompleteAnswersAreExact
BY SearchSafety, PTL DEF Search!Spec

-----------------------------------------------------------------------------
(* The routes of a reference search                                         *)

CONSTANTS Searches, Queries, Sizes, MaxEntries, MaxBytes, MaxAsks, MaxDisturbances
VARIABLES notified, rev, index, service, fresh, cache, search, used

Routes == INSTANCE ReferenceRouting WITH changes <- notified, MaxEvents <- MaxDisturbances

Keys == [disk : BOOLEAN, inc : BOOLEAN]
Results == [scan : Int, rev : Int]
Entries == [key : Keys, size : Sizes, result : Results, proof : Int]
Answers == [ok : {TRUE}, gen : Nat, scan : Nat, kind : {"exact", "wide", "unsupported", "partial"}]
Reports == [ok : {TRUE}, ready : BOOLEAN, committed : Nat, building : Nat] \cup {[ok |-> FALSE]}

\* What is assumed of the constants: what a search asks for.
RouteParameters == Queries \subseteq Keys

\* Where a search uses the index, and where it holds an answer of it.
Asking == {"query", "requery", "vouch", "accept", "judge", "exports", "reaccept", "seed", "define", "confirm"}
Answered == {"requery", "vouch", "accept", "judge", "exports", "reaccept", "confirm"}
Places == Asking \cup {"idle", "hit", "admit", "resident", "select", "capture", "recover", "dispatch",
                       "publish", "done"}
SearchRecs ==
    [pc : Places, key : Keys, rev : Nat, seed : BOOLEAN, tok : Nat, ans : Seq(Answers),
     route : {"direct", "declared"}, anchored : BOOLEAN, anchorGen : Int, proof : Int,
     hit : Seq(Entries), result : Results]
IndexRecs ==
    [committed : Nat, scan : Nat, building : Nat, start : Nat, next : Nat, full : BOOLEAN,
     state : {"warming", "ready", "degraded", "dead"}]
ServiceRecs ==
    [pc : {"idle", "binding", "starting", "running", "published", "failed"}, pending : BOOLEAN,
     reply : Seq(Reports)]
FreshRecs ==
    [accepted : Int, token : Nat, baseline : Int, capture : {"none", "asked", "done"}, post : Int,
     ready : {"none", "asked", "done"}, readyBase : Int, bound : Nat, boundBase : Int]

RouteTypes ==
    /\ notified \in Nat /\ rev \in Nat
    /\ index \in IndexRecs /\ service \in ServiceRecs /\ fresh \in FreshRecs
    /\ search \in [Searches -> SearchRecs]

\* Generations are numbered in the order they are begun in, and one is being
\* built exactly while a catalog run waits for it.
GenerationInv ==
    /\ index.committed < index.next /\ index.scan <= notified /\ index.start <= notified
    /\ service.pc = "running" <=> index.building # 0
    /\ index.building # 0 =>
          index.committed < index.building /\ index.building < index.next /\ index.scan <= index.start

\* Every generation above b, if there is one or will be one, has seen each change.
Newer(b) ==
    /\ b < index.next
    /\ b < index.committed => index.scan = notified
    /\ index.building # 0 /\ b < index.building => index.start = notified

\* A run binds itself to what the sidecar had when it was asked.
BindInv ==
    service.reply # <<>> =>
        /\ service.pc = "binding"
        /\ service.reply[1].ok => service.reply[1].committed = index.committed /\ service.reply[1].building = 0

\* What the freshness knows: the index is trusted only when its generation has
\* seen every change, and the bases are such that a later generation has.
FreshInv ==
    /\ fresh.token \in {0, notified} /\ fresh.bound <= notified /\ fresh.accepted < index.next
    /\ fresh.token = 0 => index.scan = notified
    /\ fresh.capture = "asked" => fresh.baseline < index.next
    /\ fresh.token # 0 /\ fresh.capture = "done" /\ fresh.baseline # -1 => Newer(fresh.baseline)
    /\ fresh.post # -1 => index.scan = notified
    /\ fresh.ready = "asked" => Newer(fresh.readyBase)
    /\ fresh.bound # 0 /\ fresh.bound = fresh.token => Newer(fresh.boundBase)

\* What is true of a result that is still of use.
IsCurrent(result) == result.scan = notified /\ result.rev = rev

Useful == {e \in Entries : IsCurrent(e.result)}
CacheInv == cache \in Seq(Useful)

\* A search whose inputs have not changed uses the index only while it is
\* trusted, and what it holds has seen every change.
SearchOk(q) ==
    /\ q.rev <= rev /\ q.tok <= notified
    /\ q.pc \in {"capture", "recover"} => q.tok # 0 /\ (q.rev = rev => q.tok = notified)
    /\ q.pc = "recover" /\ fresh.token = q.tok => fresh.capture = "done"
    /\ q.pc \in Asking /\ q.rev = rev => fresh.token = 0
    /\ q.pc \in Answered => q.ans # <<>>
    /\ q.ans # <<>> => q.ans[1].gen < index.next /\ (q.rev = rev => q.ans[1].scan = notified)
    /\ q.pc = "hit" => q.hit # <<>> /\ (q.rev = rev => IsCurrent(q.hit[1].result))
    /\ q.pc = "publish" /\ q.rev = rev => IsCurrent(q.result)
    /\ q.pc = "done" => q.result.scan = 0 /\ q.result.rev = 0

RouteInv ==
    /\ RouteTypes /\ GenerationInv /\ BindInv /\ FreshInv /\ CacheInv
    /\ \A s \in Searches : SearchOk(search[s])

\* A nonempty set of numbers has a smallest one.
LEMMA SmallestIsThere ==
    ASSUME NEW S, S \subseteq Nat, S # {}
    PROVE  Routes!Min(S) \in S
<1> DEFINE R == OpToRel(<, Nat)
<1>1. PICK x \in S : \A y \in S : ~(<<y, x>> \in R)
  BY NatLessThanWellFounded, WFMin
<1>2. \A y \in S : <<y, x>> \in R <=> y < x
  BY DEF OpToRel
<1> HIDE DEF R
<1>3. \A y \in S : ~(y < x)
  BY <1>1, <1>2
<1>4. \A y \in S : x <= y
  BY <1>3
<1> QED BY <1>4 DEF Routes!Min

\* Eviction leaves entries that were there.
LEMMA EvictKeeps ==
    ASSUME NEW G, NEW entries \in Seq(G)
    PROVE  Routes!Evict(entries) \in Seq(G)
<1> DEFINE n == Len(entries)
           Within(kept) == Len(kept) <= MaxEntries /\ Routes!Bytes(kept) <= MaxBytes
           fits == {m \in 0 .. n : m = n \/ Within(SubSeq(entries, m + 1, n))}
<1>1. n \in Nat /\ fits \subseteq Nat /\ n \in fits
  OBVIOUS
<1>2. Routes!Evict(entries) = SubSeq(entries, Routes!Min(fits) + 1, n)
  BY DEF Routes!Evict
<1> HIDE DEF fits
<1>3. Routes!Min(fits) \in Nat
  BY <1>1, SmallestIsThere
<1>4. \A i \in Routes!Min(fits) + 1 .. n : entries[i] \in G
  BY <1>3
<1> QED BY <1>1, <1>2, <1>3, <1>4, SubSeqProperties

\* Deletion leaves entries that were there.
LEMMA WithoutKeeps ==
    ASSUME NEW G, NEW entries \in Seq(G), NEW key
    PROVE  Routes!Without(entries, key) \in Seq(G)
<1>1. CASE Routes!Keyed(entries, key) = {}
  BY <1>1 DEF Routes!Without
<1>2. CASE Routes!Keyed(entries, key) # {}
  <2> DEFINE i == CHOOSE i \in Routes!Keyed(entries, key) : TRUE
  <2>1. i \in 1 .. Len(entries)
    BY <1>2 DEF Routes!Keyed
  <2>2. Routes!Without(entries, key) = SubSeq(entries, 1, i - 1) \o SubSeq(entries, i + 1, Len(entries))
    BY <1>2 DEF Routes!Without, Routes!RemoveAt
  <2> HIDE DEF i
  <2>3. SubSeq(entries, 1, i - 1) \in Seq(G) /\ SubSeq(entries, i + 1, Len(entries)) \in Seq(G)
    BY <2>1, SubSeqProperties
  <2> QED BY <2>2, <2>3
<1> QED BY <1>1, <1>2

\* A stored result is one more entry, or two.
LEMMA StoreKeeps ==
    ASSUME NEW G, NEW entries \in Seq(G), NEW entry \in G, [entry EXCEPT !.key = Routes!Flip(entry.key)] \in G,
           NEW both \in BOOLEAN
    PROVE  Routes!Store(entries, entry, both) \in Seq(G)
<1>1. ASSUME NEW es \in Seq(G), NEW e \in G PROVE Routes!Put(es, e) \in Seq(G)
  <2>1. Append(Routes!Without(es, e.key), e) \in Seq(G)
    BY WithoutKeeps, AppendProperties
  <2>2. Routes!Evict(Append(Routes!Without(es, e.key), e)) \in Seq(G)
    BY <2>1, EvictKeeps
  <2> QED BY <2>2 DEF Routes!Put
<1> QED BY <1>1 DEF Routes!Store

\* A step of one search, which may accept a generation and store its result.
LEMMA RouteStep ==
    ASSUME RouteInv, NEW s \in Searches, NEW q \in SearchRecs, SearchOk(q),
           search' = [search EXCEPT ![s] = q], CacheInv',
           UNCHANGED <<notified, rev, index, service>>,
           \/ fresh' = fresh
           \/ \E g \in Nat : g < index.next /\ fresh' = [fresh EXCEPT !.accepted = g]
    PROVE  RouteInv'
<1>1. /\ fresh' \in FreshRecs /\ fresh'.accepted < index.next /\ fresh'.token = fresh.token
      /\ fresh'.baseline = fresh.baseline /\ fresh'.capture = fresh.capture /\ fresh'.post = fresh.post
      /\ fresh'.ready = fresh.ready /\ fresh'.readyBase = fresh.readyBase
      /\ fresh'.bound = fresh.bound /\ fresh'.boundBase = fresh.boundBase
  BY DEF RouteInv, RouteTypes, FreshInv, FreshRecs
<1>2. RouteTypes'
  BY <1>1 DEF RouteInv, RouteTypes
<1>3. GenerationInv' /\ BindInv'
  BY DEF RouteInv, GenerationInv, BindInv
<1>4. \A b : Newer(b)' <=> Newer(b)
  BY DEF Newer
<1>5. FreshInv'
  BY <1>1, <1>4 DEF RouteInv, FreshInv, Newer
<1>6. ASSUME NEW t \in Searches PROVE SearchOk(search[t])'
  <2>1. search'[t] = search[t] \/ search'[t] = q
    BY DEF RouteInv, RouteTypes
  <2> QED BY <1>1, <2>1 DEF RouteInv, SearchOk, IsCurrent
<1> QED BY <1>2, <1>3, <1>5, <1>6 DEF RouteInv

\* A search that is over, has failed, or leaves its answer is in order.
LEMMA IdleIsFine ==
    ASSUME notified \in Nat, rev \in Nat
    PROVE  Routes!Idle \in SearchRecs /\ SearchOk(Routes!Idle)
<1>1. /\ Routes!Idle \in SearchRecs /\ Routes!Idle.pc = "idle" /\ Routes!Idle.rev = 0 /\ Routes!Idle.tok = 0
      /\ Routes!Idle.ans = <<>>
  BY DEF Routes!Idle, SearchRecs, Places, Asking, Keys, Results, Routes!Nothing, Routes!NoToken,
         Routes!NoGeneration, Routes!NoProof
<1> QED BY <1>1 DEF SearchOk, Asking, Answered

\* The same in a state of the system.
LEMMA IdleIsOk ==
    ASSUME RouteInv
    PROVE  Routes!Idle \in SearchRecs /\ SearchOk(Routes!Idle)
  BY IdleIsFine DEF RouteInv, RouteTypes

\* A search that fails is idle again.
LEMMA FailIsOk ==
    ASSUME RouteInv, NEW s \in Searches, Routes!Fail(s) \/ Routes!Incomplete(s), CacheInv',
           UNCHANGED <<notified, rev, index, service>>,
           \/ fresh' = fresh
           \/ \E g \in Nat : g < index.next /\ fresh' = [fresh EXCEPT !.accepted = g]
    PROVE  RouteInv'
<1>1. search' = [search EXCEPT ![s] = Routes!Idle]
  BY DEF Routes!Fail, Routes!Incomplete
<1> QED BY <1>1, IdleIsOk, RouteStep

\* A current result leaves with nothing that it lags behind.
LEMMA AnswerIsOk ==
    ASSUME RouteInv, NEW s \in Searches, NEW result \in Results, IsCurrent(result),
           Routes!Answer(s, result), CacheInv', UNCHANGED <<notified, rev, index, service, fresh>>
    PROVE  RouteInv'
<1> DEFINE lag == [scan |-> notified - result.scan, rev |-> rev - result.rev]
           q == [Routes!Idle EXCEPT !.pc = "done", !.result = lag]
<1>1. search' = [search EXCEPT ![s] = q]
  BY DEF Routes!Answer
<1>2. lag \in Results /\ lag.scan = 0 /\ lag.rev = 0
  BY DEF Results, IsCurrent, RouteInv, RouteTypes
<1> HIDE DEF lag
<1>3. /\ q \in SearchRecs /\ q.pc = "done" /\ q.rev = Routes!Idle.rev /\ q.tok = Routes!Idle.tok
      /\ q.ans = Routes!Idle.ans /\ q.result = lag
  BY <1>2, IdleIsOk DEF SearchRecs, Places
<1>4. Routes!Idle.rev = 0 /\ Routes!Idle.tok = 0 /\ Routes!Idle.ans = <<>>
  BY DEF Routes!Idle, Routes!NoToken
<1> HIDE DEF q
<1>5. SearchOk(q)
  BY <1>2, <1>3, <1>4 DEF RouteInv, RouteTypes, SearchOk, Asking, Answered
<1> QED BY <1>1, <1>3, <1>5, RouteStep

\* A search goes on at another place; where it uses the index, the index is
\* trusted or the search is already out of date.
LEMMA GotoIsOk ==
    ASSUME RouteInv, NEW s \in Searches, NEW p \in Asking \cup {"select"},
           p \in Asking /\ search[s].rev = rev => fresh.token = 0,
           p \in Answered => search[s].ans # <<>>,
           Routes!Goto(s, p), CacheInv', UNCHANGED <<notified, rev, index, service>>,
           \/ fresh' = fresh
           \/ \E g \in Nat : g < index.next /\ fresh' = [fresh EXCEPT !.accepted = g]
    PROVE  RouteInv'
<1> DEFINE q == [search[s] EXCEPT !.pc = p]
<1>1. search[s] \in SearchRecs /\ SearchOk(search[s])
  BY DEF RouteInv, RouteTypes
<1>2. search' = [search EXCEPT ![s] = q]
  BY DEF Routes!Goto
<1>3. /\ q \in SearchRecs /\ q.pc = p /\ q.rev = search[s].rev /\ q.tok = search[s].tok
      /\ q.ans = search[s].ans
  BY <1>1 DEF SearchRecs, Places
<1> HIDE DEF q
<1>4. SearchOk(q)
  BY <1>1, <1>3 DEF SearchOk, Asking
<1> QED BY <1>2, <1>3, <1>4, RouteStep

\* The selection ends, with or without candidates.
LEMMA DispatchIsOk ==
    ASSUME RouteInv, NEW s \in Searches, NEW ans \in Seq(Answers), NEW anchored \in BOOLEAN,
           ans # <<>> => ans[1].gen < index.next /\ (search[s].rev = rev => ans[1].scan = notified),
           Routes!Dispatch(s, ans, anchored), CacheInv', UNCHANGED <<notified, rev, index, service>>,
           \/ fresh' = fresh
           \/ \E g \in Nat : g < index.next /\ fresh' = [fresh EXCEPT !.accepted = g]
    PROVE  RouteInv'
<1> DEFINE q == [Routes!Idle EXCEPT !.pc = "dispatch", !.key = search[s].key, !.rev = search[s].rev,
                                    !.proof = search[s].proof, !.ans = ans, !.anchored = anchored]
<1>1. search[s] \in SearchRecs /\ SearchOk(search[s])
  BY DEF RouteInv, RouteTypes
<1>2. search' = [search EXCEPT ![s] = q]
  BY DEF Routes!Dispatch, Routes!Key
<1>3. Routes!Idle \in SearchRecs /\ Routes!Idle.tok = 0
  BY IdleIsOk DEF Routes!Idle, Routes!NoToken
<1>4. /\ q \in SearchRecs /\ q.pc = "dispatch" /\ q.rev = search[s].rev /\ q.tok = 0 /\ q.ans = ans
  BY <1>1, <1>3 DEF SearchRecs, Places
<1> HIDE DEF q
<1>5. SearchOk(q)
  BY <1>1, <1>4 DEF SearchOk, Asking, Answered, RouteInv, RouteTypes
<1> QED BY <1>2, <1>4, <1>5, RouteStep

\* Without candidates the whole scope is searched.
LEMMA FallbackIsOk ==
    ASSUME RouteInv, NEW s \in Searches, Routes!Fallback(s) \/ Routes!IndexError(s), CacheInv',
           UNCHANGED <<notified, rev, index, service>>,
           \/ fresh' = fresh
           \/ \E g \in Nat : g < index.next /\ fresh' = [fresh EXCEPT !.accepted = g]
    PROVE  RouteInv'
<1>1. Routes!Dispatch(s, <<>>, FALSE) \/ Routes!Fail(s)
  BY DEF Routes!Fallback, Routes!IndexError
<1>2. <<>> \in Seq(Answers)
  OBVIOUS
<1> QED BY <1>1, <1>2, DispatchIsOk, FailIsOk

\* The candidates have their sources.
LEMMA SourcedIsOk ==
    ASSUME RouteInv, NEW s \in Searches, NEW ans \in Answers, search[s].pc \in Asking,
           ans.gen < index.next, search[s].rev = rev => ans.scan = notified,
           Routes!Sourced(s, ans), CacheInv', UNCHANGED <<notified, rev, index, service>>,
           \/ fresh' = fresh
           \/ \E g \in Nat : g < index.next /\ fresh' = [fresh EXCEPT !.accepted = g]
    PROVE  RouteInv'
<1> DEFINE p == IF search[s].route = "declared" THEN "confirm"
                ELSE IF Routes!Proven(ans) THEN "accept" ELSE "judge"
           q == [search[s] EXCEPT !.ans = <<ans>>, !.pc = p]
<1>1. search[s] \in SearchRecs /\ SearchOk(search[s])
  BY DEF RouteInv, RouteTypes
<1>2. search' = [search EXCEPT ![s] = q]
  BY DEF Routes!Sourced
<1>3. p \in Places /\ p \in Asking /\ p \in Answered
  BY DEF Places, Asking, Answered
<1> HIDE DEF p
<1>4. <<ans>> \in Seq(Answers) /\ <<ans>> # <<>> /\ <<ans>>[1] = ans
  OBVIOUS
<1>5. /\ q \in SearchRecs /\ q.pc = p /\ q.rev = search[s].rev /\ q.tok = search[s].tok
      /\ q.ans = <<ans>>
  BY <1>1, <1>3, <1>4 DEF SearchRecs
<1> HIDE DEF q
<1>6. SearchOk(q)
  BY <1>1, <1>3, <1>4, <1>5 DEF SearchOk, Asking
<1> QED BY <1>2, <1>5, <1>6, RouteStep

\* What the sidecar answers is about the generation it has at that moment.
LEMMA ReplyFacts ==
    ASSUME RouteInv, NEW s \in Searches, NEW p, NEW reply \in Routes!Replies(s, p)
    PROVE  /\ search[s].pc = p
           /\ p \in {"recover", "vouch", "accept", "reaccept", "confirm"} => reply \in Routes!Statuses
           /\ p \in {"query", "requery"} => reply \in Routes!Candidates
           /\ p \in {"exports", "seed"} => reply \in Routes!Exports
<1>1. search[s].pc = p
  BY DEF Routes!Replies
<1>2. CASE p \in {"recover", "vouch", "accept", "reaccept", "confirm"}
  <2>1. p \notin {"query", "requery"} /\ p \notin {"exports", "seed"}
    BY <1>2
  <2> QED BY <1>1, <1>2, <2>1, Zenon DEF Routes!Replies
<1>3. CASE p \in {"query", "requery"}
  <2>1. p \notin {"recover", "vouch", "accept", "reaccept", "confirm"} /\ p \notin {"exports", "seed"}
    BY <1>3
  <2> QED BY <1>1, <1>3, <2>1, Zenon DEF Routes!Replies
<1>4. CASE p \in {"exports", "seed"}
  <2>1. p \notin {"recover", "vouch", "accept", "reaccept", "confirm"} /\ p \notin {"query", "requery"}
    BY <1>4
  <2> QED BY <1>1, <1>4, <2>1, Zenon DEF Routes!Replies
<1> QED BY <1>1, <1>2, <1>3, <1>4

\* A status is about the sidecar as it is.
LEMMA StatusFacts ==
    ASSUME RouteInv, NEW reply \in Routes!Statuses
    PROVE  /\ reply \in Reports
           /\ reply.ok => reply.committed = index.committed /\ reply.building = index.building
<1>1. index.committed \in Nat /\ index.building \in Nat
  BY DEF RouteInv, RouteTypes, IndexRecs
<1>2. CASE reply = Routes!NoAnswer
  BY <1>2 DEF Routes!NoAnswer, Reports
<1>3. CASE reply = Routes!Status
  <2> DEFINE ready == index.state = "ready"
  <2>1. ready \in BOOLEAN
    OBVIOUS
  <2>2. reply = [ok |-> TRUE, ready |-> ready, committed |-> index.committed, building |-> index.building]
    BY <1>3 DEF Routes!Status
  <2> HIDE DEF ready
  <2> QED BY <1>1, <2>1, <2>2 DEF Reports
<1> QED BY <1>2, <1>3 DEF Routes!Statuses

\* Candidates are those of the committed generation.
LEMMA CandidateFacts ==
    ASSUME RouteInv, NEW reply \in Routes!Candidates, reply.ok
    PROVE  reply \in Answers /\ reply.gen = index.committed /\ reply.scan = index.scan
<1>1. index.committed \in Nat /\ index.scan \in Nat
  BY DEF RouteInv, RouteTypes, IndexRecs
<1>2. index.state # "dead"
  <2> SUFFICES ASSUME index.state = "dead" PROVE FALSE
    OBVIOUS
  <2>1. reply = [ok |-> FALSE]
    BY Zenon DEF Routes!Candidates, Routes!NoAnswer
  <2>2. reply.ok = FALSE
    BY <2>1
  <2> QED BY <2>2, Zenon
<1>3. \E kinds \in SUBSET {"exact", "wide", "unsupported", "partial"} :
         reply \in [ok : {TRUE}, gen : {index.committed}, scan : {index.scan}, kind : kinds]
  <2>1. CASE index.full
    BY <1>2, <2>1 DEF Routes!Candidates
  <2>2. CASE ~index.full
    BY <1>2, <2>2 DEF Routes!Candidates
  <2> QED BY <2>1, <2>2
<1> QED BY <1>1, <1>3 DEF Answers

\* So are exports.
LEMMA ExportFacts ==
    ASSUME RouteInv, NEW reply \in Routes!Exports, reply.ok
    PROVE  reply.gen \in Nat
<1>1. index.committed \in Nat
  BY DEF RouteInv, RouteTypes, IndexRecs
<1>2. index.state # "dead"
  <2> SUFFICES ASSUME index.state = "dead" PROVE FALSE
    OBVIOUS
  <2>1. reply = [ok |-> FALSE]
    BY Zenon DEF Routes!Exports, Routes!NoAnswer
  <2>2. reply.ok = FALSE
    BY <2>1
  <2> QED BY <2>2, Zenon
<1>3. reply \in [ok : {TRUE}, gen : {index.committed}, found : {index.full, FALSE}]
  BY <1>2 DEF Routes!Exports
<1> QED BY <1>1, <1>3

\* The cached results stay of use while no input changes.
LEMMA CacheKept ==
    ASSUME CacheInv, UNCHANGED <<notified, rev>>, cache' = cache \/ cache' \in Seq(Useful)
    PROVE  CacheInv'
<1>1. Useful' = Useful
  BY DEF Useful, IsCurrent
<1> QED BY <1>1 DEF CacheInv

\* What a search is before its step.
LEMMA SearchFacts ==
    ASSUME RouteInv, NEW s \in Searches
    PROVE  /\ search[s] \in SearchRecs /\ SearchOk(search[s])
           /\ search[s].key \in Keys /\ search[s].rev \in Nat /\ search[s].tok \in Nat /\ search[s].seed \in BOOLEAN
           /\ search[s].anchored \in BOOLEAN
           /\ search[s].ans # <<>> => search[s].ans[1] \in Answers /\ search[s].ans[1].gen \in Nat
<1>1. search[s] \in SearchRecs /\ SearchOk(search[s])
  BY DEF RouteInv, RouteTypes
<1>2. search[s].ans \in Seq(Answers)
  BY <1>1 DEF SearchRecs
<1>3. ASSUME search[s].ans # <<>> PROVE search[s].ans[1] \in Answers /\ search[s].ans[1].gen \in Nat
  <2>1. search[s].ans[1] \in Answers
    BY <1>2, <1>3
  <2> QED BY <2>1 DEF Answers
<1>4. search[s].key \in Keys /\ search[s].rev \in Nat /\ search[s].tok \in Nat
  BY <1>1 DEF SearchRecs
<1>5. search[s].seed \in BOOLEAN /\ search[s].anchored \in BOOLEAN
  BY <1>1, Zenon DEF SearchRecs
<1> QED BY <1>1, <1>3, <1>4, <1>5

\* A search begins, with what the cache has for it or on one of the routes.
LEMMA BeginIsOk ==
    ASSUME RouteInv, NEW s \in Searches, NEW key \in Keys, NEW seed \in BOOLEAN, Routes!Begin(s, key, seed),
           UNCHANGED <<notified, rev, index, service, fresh>>
    PROVE  RouteInv'
<1> DEFINE next == [Routes!Idle EXCEPT !.key = key, !.seed = seed, !.rev = rev]
<1>1. Routes!Idle \in SearchRecs /\ Routes!Idle.tok = 0 /\ Routes!Idle.ans = <<>> /\ rev \in Nat /\ notified \in Nat
  BY IdleIsOk DEF Routes!Idle, Routes!NoToken, RouteInv, RouteTypes
<1>2. next \in SearchRecs /\ next.rev = rev /\ next.tok = 0 /\ next.ans = <<>>
  BY <1>1 DEF SearchRecs
<1>3. CASE Routes!Hits(key) = {}
  <2>1. PICK resident \in BOOLEAN :
           search' = [search EXCEPT ![s] = [next EXCEPT !.pc = IF key.disk THEN "admit"
                                                               ELSE IF resident THEN "resident" ELSE "select"]]
    BY <1>3 DEF Routes!Begin
  <2> DEFINE p == IF key.disk THEN "admit" ELSE IF resident THEN "resident" ELSE "select"
             q == [next EXCEPT !.pc = p]
  <2>2. p \in {"admit", "resident", "select"}
    OBVIOUS
  <2>3. search' = [search EXCEPT ![s] = q] /\ cache' = cache
    BY <2>1, <1>3 DEF Routes!Begin
  <2> HIDE DEF p, next
  <2>4. q \in SearchRecs /\ q.pc = p /\ q.rev = rev /\ q.tok = 0 /\ q.ans = <<>>
    BY <1>2, <2>2 DEF SearchRecs, Places
  <2> HIDE DEF q
  <2>5. SearchOk(q)
    BY <1>1, <2>2, <2>4 DEF SearchOk, Asking, Answered
  <2>6. CacheInv'
    BY <2>3, CacheKept DEF RouteInv
  <2> QED BY <2>3, <2>4, <2>5, <2>6, RouteStep
<1>4. CASE Routes!Hits(key) # {}
  <2>1. PICK i \in Routes!Hits(key) :
           /\ cache' = Append(Routes!Without(cache, key), cache[i])
           /\ IF key.disk
              THEN search' = [search EXCEPT ![s] = [next EXCEPT !.pc = "hit", !.hit = <<cache[i]>>]]
              ELSE Routes!Answer(s, cache[i].result)
    BY <1>4 DEF Routes!Begin
  <2>2. cache \in Seq(Useful) /\ i \in 1 .. Len(cache)
    BY DEF RouteInv, CacheInv, Routes!Hits, Routes!Keyed
  <2> DEFINE e == cache[i]
  <2>3. e \in Useful
    BY <2>2
  <2> HIDE DEF e
  <2>4. e \in Entries /\ e.result \in Results /\ IsCurrent(e.result)
    BY <2>3 DEF Useful, Entries
  <2>5. cache' \in Seq(Useful)
    BY <2>1, <2>2, <2>3, WithoutKeeps, AppendProperties DEF e
  <2>6. CacheInv'
    BY <2>5, CacheKept DEF RouteInv
  <2>7. CASE key.disk
    <3> DEFINE q == [next EXCEPT !.pc = "hit", !.hit = <<e>>]
    <3>1. search' = [search EXCEPT ![s] = q]
      BY <2>1, <2>7 DEF e
    <3>2. <<e>> \in Seq(Entries) /\ <<e>> # <<>> /\ <<e>>[1] = e
      BY <2>4
    <3> HIDE DEF next
    <3>3. q \in SearchRecs /\ q.pc = "hit" /\ q.rev = rev /\ q.tok = 0 /\ q.ans = <<>> /\ q.hit = <<e>>
      BY <1>2, <3>2 DEF SearchRecs, Places
    <3> HIDE DEF q
    <3>4. SearchOk(q)
      BY <1>1, <2>4, <3>2, <3>3 DEF SearchOk, Asking, Answered
    <3> QED BY <2>6, <3>1, <3>3, <3>4, RouteStep
  <2>8. CASE ~key.disk
    BY <2>1, <2>4, <2>6, <2>8, AnswerIsOk DEF e
  <2> QED BY <2>7, <2>8
<1> QED BY <1>3, <1>4

\* A current result is stored and answered, or waits for its proof.
LEMMA StoredIsOk ==
    ASSUME RouteInv, NEW key \in Keys, NEW size \in Sizes, NEW result \in Results, IsCurrent(result),
           NEW proof \in Int, NEW both \in BOOLEAN,
           cache' = Routes!Store(cache, [key |-> key, size |-> size, result |-> result, proof |-> proof], both),
           UNCHANGED <<notified, rev>>
    PROVE  CacheInv'
<1> DEFINE e == [key |-> key, size |-> size, result |-> result, proof |-> proof]
<1>1. e \in Entries /\ e.key = key /\ e.result = result
  BY DEF Entries
<1>2. Routes!Flip(key) \in Keys
  BY DEF Routes!Flip, Keys
<1>3. [e EXCEPT !.key = Routes!Flip(e.key)] \in Entries /\ [e EXCEPT !.key = Routes!Flip(e.key)].result = result
  BY <1>1, <1>2 DEF Entries
<1> HIDE DEF e
<1>4. e \in Useful /\ [e EXCEPT !.key = Routes!Flip(e.key)] \in Useful
  BY <1>1, <1>3 DEF Useful
<1>5. cache' \in Seq(Useful)
  BY <1>4, StoreKeeps DEF RouteInv, CacheInv, e
<1> QED BY <1>5, CacheKept DEF RouteInv

\* A current result may be answered, stored, or kept until its proof is read.
LEMMA PublishIsOk ==
    ASSUME RouteInv, NEW s \in Searches, NEW scan, scan = notified, Routes!Publish(s, scan),
           search[s].rev = rev, UNCHANGED <<notified, rev, index, service, fresh>>
    PROVE  RouteInv'
<1> DEFINE result == [scan |-> scan, rev |-> rev]
<1>1. result \in Results /\ IsCurrent(result)
  BY DEF Results, IsCurrent, RouteInv, RouteTypes
<1> HIDE DEF result
<1>2. CASE search' = [search EXCEPT ![s].pc = "publish", ![s].result = result] /\ UNCHANGED cache
  <2> DEFINE q == [search[s] EXCEPT !.pc = "publish", !.result = result]
  <2>1. search' = [search EXCEPT ![s] = q]
    BY <1>2
  <2>2. /\ q \in SearchRecs /\ q.pc = "publish" /\ q.rev = search[s].rev /\ q.tok = search[s].tok
        /\ q.ans = search[s].ans /\ q.result = result
    BY <1>1, SearchFacts DEF SearchRecs, Places
  <2> HIDE DEF q
  <2>3. SearchOk(q)
    BY <1>1, <2>2, SearchFacts DEF SearchOk, Asking, Answered
  <2>4. CacheInv'
    BY <1>2, CacheKept DEF RouteInv
  <2> QED BY <2>1, <2>2, <2>3, <2>4, RouteStep
<1>3. ASSUME NEW size \in Sizes, NEW both \in BOOLEAN,
             cache' = Routes!Store(cache, [key |-> search[s].key, size |-> size, result |-> result,
                                           proof |-> Routes!NoProof], both),
             Routes!Answer(s, result)
      PROVE  RouteInv'
  <2>1. Routes!NoProof \in Int
    BY DEF Routes!NoProof
  <2>2. CacheInv'
    BY <1>1, <1>3, <2>1, SearchFacts, StoredIsOk
  <2> QED BY <1>1, <1>3, <2>2, AnswerIsOk
<1>4. CASE Routes!Incomplete(s) /\ UNCHANGED cache
  <2>1. CacheInv'
    BY <1>4, CacheKept DEF RouteInv
  <2> QED BY <1>4, <2>1, FailIsOk
<1> QED BY <1>2, <1>3, <1>4 DEF Routes!Publish, Routes!Key, result

\* The steps of a search up to its selection.
LEMMA FirstSteps ==
    ASSUME RouteParameters, RouteInv, NEW s \in Searches,
           \/ Routes!Ask(s) \/ Routes!CheckHit(s) \/ Routes!Admit(s) \/ Routes!PublishDisk(s)
           \/ Routes!Resident(s)
    PROVE  RouteInv'
<1> USE SearchFacts
<1>1. UNCHANGED <<notified, rev, index, service, fresh>>
  BY DEF Routes!Ask, Routes!CheckHit, Routes!Admit, Routes!PublishDisk, Routes!Resident
<1>2. cache' = cache => CacheInv'
  BY <1>1, CacheKept DEF RouteInv
<1>3. ASSUME Routes!Fail(s) \/ Routes!Incomplete(s), UNCHANGED cache PROVE RouteInv'
  BY <1>1, <1>2, <1>3, FailIsOk
<1>4. CASE Routes!Ask(s)
  BY <1>1, <1>4, BeginIsOk DEF Routes!Ask, RouteParameters
<1>5. CASE Routes!CheckHit(s)
  <2>1. search[s].pc = "hit" /\ cache' = cache
    BY <1>5 DEF Routes!CheckHit
  <2>2. CASE Routes!Fail(s)
    BY <2>1, <2>2, <1>3
  <2>3. ASSUME Routes!Current(s), Routes!Answer(s, search[s].hit[1].result) PROVE RouteInv'
    <3>1. search[s].hit # <<>> /\ IsCurrent(search[s].hit[1].result)
      BY <2>1, <2>3 DEF SearchOk, Routes!Current
    <3>2. search[s].hit \in Seq(Entries)
      BY DEF SearchRecs
    <3>3. search[s].hit[1] \in Entries
      BY <3>1, <3>2
    <3>4. search[s].hit[1].result \in Results
      BY <3>3 DEF Entries
    <3> QED BY <1>1, <1>2, <2>1, <2>3, <3>1, <3>4, AnswerIsOk
  <2>4. CASE search' = [search EXCEPT ![s].pc = "admit", ![s].hit = <<>>]
    <3> DEFINE q == [search[s] EXCEPT !.pc = "admit", !.hit = <<>>]
    <3>0. search' = [search EXCEPT ![s] = q]
      BY ONLY <2>4
    <3>1. <<>> \in Seq(Entries)
      OBVIOUS
    <3>2. /\ q \in SearchRecs /\ q.pc = "admit" /\ q.rev = search[s].rev /\ q.tok = search[s].tok
          /\ q.ans = search[s].ans
      BY <3>1 DEF SearchRecs, Places
    <3> HIDE DEF q
    <3>3. SearchOk(q)
      BY <3>2 DEF SearchOk, Asking, Answered
    <3> QED BY <1>1, <1>2, <2>1, <3>0, <3>2, <3>3, RouteStep
  <2> QED BY <1>5, <2>2, <2>3, <2>4 DEF Routes!CheckHit
<1>6. CASE Routes!Admit(s)
  <2>1. cache' = cache
    BY <1>6 DEF Routes!Admit
  <2>2. CASE Routes!Fail(s)
    BY <2>1, <2>2, <1>3
  <2>3. ASSUME NEW proof \in Routes!Proofs, NEW p \in {"resident", "select"},
               search' = [search EXCEPT ![s].pc = p, ![s].proof = proof]
        PROVE  RouteInv'
    <3> DEFINE q == [search[s] EXCEPT !.pc = p, !.proof = proof]
    <3>0. search' = [search EXCEPT ![s] = q]
      BY ONLY <2>3
    <3>1. proof \in Int
      BY DEF Routes!Proofs, Routes!NoProof, RouteInv, RouteTypes
    <3>2. /\ q \in SearchRecs /\ q.pc = p /\ q.rev = search[s].rev /\ q.tok = search[s].tok
          /\ q.ans = search[s].ans
      BY <3>1 DEF SearchRecs, Places
    <3> HIDE DEF q
    <3>3. SearchOk(q)
      BY <3>2 DEF SearchOk, Asking, Answered
    <3> QED BY <1>1, <1>2, <2>1, <3>0, <3>2, <3>3, RouteStep
  <2> QED BY <1>6, <2>2, <2>3 DEF Routes!Admit
<1>7. CASE Routes!PublishDisk(s)
  <2>1. search[s].pc = "publish"
    BY <1>7 DEF Routes!PublishDisk
  <2>2. CASE Routes!Fail(s) /\ UNCHANGED cache
    BY <2>2, <1>3
  <2>3. ASSUME Routes!Current(s), NEW proof \in Routes!Proofs, NEW size \in Sizes, NEW both \in BOOLEAN,
               cache' = IF proof = Routes!NoProof \/ proof # search[s].proof THEN cache
                        ELSE Routes!Store(cache, [key |-> search[s].key, size |-> size, proof |-> proof,
                                                  result |-> search[s].result], both),
               Routes!Answer(s, search[s].result)
        PROVE  RouteInv'
    <3>1. IsCurrent(search[s].result) /\ search[s].result \in Results
      BY <2>1, <2>3 DEF SearchOk, Routes!Current, SearchRecs
    <3>2. proof \in Int
      BY DEF Routes!Proofs, Routes!NoProof, RouteInv, RouteTypes
    <3>3. CASE cache' = cache
      BY <1>1, <1>2, <2>3, <3>1, <3>3, AnswerIsOk
    <3>4. CASE cache' = Routes!Store(cache, [key |-> search[s].key, size |-> size, proof |-> proof,
                                             result |-> search[s].result], both)
      <4>1. [key |-> search[s].key, size |-> size, proof |-> proof, result |-> search[s].result]
            = [key |-> search[s].key, size |-> size, result |-> search[s].result, proof |-> proof]
        OBVIOUS
      <4>2. cache' = Routes!Store(cache, [key |-> search[s].key, size |-> size, result |-> search[s].result,
                                          proof |-> proof], both)
        BY <3>4, <4>1, Zenon
      <4>3. CacheInv'
        BY <1>1, <3>1, <3>2, <4>2, StoredIsOk
      <4> QED BY <1>1, <2>3, <3>1, <4>3, AnswerIsOk
    <3> QED BY <2>3, <3>3, <3>4
  <2> QED BY <1>7, <2>2, <2>3 DEF Routes!PublishDisk, Routes!Key
<1>8. CASE Routes!Resident(s)
  <2>1. CASE Routes!Goto(s, "select") /\ UNCHANGED cache
    BY <1>1, <1>2, <2>1, GotoIsOk DEF Asking, Answered
  <2>2. CASE Routes!Current(s) /\ Routes!Publish(s, notified)
    BY <1>1, <2>2, PublishIsOk DEF Routes!Current
  <2> QED BY <1>3, <1>8, <2>1, <2>2 DEF Routes!Resident
<1> QED BY <1>4, <1>5, <1>6, <1>7, <1>8

\* What the selection knows when it asks: the index is trusted, or a change has
\* made the search useless.
LEMMA AskingFacts ==
    ASSUME RouteInv, NEW s \in Searches, search[s].pc \in Asking, search[s].rev = rev
    PROVE  fresh.token = 0 /\ index.scan = notified
  BY SearchFacts DEF SearchOk, RouteInv, FreshInv

\* The search waits until the index is fit for use.
LEMMA WaitingSteps ==
    ASSUME RouteInv, NEW s \in Searches, Routes!Select(s) \/ Routes!AwaitCaptures(s)
    PROVE  RouteInv'
<1> USE SearchFacts
<1>1. UNCHANGED <<notified, rev, index, service, fresh, cache>>
  BY DEF Routes!Select, Routes!AwaitCaptures
<1>2. CacheInv'
  BY <1>1, CacheKept DEF RouteInv
<1>3. CASE Routes!Select(s)
  <2>1. CASE Routes!Fail(s)
    BY <1>1, <1>2, <2>1, FailIsOk
  <2>2. CASE fresh.token = Routes!NoToken /\ Routes!Goto(s, "query")
    BY <1>1, <1>2, <2>2, GotoIsOk DEF Asking, Answered, Routes!NoToken
  <2>3. CASE /\ Routes!Current(s) /\ fresh.token # Routes!NoToken
             /\ search' = [search EXCEPT ![s].pc = "capture", ![s].tok = fresh.token]
    <3> DEFINE q == [search[s] EXCEPT !.pc = "capture", !.tok = fresh.token]
    <3>1. search' = [search EXCEPT ![s] = q]
      BY ONLY <2>3
    <3>2. fresh.token \in Nat /\ fresh.token # 0 /\ fresh.token = notified /\ search[s].rev = rev
      BY <2>3 DEF RouteInv, RouteTypes, FreshRecs, FreshInv, Routes!NoToken, Routes!Current
    <3>3. /\ q \in SearchRecs /\ q.pc = "capture" /\ q.rev = search[s].rev /\ q.tok = fresh.token
          /\ q.ans = search[s].ans
      BY <3>2 DEF SearchRecs, Places
    <3> HIDE DEF q
    <3>4. SearchOk(q)
      BY <3>2, <3>3 DEF SearchOk, Asking, Answered, RouteInv, RouteTypes
    <3> QED BY <1>1, <1>2, <3>1, <3>3, <3>4, RouteStep
  <2> QED BY <1>3, <2>1, <2>2, <2>3 DEF Routes!Select
<1>4. CASE Routes!AwaitCaptures(s)
  <2> DEFINE q == [search[s] EXCEPT !.pc = "recover"]
  <2>1. search' = [search EXCEPT ![s] = q]
    BY <1>4 DEF Routes!AwaitCaptures, Routes!Goto
  <2>2. search[s].pc = "capture" /\ (fresh.token = search[s].tok => fresh.capture = "done")
    BY <1>4 DEF Routes!AwaitCaptures
  <2>3. /\ q \in SearchRecs /\ q.pc = "recover" /\ q.rev = search[s].rev /\ q.tok = search[s].tok
        /\ q.ans = search[s].ans
    BY DEF SearchRecs, Places
  <2> HIDE DEF q
  <2>4. SearchOk(q)
    BY <2>2, <2>3 DEF SearchOk, Asking, Answered
  <2> QED BY <1>1, <1>2, <2>1, <2>3, <2>4, RouteStep
<1> QED BY <1>3, <1>4

\* The index is trusted again: its generation was begun after the change.
LEMMA RecoverStep ==
    ASSUME RouteInv, NEW s \in Searches, Routes!Recover(s)
    PROVE  RouteInv'
<1> USE SearchFacts
<1>1. UNCHANGED <<notified, rev, index, service, cache>>
  BY DEF Routes!Recover
<1>2. CacheInv'
  BY <1>1, CacheKept DEF RouteInv
<1>3. PICK reply \in Routes!Replies(s, "recover") :
        \/ fresh.token # search[s].tok /\ Routes!Goto(s, "query") /\ UNCHANGED fresh
        \/ /\ fresh.token = search[s].tok /\ Routes!Recovered(reply)
           /\ fresh' = [fresh EXCEPT !.token = Routes!NoToken, !.capture = "none", !.post = Routes!NoGeneration,
                                     !.ready = "none", !.baseline = Routes!NoGeneration]
           /\ Routes!Goto(s, "query")
        \/ fresh.token = search[s].tok /\ ~Routes!Recovered(reply) /\ Routes!Fallback(s) /\ UNCHANGED fresh
  BY DEF Routes!Recover
<1>4. search[s].pc = "recover" /\ reply \in Routes!Statuses
  BY <1>3, ReplyFacts
<1>5. /\ search[s].tok # 0 /\ (search[s].rev = rev => search[s].tok = notified)
      /\ (fresh.token = search[s].tok => fresh.capture = "done")
      /\ fresh.token \in {0, notified}
  BY <1>4 DEF SearchOk, RouteInv, FreshInv
<1>6. CASE fresh.token # search[s].tok /\ Routes!Goto(s, "query") /\ UNCHANGED fresh
  BY <1>1, <1>2, <1>5, <1>6, GotoIsOk DEF Asking, Answered
<1>7. CASE Routes!Fallback(s) /\ UNCHANGED fresh
  BY <1>1, <1>2, <1>7, FallbackIsOk
<1>8. CASE /\ fresh.token = search[s].tok /\ Routes!Recovered(reply)
           /\ fresh' = [fresh EXCEPT !.token = Routes!NoToken, !.capture = "none", !.post = Routes!NoGeneration,
                                     !.ready = "none", !.baseline = Routes!NoGeneration]
           /\ Routes!Goto(s, "query")
  <2>0. reply.ok
    BY <1>8 DEF Routes!Recovered
  <2>1. reply.committed = index.committed
    BY <1>4, <2>0, StatusFacts
  <2>2. index.scan = notified
    <3>1. CASE fresh.baseline # -1 /\ index.committed > fresh.baseline
      <4>1. Newer(fresh.baseline)
        BY <1>5, <1>8, <3>1 DEF RouteInv, FreshInv
      <4>2. fresh.baseline < index.committed
        BY <3>1 DEF RouteInv, RouteTypes, FreshRecs, IndexRecs
      <4> QED BY <4>1, <4>2 DEF Newer
    <3>2. CASE fresh.post # -1
      BY <3>2 DEF RouteInv, FreshInv
    <3> QED BY <1>8, <2>1, <3>1, <3>2 DEF Routes!Recovered, Routes!NoGeneration
  <2>3. /\ fresh' \in FreshRecs /\ fresh'.token = 0 /\ fresh'.capture = "none" /\ fresh'.post = -1
        /\ fresh'.ready = "none" /\ fresh'.accepted = fresh.accepted /\ fresh'.bound = fresh.bound
    <3>1. fresh' = [fresh EXCEPT !.token = 0, !.capture = "none", !.post = -1, !.ready = "none", !.baseline = -1]
      BY <1>8, Zenon DEF Routes!NoToken, Routes!NoGeneration
    <3>2. fresh \in FreshRecs
      BY DEF RouteInv, RouteTypes
    <3>3. -1 \in Int /\ 0 \in Nat
      OBVIOUS
    <3>4. fresh' \in FreshRecs
      BY ONLY <3>1, <3>2, <3>3 DEF FreshRecs
    <3>5. /\ fresh'.token = 0 /\ fresh'.capture = "none" /\ fresh'.post = -1
          /\ fresh'.ready = "none" /\ fresh'.accepted = fresh.accepted /\ fresh'.bound = fresh.bound
      BY ONLY <3>1, <3>2 DEF FreshRecs
    <3> QED BY <3>4, <3>5
  <2> DEFINE q == [search[s] EXCEPT !.pc = "query"]
  <2>4. search' = [search EXCEPT ![s] = q]
    BY <1>8 DEF Routes!Goto
  <2>5. /\ q \in SearchRecs /\ q.pc = "query" /\ q.rev = search[s].rev /\ q.tok = search[s].tok
        /\ q.ans = search[s].ans
    <3>1. search[s] \in SearchRecs /\ "query" \in Places
      BY DEF Places, Asking
    <3>2. q \in SearchRecs
      BY ONLY <3>1 DEF SearchRecs
    <3>3. q.pc = "query" /\ q.rev = search[s].rev /\ q.tok = search[s].tok /\ q.ans = search[s].ans
      BY ONLY <3>1 DEF SearchRecs
    <3> QED BY <3>2, <3>3
  <2> HIDE DEF q
  <2>6. RouteTypes'
    BY <1>1, <2>3, <2>4, <2>5 DEF RouteInv, RouteTypes
  <2>7. GenerationInv' /\ BindInv'
    BY <1>1 DEF RouteInv, GenerationInv, BindInv
  <2>8. FreshInv'
    BY <1>1, <2>2, <2>3 DEF RouteInv, FreshInv
  <2>9. ASSUME NEW t \in Searches PROVE SearchOk(search[t])'
    <3>1. CASE t = s
      <4>1. search'[t] = q
        BY <2>4, <3>1 DEF RouteInv, RouteTypes
      <4> QED BY <1>1, <1>5, <2>3, <2>5, <4>1 DEF SearchOk, Answered, Asking
    <3>2. CASE t # s
      <4>1. search'[t] = search[t]
        BY <2>4, <3>2 DEF RouteInv, RouteTypes
      <4>2. SearchOk(search[t])
        BY DEF RouteInv
      <4> QED BY <1>1, <2>3, <4>1, <4>2 DEF SearchOk, IsCurrent
    <3> QED BY <3>1, <3>2
  <2> QED BY <1>2, <2>6, <2>7, <2>8, <2>9 DEF RouteInv
<1> QED BY <1>3, <1>6, <1>7, <1>8

\* The index answers: what it says is of the generation that is trusted.
LEMMA QuerySteps ==
    ASSUME RouteInv, NEW s \in Searches, Routes!QueryAnswered(s) \/ Routes!Requeried(s)
    PROVE  RouteInv'
<1> USE SearchFacts
<1>1. UNCHANGED <<notified, rev, index, service, fresh, cache>>
  BY DEF Routes!QueryAnswered, Routes!Requeried
<1>2. CacheInv'
  BY <1>1, CacheKept DEF RouteInv
<1> DEFINE Way(reply) ==
         \/ Routes!IndexError(s)
         \/ reply.ok /\ Routes!Sourced(s, reply)
         \/ reply.ok /\ search' = [search EXCEPT ![s].pc = "vouch", ![s].ans = <<reply>>]
<1>0. \E p \in {"query", "requery"} : \E reply \in Routes!Replies(s, p) : Way(reply)
  BY DEF Routes!QueryAnswered, Routes!Requeried
<1>p. PICK p \in {"query", "requery"} : \E reply \in Routes!Replies(s, p) : Way(reply)
  BY <1>0
<1>3. PICK reply \in Routes!Replies(s, p) : Way(reply)
  BY <1>p
<1>4. search[s].pc = p /\ reply \in Routes!Candidates /\ p \in Asking
  BY <1>3, ReplyFacts DEF Asking
<1>5. CASE Routes!IndexError(s)
  BY <1>1, <1>2, <1>5, FallbackIsOk
<1>6. ASSUME reply.ok
      PROVE  /\ reply \in Answers /\ reply.gen < index.next /\ (search[s].rev = rev => reply.scan = notified)
             /\ (search[s].rev = rev => fresh.token = 0)
  <2>1. reply \in Answers /\ reply.gen = index.committed /\ reply.scan = index.scan
    BY <1>4, <1>6, CandidateFacts
  <2>2. index.committed < index.next
    BY DEF RouteInv, GenerationInv
  <2> QED BY <1>4, <2>1, <2>2, AskingFacts
<1>7. CASE reply.ok /\ Routes!Sourced(s, reply)
  BY <1>1, <1>2, <1>4, <1>6, <1>7, SourcedIsOk
<1>8. CASE reply.ok /\ search' = [search EXCEPT ![s].pc = "vouch", ![s].ans = <<reply>>]
  <2> DEFINE q == [search[s] EXCEPT !.pc = "vouch", !.ans = <<reply>>]
  <2>1. search' = [search EXCEPT ![s] = q]
    BY ONLY <1>8
  <2>2. <<reply>> \in Seq(Answers) /\ <<reply>> # <<>> /\ <<reply>>[1] = reply
    BY <1>6, <1>8
  <2>3. /\ q \in SearchRecs /\ q.pc = "vouch" /\ q.rev = search[s].rev /\ q.tok = search[s].tok
        /\ q.ans = <<reply>>
    <3>1. search[s] \in SearchRecs /\ "vouch" \in Places
      BY DEF Places, Asking
    <3>2. q \in SearchRecs
      BY ONLY <2>2, <3>1 DEF SearchRecs
    <3>3. q.pc = "vouch" /\ q.rev = search[s].rev /\ q.tok = search[s].tok /\ q.ans = <<reply>>
      BY ONLY <3>1 DEF SearchRecs
    <3> QED BY <3>2, <3>3
  <2> HIDE DEF q
  <2>4. SearchOk(q)
    BY <1>6, <1>8, <2>2, <2>3 DEF SearchOk
  <2> QED BY <1>1, <1>2, <2>1, <2>3, <2>4, RouteStep
<1> QED BY <1>3, <1>5, <1>7, <1>8

\* What is known where an answer is held.
LEMMA AnsweredFacts ==
    ASSUME RouteInv, NEW s \in Searches, search[s].pc \in Answered
    PROVE  /\ search[s].pc \in Asking /\ search[s].ans # <<>> /\ search[s].ans[1] \in Answers
           /\ search[s].ans[1].gen \in Nat /\ search[s].ans[1].gen < index.next
           /\ <<search[s].ans[1]>> \in Seq(Answers) /\ <<search[s].ans[1]>>[1] = search[s].ans[1]
           /\ search[s].rev = rev => search[s].ans[1].scan = notified /\ fresh.token = 0
<1>1. search[s].pc \in Asking /\ search[s].ans # <<>>
  BY SearchFacts DEF Asking, Answered, SearchOk
<1>2. search[s].ans[1] \in Answers /\ search[s].ans[1].gen \in Nat
  BY <1>1, SearchFacts
<1>3. /\ search[s].ans[1].gen < index.next
      /\ (search[s].rev = rev => search[s].ans[1].scan = notified /\ fresh.token = 0)
  BY <1>1, SearchFacts DEF SearchOk
<1> QED BY <1>1, <1>2, <1>3

\* The way on from an answer without an anchor.
LEMMA UnanchoredIsOk ==
    ASSUME RouteInv, NEW s \in Searches, NEW accepted \in BOOLEAN, Routes!Unanchored(s, accepted),
           search[s].pc \in Answered, CacheInv', UNCHANGED <<notified, rev, index, service>>,
           \/ fresh' = fresh
           \/ \E g \in Nat : g < index.next /\ fresh' = [fresh EXCEPT !.accepted = g]
    PROVE  RouteInv'
<1>1. Routes!Fallback(s) \/ Routes!Goto(s, "seed") \/ Routes!Goto(s, "define")
  BY DEF Routes!Unanchored
<1>2. search[s].rev = rev => fresh.token = 0
  BY AnsweredFacts
<1>3. CASE Routes!Fallback(s)
  BY <1>3, FallbackIsOk
<1>4. ASSUME NEW p \in {"seed", "define"}, Routes!Goto(s, p) PROVE RouteInv'
  <2>1. p \in Asking /\ p \notin Answered
    BY DEF Asking, Answered
  <2> QED BY <1>2, <1>4, <2>1, GotoIsOk
<1> QED BY <1>1, <1>3, <1>4

\* The steps that compare an answer with the status, and may accept it.
LEMMA AcceptSteps ==
    ASSUME RouteInv, NEW s \in Searches,
           \/ Routes!Vouch(s) \/ Routes!Judge(s) \/ Routes!Accept(s) \/ Routes!AnchorSeed(s)
           \/ Routes!Reaccept(s)
    PROVE  RouteInv'
<1> DEFINE ans == search[s].ans[1]
           accepts == \/ fresh' = fresh
                      \/ \E g \in Nat : g < index.next /\ fresh' = [fresh EXCEPT !.accepted = g]
<1>1. UNCHANGED <<notified, rev, index, service, cache>>
  BY DEF Routes!Vouch, Routes!Judge, Routes!Accept, Routes!AnchorSeed, Routes!Reaccept
<1>2. CacheInv'
  BY <1>1, CacheKept DEF RouteInv
<1>3. search[s].pc \in {"vouch", "judge", "accept", "exports", "reaccept"}
  BY ReplyFacts DEF Routes!Vouch, Routes!Judge, Routes!Accept, Routes!AnchorSeed, Routes!Reaccept
<1>4. /\ search[s].pc \in Asking /\ search[s].pc \in Answered /\ search[s].ans # <<>> /\ ans \in Answers
      /\ ans.gen \in Nat /\ ans.gen < index.next /\ <<ans>> \in Seq(Answers) /\ <<ans>>[1] = ans
      /\ (search[s].rev = rev => ans.scan = notified) /\ (search[s].rev = rev => fresh.token = 0)
  BY <1>3, AnsweredFacts DEF Answered
<1>5. accepts
  <2>1. fresh' = fresh \/ fresh' = [fresh EXCEPT !.accepted = ans.gen]
    BY DEF Routes!Vouch, Routes!Judge, Routes!Accept, Routes!AnchorSeed, Routes!Reaccept
  <2> QED BY <1>4, <2>1
<1>6. \/ Routes!IndexError(s) \/ Routes!Fallback(s) \/ Routes!Fail(s) \/ Routes!Sourced(s, ans)
      \/ (\E p \in {"requery", "exports", "reaccept"} : Routes!Goto(s, p))
      \/ (\E accepted \in BOOLEAN : Routes!Unanchored(s, accepted))
      \/ Routes!Dispatch(s, <<ans>>, TRUE)
  <2>1. CASE Routes!Vouch(s)
    BY <2>1 DEF Routes!Vouch
  <2>2. CASE Routes!Judge(s)
    BY <2>2 DEF Routes!Judge
  <2>3. CASE Routes!Accept(s)
    <3>1. PICK reply \in Routes!Replies(s, "accept") :
             LET accepted == reply.ok /\ Routes!Eligible(ans, reply)
             IN  \/ Routes!IndexError(s) \/ Routes!Fail(s) \/ Routes!Goto(s, "exports")
                 \/ Routes!Unanchored(s, accepted)
      BY <2>3 DEF Routes!Accept
    <3> QED BY <3>1
  <2>4. CASE Routes!AnchorSeed(s)
    BY <2>4 DEF Routes!AnchorSeed
  <2>5. CASE Routes!Reaccept(s)
    BY <2>5 DEF Routes!Reaccept
  <2> QED BY <2>1, <2>2, <2>3, <2>4, <2>5
<1> HIDE DEF ans
<1>7. CASE Routes!IndexError(s) \/ Routes!Fallback(s)
  BY <1>1, <1>2, <1>5, <1>7, FallbackIsOk
<1>8. CASE Routes!Fail(s)
  BY <1>1, <1>2, <1>5, <1>8, FailIsOk
<1>9. CASE Routes!Sourced(s, ans)
  BY <1>1, <1>2, <1>4, <1>5, <1>9, SourcedIsOk
<1>10. ASSUME NEW p \in {"requery", "exports", "reaccept"}, Routes!Goto(s, p) PROVE RouteInv'
  <2>1. p \in Asking
    BY DEF Asking
  <2> QED BY <1>1, <1>2, <1>4, <1>5, <1>10, <2>1, GotoIsOk
<1>11. ASSUME NEW accepted \in BOOLEAN, Routes!Unanchored(s, accepted) PROVE RouteInv'
  BY <1>1, <1>2, <1>4, <1>5, <1>11, UnanchoredIsOk
<1>12. CASE Routes!Dispatch(s, <<ans>>, TRUE)
  BY <1>1, <1>2, <1>4, <1>5, <1>12, DispatchIsOk
<1> QED BY <1>6, <1>7, <1>8, <1>9, <1>10, <1>11, <1>12

\* The declaration is looked for; the index stays trusted meanwhile.
LEMMA DeclaringSteps ==
    ASSUME RouteInv, NEW s \in Searches, Routes!SeedAnswered(s) \/ Routes!Define(s)
    PROVE  RouteInv'
<1> USE SearchFacts
<1>1. UNCHANGED <<notified, rev, index, service, fresh, cache>>
  BY DEF Routes!SeedAnswered, Routes!Define
<1>2. CacheInv'
  BY <1>1, CacheKept DEF RouteInv
<1>3. search[s].pc \in {"seed", "define"}
  BY ReplyFacts DEF Routes!SeedAnswered, Routes!Define
<1>4. search[s].rev = rev => fresh.token = 0
  BY <1>3, AskingFacts DEF Asking
<1>5. ASSUME NEW q \in SearchRecs, search' = [search EXCEPT ![s] = q], q.pc = "query",
             q.rev = search[s].rev, q.tok = search[s].tok, q.ans = search[s].ans
      PROVE  RouteInv'
  <2>1. SearchOk(q)
    BY <1>4, <1>5 DEF SearchOk, Answered
  <2> QED BY <1>1, <1>2, <1>5, <2>1, RouteStep
<1>6. CASE Routes!SeedAnswered(s)
  <2>1. PICK reply \in Routes!Replies(s, "seed") :
           \/ Routes!IndexError(s) \/ Routes!Goto(s, "define") \/ Routes!Fail(s)
           \/ reply.ok /\ search' = [search EXCEPT ![s].pc = "query", ![s].route = "declared",
                                                   ![s].anchored = TRUE, ![s].anchorGen = reply.gen]
    BY <1>6 DEF Routes!SeedAnswered
  <2>2. CASE Routes!IndexError(s)
    BY <1>1, <1>2, <2>2, FallbackIsOk
  <2>3. CASE Routes!Fail(s)
    BY <1>1, <1>2, <2>3, FailIsOk
  <2>4. CASE Routes!Goto(s, "define")
    BY <1>1, <1>2, <1>4, <2>4, GotoIsOk DEF Asking, Answered
  <2>5. CASE reply.ok /\ search' = [search EXCEPT ![s].pc = "query", ![s].route = "declared",
                                                  ![s].anchored = TRUE, ![s].anchorGen = reply.gen]
    <3> DEFINE q == [search[s] EXCEPT !.pc = "query", !.route = "declared", !.anchored = TRUE,
                                      !.anchorGen = reply.gen]
    <3>1. search' = [search EXCEPT ![s] = q]
      BY ONLY <2>5
    <3>2. reply.gen \in Int
      BY <2>1, <2>5, ReplyFacts, ExportFacts
    <3>3. /\ q \in SearchRecs /\ q.pc = "query" /\ q.rev = search[s].rev /\ q.tok = search[s].tok
          /\ q.ans = search[s].ans
      <4>1. search[s] \in SearchRecs /\ "query" \in Places
        BY DEF Places, Asking
      <4>2. q \in SearchRecs
        BY ONLY <3>2, <4>1 DEF SearchRecs
      <4>3. q.pc = "query" /\ q.rev = search[s].rev /\ q.tok = search[s].tok /\ q.ans = search[s].ans
        BY ONLY <4>1 DEF SearchRecs
      <4> QED BY <4>2, <4>3
    <3> QED BY <1>5, <3>1, <3>3
  <2> QED BY <2>1, <2>2, <2>3, <2>4, <2>5
<1>7. CASE Routes!Define(s)
  <2>1. CASE Routes!Fail(s)
    BY <1>1, <1>2, <2>1, FailIsOk
  <2>2. CASE Routes!Fallback(s)
    BY <1>1, <1>2, <2>2, FallbackIsOk
  <2>3. CASE search' = [search EXCEPT ![s].pc = "query", ![s].route = "declared"]
    <3> DEFINE q == [search[s] EXCEPT !.pc = "query", !.route = "declared"]
    <3>1. search' = [search EXCEPT ![s] = q]
      BY ONLY <2>3
    <3>2. /\ q \in SearchRecs /\ q.pc = "query" /\ q.rev = search[s].rev /\ q.tok = search[s].tok
          /\ q.ans = search[s].ans
      BY DEF SearchRecs, Places, Asking
    <3> QED BY <1>5, <3>1, <3>2
  <2> QED BY <1>7, <2>1, <2>2, <2>3 DEF Routes!Define
<1> QED BY <1>6, <1>7

\* The declaration's answer is confirmed, or the selection starts over.
LEMMA ConfirmStep ==
    ASSUME RouteInv, NEW s \in Searches, Routes!Confirm(s)
    PROVE  RouteInv'
<1> DEFINE ans == search[s].ans[1]
           accepts == \/ fresh' = fresh
                      \/ \E g \in Nat : g < index.next /\ fresh' = [fresh EXCEPT !.accepted = g]
<1>1. UNCHANGED <<notified, rev, index, service, cache>>
  BY DEF Routes!Confirm
<1>2. CacheInv'
  BY <1>1, CacheKept DEF RouteInv
<1>3. search[s].pc = "confirm"
  BY ReplyFacts DEF Routes!Confirm
<1>4. /\ ans \in Answers /\ ans.gen \in Nat /\ ans.gen < index.next
      /\ <<ans>> \in Seq(Answers) /\ <<ans>>[1] = ans
      /\ (search[s].rev = rev => ans.scan = notified) /\ search[s].anchored \in BOOLEAN
  BY <1>3, AnsweredFacts, SearchFacts DEF Answered
<1>5. accepts
  <2>1. fresh' = fresh \/ fresh' = [fresh EXCEPT !.accepted = ans.gen]
    BY DEF Routes!Confirm
  <2> QED BY <1>4, <2>1
<1>6. \/ Routes!IndexError(s) \/ Routes!Fallback(s) \/ Routes!Fail(s)
      \/ Routes!Dispatch(s, <<ans>>, search[s].anchored) \/ Routes!Reselect(s)
  BY DEF Routes!Confirm
<1> HIDE DEF ans
<1>7. CASE Routes!IndexError(s) \/ Routes!Fallback(s)
  BY <1>1, <1>2, <1>5, <1>7, FallbackIsOk
<1>8. CASE Routes!Fail(s)
  BY <1>1, <1>2, <1>5, <1>8, FailIsOk
<1>9. CASE Routes!Dispatch(s, <<ans>>, search[s].anchored)
  BY <1>1, <1>2, <1>4, <1>5, <1>9, DispatchIsOk
<1>10. CASE Routes!Reselect(s)
  <2> DEFINE q == [Routes!Idle EXCEPT !.pc = "select", !.key = search[s].key, !.seed = FALSE,
                                      !.rev = search[s].rev, !.proof = search[s].proof]
  <2>1. search' = [search EXCEPT ![s] = q]
    BY <1>10 DEF Routes!Reselect, Routes!Key
  <2>2. Routes!Idle \in SearchRecs /\ Routes!Idle.tok = 0 /\ Routes!Idle.ans = <<>>
    BY IdleIsOk DEF Routes!Idle, Routes!NoToken
  <2>3. q \in SearchRecs /\ q.pc = "select" /\ q.rev = search[s].rev /\ q.tok = 0 /\ q.ans = <<>>
    BY <2>2, SearchFacts DEF SearchRecs, Places
  <2> HIDE DEF q
  <2>4. SearchOk(q)
    BY <2>3, SearchFacts DEF SearchOk, Asking, Answered, RouteInv, RouteTypes
  <2> QED BY <1>1, <1>2, <1>5, <2>1, <2>3, <2>4, RouteStep
<1> QED BY <1>6, <1>7, <1>8, <1>9, <1>10

\* The worker answers for the candidates, or for the whole scope.
LEMMA DispatchedStep ==
    ASSUME RouteInv, NEW s \in Searches, Routes!Dispatched(s)
    PROVE  RouteInv'
<1> USE SearchFacts
<1>1. UNCHANGED <<notified, rev, index, service, fresh>>
  BY DEF Routes!Dispatched
<1>2. CASE (Routes!Fail(s) \/ Routes!Incomplete(s)) /\ UNCHANGED cache
  <2>1. CacheInv'
    BY <1>1, <1>2, CacheKept DEF RouteInv
  <2> QED BY <1>1, <1>2, <2>1, FailIsOk
<1>3. CASE Routes!Begin(s, Routes!Key(s), FALSE)
  BY <1>1, <1>3, BeginIsOk DEF Routes!Key
<1>4. CASE /\ Routes!Current(s)
           /\ Routes!Publish(s, IF search[s].ans # <<>> /\ fresh.token = Routes!NoToken
                                THEN search[s].ans[1].scan ELSE notified)
  <2>1. (IF search[s].ans # <<>> /\ fresh.token = Routes!NoToken THEN search[s].ans[1].scan ELSE notified) = notified
    BY <1>4 DEF SearchOk, Routes!Current
  <2> QED BY <1>1, <1>4, <2>1, PublishIsOk DEF Routes!Current
<1> QED BY <1>2, <1>3, <1>4 DEF Routes!Dispatched

\* What a record of the index, of the service and of the freshness is made of.
LEMMA RouteFacts ==
    ASSUME RouteInv
    PROVE  /\ notified \in Nat /\ rev \in Nat
           /\ index \in IndexRecs /\ index.committed \in Nat /\ index.scan \in Nat /\ index.building \in Nat
           /\ index.start \in Nat /\ index.next \in Nat
           /\ service \in ServiceRecs /\ service.reply \in Seq(Reports)
           /\ fresh \in FreshRecs /\ fresh.accepted \in Int /\ fresh.token \in Nat /\ fresh.baseline \in Int
           /\ fresh.post \in Int /\ fresh.readyBase \in Int /\ fresh.bound \in Nat /\ fresh.boundBase \in Int
  BY DEF RouteInv, RouteTypes, IndexRecs, ServiceRecs, FreshRecs

\* What is not above a number is below the next one.
LEMMA BelowTheNext ==
    \A a, b \in Nat : a <= b => a <= b + 1 /\ a # b + 1
  OBVIOUS

\* Inputs change: every search in progress is out of date, nothing is cached,
\* and after a change of a source file the index is not trusted.
LEMMA ChangeSteps ==
    ASSUME RouteInv, Routes!FilesChanged \/ Routes!InputsChanged \/ Routes!ApplyMemoryPressure
    PROVE  RouteInv'
<1> USE RouteFacts
<1>0. cache' = <<>> /\ (rev' = rev + 1 \/ rev' = rev)
  BY DEF Routes!FilesChanged, Routes!InputsChanged, Routes!ApplyMemoryPressure
<1>1. CacheInv' /\ rev' \in Nat
  <2>1. rev' \in Nat
    BY <1>0
  <2>2. CacheInv'
    BY <1>0 DEF CacheInv
  <2> QED
    BY <2>1, <2>2
<1>2. CASE Routes!FilesChanged
  <2>1. notified' = notified + 1 /\ rev' = rev + 1 /\ index' = index /\ search' = search
    BY <1>2 DEF Routes!FilesChanged
  <2>2. fresh' = [fresh EXCEPT !.token = notified + 1, !.baseline = fresh.accepted, !.capture = "asked",
                               !.post = -1, !.ready = "none", !.readyBase = -1]
    BY <1>2, Zenon DEF Routes!FilesChanged, Routes!NoGeneration
  <2>3. -1 \in Int /\ notified + 1 \in Nat
    OBVIOUS
  <2>4. fresh' \in FreshRecs
    BY ONLY <2>2, <2>3, RouteFacts, RouteInv DEF FreshRecs
  <2>5. /\ fresh'.token = notified + 1 /\ fresh'.baseline = fresh.accepted /\ fresh'.capture = "asked"
        /\ fresh'.post = -1 /\ fresh'.ready = "none" /\ fresh'.accepted = fresh.accepted
        /\ fresh'.bound = fresh.bound /\ fresh'.boundBase = fresh.boundBase
    BY ONLY <2>2, RouteFacts, RouteInv DEF FreshRecs
  <2>6. \/ service.pc # "idle" /\ service' = [service EXCEPT !.pending = TRUE]
        \/ /\ service.pc = "idle"
           /\ \E p \in {"starting", "binding"} : service' = [service EXCEPT !.pc = p]
    BY <1>2 DEF Routes!FilesChanged, Routes!Scheduled
  <2>7. /\ service' \in ServiceRecs /\ service'.reply = service.reply
        /\ service'.pc = "running" <=> service.pc = "running"
        /\ service'.pc = service.pc \/ service.pc = "idle"
    BY <2>6 DEF ServiceRecs
  <2>8. RouteTypes'
    BY <2>1, <2>3, <2>4, <2>7 DEF RouteInv, RouteTypes
  <2>9. GenerationInv'
    BY <2>1, <2>7, SMTT(60) DEF RouteInv, GenerationInv
  <2>10. BindInv'
    BY <2>1, <2>7 DEF RouteInv, BindInv
  <2>11. FreshInv'
    <3>1. fresh.bound <= notified /\ fresh.accepted < index.next
      BY DEF RouteInv, FreshInv
    <3>2. fresh.bound # notified + 1 /\ notified + 1 # 0 /\ fresh.bound <= notified + 1
      BY <3>1, SMTT(60)
    <3> QED BY <2>1, <2>5, <3>1, <3>2 DEF FreshInv
  <2>12. ASSUME NEW s \in Searches PROVE SearchOk(search[s])'
    <3>0. search[s].rev <= rev /\ search[s].tok <= notified /\ search[s].rev \in Nat /\ search[s].tok \in Nat
      BY SearchFacts DEF SearchOk
    <3>1. /\ search[s].rev <= rev + 1 /\ search[s].rev # rev + 1
          /\ search[s].tok <= notified + 1 /\ search[s].tok # notified + 1
      BY <3>0, BelowTheNext
    <3> QED BY <2>1, <2>5, <3>1, SearchFacts DEF SearchOk
  <2> QED BY <1>1, <2>8, <2>9, <2>10, <2>11, <2>12 DEF RouteInv
<1>3. CASE Routes!InputsChanged \/ Routes!ApplyMemoryPressure
  <2>1. /\ UNCHANGED <<notified, index, service, fresh, search>>
        /\ rev' = rev + 1 \/ rev' = rev
    BY <1>3 DEF Routes!InputsChanged, Routes!ApplyMemoryPressure
  <2>2. RouteTypes' /\ GenerationInv' /\ BindInv'
    BY <1>1, <2>1 DEF RouteInv, RouteTypes, GenerationInv, BindInv
  <2>3. FreshInv'
    BY <2>1 DEF RouteInv, FreshInv, Newer
  <2>4. ASSUME NEW s \in Searches PROVE SearchOk(search[s])'
    <3>1. search'[s] = search[s] /\ (rev' = rev \/ search[s].rev # rev') /\ search[s].rev <= rev'
      BY <2>1, SearchFacts DEF SearchOk
    <3> QED BY <2>1, <3>1, SearchFacts DEF SearchOk, IsCurrent
  <2> QED BY <1>1, <2>2, <2>3, <2>4 DEF RouteInv
<1> QED BY <1>2, <1>3

\* A step of the sidecar, its runs or the freshness that keeps the generations
\* in order and takes no trust away.
LEMMA BackgroundStep ==
    ASSUME RouteInv, UNCHANGED <<notified, rev, cache, search>>,
           index' \in IndexRecs, service' \in ServiceRecs, fresh' \in FreshRecs,
           GenerationInv', BindInv', FreshInv', index.next <= index'.next,
           fresh'.token = fresh.token, fresh.capture = "done" => fresh'.capture = "done"
    PROVE  RouteInv'
<1>1. CacheInv'
  BY CacheKept DEF RouteInv
<1>2. RouteTypes'
  BY DEF RouteInv, RouteTypes
<1>3. ASSUME NEW s \in Searches PROVE SearchOk(search[s])'
  <2>1. search[s].ans # <<>> => search[s].ans[1].gen < index'.next
    <3>1. index.next \in Nat /\ index'.next \in Nat
      BY RouteFacts DEF IndexRecs
    <3>2. search[s].ans # <<>> => search[s].ans[1].gen < index.next /\ search[s].ans[1].gen \in Nat
      BY SearchFacts DEF SearchOk
    <3> QED BY <3>1, <3>2
  <2> QED BY <2>1, SearchFacts DEF SearchOk, IsCurrent
<1> QED BY <1>1, <1>2, <1>3 DEF RouteInv

\* What the freshness knows outlasts a step of the sidecar after which the
\* generations it counts on have still seen every change.
LEMMA FreshKept ==
    ASSUME RouteInv, UNCHANGED <<notified, fresh>>, index' \in IndexRecs, index.next <= index'.next,
           \A b \in Int : Newer(b) => Newer(b)',
           index.scan = notified => index'.scan = notified
    PROVE  FreshInv'
<1>1. index.next \in Nat /\ index'.next \in Nat
  BY RouteFacts DEF IndexRecs
<1>0. fresh.accepted < index.next
  BY DEF RouteInv, FreshInv
<1>2. fresh.accepted < index'.next /\ (fresh.baseline < index.next => fresh.baseline < index'.next)
  BY <1>0, <1>1, RouteFacts, SMTT(60)
<1>3. /\ Newer(fresh.baseline) => Newer(fresh.baseline)'
      /\ Newer(fresh.readyBase) => Newer(fresh.readyBase)'
      /\ Newer(fresh.boundBase) => Newer(fresh.boundBase)'
  BY RouteFacts
<1> QED BY <1>2, <1>3 DEF RouteInv, FreshInv

\* The sidecar begins, commits or gives up a generation, or dies: what is
\* begun now sees every change, and what is lost is trusted by nobody.
LEMMA SidecarSteps ==
    ASSUME RouteInv,
           Routes!StartCatalog \/ Routes!PublishGeneration \/ Routes!FailBuild \/ Routes!SidecarDies
    PROVE  RouteInv'
<1> USE RouteFacts
<1>1. UNCHANGED <<notified, rev, fresh, cache, search>>
  BY DEF Routes!StartCatalog, Routes!PublishGeneration, Routes!FailBuild, Routes!SidecarDies
<1>2. /\ service.reply # <<>> => service.pc = "binding"
      /\ service.pc = "running" <=> index.building # 0
      /\ index.committed < index.next /\ index.scan <= notified /\ index.start <= notified
      /\ index.building # 0 =>
            index.committed < index.building /\ index.building < index.next /\ index.scan <= index.start
  BY DEF RouteInv, BindInv, GenerationInv
<1>3. CASE Routes!StartCatalog
  <2>1. CASE index.state = "dead"
    <3>1. service.pc = "starting" /\ service' = [service EXCEPT !.pc = "failed"] /\ index' = index
      BY <1>3, <2>1 DEF Routes!StartCatalog
    <3>2. service' \in ServiceRecs /\ service'.pc = "failed" /\ service'.reply = service.reply
      BY <3>1 DEF ServiceRecs
    <3>3. GenerationInv' /\ BindInv'
      BY <1>1, <1>2, <3>1, <3>2 DEF GenerationInv, BindInv
    <3>4. FreshInv'
      BY <1>1, <3>1 DEF RouteInv, FreshInv, Newer
    <3> QED BY <1>1, <3>1, <3>2, <3>3, <3>4, BackgroundStep
  <2>2. CASE index.state # "dead"
    <3>1. /\ service.pc = "starting" /\ service' = [service EXCEPT !.pc = "running"]
          /\ index' = [index EXCEPT !.building = index.next, !.next = @ + 1, !.start = notified]
      BY <1>3, <2>2 DEF Routes!StartCatalog
    <3>2. service' \in ServiceRecs /\ service'.pc = "running" /\ service'.reply = service.reply
      BY <3>1 DEF ServiceRecs
    <3>3. index' \in IndexRecs
      <4>1. index \in IndexRecs /\ index.next \in Nat /\ index.next + 1 \in Nat /\ notified \in Nat
        BY SMTT(60)
      <4> QED BY ONLY <3>1, <4>1 DEF IndexRecs
    <3>4. /\ index'.building = index.next /\ index'.next = index.next + 1 /\ index'.start = notified
          /\ index'.committed = index.committed /\ index'.scan = index.scan
      BY <3>1 DEF IndexRecs
    <3>0. service.reply = <<>> /\ index.building = 0 /\ index.next # 0
      BY <1>2, <3>1
    <3>5. GenerationInv' /\ BindInv'
      <4>1. GenerationInv'
        BY <1>1, <1>2, <3>0, <3>2, <3>4 DEF GenerationInv
      <4>2. BindInv'
        BY <3>0, <3>2 DEF BindInv
      <4> QED BY <4>1, <4>2
    <3>6. ASSUME NEW b \in Int, Newer(b) PROVE Newer(b)'
      BY <1>1, <3>4, <3>6 DEF Newer
    <3>7. FreshInv'
      BY <1>1, <3>3, <3>4, <3>6, FreshKept
    <3> QED BY <1>1, <3>2, <3>3, <3>4, <3>5, <3>7, BackgroundStep
  <2> QED BY <2>1, <2>2
<1>4. CASE Routes!PublishGeneration
  <2>1. /\ service.pc = "running" /\ service' = [service EXCEPT !.pc = "published"]
        /\ \E full \in BOOLEAN :
              index' = [index EXCEPT !.committed = index.building, !.scan = index.start,
                                     !.building = 0, !.full = full, !.state = "ready"]
    BY <1>4 DEF Routes!PublishGeneration
  <2>2. service' \in ServiceRecs /\ service'.pc = "published" /\ service'.reply = service.reply
    BY <2>1 DEF ServiceRecs
  <2>3. index' \in IndexRecs
    <3>1. index \in IndexRecs /\ index.building \in Nat /\ index.start \in Nat /\ 0 \in Nat
      OBVIOUS
    <3> QED BY ONLY <2>1, <3>1 DEF IndexRecs
  <2>4. /\ index'.building = 0 /\ index'.next = index.next /\ index'.start = index.start
        /\ index'.committed = index.building /\ index'.scan = index.start
    BY <2>1 DEF IndexRecs
  <2>0. service.reply = <<>> /\ index.building # 0
    BY <1>2, <2>1
  <2>5. GenerationInv' /\ BindInv'
    <3>1. GenerationInv'
      BY <1>1, <1>2, <2>0, <2>2, <2>4 DEF GenerationInv
    <3>2. BindInv'
      BY <2>0, <2>2 DEF BindInv
    <3> QED BY <3>1, <3>2
  <2>6. ASSUME NEW b \in Int, Newer(b) PROVE Newer(b)'
    BY <1>1, <1>2, <2>1, <2>4, <2>6 DEF Newer
  <2>7. index.scan = notified => index'.scan = notified
    BY <1>2, <2>1, <2>4
  <2>8. FreshInv'
    BY <1>1, <2>3, <2>4, <2>6, <2>7, FreshKept
  <2> QED BY <1>1, <2>2, <2>3, <2>4, <2>5, <2>8, BackgroundStep
<1>5. CASE Routes!FailBuild \/ Routes!SidecarDies
  <2>1. \/ index' = [index EXCEPT !.building = 0, !.full = FALSE, !.state = "degraded"]
        \/ index' = [index EXCEPT !.building = 0, !.state = "dead"]
    BY <1>5 DEF Routes!FailBuild, Routes!SidecarDies
  <2>2. \/ service.pc \in {"running", "published"} /\ service' = [service EXCEPT !.pc = "failed"]
        \/ service.pc # "running" /\ service' = service
    BY <1>5 DEF Routes!FailBuild, Routes!SidecarDies
  <2>3. service' \in ServiceRecs /\ service'.reply = service.reply /\ service'.pc # "running"
    BY <2>2 DEF ServiceRecs
  <2>4. service.pc = "binding" => service'.pc = "binding"
    BY <2>2
  <2>5. index' \in IndexRecs
    <3>1. index \in IndexRecs /\ 0 \in Nat
      OBVIOUS
    <3> QED BY ONLY <2>1, <3>1 DEF IndexRecs
  <2>6. /\ index'.building = 0 /\ index'.next = index.next /\ index'.start = index.start
        /\ index'.committed = index.committed /\ index'.scan = index.scan
    BY <2>1 DEF IndexRecs
  <2>7. GenerationInv'
    BY <1>1, <1>2, <2>3, <2>6 DEF GenerationInv
  <2>8. BindInv'
    <3>1. BindInv
      BY DEF RouteInv
    <3> QED BY ONLY <2>3, <2>4, <2>6, <3>1 DEF BindInv
  <2>9. ASSUME NEW b \in Int, Newer(b) PROVE Newer(b)'
    BY <1>1, <2>6, <2>9 DEF Newer
  <2>10. FreshInv'
    BY <1>1, <2>5, <2>6, <2>9, FreshKept
  <2> QED BY <1>1, <2>3, <2>5, <2>6, <2>7, <2>8, <2>10, BackgroundStep
<1> QED BY <1>3, <1>4, <1>5

\* A catalog run asks for a status, binds itself to the latest change and
\* ends: what it is bound to begins after that change.
LEMMA RunSteps ==
    ASSUME RouteInv,
           Routes!BindAsked \/ Routes!CatalogStarted \/ Routes!CatalogReady \/ Routes!CatalogFailed
    PROVE  RouteInv'
<1> USE RouteFacts
<1>1. UNCHANGED <<notified, rev, index, cache, search>>
  BY DEF Routes!BindAsked, Routes!CatalogStarted, Routes!CatalogReady, Routes!CatalogFailed
<1>2. /\ service.reply # <<>> => service.pc = "binding"
      /\ service.pc = "running" <=> index.building # 0
      /\ index.committed < index.next
  BY DEF RouteInv, BindInv, GenerationInv
<1>3. ASSUME service'.pc # "running", service.pc # "running" PROVE GenerationInv'
  BY <1>1, <1>3 DEF RouteInv, GenerationInv
<1>4. ASSUME fresh' = fresh PROVE FreshInv'
  BY <1>1, <1>4 DEF RouteInv, FreshInv, Newer
<1>5. CASE Routes!BindAsked
  <2>1. PICK status \in Routes!Statuses :
            service.pc = "binding" /\ fresh' = fresh /\ service' = [service EXCEPT !.reply = <<status>>]
    BY <1>5 DEF Routes!BindAsked
  <2>2. <<status>> \in Seq(Reports)
    BY StatusFacts
  <2>3. service' \in ServiceRecs /\ service'.pc = service.pc /\ service'.reply = <<status>>
    BY <2>1, <2>2 DEF ServiceRecs
  <2>4. service'.reply[1] = status
    BY <2>3
  <2>5. status.ok => status.committed = index.committed /\ status.building = 0
    BY <1>2, <2>1, StatusFacts
  <2>6. BindInv'
    BY ONLY <1>1, <2>1, <2>3, <2>4, <2>5 DEF BindInv
  <2> QED BY <1>1, <1>3, <1>4, <2>1, <2>3, <2>6, BackgroundStep
<1>6. CASE Routes!CatalogStarted
  <2> DEFINE status == service.reply[1]
  <2>1. /\ service.pc = "binding" /\ service.reply # <<>>
        /\ service' = [service EXCEPT !.pc = "starting", !.reply = <<>>]
    BY <1>6 DEF Routes!CatalogStarted
  <2>2. \/ fresh' = fresh
        \/ /\ status.ok /\ fresh.token # 0
           /\ fresh' = [fresh EXCEPT !.bound = fresh.token,
                                     !.boundBase = Routes!Bigger(status.committed, status.building)]
    BY <1>6 DEF Routes!CatalogStarted, Routes!NoToken
  <2>3. <<>> \in Seq(Reports)
    OBVIOUS
  <2>4. service' \in ServiceRecs /\ service'.pc = "starting" /\ service'.reply = <<>>
    BY <2>1, <2>3 DEF ServiceRecs
  <2>5. GenerationInv' /\ BindInv' /\ index.building = 0
    BY <1>2, <1>3, <2>1, <2>4 DEF BindInv
  <2>6. CASE fresh' = fresh
    BY <1>1, <1>4, <2>4, <2>5, <2>6, BackgroundStep
  <2>7. CASE fresh' # fresh
    <3>1. status.ok /\ status.committed = index.committed /\ status.building = 0 /\ fresh.token # 0
      BY <2>1, <2>2, <2>7 DEF RouteInv, BindInv
    <3>2. Routes!Bigger(status.committed, status.building) = index.committed
      BY <3>1 DEF Routes!Bigger
    <3>3. fresh' = [fresh EXCEPT !.bound = fresh.token, !.boundBase = index.committed]
      BY <2>2, <2>7, <3>2
    <3>4. index.committed \in Int /\ fresh.token <= notified
      BY SMTT(60) DEF RouteInv, FreshInv
    <3>5. fresh' \in FreshRecs
      BY ONLY <3>3, <3>4, RouteFacts, RouteInv DEF FreshRecs
    <3>6. /\ fresh'.accepted = fresh.accepted /\ fresh'.token = fresh.token /\ fresh'.baseline = fresh.baseline
          /\ fresh'.capture = fresh.capture /\ fresh'.post = fresh.post /\ fresh'.ready = fresh.ready
          /\ fresh'.readyBase = fresh.readyBase /\ fresh'.bound = fresh.token
          /\ fresh'.boundBase = index.committed
      BY ONLY <3>3, RouteFacts, RouteInv DEF FreshRecs
    <3>7. Newer(index.committed)
      BY <1>2, <2>5 DEF Newer
    <3>8. FreshInv'
      BY <1>1, <3>4, <3>6, <3>7 DEF RouteInv, FreshInv, Newer
    <3> QED BY <1>1, <2>4, <2>5, <3>5, <3>6, <3>8, BackgroundStep
  <2> QED BY <2>6, <2>7
<1>7. ASSUME NEW token, Routes!EndRun(token), service.pc # "running"
      PROVE  service' \in ServiceRecs /\ GenerationInv' /\ BindInv'
  <2>1. service'.reply = <<>> /\ service'.pc \in {"idle", "starting", "binding"} /\ service'.pending = FALSE
    BY <1>7 DEF Routes!EndRun
  <2>2. <<>> \in Seq(Reports)
    OBVIOUS
  <2>3. service' \in ServiceRecs
    BY <1>7, <2>2 DEF Routes!EndRun, ServiceRecs
  <2> QED BY <1>3, <1>7, <2>1, <2>3 DEF BindInv
<1>8. CASE Routes!CatalogReady
  <2>1. service.pc = "published" /\ Routes!EndRun(fresh.token)
    BY <1>8 DEF Routes!CatalogReady
  <2>2. service' \in ServiceRecs /\ GenerationInv' /\ BindInv'
    BY <1>7, <2>1
  <2>3. \/ fresh' = [fresh EXCEPT !.bound = 0, !.boundBase = -1]
        \/ /\ fresh.bound # 0 /\ fresh.bound = fresh.token
           /\ fresh' = [fresh EXCEPT !.bound = 0, !.boundBase = -1, !.ready = "asked",
                                     !.readyBase = fresh.boundBase]
    BY <1>8 DEF Routes!CatalogReady, Routes!NoToken, Routes!NoGeneration
  <2>4. -1 \in Int /\ 0 \in Nat /\ fresh \in FreshRecs /\ fresh.boundBase \in Int
    OBVIOUS
  <2>5. fresh' \in FreshRecs
    BY ONLY <2>3, <2>4 DEF FreshRecs
  <2>6. /\ fresh'.accepted = fresh.accepted /\ fresh'.token = fresh.token /\ fresh'.baseline = fresh.baseline
        /\ fresh'.capture = fresh.capture /\ fresh'.post = fresh.post /\ fresh'.bound = 0
        /\ \/ fresh'.ready = fresh.ready /\ fresh'.readyBase = fresh.readyBase
           \/ fresh.bound # 0 /\ fresh.bound = fresh.token /\ fresh'.readyBase = fresh.boundBase
    BY ONLY <2>3, <2>4 DEF FreshRecs
  <2>7. FreshInv'
    BY <1>1, <2>6, SMTT(60) DEF RouteInv, FreshInv, Newer
  <2> QED BY <1>1, <2>2, <2>5, <2>6, <2>7, BackgroundStep
<1>9. CASE Routes!CatalogFailed
  <2>1. service.pc = "failed" /\ Routes!EndRun(fresh.token) /\ fresh' = fresh
    BY <1>9 DEF Routes!CatalogFailed
  <2>2. service' \in ServiceRecs /\ GenerationInv' /\ BindInv'
    BY <1>7, <2>1
  <2> QED BY <1>1, <1>4, <2>1, <2>2, BackgroundStep
<1> QED BY <1>5, <1>6, <1>8, <1>9

\* A capture has found which generations may lack the change: those above its
\* baseline begin later.  A generation above the base of a run that has ended
\* contains the change.
LEMMA CaptureSteps ==
    ASSUME RouteInv, Routes!CaptureDone \/ Routes!PostCaptureDone
    PROVE  RouteInv'
<1> USE RouteFacts
<1>1. UNCHANGED <<notified, rev, index, service, cache, search>>
  BY DEF Routes!CaptureDone, Routes!PostCaptureDone
<1>2. GenerationInv' /\ BindInv'
  BY <1>1 DEF RouteInv, GenerationInv, BindInv
<1>3. CASE Routes!CaptureDone
  <2>1. PICK status \in Routes!Statuses :
            /\ fresh.capture = "asked"
            /\ fresh' = [fresh EXCEPT !.capture = "done", !.baseline = Routes!BaselineCaptured(status)]
    BY <1>3 DEF Routes!CaptureDone
  <2> DEFINE base == Routes!BaselineCaptured(status)
  <2>2. base \in Int /\ (base = -1 \/ Newer(base))
    <3>1. CASE ~status.ok
      BY <3>1 DEF Routes!BaselineCaptured, Routes!NoGeneration
    <3>2. CASE status.ok
      <4>1. base = Routes!Bigger(fresh.baseline, Routes!Bigger(index.committed, index.building))
        BY <3>2, StatusFacts DEF Routes!BaselineCaptured
      <4>2. fresh.baseline < index.next /\ index.committed < index.next
        BY <2>1 DEF RouteInv, FreshInv, GenerationInv
      <4>3. index.building # 0 => index.building < index.next
        BY DEF RouteInv, GenerationInv
      <4>4. /\ base \in Int /\ base < index.next /\ index.committed <= base
            /\ index.building # 0 => index.building <= base
        BY <4>1, <4>2, <4>3, SMTT(60) DEF Routes!Bigger
      <4> HIDE DEF base
      <4> QED BY <4>4 DEF Newer
    <3> QED BY <3>1, <3>2
  <2>3. fresh' = [fresh EXCEPT !.capture = "done", !.baseline = base]
    BY <2>1
  <2> HIDE DEF base
  <2>4. fresh' \in FreshRecs
    BY ONLY <2>2, <2>3, RouteFacts, RouteInv DEF FreshRecs
  <2>5. /\ fresh'.accepted = fresh.accepted /\ fresh'.token = fresh.token /\ fresh'.baseline = base
        /\ fresh'.capture = "done" /\ fresh'.post = fresh.post /\ fresh'.ready = fresh.ready
        /\ fresh'.readyBase = fresh.readyBase /\ fresh'.bound = fresh.bound
        /\ fresh'.boundBase = fresh.boundBase
    BY ONLY <2>3, RouteFacts, RouteInv DEF FreshRecs
  <2>6. FreshInv'
    BY <1>1, <2>2, <2>5 DEF RouteInv, FreshInv, Newer
  <2> QED BY <1>1, <1>2, <2>4, <2>5, <2>6, BackgroundStep
<1>4. CASE Routes!PostCaptureDone
  <2>1. PICK status \in Routes!Statuses :
            LET newer == status.ok /\ status.ready /\ status.committed > fresh.readyBase
            IN  /\ fresh.ready = "asked"
                /\ fresh' = [fresh EXCEPT !.ready = "done", !.readyBase = -1,
                                          !.post = IF newer THEN status.committed ELSE @]
    BY <1>4 DEF Routes!PostCaptureDone, Routes!NoGeneration
  <2>2. \E p \in Int :
            /\ fresh' = [fresh EXCEPT !.ready = "done", !.readyBase = -1, !.post = p]
            /\ p = fresh.post \/ index.committed > fresh.readyBase
    <3>1. CASE status.ok /\ status.ready /\ status.committed > fresh.readyBase
      <4>1. status.committed = index.committed /\ index.committed \in Int
        BY <3>1, StatusFacts
      <4>2. fresh' = [fresh EXCEPT !.ready = "done", !.readyBase = -1, !.post = status.committed]
        BY <2>1, <3>1, Zenon
      <4> QED BY <3>1, <4>1, <4>2
    <3>2. CASE ~(status.ok /\ status.ready /\ status.committed > fresh.readyBase)
      <4>1. fresh' = [fresh EXCEPT !.ready = "done", !.readyBase = -1, !.post = fresh.post]
        BY <2>1, <3>2, Zenon
      <4> QED BY <4>1
    <3> QED BY <3>1, <3>2
  <2>3. PICK p \in Int :
            /\ fresh' = [fresh EXCEPT !.ready = "done", !.readyBase = -1, !.post = p]
            /\ p = fresh.post \/ index.committed > fresh.readyBase
    BY <2>2
  <2>4. -1 \in Int
    OBVIOUS
  <2>5. fresh' \in FreshRecs
    BY ONLY <2>3, <2>4, RouteFacts, RouteInv DEF FreshRecs
  <2>6. /\ fresh'.accepted = fresh.accepted /\ fresh'.token = fresh.token /\ fresh'.baseline = fresh.baseline
        /\ fresh'.capture = fresh.capture /\ fresh'.post = p /\ fresh'.ready = "done"
        /\ fresh'.bound = fresh.bound /\ fresh'.boundBase = fresh.boundBase
    BY ONLY <2>3, RouteFacts, RouteInv DEF FreshRecs
  <2>7. Newer(fresh.readyBase)
    BY <2>1 DEF RouteInv, FreshInv
  <2>8. p # -1 => index.scan = notified
    BY <2>3, <2>7 DEF RouteInv, FreshInv, Newer
  <2>9. FreshInv'
    BY <1>1, <2>6, <2>8 DEF RouteInv, FreshInv, Newer
  <2> QED BY <1>1, <1>2, <2>5, <2>6, <2>9, BackgroundStep
<1> QED BY <1>3, <1>4

\* Nothing has been asked, cached or changed yet.
LEMMA RouteInit ==
    ASSUME Routes!Init
    PROVE  RouteInv
<1>1. notified = 0 /\ rev = 0 /\ cache = <<>>
  BY DEF Routes!Init
<1>2. PICK g \in {0, 1} :
          index = [committed |-> g, scan |-> 0, building |-> 0, start |-> 0, next |-> g + 1,
                   full |-> TRUE, state |-> IF g = 0 THEN "warming" ELSE "ready"]
  BY DEF Routes!Init
<1>3. service = [pc |-> "idle", pending |-> FALSE, reply |-> <<>>]
  BY DEF Routes!Init
<1>4. fresh = [accepted |-> -1, token |-> 0, baseline |-> -1, capture |-> "none", post |-> -1,
               ready |-> "none", readyBase |-> -1, bound |-> 0, boundBase |-> -1]
  BY DEF Routes!Init, Routes!NoGeneration, Routes!NoToken
<1>5. search = [s \in Searches |-> Routes!Idle]
  BY DEF Routes!Init
<1>6. g \in Nat /\ g + 1 \in Nat /\ g < g + 1 /\ 0 \in Nat /\ -1 \in Int /\ -1 < g + 1
  OBVIOUS
<1>7. index \in IndexRecs /\ index.committed = g /\ index.scan = 0 /\ index.building = 0
      /\ index.start = 0 /\ index.next = g + 1
  BY <1>2, <1>6 DEF IndexRecs
<1>8. service \in ServiceRecs /\ service.pc = "idle" /\ service.reply = <<>>
  BY <1>3 DEF ServiceRecs
<1>9. fresh \in FreshRecs /\ fresh.accepted = -1 /\ fresh.token = 0 /\ fresh.bound = 0 /\ fresh.post = -1
      /\ fresh.capture = "none" /\ fresh.ready = "none"
  BY <1>4, <1>6 DEF FreshRecs
<1>10. GenerationInv /\ BindInv /\ FreshInv
  <2>1. GenerationInv
    BY <1>1, <1>6, <1>7, <1>8 DEF GenerationInv
  <2>2. BindInv
    BY <1>8 DEF BindInv
  <2>3. FreshInv
    BY <1>1, <1>6, <1>7, <1>9 DEF FreshInv
  <2> QED BY <2>1, <2>2, <2>3
<1>11. CacheInv
  BY <1>1 DEF CacheInv
<1>12. Routes!Idle \in SearchRecs /\ SearchOk(Routes!Idle)
  BY <1>1, <1>6, IdleIsFine
<1>13. RouteTypes
  BY <1>1, <1>5, <1>6, <1>7, <1>8, <1>9, <1>12 DEF RouteTypes
<1> QED BY <1>5, <1>10, <1>11, <1>12, <1>13 DEF RouteInv

\* Every step of the specification keeps the invariant.
LEMMA RouteNext ==
    ASSUME RouteParameters, RouteInv, [Routes!Next]_Routes!vars
    PROVE  RouteInv'
<1>1. CASE UNCHANGED Routes!vars
  BY <1>1 DEF Routes!vars, RouteInv, RouteTypes, GenerationInv, BindInv, FreshInv, Newer, CacheInv, Useful,
              IsCurrent, SearchOk
<1>2. CASE Routes!FilesChanged \/ Routes!InputsChanged \/ Routes!ApplyMemoryPressure
  BY <1>2, ChangeSteps
<1>3. CASE Routes!FailBuild \/ Routes!SidecarDies
  BY <1>3, SidecarSteps
<1>4. CASE Routes!Catalog
  BY <1>4, SidecarSteps, RunSteps DEF Routes!Catalog
<1>5. CASE Routes!Freshness
  BY <1>5, CaptureSteps DEF Routes!Freshness
<1>6. CASE \E s \in Searches : Routes!Ask(s) \/ Routes!Step(s)
  <2>1. PICK s \in Searches : Routes!Ask(s) \/ Routes!Step(s)
    BY <1>6
  <2> QED BY <2>1, FirstSteps, WaitingSteps, RecoverStep, QuerySteps, AcceptSteps, DeclaringSteps, ConfirmStep,
             DispatchedStep DEF Routes!Step
<1> QED BY <1>1, <1>2, <1>3, <1>4, <1>5, <1>6 DEF Routes!Next

\* Answers see every change, also if nobody is ever scheduled again.
LEMMA RouteSafety ==
    ASSUME RouteParameters
    PROVE  Routes!Init /\ [][Routes!Next]_Routes!vars => []Routes!AnswersSeeEveryChange
<1>1. Routes!Init => RouteInv
  BY RouteInit
<1>2. RouteInv /\ [Routes!Next]_Routes!vars => RouteInv'
  BY RouteNext
<1>3. RouteInv => Routes!AnswersSeeEveryChange
  BY DEF RouteInv, SearchOk, Routes!AnswersSeeEveryChange
<1> QED BY <1>1, <1>2, <1>3, PTL

\* Every answer to a reference search, cached or computed, has seen every
\* notified change of a source file and no edit has happened since its inputs
\* were captured, for any number of concurrent searches, any limits of the
\* cache, and any failures of the sidecar: a search narrows its scope only by
\* a generation that was begun after the latest change.
THEOREM AnswersSeeEveryChange ==
    ASSUME RouteParameters
    PROVE  Routes!Spec => []Routes!AnswersSeeEveryChange
BY RouteSafety, PTL DEF Routes!Spec

-----------------------------------------------------------------------------
(* The watchdog of the semantic worker                                      *)

CONSTANTS Reads, Mutations, Limit, Preparation, Grace, MaxActivity
VARIABLES waiting, failed, cell, progress, mail, checkpoints, quiet, inside

Dog == INSTANCE Watchdog

(* What is assumed of the constants: deadlines are positive numbers, and    *)
(* no command has the name that stands for an idle worker.                  *)

WatchdogParameters ==
    /\ Limit \in [Dog!Commands -> Nat \ {0}]
    /\ Preparation \in Nat \ {0} /\ Grace \in Nat
    /\ Dog!Idle \notin Dog!Commands

Ages == Nat \cup {Dog!Never}
WaitEntries == [sent : Nat, started : Ages, cancelled : Ages, activity : Ages,
            invalidation : {"none", "interrupt", "finish-sync", "settling"}]
Reported == {"started", "synchronized", "terminal"}

WatchdogTypes ==
    /\ DOMAIN waiting \subseteq Dog!Commands
    /\ waiting \in [DOMAIN waiting -> WaitEntries]
    /\ cell \in [Reads -> Dog!Soft \cup {"active", "supervisorDisposing"}]
    /\ progress \in [command : Dog!Commands \cup {Dog!Idle}, phase : {"idle", "request", "commit"},
                     seen : SUBSET Dog!Commands, taken : SUBSET Dog!Commands]
    /\ mail \in Seq([of : Dog!Commands, action : Reported])
    /\ quiet \in [Reads -> Ages]
    /\ inside \subseteq Reads

-----------------------------------------------------------------------------
(* The parts of the inductive invariant.                                    *)

\* A command is taken once, and its start is reported once.
StartInv ==
    /\ \A n \in DOMAIN mail : mail[n].of \in progress.taken
    /\ \A n \in DOMAIN mail : mail[n].action = "started" /\ mail[n].of \in DOMAIN waiting
          => waiting[mail[n].of].started = Dog!Never
    /\ \A m, n \in DOMAIN mail :
          mail[m].action = "started" /\ mail[n].action = "started" /\ mail[m].of = mail[n].of
          => m = n
    /\ \A c \in DOMAIN waiting : c \notin progress.taken => waiting[c].started = Dog!Never
    /\ progress.phase = "commit" => progress.command \in Reads
    /\ progress.phase # "idle" => progress.command \in progress.taken

\* How long a command has waited, and then run.
AgeInv(c) ==
    IF waiting[c].started = Dog!Never THEN waiting[c].sent < Dog!Longest(c)
    ELSE waiting[c].started < Limit[c] /\ waiting[c].sent < Dog!Longest(c) + waiting[c].started

\* A cancellation is noticed in a running read whose cell is written, and one of
\* the ages that count against it is at most that of the silence.
CancelInv(c) ==
    /\ waiting[c].cancelled # Dog!Never =>
          /\ c \in Reads /\ cell[c] # "active" /\ waiting[c].started # Dog!Never
          /\ \/ waiting[c].cancelled <= quiet[c]
             \/ waiting[c].activity # Dog!Never /\ waiting[c].activity <= quiet[c]
    /\ waiting[c].invalidation = "settling" => waiting[c].cancelled # Dog!Never

\* A read that was cancelled in its commit is still in it, and the end of no
\* commit of it is in the mail or taken note of.
InsideInv(c) ==
    /\ progress.command = c /\ progress.phase = "commit" /\ cell[c] \in Dog!Soft
    /\ \A n \in DOMAIN mail : mail[n] # [of |-> c, action |-> "synchronized"]
    /\ c \in DOMAIN waiting => waiting[c].invalidation # "settling"

WatchdogInv ==
    /\ WatchdogTypes /\ StartInv
    /\ \A c \in Reads : cell[c] # "active" => quiet[c] # Dog!Never
    /\ \A c \in DOMAIN waiting : CancelInv(c)
    /\ \A c \in inside : InsideInv(c)
    /\ Dog!Alive => \A c \in DOMAIN waiting : AgeInv(c)
    /\ Dog!CancelledReadsHaveTheirGrace /\ Dog!CommitsAreNotInterrupted

\* The longest wait of a command is a positive number.
LEMMA LongestIs ==
    ASSUME WatchdogParameters, NEW c \in Dog!Commands
    PROVE  Dog!Longest(c) \in Nat /\ Dog!Longest(c) > 0 /\ Dog!Longest(c) >= Limit[c]
<1> DEFINE S == {Limit[c], Preparation}
<1>1. \E x \in S : \A y \in S : x >= y
  BY DEF WatchdogParameters
<1>2. Dog!Max(S) \in S /\ \A y \in S : Dog!Max(S) >= y
  BY <1>1 DEF Dog!Max
<1> QED BY <1>2 DEF Dog!Longest, WatchdogParameters

-----------------------------------------------------------------------------
(* One check() of an entry.                                                 *)

\* The record that an update of five fields leaves.
LEMMA EntryUpdate ==
    ASSUME NEW s, NEW st, NEW ca, NEW ac, NEW iv, NEW s2, NEW st2, NEW ca2, NEW ac2, NEW iv2
    PROVE  LET e == [sent |-> s, started |-> st, cancelled |-> ca, activity |-> ac, invalidation |-> iv]
           IN  /\ [e EXCEPT !.sent = s2, !.started = st2, !.cancelled = ca2, !.activity = ac2]
                    = [sent |-> s2, started |-> st2, cancelled |-> ca2, activity |-> ac2, invalidation |-> iv]
               /\ [e EXCEPT !.invalidation = iv2, !.cancelled = ca2, !.activity = ac2]
                    = [sent |-> s, started |-> st, cancelled |-> ca2, activity |-> ac2, invalidation |-> iv2]
<1> DEFINE e == [sent |-> s, started |-> st, cancelled |-> ca, activity |-> ac, invalidation |-> iv]
           f == [e EXCEPT !.sent = s2, !.started = st2, !.cancelled = ca2, !.activity = ac2]
           g == [e EXCEPT !.invalidation = iv2, !.cancelled = ca2, !.activity = ac2]
           F == {"sent", "started", "cancelled", "activity", "invalidation"}
<1>1. e = [x \in F |-> e[x]]
  OBVIOUS
<1>2. f = [x \in F |-> f[x]] /\ g = [x \in F |-> g[x]]
  OBVIOUS
<1> DEFINE f2 == [sent |-> s2, started |-> st2, cancelled |-> ca2, activity |-> ac2, invalidation |-> iv]
           g2 == [sent |-> s, started |-> st, cancelled |-> ca2, activity |-> ac2, invalidation |-> iv2]
<1>3. f2 = [x \in F |-> f2[x]] /\ g2 = [x \in F |-> g2[x]]
  OBVIOUS
<1>4. \A x \in F : f[x] = f2[x] /\ g[x] = g2[x]
  <2>1. f.sent = s2 /\ f.started = st2 /\ f.cancelled = ca2 /\ f.activity = ac2 /\ f.invalidation = iv
    OBVIOUS
  <2>2. g.sent = s /\ g.started = st /\ g.cancelled = ca2 /\ g.activity = ac2 /\ g.invalidation = iv2
    OBVIOUS
  <2> HIDE DEF f, g
  <2> QED BY <2>1, <2>2
<1> HIDE DEF f, g, f2, g2
<1>5. f = f2 /\ g = g2
  BY <1>2, <1>3, <1>4
<1> QED BY <1>5 DEF f, g, f2, g2

\* check() ages an entry and may take note of a cancellation or of the end of
\* a commit; the ages that count against a cancelled read stay within the
\* silence, and a read inside its commit is not settling.
LEMMA CheckStep ==
    ASSUME WatchdogParameters, WatchdogInv, NEW c \in DOMAIN waiting
    PROVE  LET now == Dog!Checked(c, Dog!Aged(c, waiting[c]))
               later == IF c \in Reads /\ Dog!Committing(c) /\ c \notin progress.seen THEN 0
                        ELSE Dog!Older(quiet[c], Grace)
           IN  /\ now \in WaitEntries
               /\ now.sent = Dog!Older(waiting[c].sent, Dog!Longest(c) + Limit[c])
               /\ now.started = Dog!Older(waiting[c].started, Limit[c])
               /\ now.started = Dog!Never <=> waiting[c].started = Dog!Never
               /\ now.cancelled # Dog!Never =>
                     /\ c \in Reads /\ cell[c] # "active" /\ now.started # Dog!Never
                     /\ \/ now.cancelled <= later
                        \/ now.activity # Dog!Never /\ now.activity <= later
               /\ now.invalidation = "settling" => now.cancelled # Dog!Never
               /\ c \in inside => now.invalidation # "settling"
               /\ c \in inside /\ now.cancelled # Dog!Never =>
                     now.invalidation = "finish-sync" /\ Dog!Committing(c)
<1> DEFINE e == waiting[c]
           a == Dog!Aged(c, e)
           L == Dog!Longest(c) + Limit[c]
           noticed == IF c \in Reads /\ a.started # Dog!Never /\ a.cancelled = Dog!Never /\ cell[c] # "active"
                      THEN 0 ELSE a.cancelled
           allowed == IF Dog!Committing(c) /\ noticed # Dog!Never /\ a.invalidation # "settling" /\ cell[c] \in Dog!Soft
                      THEN "finish-sync" ELSE a.invalidation
           left == allowed = "finish-sync" /\ ~Dog!Committing(c) /\ noticed # Dog!Never
           now == Dog!Checked(c, a)
           later == IF c \in Reads /\ Dog!Committing(c) /\ c \notin progress.seen THEN 0
                    ELSE Dog!Older(quiet[c], Grace)
<1>1. c \in Dog!Commands /\ e \in WaitEntries
  BY DEF WatchdogInv, WatchdogTypes
<1>2. L \in Nat /\ Limit[c] \in Nat /\ Grace \in Nat
  BY <1>1, LongestIs DEF WatchdogParameters
<1>3. PICK s \in Nat, st \in Ages, ca \in Ages, ac \in Ages,
           iv \in {"none", "interrupt", "finish-sync", "settling"} :
        e = [sent |-> s, started |-> st, cancelled |-> ca, activity |-> ac, invalidation |-> iv]
  BY <1>1 DEF WaitEntries
<1>4. a = [sent |-> Dog!Older(s, L), started |-> Dog!Older(st, Limit[c]), cancelled |-> Dog!Older(ca, Grace),
           activity |-> Dog!Older(ac, Grace), invalidation |-> iv]
  <2>1. a = [e EXCEPT !.sent = Dog!Older(s, L), !.started = Dog!Older(st, Limit[c]),
                      !.cancelled = Dog!Older(ca, Grace), !.activity = Dog!Older(ac, Grace)]
    BY <1>3 DEF Dog!Aged
  <2> HIDE DEF a, e, L
  <2> QED BY <2>1, <1>3, EntryUpdate
<1>5. /\ Dog!Older(s, L) \in Nat /\ Dog!Older(st, Limit[c]) \in Ages /\ Dog!Older(ca, Grace) \in Ages
      /\ Dog!Older(ac, Grace) \in Ages
      /\ Dog!Older(st, Limit[c]) = Dog!Never <=> st = Dog!Never
      /\ Dog!Older(ca, Grace) = Dog!Never <=> ca = Dog!Never
      /\ Dog!Older(ac, Grace) = Dog!Never <=> ac = Dog!Never
  BY <1>2, <1>3 DEF Dog!Older, Ages, Dog!Never
<1>6. now = [sent |-> Dog!Older(s, L), started |-> Dog!Older(st, Limit[c]),
             cancelled |-> IF left THEN 0 ELSE noticed,
             activity |-> IF Dog!Committing(c) /\ c \notin progress.seen THEN 0 ELSE Dog!Older(ac, Grace),
             invalidation |-> IF left THEN "settling" ELSE allowed]
  <2>1. now = [a EXCEPT !.invalidation = IF left THEN "settling" ELSE allowed,
                        !.cancelled = IF left THEN 0 ELSE noticed,
                        !.activity = IF Dog!Committing(c) /\ c \notin progress.seen THEN 0
                                     ELSE a.activity]
    BY DEF Dog!Checked
  <2>2. a.activity = Dog!Older(ac, Grace)
    BY <1>4
  <2> HIDE DEF a, e, L, left, noticed, allowed, now
  <2> QED BY <2>1, <2>2, <1>4, EntryUpdate
<1>7. noticed \in Ages /\ allowed \in {"none", "interrupt", "finish-sync", "settling"}
  BY <1>3, <1>4, <1>5 DEF Ages
<1>8. Dog!Committing(c) => c \in Reads
  BY DEF Dog!Committing
<1>9. noticed # Dog!Never => c \in Reads /\ cell[c] # "active" /\ st # Dog!Never
  BY <1>3, <1>4, <1>5 DEF WatchdogInv, CancelInv
<1>10. c \in Reads /\ cell[c] # "active" => quiet[c] \in Nat /\ Dog!Older(quiet[c], Grace) \in Nat
  <2>1. c \in Reads /\ cell[c] # "active" => quiet[c] \in Nat
    BY DEF WatchdogInv, WatchdogTypes, Ages
  <2> QED BY <2>1, <1>2 DEF Dog!Older, Dog!Never
<1>11. ASSUME noticed # Dog!Never
       PROVE  \/ noticed <= later
              \/ now.activity # Dog!Never /\ now.activity <= later
  <2>1. c \in Reads /\ cell[c] # "active" /\ st # Dog!Never
    BY <1>9, <1>11
  <2>2. quiet[c] \in Nat
    BY <2>1, <1>10
  <2>3. CASE Dog!Committing(c) /\ c \notin progress.seen
    BY <2>1, <2>3, <1>6 DEF Dog!Never
  <2>4. CASE ~(Dog!Committing(c) /\ c \notin progress.seen)
    <3>1. later = Dog!Older(quiet[c], Grace) /\ now.activity = Dog!Older(ac, Grace)
      BY <2>4, <1>6
    <3>2. CASE ca = Dog!Never
      <4>1. noticed = 0
        BY <3>2, <2>1, <1>4, <1>5
      <4> QED BY <4>1, <3>1, <2>1, <1>10
    <3>3. CASE ca # Dog!Never
      <4>1. noticed = Dog!Older(ca, Grace)
        BY <3>3, <1>4, <1>5
      <4>2. ca <= quiet[c] \/ (ac # Dog!Never /\ ac <= quiet[c])
        BY <3>3, <1>3 DEF WatchdogInv, CancelInv
      <4>3. ca \in Nat
        BY <3>3, <1>3 DEF Ages
      <4>4. CASE ca <= quiet[c]
        BY <4>1, <4>3, <4>4, <3>1, <2>2, <1>2 DEF Dog!Older, Dog!Never
      <4>5. CASE ac # Dog!Never /\ ac <= quiet[c]
        BY <4>5, <3>1, <2>2, <1>2, <1>3 DEF Dog!Older, Dog!Never, Ages
      <4> QED BY <4>2, <4>4, <4>5
    <3> QED BY <3>2, <3>3
  <2> QED BY <2>3, <2>4
<1>12. ASSUME left PROVE 0 <= later
  <2>1. c \in Reads /\ cell[c] # "active"
    BY <1>9, <1>12
  <2> QED BY <2>1, <1>10
<1>13. iv = "settling" => ca # Dog!Never
  BY <1>3 DEF WatchdogInv, CancelInv
<1>14. allowed = "settling" => iv = "settling" /\ noticed = Dog!Older(ca, Grace)
  BY <1>4, <1>5, <1>13
<1>15. c \in inside => iv # "settling" /\ cell[c] \in Dog!Soft /\ c \in Reads
  BY <1>3 DEF WatchdogInv, InsideInv, WatchdogTypes
<1>16. c \in inside /\ st # Dog!Never => Dog!Committing(c)
  BY <1>3, <1>15 DEF WatchdogInv, InsideInv, Dog!Committing
<1>17. now.cancelled # Dog!Never <=> noticed # Dog!Never
  BY <1>6, <1>7 DEF Dog!Never, Ages
<1>18. now \in WaitEntries
  <2>1. (IF left THEN 0 ELSE noticed) \in Ages
    BY <1>7 DEF Ages
  <2>2. (IF Dog!Committing(c) /\ c \notin progress.seen THEN 0 ELSE Dog!Older(ac, Grace)) \in Ages
    BY <1>5 DEF Ages
  <2> HIDE DEF now, left, noticed, allowed
  <2> QED BY <2>1, <2>2, <1>5, <1>6, <1>7 DEF WaitEntries
<1>19. now.sent = Dog!Older(e.sent, L) /\ now.started = Dog!Older(e.started, Limit[c])
       /\ (now.started = Dog!Never <=> e.started = Dog!Never)
  BY <1>3, <1>5, <1>6
<1>20. now.cancelled # Dog!Never =>
         /\ c \in Reads /\ cell[c] # "active" /\ now.started # Dog!Never
         /\ now.cancelled <= later \/ (now.activity # Dog!Never /\ now.activity <= later)
  <2>1. now.cancelled = IF left THEN 0 ELSE noticed
    BY <1>6
  <2>2. now.started = Dog!Older(st, Limit[c])
    BY <1>6
  <2> HIDE DEF now, left, noticed, allowed, later
  <2> QED BY <2>1, <2>2, <1>5, <1>9, <1>11, <1>12, <1>17
<1>21. now.invalidation = IF left THEN "settling" ELSE allowed
  BY <1>6
<1>22. now.invalidation = "settling" => now.cancelled # Dog!Never
  BY <1>5, <1>13, <1>14, <1>17, <1>21
<1>23. c \in inside => now.invalidation # "settling"
  BY <1>9, <1>14, <1>15, <1>16, <1>21
<1>24. c \in inside /\ now.cancelled # Dog!Never => now.invalidation = "finish-sync" /\ Dog!Committing(c)
  BY <1>4, <1>9, <1>15, <1>16, <1>17, <1>21
<1> HIDE DEF now, later
<1> QED BY <1>18, <1>19, <1>20, <1>22, <1>23, <1>24 DEF now, later

-----------------------------------------------------------------------------
(* The actions.                                                             *)

\* Time passes.
LEMMA TickStep ==
    ASSUME WatchdogParameters, WatchdogInv, Dog!Tick
    PROVE  WatchdogInv'
<1> DEFINE D == DOMAIN waiting
           now == [c \in D |-> Dog!Checked(c, Dog!Aged(c, waiting[c]))]
           late == {c \in D : Dog!Reason(c, now[c]) # "none"}
           seen == {c \in D : Dog!Committing(c)}
           later(c) == IF c \in Reads /\ Dog!Committing(c) /\ c \notin progress.seen THEN 0
                       ELSE Dog!Older(quiet[c], Grace)
<1>1. /\ waiting' = now /\ progress' = [progress EXCEPT !.seen = @ \cup seen]
      /\ failed' \in IF late = {} THEN {failed}
                     ELSE {[of |-> c, reason |-> Dog!Reason(c, now[c])] : c \in late}
      /\ quiet' = [c \in Reads |-> IF c \in seen \ progress.seen THEN 0 ELSE Dog!Older(quiet[c], Grace)]
      /\ Dog!Alive /\ UNCHANGED <<cell, mail, checkpoints, inside>>
  BY DEF Dog!Tick
<1>2. /\ DOMAIN waiting' = D /\ D \subseteq Dog!Commands
      /\ \A c \in D : waiting'[c] = Dog!Checked(c, Dog!Aged(c, waiting[c]))
  BY <1>1 DEF WatchdogInv, WatchdogTypes
<1>3. ASSUME NEW c \in D
      PROVE  /\ waiting'[c] \in WaitEntries
             /\ waiting'[c].sent = Dog!Older(waiting[c].sent, Dog!Longest(c) + Limit[c])
             /\ waiting'[c].started = Dog!Older(waiting[c].started, Limit[c])
             /\ waiting'[c].started = Dog!Never <=> waiting[c].started = Dog!Never
             /\ waiting'[c].cancelled # Dog!Never =>
                   /\ c \in Reads /\ cell[c] # "active" /\ waiting'[c].started # Dog!Never
                   /\ \/ waiting'[c].cancelled <= later(c)
                      \/ waiting'[c].activity # Dog!Never /\ waiting'[c].activity <= later(c)
             /\ waiting'[c].invalidation = "settling" => waiting'[c].cancelled # Dog!Never
             /\ c \in inside => waiting'[c].invalidation # "settling"
             /\ c \in inside /\ waiting'[c].cancelled # Dog!Never =>
                   waiting'[c].invalidation = "finish-sync" /\ Dog!Committing(c)
  BY <1>2, CheckStep
<1>4. \A c \in D : c \in Reads => quiet'[c] = later(c)
  BY <1>1
<1>5. progress'.taken = progress.taken /\ progress'.phase = progress.phase
      /\ progress'.command = progress.command /\ progress'.seen = progress.seen \cup seen
      /\ progress' \in [command : Dog!Commands \cup {Dog!Idle}, phase : {"idle", "request", "commit"},
                        seen : SUBSET Dog!Commands, taken : SUBSET Dog!Commands]
  BY <1>1, <1>2 DEF WatchdogInv, WatchdogTypes
<1>6. WatchdogTypes'
  <2>1. waiting' \in [D -> WaitEntries]
    BY <1>1, <1>2, <1>3
  <2>2. quiet' \in [Reads -> Ages]
    <3> SUFFICES ASSUME NEW c \in Reads PROVE Dog!Older(quiet[c], Grace) \in Ages
      BY <1>1 DEF Ages
    <3>1. quiet[c] \in Ages
      BY DEF WatchdogInv, WatchdogTypes
    <3> QED BY <3>1 DEF Dog!Older, Ages, Dog!Never, WatchdogParameters
  <2> QED BY <2>1, <2>2, <1>1, <1>2, <1>5 DEF WatchdogInv, WatchdogTypes
<1>7. StartInv'
  BY <1>1, <1>2, <1>3, <1>5 DEF WatchdogInv, StartInv
<1>8. \A c \in Reads : cell'[c] # "active" => quiet'[c] # Dog!Never
  <2> SUFFICES ASSUME NEW c \in Reads, cell[c] # "active" PROVE quiet'[c] # Dog!Never
    BY <1>1
  <2>1. quiet[c] \in Ages /\ quiet[c] # Dog!Never
    BY DEF WatchdogInv, WatchdogTypes
  <2>2. Dog!Older(quiet[c], Grace) # Dog!Never
    BY <2>1 DEF Dog!Older, Ages, Dog!Never, WatchdogParameters
  <2> QED BY <2>2, <1>1 DEF Dog!Never
<1>9. \A c \in DOMAIN waiting' : CancelInv(c)'
  BY <1>1, <1>2, <1>3, <1>4 DEF CancelInv
<1>10. \A c \in inside' : InsideInv(c)'
  BY <1>1, <1>2, <1>3, <1>5 DEF WatchdogInv, InsideInv
<1>11. \A c \in D : Dog!Reason(c, now[c]) = "cancellation-deadline" =>
          /\ waiting'[c].cancelled # Dog!Never /\ Dog!CancelledFor(waiting'[c]) >= Grace
          /\ ~(waiting'[c].invalidation = "finish-sync" /\ Dog!Committing(c))
  BY <1>1 DEF Dog!Reason
<1>12. ASSUME NEW c \in D, Dog!Reason(c, now[c]) = "none"
       PROVE  IF waiting'[c].started = Dog!Never THEN waiting'[c].sent < Dog!Longest(c)
              ELSE waiting'[c].started < Limit[c]
  <2>1. ASSUME NEW e, e = waiting'[c], e.sent \in Nat, e.started \in Ages
        PROVE  IF e.started = Dog!Never THEN e.sent < Dog!Longest(c) ELSE e.started < Limit[c]
    BY <2>1, <1>1, <1>2, <1>12, LongestIs DEF Dog!Reason, Ages, WatchdogParameters, Dog!Never
  <2> QED BY <2>1, <1>3 DEF WaitEntries
<1>13. Dog!Alive' => \A c \in DOMAIN waiting' : AgeInv(c)'
  <2> SUFFICES ASSUME Dog!Alive', NEW c \in D PROVE AgeInv(c)'
    BY <1>2
  <2>1. Dog!Reason(c, now[c]) = "none"
    BY <1>1 DEF Dog!Alive
  <2>2. IF waiting[c].started = Dog!Never THEN waiting[c].sent < Dog!Longest(c)
        ELSE waiting[c].started < Limit[c] /\ waiting[c].sent < Dog!Longest(c) + waiting[c].started
    BY <1>1 DEF WatchdogInv, AgeInv
  <2>3. waiting[c].sent \in Nat /\ waiting[c].started \in Ages
    BY DEF WatchdogInv, WatchdogTypes, WaitEntries
  <2>4. c \in Dog!Commands /\ Dog!Longest(c) \in Nat /\ Limit[c] \in Nat
    BY <1>2, LongestIs DEF WatchdogParameters
  <2>5. IF waiting'[c].started = Dog!Never THEN waiting'[c].sent < Dog!Longest(c)
        ELSE waiting'[c].started < Limit[c]
    BY <2>1, <1>12
  <2>6. waiting'[c].started # Dog!Never => waiting'[c].sent < Dog!Longest(c) + waiting'[c].started
    <3>1. /\ waiting'[c].sent = Dog!Older(waiting[c].sent, Dog!Longest(c) + Limit[c])
          /\ waiting'[c].started = Dog!Older(waiting[c].started, Limit[c])
          /\ waiting'[c].started = Dog!Never <=> waiting[c].started = Dog!Never
      BY <1>3
    <3> QED BY <3>1, <2>2, <2>3, <2>4 DEF Dog!Older, Ages, Dog!Never
  <2> QED BY <2>5, <2>6 DEF AgeInv
<1>14. ASSUME failed'.reason = "cancellation-deadline"
       PROVE  quiet'[failed'.of] >= Grace /\ failed'.of \notin inside'
  <2>1. PICK c \in late : failed' = [of |-> c, reason |-> Dog!Reason(c, now[c])]
    BY <1>1, <1>14 DEF Dog!Alive
  <2>2. c \in D /\ Dog!Reason(c, now[c]) = "cancellation-deadline" /\ failed'.of = c
    BY <2>1, <1>14
  <2>3. /\ waiting'[c].cancelled # Dog!Never /\ Dog!CancelledFor(waiting'[c]) >= Grace
        /\ ~(waiting'[c].invalidation = "finish-sync" /\ Dog!Committing(c))
    BY <2>2, <1>11
  <2>4. waiting'[c].cancelled \in Nat /\ waiting'[c].activity \in Ages
    BY <2>2, <2>3, <1>3 DEF WaitEntries, Ages
  <2>5. c \in Reads /\ quiet'[c] = later(c) /\ quiet'[c] \in Ages
    BY <2>2, <2>3, <1>3, <1>4, <1>6 DEF WatchdogTypes
  <2>6. waiting'[c].cancelled <= quiet'[c]
        \/ (waiting'[c].activity # Dog!Never /\ waiting'[c].activity <= quiet'[c])
    BY <2>2, <2>3, <2>5, <1>3
  <2>7. quiet'[c] >= Grace
    <3> HIDE DEF later, now, late, seen
    <3> QED BY <2>3, <2>4, <2>5, <2>6 DEF Dog!CancelledFor, Ages, Dog!Never, WatchdogParameters
  <2>8. c \notin inside
    BY <2>2, <2>3, <1>3
  <2> QED BY <2>2, <2>7, <2>8, <1>1
<1> QED BY <1>6, <1>7, <1>8, <1>9, <1>10, <1>13, <1>14
        DEF WatchdogInv, Dog!CancelledReadsHaveTheirGrace, Dog!CommitsAreNotInterrupted

\* A command is sent.
LEMMA SendStep ==
    ASSUME WatchdogParameters, WatchdogInv, NEW c \in Dog!Commands, Dog!Send(c)
    PROVE  WatchdogInv'
<1> DEFINE D == DOMAIN waiting
           new == [sent |-> 0, started |-> Dog!Never, cancelled |-> Dog!Never, activity |-> Dog!Never,
                   invalidation |-> "none"]
<1>1. /\ c \notin D /\ c \notin progress.taken
      /\ waiting' = [x \in D \cup {c} |-> IF x = c THEN new ELSE waiting[x]]
      /\ Dog!Alive /\ UNCHANGED <<failed, cell, progress, mail, checkpoints, quiet, inside>>
  BY DEF Dog!Send
<1>2. DOMAIN waiting' = D \cup {c} /\ waiting'[c] = new /\ \A x \in D : waiting'[x] = waiting[x]
  BY <1>1
<1>3. new \in WaitEntries
  BY DEF WaitEntries, Ages
<1>4. WatchdogTypes'
  BY <1>1, <1>2, <1>3 DEF WatchdogInv, WatchdogTypes
<1>5. StartInv'
  BY <1>1, <1>2 DEF WatchdogInv, StartInv
<1>6. \A x \in DOMAIN waiting' : CancelInv(x)'
  BY <1>1, <1>2 DEF WatchdogInv, CancelInv
<1>7. \A x \in inside' : InsideInv(x)'
  BY <1>1, <1>2 DEF WatchdogInv, InsideInv
<1>8. \A x \in DOMAIN waiting' : AgeInv(x)'
  BY <1>1, <1>2, LongestIs DEF WatchdogInv, AgeInv
<1> QED BY <1>1, <1>4, <1>5, <1>6, <1>7, <1>8
        DEF WatchdogInv, Dog!CancelledReadsHaveTheirGrace, Dog!CommitsAreNotInterrupted, Dog!Alive

\* Somebody writes the cell of a read.
LEMMA CancelStep ==
    ASSUME WatchdogParameters, WatchdogInv, NEW c \in Reads, Dog!Cancel(c)
    PROVE  WatchdogInv'
<1> DEFINE D == DOMAIN waiting
<1>1. PICK reason \in Dog!Soft \cup {"supervisorDisposing"}, finish \in BOOLEAN :
        /\ waiting' = IF reason = "contentModified" THEN Dog!Invalidated(c, finish) ELSE waiting
        /\ cell' = [cell EXCEPT ![c] = IF @ = "active" THEN reason ELSE @]
        /\ inside' = IF cell[c] = "active" /\ reason \in Dog!Soft
                        /\ progress.command = c /\ progress.phase = "commit"
                        /\ \A n \in DOMAIN mail : mail[n] # [of |-> c, action |-> "synchronized"]
                     THEN inside \cup {c} ELSE inside
        /\ quiet' = [quiet EXCEPT ![c] = IF cell[c] = "active" THEN 0 ELSE @]
  BY DEF Dog!Cancel
<1>2. c \in D /\ Dog!Alive /\ UNCHANGED <<failed, progress, mail, checkpoints>>
  BY DEF Dog!Cancel
<1>3. PICK iv \in {"none", "interrupt", "finish-sync", "settling"} :
        /\ waiting' = [waiting EXCEPT ![c].invalidation = iv]
        /\ iv = "settling" <=> waiting[c].invalidation = "settling"
  <2>1. waiting[c] \in WaitEntries /\ waiting \in [D -> WaitEntries]
    BY <1>2 DEF WatchdogInv, WatchdogTypes
  <2>2. waiting = [waiting EXCEPT ![c].invalidation = waiting[c].invalidation]
    BY <2>1, <1>2 DEF WaitEntries
  <2>3. waiting[c].invalidation \in {"none", "interrupt", "finish-sync", "settling"}
    BY <2>1 DEF WaitEntries
  <2>4. CASE waiting' = waiting
    BY <2>2, <2>3, <2>4
  <2>5. CASE waiting' # waiting
    <3>1. waiting' = Dog!Invalidated(c, finish) /\ waiting[c].invalidation # "settling"
      BY <2>5, <1>1 DEF Dog!Invalidated
    <3>2. waiting' = [waiting EXCEPT ![c].invalidation =
             IF ~finish THEN "interrupt"
             ELSE IF waiting[c].invalidation = "none" THEN "finish-sync" ELSE waiting[c].invalidation]
      BY <3>1, <1>2 DEF Dog!Invalidated
    <3> QED BY <3>1, <3>2, <2>3
  <2> QED BY <2>4, <2>5
<1>4. /\ DOMAIN waiting' = D /\ \A x \in D \ {c} : waiting'[x] = waiting[x]
      /\ waiting'[c] = [waiting[c] EXCEPT !.invalidation = iv]
      /\ waiting \in [D -> WaitEntries] /\ D \subseteq Dog!Commands
  BY <1>2, <1>3 DEF WatchdogInv, WatchdogTypes
<1>5. \A x \in D : /\ waiting'[x].sent = waiting[x].sent /\ waiting'[x].started = waiting[x].started
                   /\ waiting'[x].cancelled = waiting[x].cancelled
                   /\ waiting'[x].activity = waiting[x].activity
                   /\ waiting'[x].invalidation = "settling" <=> waiting[x].invalidation = "settling"
                   /\ waiting'[x] \in WaitEntries
  BY <1>2, <1>3, <1>4 DEF WaitEntries
<1>6. /\ cell'[c] = (IF cell[c] = "active" THEN reason ELSE cell[c])
      /\ \A x \in Reads \ {c} : cell'[x] = cell[x] /\ quiet'[x] = quiet[x]
      /\ quiet'[c] = IF cell[c] = "active" THEN 0 ELSE quiet[c]
  BY <1>1 DEF WatchdogInv, WatchdogTypes
<1>7. WatchdogTypes'
  <2>1. waiting' \in [D -> WaitEntries]
    BY <1>3, <1>4, <1>5
  <2>2. cell' \in [Reads -> Dog!Soft \cup {"active", "supervisorDisposing"}] /\ quiet' \in [Reads -> Ages]
    BY <1>1 DEF WatchdogInv, WatchdogTypes, Ages
  <2>3. inside' \subseteq Reads
    BY <1>1 DEF WatchdogInv, WatchdogTypes
  <2> QED BY <2>1, <2>2, <2>3, <1>2, <1>4 DEF WatchdogInv, WatchdogTypes
<1>8. StartInv'
  BY <1>2, <1>4, <1>5 DEF WatchdogInv, StartInv
<1>9. \A x \in Reads : cell'[x] # "active" => quiet'[x] # Dog!Never
  BY <1>6 DEF WatchdogInv, Dog!Never
<1>10. \A x \in DOMAIN waiting' : CancelInv(x)'
  <2> SUFFICES ASSUME NEW x \in D PROVE CancelInv(x)'
    BY <1>4
  <2>1. CancelInv(x)
    BY DEF WatchdogInv
  <2>2. waiting[x].cancelled # Dog!Never => x \in Reads /\ quiet'[x] = quiet[x] /\ cell'[x] # "active"
    BY <2>1, <1>6 DEF CancelInv
  <2> QED BY <2>1, <2>2, <1>5 DEF CancelInv
<1>11. \A x \in inside' : InsideInv(x)'
  <2> SUFFICES ASSUME NEW x \in inside' PROVE InsideInv(x)'
    OBVIOUS
  <2>1. CASE x \in inside
    <3>1. InsideInv(x) /\ cell'[x] = cell[x]
      BY <2>1, <1>6 DEF WatchdogInv, WatchdogTypes, InsideInv, Dog!Soft
    <3> QED BY <3>1, <1>2, <1>4, <1>5 DEF InsideInv
  <2>2. CASE x \notin inside
    <3>1. /\ x = c /\ cell[c] = "active" /\ reason \in Dog!Soft
          /\ progress.command = c /\ progress.phase = "commit"
          /\ \A n \in DOMAIN mail : mail[n] # [of |-> c, action |-> "synchronized"]
      BY <2>2, <1>1
    <3>2. waiting[c].invalidation # "settling"
      BY <3>1, <1>2 DEF WatchdogInv, CancelInv
    <3> QED BY <3>1, <3>2, <1>2, <1>4, <1>5, <1>6 DEF InsideInv
  <2> QED BY <2>1, <2>2
<1>12. \A x \in DOMAIN waiting' : AgeInv(x)'
  <2> SUFFICES ASSUME NEW x \in D PROVE AgeInv(x)'
    BY <1>4
  <2>1. AgeInv(x)
    BY <1>2 DEF WatchdogInv
  <2>2. waiting'[x].sent = waiting[x].sent /\ waiting'[x].started = waiting[x].started
    BY <1>5
  <2> QED BY <2>1, <2>2 DEF AgeInv
<1> QED BY <1>2, <1>7, <1>8, <1>9, <1>10, <1>11, <1>12
        DEF WatchdogInv, Dog!CancelledReadsHaveTheirGrace, Dog!CommitsAreNotInterrupted, Dog!Alive

\* The parent reads a message of the worker.
LEMMA ReceiveStep ==
    ASSUME WatchdogParameters, WatchdogInv, Dog!Receive
    PROVE  WatchdogInv'
<1> DEFINE D == DOMAIN waiting
<1>1. mail # <<>> /\ mail' = Tail(mail) /\ Dog!Alive
      /\ UNCHANGED <<failed, cell, progress, checkpoints, quiet, inside>>
  BY DEF Dog!Receive
<1>2. mail \in Seq([of : Dog!Commands, action : Reported])
  BY DEF WatchdogInv, WatchdogTypes
<1>3. /\ 1 \in DOMAIN mail /\ Head(mail) = mail[1]
      /\ mail[1] \in [of : Dog!Commands, action : Reported]
      /\ mail' \in Seq([of : Dog!Commands, action : Reported])
      /\ \A n \in DOMAIN mail' : n + 1 \in DOMAIN mail /\ mail'[n] = mail[n + 1] /\ n \in Nat \ {0}
  <2>1. Len(mail) \in Nat /\ Len(mail) > 0 /\ DOMAIN mail = 1 .. Len(mail)
    BY <1>1, <1>2
  <2>2. 1 \in DOMAIN mail /\ Head(mail) = mail[1]
    BY <2>1, <1>1, <1>2
  <2>3. mail[1] \in [of : Dog!Commands, action : Reported]
    <3> DEFINE T == [of : Dog!Commands, action : Reported]
    <3>1. mail \in Seq(T)
      BY <1>2
    <3> HIDE DEF T
    <3>2. mail[1] \in T
      BY <3>1, <2>1
    <3> QED BY <3>2 DEF T
  <2>4. mail' \in Seq([of : Dog!Commands, action : Reported]) /\ Len(mail') = Len(mail) - 1
        /\ \A n \in 1 .. Len(mail) - 1 : mail'[n] = mail[n + 1]
    BY <1>1, <1>2
  <2>5. DOMAIN mail' = 1 .. Len(mail) - 1
    BY <2>4
  <2> QED BY <2>1, <2>2, <2>3, <2>4, <2>5
<1>0. PICK c \in Dog!Commands, action \in Reported :
        Head(mail).of = c /\ Head(mail).action = action /\ mail[1].of = c /\ mail[1].action = action
  BY <1>3
<1>4. waiting \in [D -> WaitEntries] /\ D \subseteq Dog!Commands
  BY DEF WatchdogInv, WatchdogTypes
<1>5. waiting' = CASE action = "terminal" -> [x \in D \ {c} |-> waiting[x]]
                   [] action = "started" -> [waiting EXCEPT ![c].started = 0]
                   [] action = "synchronized" ->
                        IF waiting[c].invalidation = "finish-sync" /\ waiting[c].cancelled # Dog!Never
                        THEN [waiting EXCEPT ![c].invalidation = "settling", ![c].cancelled = 0]
                        ELSE waiting
  BY <1>0 DEF Dog!Receive
<1>6. ASSUME DOMAIN waiting' \subseteq D, waiting' \in [DOMAIN waiting' -> WaitEntries],
             \A x \in DOMAIN waiting' :
                /\ x # c \/ action # "started" => waiting'[x].started = waiting[x].started
                /\ CancelInv(x)' /\ AgeInv(x)'
                /\ x \in inside => waiting'[x].invalidation # "settling"
      PROVE  WatchdogInv'
  <2>1. WatchdogTypes'
    BY <1>1, <1>3, <1>4, <1>6 DEF WatchdogInv, WatchdogTypes
  <2>2. StartInv'
    <3>1. /\ \A n \in DOMAIN mail' : mail'[n].of \in progress'.taken
          /\ \A m, n \in DOMAIN mail' :
                mail'[m].action = "started" /\ mail'[n].action = "started" /\ mail'[m].of = mail'[n].of
                => m = n
          /\ progress'.phase = "commit" => progress'.command \in Reads
          /\ progress'.phase # "idle" => progress'.command \in progress'.taken
      BY <1>1, <1>3 DEF WatchdogInv, StartInv
    <3>2. \A n \in DOMAIN mail' : mail'[n].action = "started" /\ mail'[n].of \in DOMAIN waiting'
            => waiting'[mail'[n].of].started = Dog!Never
      <4> SUFFICES ASSUME NEW n \in DOMAIN mail', mail'[n].action = "started",
                          mail'[n].of \in DOMAIN waiting'
                   PROVE  waiting'[mail'[n].of].started = Dog!Never
        OBVIOUS
      <4>1. n + 1 \in DOMAIN mail /\ n + 1 # 1 /\ mail'[n] = mail[n + 1]
        BY <1>3
      <4>2. mail[n + 1].of # c \/ action # "started"
        BY <4>1, <1>0, <1>3 DEF WatchdogInv, StartInv
      <4>3. waiting[mail[n + 1].of].started = Dog!Never
        BY <4>1, <1>6 DEF WatchdogInv, StartInv
      <4> QED BY <4>1, <4>2, <4>3, <1>6
    <3>3. \A x \in DOMAIN waiting' : x \notin progress'.taken => waiting'[x].started = Dog!Never
      <4>1. c \in progress.taken
        BY <1>0, <1>3 DEF WatchdogInv, StartInv
      <4> QED BY <4>1, <1>1, <1>6 DEF WatchdogInv, StartInv
    <3> QED BY <3>1, <3>2, <3>3 DEF StartInv
  <2>3. \A x \in inside' : InsideInv(x)'
    BY <1>1, <1>3, <1>6 DEF WatchdogInv, InsideInv
  <2> QED BY <2>1, <2>2, <2>3, <1>1, <1>6
          DEF WatchdogInv, Dog!CancelledReadsHaveTheirGrace, Dog!CommitsAreNotInterrupted, Dog!Alive
<1>7. \A x \in D : CancelInv(x) /\ AgeInv(x) /\ (x \in inside => waiting[x].invalidation # "settling")
  BY <1>1 DEF WatchdogInv, InsideInv
<1>8. CASE action = "terminal"
  <2>1. waiting' = [x \in D \ {c} |-> waiting[x]]
    BY <1>5, <1>8
  <2>2. \A x \in DOMAIN waiting' : x \in D /\ waiting'[x] = waiting[x]
    BY <2>1
  <2> QED BY <2>1, <2>2, <1>1, <1>4, <1>6, <1>7 DEF CancelInv, AgeInv
<1>9. CASE action = "started"
  <2>1. waiting' = [waiting EXCEPT ![c].started = 0]
    BY <1>5, <1>9
  <2>2. \A x \in D : x # c => waiting'[x] = waiting[x]
    BY <2>1, <1>4
  <2>3. DOMAIN waiting' = D
    BY <2>1, <1>4
  <2>4. ASSUME c \in D
        PROVE  /\ waiting'[c] \in WaitEntries /\ waiting'[c].started = 0 /\ waiting[c].started = Dog!Never
               /\ waiting'[c].sent = waiting[c].sent /\ waiting'[c].cancelled = waiting[c].cancelled
               /\ waiting'[c].activity = waiting[c].activity
               /\ waiting'[c].invalidation = waiting[c].invalidation
    <3>1. waiting[c] \in WaitEntries /\ waiting'[c] = [waiting[c] EXCEPT !.started = 0]
      BY <2>1, <2>4, <1>4
    <3>2. waiting[c].started = Dog!Never
      BY <2>4, <1>0, <1>3, <1>9 DEF WatchdogInv, StartInv
    <3> QED BY <3>1, <3>2 DEF WaitEntries, Ages
  <2>5. waiting' \in [D -> WaitEntries]
    <3>1. \A x \in D : waiting'[x] \in WaitEntries
      BY <2>2, <2>4, <1>4
    <3> QED BY <3>1, <2>1, <1>4
  <2>6. \A x \in D : CancelInv(x)' /\ AgeInv(x)' /\ (x \in inside => waiting'[x].invalidation # "settling")
    <3> SUFFICES ASSUME NEW x \in D
                 PROVE  CancelInv(x)' /\ AgeInv(x)' /\ (x \in inside => waiting'[x].invalidation # "settling")
      OBVIOUS
    <3>1. CASE x # c
      BY <3>1, <2>2, <1>1, <1>7 DEF CancelInv, AgeInv
    <3>2. CASE x = c
      <4> USE <3>2
      <4>1. Limit[c] \in Nat \ {0} /\ Dog!Longest(c) \in Nat
        BY LongestIs DEF WatchdogParameters
      <4>2. AgeInv(c)'
        BY <4>1, <2>4, <1>7 DEF AgeInv, Dog!Never
      <4>3. CancelInv(c)'
        BY <2>4, <1>1, <1>7 DEF CancelInv, Dog!Never
      <4> QED BY <4>2, <4>3, <2>4, <1>7
    <3> QED BY <3>1, <3>2
  <2> QED BY <2>2, <2>3, <2>5, <2>6, <1>6, <1>9
<1>10. CASE action = "synchronized"
  <2>1. CASE waiting' = waiting
    BY <2>1, <1>1, <1>4, <1>6, <1>7 DEF CancelInv, AgeInv
  <2>2. CASE waiting' # waiting
    <3>1. waiting[c].cancelled # Dog!Never
          /\ waiting' = [waiting EXCEPT ![c].invalidation = "settling", ![c].cancelled = 0]
      BY <2>2, <1>5, <1>10
    <3>2. c \in D
      BY <3>1, <2>2, <1>4
    <3>3. DOMAIN waiting' = D /\ \A x \in D : x # c => waiting'[x] = waiting[x]
      BY <3>1, <1>4
    <3>4. /\ waiting'[c] \in WaitEntries /\ waiting'[c].started = waiting[c].started
          /\ waiting'[c].sent = waiting[c].sent /\ waiting'[c].cancelled = 0
          /\ waiting'[c].invalidation = "settling"
      <4>1. waiting[c] \in WaitEntries
            /\ waiting'[c] = [[waiting[c] EXCEPT !.invalidation = "settling"] EXCEPT !.cancelled = 0]
        BY <3>1, <3>2, <1>4
      <4>2. PICK w \in WaitEntries : w = [waiting[c] EXCEPT !.invalidation = "settling"]
               /\ w.started = waiting[c].started /\ w.sent = waiting[c].sent
               /\ w.invalidation = "settling"
        BY <4>1 DEF WaitEntries
      <4>3. waiting'[c] = [w EXCEPT !.cancelled = 0]
        BY <4>1, <4>2
      <4>4. /\ waiting'[c].started = w.started /\ waiting'[c].sent = w.sent
            /\ waiting'[c].cancelled = 0 /\ waiting'[c].invalidation = w.invalidation
        BY <4>2, <4>3 DEF WaitEntries
      <4>5. waiting'[c] \in WaitEntries
        <5>1. 0 \in Ages
          BY DEF Ages
        <5> QED BY <5>1, <4>2, <4>3 DEF WaitEntries
      <4> QED BY <4>2, <4>4, <4>5
    <3>5. waiting' \in [D -> WaitEntries]
      <4>1. \A x \in D : waiting'[x] \in WaitEntries
        BY <3>3, <3>4, <1>4
      <4> QED BY <4>1, <3>1, <1>4
    <3>6. c \notin inside
      <4>1. mail[1] = [of |-> c, action |-> "synchronized"]
        BY <1>0, <1>3, <1>10
      <4> QED BY <4>1, <1>3 DEF WatchdogInv, InsideInv
    <3>7. c \in Reads /\ cell[c] # "active" /\ waiting[c].started # Dog!Never /\ quiet[c] \in Nat
      BY <3>1, <3>2, <1>7 DEF CancelInv, WatchdogInv, WatchdogTypes, Ages
    <3>8. \A x \in D : CancelInv(x)' /\ AgeInv(x)' /\ (x \in inside => waiting'[x].invalidation # "settling")
      <4> SUFFICES ASSUME NEW x \in D
                   PROVE  CancelInv(x)' /\ AgeInv(x)' /\ (x \in inside => waiting'[x].invalidation # "settling")
        OBVIOUS
      <4>1. CASE x # c
        BY <4>1, <3>3, <1>1, <1>7 DEF CancelInv, AgeInv
      <4>2. CASE x = c
        <5>1. AgeInv(c)'
          BY <3>4, <1>7, <3>2 DEF AgeInv
        <5>2. CancelInv(c)'
          BY <3>4, <3>7, <1>1 DEF CancelInv, Dog!Never
        <5> QED BY <5>1, <5>2, <4>2, <3>6
      <4> QED BY <4>1, <4>2
    <3> QED BY <3>3, <3>4, <3>5, <3>8, <1>6
  <2> QED BY <2>1, <2>2
<1> QED BY <1>3, <1>8, <1>9, <1>10 DEF Reported

\* A step of the worker.
LEMMA WorkerStep ==
    ASSUME WatchdogParameters, WatchdogInv, Dog!Worker
    PROVE  WatchdogInv'
<1> DEFINE D == DOMAIN waiting
           T == [of : Dog!Commands, action : Reported]
<1>1. Dog!Alive /\ UNCHANGED <<waiting, failed, cell, quiet>>
  BY DEF Dog!Worker, Dog!Start, Dog!EnterCommit, Dog!LeaveCommit, Dog!Synchronized, Dog!Activity, Dog!Finish
<1>2. mail \in Seq(T)
  BY DEF WatchdogInv, WatchdogTypes
<1>3. PICK co \in Dog!Commands \cup {Dog!Idle}, ph \in {"idle", "request", "commit"}, se \in SUBSET Dog!Commands,
           ta \in SUBSET Dog!Commands :
        progress = [command |-> co, phase |-> ph, seen |-> se, taken |-> ta]
  BY DEF WatchdogInv, WatchdogTypes
<1>4. ASSUME NEW x \in Dog!Commands, NEW action \in Reported, Dog!Post(x, action)
      PROVE  /\ mail' \in Seq(T)
             /\ \A n \in DOMAIN mail' :
                   \/ n \in DOMAIN mail /\ mail'[n] = mail[n]
                   \/ n \notin DOMAIN mail /\ n = Len(mail) + 1 /\ mail'[n] = [of |-> x, action |-> action]
  <2>1. [of |-> x, action |-> action] \in T /\ mail' = Append(mail, [of |-> x, action |-> action])
    BY <1>4 DEF Dog!Post
  <2> HIDE DEF T
  <2> QED BY <2>1, <1>2
<1>5. ASSUME progress' \in [command : Dog!Commands \cup {Dog!Idle}, phase : {"idle", "request", "commit"},
                            seen : SUBSET Dog!Commands, taken : SUBSET Dog!Commands],
             mail' \in Seq(T), inside' \subseteq Reads, StartInv', \A x \in inside' : InsideInv(x)'
      PROVE  WatchdogInv'
  BY <1>1, <1>5 DEF WatchdogInv, WatchdogTypes, CancelInv, AgeInv, Dog!Longest, Dog!Alive,
                    Dog!CancelledReadsHaveTheirGrace, Dog!CommitsAreNotInterrupted
<1>6. ASSUME NEW x \in Dog!Commands, Dog!Start(x)
      PROVE  WatchdogInv'
  <2>1. /\ co = Dog!Idle /\ x \in D /\ x \notin ta /\ inside' = inside
        /\ progress' = [progress EXCEPT !.command = x, !.phase = "request", !.taken = @ \cup {x}]
        /\ Dog!Post(x, "started")
    BY <1>3, <1>6 DEF Dog!Start
  <2>2. /\ progress'.command = x /\ progress'.phase = "request" /\ progress'.taken = ta \cup {x}
        /\ progress' \in [command : Dog!Commands \cup {Dog!Idle}, phase : {"idle", "request", "commit"},
                          seen : SUBSET Dog!Commands, taken : SUBSET Dog!Commands]
    BY <2>1, <1>3
  <2>3. inside = {}
    BY <2>1, <1>3 DEF WatchdogInv, InsideInv, WatchdogTypes, WatchdogParameters, Dog!Commands
  <2>4. StartInv'
    <3>1. \A n \in DOMAIN mail : mail[n].of # x
      BY <2>1, <1>3 DEF WatchdogInv, StartInv
    <3>2. waiting[x].started = Dog!Never
      BY <2>1, <1>3 DEF WatchdogInv, StartInv
    <3>3. \A n \in DOMAIN mail' : \/ n \in DOMAIN mail /\ mail'[n] = mail[n]
                                  \/ n = Len(mail) + 1 /\ mail'[n].of = x /\ mail'[n].action = "started"
      BY <2>1, <1>4 DEF Reported
    <3>4. \A n \in DOMAIN mail' : mail'[n].of \in progress'.taken
      BY <3>3, <2>2, <1>3 DEF WatchdogInv, StartInv
    <3>5. \A n \in DOMAIN mail' : mail'[n].action = "started" /\ mail'[n].of \in DOMAIN waiting'
            => waiting'[mail'[n].of].started = Dog!Never
      BY <3>2, <3>3, <1>1 DEF WatchdogInv, StartInv
    <3>6. \A m, n \in DOMAIN mail' :
            mail'[m].action = "started" /\ mail'[n].action = "started" /\ mail'[m].of = mail'[n].of
            => m = n
      BY <3>1, <3>3 DEF WatchdogInv, StartInv
    <3>7. \A c \in DOMAIN waiting' : c \notin progress'.taken => waiting'[c].started = Dog!Never
      BY <2>2, <1>1, <1>3 DEF WatchdogInv, StartInv
    <3> QED BY <3>4, <3>5, <3>6, <3>7, <2>2 DEF StartInv
  <2> QED BY <2>1, <2>2, <2>3, <2>4, <1>4, <1>5 DEF Reported, WatchdogInv, WatchdogTypes
<1>7. CASE Dog!EnterCommit
  <2>1. /\ co \in Reads /\ ph = "request" /\ mail' = mail /\ inside' = inside
        /\ progress' = [progress EXCEPT !.phase = "commit"]
    BY <1>3, <1>7 DEF Dog!EnterCommit
  <2>2. /\ progress'.command = co /\ progress'.phase = "commit" /\ progress'.taken = ta
        /\ progress' \in [command : Dog!Commands \cup {Dog!Idle}, phase : {"idle", "request", "commit"},
                          seen : SUBSET Dog!Commands, taken : SUBSET Dog!Commands]
    BY <2>1, <1>3
  <2>3. inside = {}
    BY <2>1, <1>3 DEF WatchdogInv, InsideInv
  <2>4. StartInv'
    BY <2>1, <2>2, <1>1, <1>3 DEF WatchdogInv, StartInv
  <2> QED BY <2>1, <2>2, <2>3, <2>4, <1>2, <1>5
<1>8. CASE Dog!LeaveCommit
  <2>1. /\ ph = "commit" /\ mail' = mail /\ inside' = inside \ {co}
        /\ progress' = [progress EXCEPT !.phase = "request"]
    BY <1>3, <1>8 DEF Dog!LeaveCommit
  <2>2. /\ progress'.command = co /\ progress'.phase = "request" /\ progress'.taken = ta
        /\ progress' \in [command : Dog!Commands \cup {Dog!Idle}, phase : {"idle", "request", "commit"},
                          seen : SUBSET Dog!Commands, taken : SUBSET Dog!Commands]
    BY <2>1, <1>3
  <2>3. inside' = {}
    BY <2>1, <1>3 DEF WatchdogInv, InsideInv
  <2>4. StartInv'
    BY <2>1, <2>2, <1>1, <1>3 DEF WatchdogInv, StartInv
  <2> QED BY <2>1, <2>2, <2>3, <2>4, <1>2, <1>5
<1>9. ASSUME NEW action \in {"synchronized", "terminal"}, Dog!Post(co, action), co \in Dog!Commands, co \in ta,
             progress'.taken = ta, progress'.phase = "commit" => progress'.command \in Reads,
             progress'.phase # "idle" => progress'.command \in ta
      PROVE  mail' \in Seq(T) /\ StartInv'
  <2>1. /\ mail' \in Seq(T)
        /\ \A n \in DOMAIN mail' : \/ n \in DOMAIN mail /\ mail'[n] = mail[n]
                                   \/ mail'[n].of = co /\ mail'[n].action # "started"
    <3>1. action \in Reported /\ action # "started"
      BY DEF Reported
    <3>2. /\ mail' \in Seq(T)
          /\ \A n \in DOMAIN mail' :
                \/ n \in DOMAIN mail /\ mail'[n] = mail[n]
                \/ n \notin DOMAIN mail /\ n = Len(mail) + 1 /\ mail'[n] = [of |-> co, action |-> action]
      BY <3>1, <1>4, <1>9
    <3> QED BY <3>1, <3>2
  <2> QED BY <2>1, <1>1, <1>3, <1>9 DEF WatchdogInv, StartInv
<1>10. CASE Dog!Synchronized
  <2>1. /\ ph = "commit" /\ inside' = inside \ {co} /\ progress' = progress /\ Dog!Post(co, "synchronized")
    BY <1>3, <1>10 DEF Dog!Synchronized
  <2>2. co \in Reads /\ co \in Dog!Commands /\ co \in ta
    BY <2>1, <1>3 DEF WatchdogInv, StartInv, Dog!Commands
  <2>3. inside' = {}
    BY <2>1, <1>3 DEF WatchdogInv, InsideInv
  <2>4. mail' \in Seq(T) /\ StartInv'
    BY <2>1, <2>2, <1>3, <1>9
  <2> QED BY <2>1, <2>3, <2>4, <1>5 DEF WatchdogInv, WatchdogTypes
<1>11. CASE Dog!Activity
  <2>1. /\ ph = "commit" /\ mail' = mail /\ inside' = inside
        /\ progress' = [progress EXCEPT !.seen = {}]
    BY <1>3, <1>11 DEF Dog!Activity
  <2>2. /\ progress'.command = co /\ progress'.phase = ph /\ progress'.taken = ta
        /\ progress' \in [command : Dog!Commands \cup {Dog!Idle}, phase : {"idle", "request", "commit"},
                          seen : SUBSET Dog!Commands, taken : SUBSET Dog!Commands]
    BY <2>1, <1>3
  <2>3. \A x \in inside' : InsideInv(x)'
    BY <2>1, <2>2, <1>1, <1>3 DEF WatchdogInv, InsideInv
  <2>4. StartInv'
    BY <2>1, <2>2, <1>1, <1>3 DEF WatchdogInv, StartInv
  <2>5. inside' \subseteq Reads
    BY <2>1 DEF WatchdogInv, WatchdogTypes
  <2> QED BY <2>1, <2>2, <2>3, <2>4, <2>5, <1>2, <1>5
<1>12. CASE Dog!Finish
  <2>1. /\ ph = "request" /\ inside' = inside /\ Dog!Post(co, "terminal")
        /\ progress' = [progress EXCEPT !.command = Dog!Idle, !.phase = "idle"]
    BY <1>3, <1>12 DEF Dog!Finish
  <2>2. /\ progress'.phase = "idle" /\ progress'.taken = ta
        /\ progress' \in [command : Dog!Commands \cup {Dog!Idle}, phase : {"idle", "request", "commit"},
                          seen : SUBSET Dog!Commands, taken : SUBSET Dog!Commands]
    BY <2>1, <1>3
  <2>3. inside' = {}
    BY <2>1, <1>3 DEF WatchdogInv, InsideInv
  <2>4. co \in Dog!Commands /\ co \in ta
    BY <2>1, <1>3 DEF WatchdogInv, StartInv
  <2>5. mail' \in Seq(T) /\ StartInv'
    BY <2>1, <2>2, <2>4, <1>9
  <2> QED BY <2>2, <2>3, <2>5, <1>5
<1> QED BY <1>6, <1>7, <1>8, <1>10, <1>11, <1>12 DEF Dog!Worker

-----------------------------------------------------------------------------
(* The theorems.                                                            *)

\* The watchdog's entries, the messages on their way and the worker's shared
\* memory agree in every reachable state.
THEOREM WatchdogIsConsistent ==
    ASSUME WatchdogParameters
    PROVE  Dog!Spec => []WatchdogInv
<1>1. Dog!Init => WatchdogInv
  <2> SUFFICES ASSUME Dog!Init PROVE WatchdogInv
    OBVIOUS
  <2>1. DOMAIN waiting = {} /\ mail = <<>> /\ inside = {} /\ DOMAIN mail = {}
    BY DEF Dog!Init
  <2>2. mail \in Seq([of : Dog!Commands, action : Reported])
    BY <2>1
  <2>3. WatchdogTypes
    <3>1. waiting \in [DOMAIN waiting -> WaitEntries]
      BY DEF Dog!Init
    <3>2. cell \in [Reads -> Dog!Soft \cup {"active", "supervisorDisposing"}] /\ quiet \in [Reads -> Ages]
      BY DEF Dog!Init, Ages
    <3>3. progress \in [command : Dog!Commands \cup {Dog!Idle}, phase : {"idle", "request", "commit"},
                        seen : SUBSET Dog!Commands, taken : SUBSET Dog!Commands]
      BY DEF Dog!Init
    <3> QED BY <3>1, <3>2, <3>3, <2>1, <2>2 DEF WatchdogTypes
  <2>4. StartInv
    BY <2>1 DEF Dog!Init, StartInv
  <2> QED BY <2>1, <2>3, <2>4
          DEF Dog!Init, WatchdogInv, Dog!CancelledReadsHaveTheirGrace, Dog!CommitsAreNotInterrupted
<1>2. WatchdogInv /\ [Dog!Next]_Dog!watchdogVars => WatchdogInv'
  <2> SUFFICES ASSUME WatchdogInv, [Dog!Next]_Dog!watchdogVars PROVE WatchdogInv'
    OBVIOUS
  <2>1. CASE Dog!Next
    BY <2>1, SendStep, CancelStep, ReceiveStep, TickStep, WorkerStep DEF Dog!Next
  <2>2. CASE UNCHANGED Dog!watchdogVars
    BY <2>2 DEF Dog!watchdogVars, WatchdogInv, WatchdogTypes, StartInv, CancelInv, InsideInv, AgeInv, Dog!Longest,
                Dog!Alive, Dog!CancelledReadsHaveTheirGrace, Dog!CommitsAreNotInterrupted
  <2> QED BY <2>1, <2>2
<1> QED BY <1>1, <1>2, PTL DEF Dog!Spec

\* The worker is given up for a cancelled read only after it gave no sign of
\* life for the whole grace period (SemanticWorkerWatchdog.check).
THEOREM CancelledReadsAreGraced ==
    ASSUME WatchdogParameters
    PROVE  Dog!Spec => []Dog!CancelledReadsHaveTheirGrace
BY WatchdogIsConsistent, PTL DEF WatchdogInv

\* A cancellation never interrupts the Program commit it finds the read in,
\* whatever further mutations say.
THEOREM CommitsEndInPeace ==
    ASSUME WatchdogParameters
    PROVE  Dog!Spec => []Dog!CommitsAreNotInterrupted
BY WatchdogIsConsistent, PTL DEF WatchdogInv

\* No command is outstanding for longer than its turn and its own deadline
\* allow, however busy the worker looks.
THEOREM StallsAreFound ==
    ASSUME WatchdogParameters
    PROVE  Dog!Spec => []Dog!StallsAreBounded
<1>1. WatchdogInv => Dog!StallsAreBounded
  <2> SUFFICES ASSUME WatchdogInv, NEW c \in DOMAIN waiting, Dog!Alive
               PROVE  waiting[c].sent < Dog!Longest(c) + Limit[c]
    BY DEF Dog!StallsAreBounded
  <2>1. c \in Dog!Commands /\ waiting[c] \in WaitEntries /\ AgeInv(c)
    BY DEF WatchdogInv, WatchdogTypes
  <2>2. Dog!Longest(c) \in Nat /\ Limit[c] \in Nat \ {0} /\ waiting[c].sent \in Nat /\ waiting[c].started \in Ages
    BY <2>1, LongestIs DEF WatchdogParameters, WaitEntries
  <2> QED BY <2>1, <2>2 DEF AgeInv, Ages, Dog!Never
<1> QED BY <1>1, WatchdogIsConsistent, PTL

\* The watchdog (SemanticWorkerWatchdog) is fair and still finds every stall,
\* for any commands, deadlines and grace.
THEOREM WatchdogIsFair ==
    ASSUME WatchdogParameters
    PROVE  Dog!Spec => []Dog!DeadlinesAreFair
BY CancelledReadsAreGraced, CommitsEndInPeace, StallsAreFound, PTL DEF Dog!DeadlinesAreFair

-----------------------------------------------------------------------------
(* The resolution of completion items and quick fixes                       *)

CONSTANTS Docs, Resolvers, MaxRecords, MaxWaiting, MaxActionBytes, RecordSizes, MaxItems, MaxEdits
VARIABLES doc, issued, store, recordBytes, req, active, queued, counted, closed, edits

Items == INSTANCE ItemResolution WITH
    Requests <- Resolvers, MaxPending <- MaxWaiting, MaxBytes <- MaxActionBytes, Sizes <- RecordSizes,
    waiting <- queued, pending <- counted

\* No request is the value that stands for none, and bytes are counted.
ItemParameters ==
    /\ "none" \notin Resolvers
    /\ MaxActionBytes \in Nat
    /\ RecordSizes \subseteq Nat

Resolutions ==
    [pc : {"idle", "reading", "waiting", "starting", "working", "checking", "fixing", "settled"},
     handle : Nat, version : Nat, content : Nat, aborted : BOOLEAN, value : Nat]
ListedItems ==
    [doc : Docs, kind : {"completion", "action"}, version : Nat, content : Nat, disk : BOOLEAN,
     size : Nat, record : BOOLEAN]

ItemTypes ==
    /\ doc \in [Docs -> [open : BOOLEAN, version : Nat, content : Nat]]
    /\ issued \in Seq(ListedItems)
    /\ store \in [completions : Seq(Nat), actions : Seq(Nat)]
    /\ recordBytes \in Int
    /\ req \in [Resolvers -> Resolutions]
    /\ active \in Resolvers \cup {"none"}
    /\ queued \in Seq(Resolvers)
    /\ counted \in Int
    /\ closed \in BOOLEAN
    /\ edits \in Nat

\* One resolution at a time has the worker, and the others wait once each.
QueueInv ==
    /\ \A i, j \in 1 .. Len(queued) : queued[i] = queued[j] => i = j
    /\ \A i \in 1 .. Len(queued) : req[queued[i]].pc = "waiting"
    /\ \A r \in Resolvers : req[r].pc = "waiting" => \E i \in 1 .. Len(queued) : queued[i] = r
    /\ \A r \in Resolvers : req[r].pc \in {"starting", "working"} <=> r = active
    /\ active = "none" => queued = <<>>
    /\ counted = Len(queued) + (IF active = "none" THEN 0 ELSE 1)
    /\ closed => queued = <<>>
    /\ closed => \A r \in Resolvers : req[r].pc \notin {"idle", "settled"} => req[r].aborted

\* The document is open, and has the text the handle was listed for.
Fits(h, content) ==
    /\ issued[h].content = content
    /\ doc[issued[h].doc].content = content
    /\ doc[issued[h].doc].open

\* A record of an open document is of its present version and its present text.
HandleInv ==
    \A h \in 1 .. Len(issued) :
        /\ issued[h].kind = "action" => ~issued[h].disk
        /\ issued[h].record /\ ~issued[h].disk =>
              Fits(h, issued[h].content) /\ doc[issued[h].doc].version = issued[h].version

\* Each store has handles of its kind, none of them twice.
StoreInv ==
    /\ \A i \in 1 .. Len(store.actions) :
          store.actions[i] \in 1 .. Len(issued) /\ issued[store.actions[i]].kind = "action"
    /\ \A i \in 1 .. Len(store.completions) :
          store.completions[i] \in 1 .. Len(issued) /\ issued[store.completions[i]].kind = "completion"
    /\ \A i, j \in 1 .. Len(store.actions) : store.actions[i] = store.actions[j] => i = j

BytesInv == recordBytes = Items!ActiveBytes(Items!Elements(store.actions))

\* A request that was not aborted has the text of its handle: of a document
\* from when it is admitted, of a file from when its job is started.
ResolutionOk(q) ==
    /\ q.pc # "idle" => q.handle \in 1 .. Len(issued)
    /\ q.pc # "settled" => q.value = 0
    /\ q.pc \in {"reading", "waiting", "starting", "working", "checking"} =>
          issued[q.handle].kind = "completion"
    /\ q.pc \in {"reading", "checking"} => issued[q.handle].disk
    /\ q.pc \in {"waiting", "starting", "working"} /\ ~q.aborted /\ ~issued[q.handle].disk =>
          Fits(q.handle, q.content)
    /\ q.pc \in {"working", "checking"} /\ issued[q.handle].disk => q.content = issued[q.handle].content
    /\ q.pc = "fixing" /\ ~q.aborted => Fits(q.handle, q.content)
ResolutionInv == \A r \in Resolvers : ResolutionOk(req[r])

ItemInv == ItemTypes /\ QueueInv /\ HandleInv /\ StoreInv /\ BytesInv /\ ResolutionInv

-----------------------------------------------------------------------------

\* The instance counts as this module does.
LEMMA SameItemCardinality == \A S : Items!Cardinality(S) = Cardinality(S)
  BY Zenon DEF Items!Cardinality, Cardinality, Items!IsFiniteSet, IsFiniteSet

\* The elements of a sequence are finitely many.
LEMMA ElementsFacts ==
    ASSUME NEW T, NEW s \in Seq(T)
    PROVE  /\ Items!Elements(s) = {s[i] : i \in 1 .. Len(s)}
           /\ Items!Elements(s) \subseteq T
           /\ IsFiniteSet(Items!Elements(s))
  <1>1. DOMAIN s = 1 .. Len(s) /\ Len(s) \in Nat
    OBVIOUS
  <1>2. Items!Elements(s) = {s[i] : i \in 1 .. Len(s)}
    BY <1>1 DEF Items!Elements
  <1>3. IsFiniteSet(1 .. Len(s))
    BY <1>1, FS_Interval
  <1> DEFINE f == [i \in 1 .. Len(s) |-> s[i]]
  <1>4. f \in Surjection(1 .. Len(s), {s[i] : i \in 1 .. Len(s)})
    BY DEF Surjection
  <1>5. IsFiniteSet({s[i] : i \in 1 .. Len(s)})
    BY <1>3, <1>4, FS_Surjection
  <1> QED
    BY <1>2, <1>5

\* The bytes of finitely many records are finitely many.
LEMMA BytesAreFinite ==
    ASSUME ItemParameters, NEW H, IsFiniteSet(H)
    PROVE  IsFiniteSet(Items!RecordBytes(H)) /\ Items!ActiveBytes(H) \in Nat
           /\ Items!ActiveBytes(H) = Cardinality(Items!RecordBytes(H))
  <1>1. IsFiniteSet(1 .. MaxActionBytes)
    BY FS_Interval DEF ItemParameters
  <1>2. IsFiniteSet(H \X (1 .. MaxActionBytes))
    BY <1>1, FS_Product
  <1>3. Items!RecordBytes(H) \subseteq H \X (1 .. MaxActionBytes)
    BY DEF Items!RecordBytes
  <1>4. IsFiniteSet(Items!RecordBytes(H))
    BY <1>2, <1>3, FS_Subset
  <1> QED
    BY <1>4, FS_CardinalityType, SameItemCardinality DEF Items!ActiveBytes

\* The bytes of two disjoint sets of finitely many bytes add up.
LEMMA DisjointBytes ==
    ASSUME NEW S, NEW T, NEW U, IsFiniteSet(S), IsFiniteSet(T), S \cap T = {}, U = S \cup T
    PROVE  IsFiniteSet(U) /\ Cardinality(U) = Cardinality(S) + Cardinality(T)
           /\ Cardinality(S) \in Nat /\ Cardinality(T) \in Nat
  <1>1. Cardinality(S) \in Nat /\ Cardinality(T) \in Nat
    BY FS_CardinalityType
  <1>2. Cardinality(S \cap T) = 0
    BY FS_EmptySet
  <1>3. IsFiniteSet(S \cup T) /\ Cardinality(S \cup T) = Cardinality(S) + Cardinality(T) - Cardinality(S \cap T)
    BY FS_Union
  <1> QED
    BY <1>1, <1>2, <1>3

\* What some of the handles hold, and what the others hold, is what all hold.
LEMMA BytesAreSplit ==
    ASSUME ItemParameters, NEW H, IsFiniteSet(H), NEW K \in SUBSET H
    PROVE  Items!ActiveBytes(H) = Items!ActiveBytes(H \ K) + Items!ActiveBytes(K)
  <1>1. IsFiniteSet(K) /\ IsFiniteSet(H \ K)
    BY FS_Subset
  <1>2. Items!RecordBytes(H) = Items!RecordBytes(H \ K) \cup Items!RecordBytes(K)
    BY SMT DEF Items!RecordBytes
  <1>3. Items!RecordBytes(H \ K) \cap Items!RecordBytes(K) = {}
    BY DEF Items!RecordBytes
  <1>4. /\ IsFiniteSet(Items!RecordBytes(K)) /\ IsFiniteSet(Items!RecordBytes(H \ K))
        /\ Items!ActiveBytes(H) = Cardinality(Items!RecordBytes(H))
        /\ Items!ActiveBytes(K) = Cardinality(Items!RecordBytes(K))
        /\ Items!ActiveBytes(H \ K) = Cardinality(Items!RecordBytes(H \ K))
    BY <1>1, BytesAreFinite
  <1> HIDE DEF Items!RecordBytes
  <1>5. Cardinality(Items!RecordBytes(H)) = Cardinality(Items!RecordBytes(H \ K)) + Cardinality(Items!RecordBytes(K))
    BY <1>2, <1>3, <1>4, DisjointBytes
  <1> QED
    BY <1>4, <1>5

\* As many bytes as the record of a new handle has.
LEMMA BytesOfOne ==
    ASSUME NEW h, NEW n \in Nat
    PROVE  IsFiniteSet({h} \X (1 .. n)) /\ Cardinality({h} \X (1 .. n)) = n
  <1>1. IsFiniteSet(1 .. n) /\ Cardinality(1 .. n) = n
    <2>1. IsFiniteSet(1 .. n) /\ Cardinality(1 .. n) = IF 1 > n THEN 0 ELSE n - 1 + 1
      BY FS_Interval
    <2> QED
      BY <2>1
  <1>2. IsFiniteSet({h}) /\ Cardinality({h}) = 1
    BY FS_Singleton
  <1>3. Cardinality({h} \X (1 .. n)) = Cardinality({h}) * Cardinality(1 .. n)
    BY <1>1, <1>2, FS_Product
  <1>4. IsFiniteSet({h} \X (1 .. n))
    BY <1>1, <1>2, FS_Product
  <1> QED
    BY <1>1, <1>2, <1>3, <1>4

-----------------------------------------------------------------------------
(* Steps that only take records away                                        *)

\* The same handles, of which those in K have no record any more.
Marked(K) ==
    /\ issued' \in Seq(ListedItems)
    /\ Len(issued') = Len(issued)
    /\ \A h \in 1 .. Len(issued) :
          /\ issued'[h].doc = issued[h].doc /\ issued'[h].kind = issued[h].kind
          /\ issued'[h].version = issued[h].version /\ issued'[h].content = issued[h].content
          /\ issued'[h].disk = issued[h].disk /\ issued'[h].size = issued[h].size
          /\ issued'[h].record <=> issued[h].record /\ h \notin K

\* A function on the numbers up to n is a sequence of length n.
LEMMA FunctionIsSeq ==
    ASSUME NEW T, NEW n \in Nat, NEW f \in [1 .. n -> T]
    PROVE  f \in Seq(T) /\ Len(f) = n /\ DOMAIN f = 1 .. n
  <1>1. f \in Seq(T)
    BY SeqDef
  <1>2. DOMAIN f = 1 .. n
    OBVIOUS
  <1>3. DOMAIN f = 1 .. Len(f) /\ Len(f) \in Nat
    BY <1>1, LenProperties
  <1>4. Len(f) = n
    BY <1>2, <1>3
  <1> QED
    BY <1>1, <1>2, <1>4

\* forgetDocument marks the handles of the document.
LEMMA ForgottenAreMarked ==
    ASSUME ItemTypes, NEW K,
           issued' = [h \in Items!Handles |-> [issued[h] EXCEPT !.record = @ /\ h \notin K]]
    PROVE  Marked(K)
  <1>1. Items!Handles = 1 .. Len(issued) /\ Len(issued) \in Nat
    BY DEF Items!Handles, ItemTypes
  <1> DEFINE n == Len(issued)
             f == [h \in 1 .. n |-> [issued[h] EXCEPT !.record = @ /\ h \notin K]]
  <1>2. \A h \in 1 .. n : issued[h] \in ListedItems
    BY DEF ItemTypes
  <1>3. \A h \in 1 .. n :
          LET e == [issued[h] EXCEPT !.record = @ /\ h \notin K]
          IN  /\ e \in ListedItems
              /\ e.doc = issued[h].doc /\ e.kind = issued[h].kind /\ e.version = issued[h].version
              /\ e.content = issued[h].content /\ e.disk = issued[h].disk /\ e.size = issued[h].size
              /\ e.record <=> issued[h].record /\ h \notin K
    BY <1>2 DEF ListedItems
  <1>4. f \in [1 .. n -> ListedItems]
    BY <1>3
  <1>5. issued' = f
    BY <1>1
  <1>6. f \in Seq(ListedItems) /\ Len(f) = n
    BY <1>1, <1>4, FunctionIsSeq
  <1>7. \A h \in 1 .. n : f[h] = [issued[h] EXCEPT !.record = @ /\ h \notin K]
    OBVIOUS
  <1> QED
    BY <1>3, <1>5, <1>6, <1>7 DEF Marked

\* One handle loses its record, or keeps it.
LEMMA OneIsMarked ==
    ASSUME ItemTypes, NEW h \in 1 .. Len(issued), NEW b \in BOOLEAN,
           issued' = [issued EXCEPT ![h].record = @ /\ b]
    PROVE  Marked(IF b THEN {} ELSE {h})
  <1>1. Len(issued) \in Nat /\ issued \in [1 .. Len(issued) -> ListedItems]
    BY DEF ItemTypes
  <1>2. issued' \in [1 .. Len(issued) -> ListedItems]
    BY <1>1 DEF ListedItems
  <1>3. issued' \in Seq(ListedItems) /\ Len(issued') = Len(issued)
    BY <1>1, <1>2, FunctionIsSeq
  <1>4. \A k \in 1 .. Len(issued) : k # h => issued'[k] = issued[k]
    BY <1>1
  <1>5. issued'[h] = [issued[h] EXCEPT !.record = @ /\ b]
    BY <1>1
  <1>6. \A k \in 1 .. Len(issued) : issued[k] \in ListedItems
    BY <1>1
  <1>7. /\ issued'[h].doc = issued[h].doc /\ issued'[h].kind = issued[h].kind
        /\ issued'[h].version = issued[h].version /\ issued'[h].content = issued[h].content
        /\ issued'[h].disk = issued[h].disk /\ issued'[h].size = issued[h].size
        /\ issued'[h].record <=> issued[h].record /\ b
    <2>1. issued[h] \in ListedItems
      BY <1>6
    <2> QED
      BY <1>5, <2>1 DEF ListedItems
  <1>8. ASSUME NEW k \in 1 .. Len(issued)
        PROVE  /\ issued'[k].doc = issued[k].doc /\ issued'[k].kind = issued[k].kind
               /\ issued'[k].version = issued[k].version /\ issued'[k].content = issued[k].content
               /\ issued'[k].disk = issued[k].disk /\ issued'[k].size = issued[k].size
               /\ issued'[k].record <=> issued[k].record /\ k \notin (IF b THEN {} ELSE {h})
    <2>1. CASE k = h
      BY <1>7, <2>1
    <2>2. CASE k # h
      BY <1>4, <2>2
    <2> QED
      BY <2>1, <2>2
  <1> QED
    BY <1>3, <1>8 DEF Marked

\* A step that leaves the handles alone marks none of them.
LEMMA NoneIsMarked ==
    ASSUME ItemTypes, UNCHANGED issued
    PROVE  Marked({})
  BY DEF Marked, ItemTypes

\* The handles with a record after the step are those that were not marked.
LEMMA BytesOfMarked ==
    ASSUME NEW K, Marked(K), NEW H \in SUBSET (1 .. Len(issued))
    PROVE  Items!ActiveBytes(H)' = Items!ActiveBytes(H \ K)
  <1>1. Items!RecordBytes(H)' = Items!RecordBytes(H \ K)
    BY DEF Items!RecordBytes, Marked
  <1> QED
    BY <1>1 DEF Items!ActiveBytes

\* The stores keep what they have, and what they count.
LEMMA MarkedStores ==
    ASSUME StoreInv, NEW K, Marked(K), UNCHANGED store
    PROVE  StoreInv'
  <1>1. \A h \in 1 .. Len(issued) : h \in 1 .. Len(issued') /\ issued'[h].kind = issued[h].kind
    BY DEF Marked
  <1> QED
    BY <1>1, Zenon DEF StoreInv

\* The handles of the code actions in the store.
LEMMA ActionHandles ==
    ASSUME ItemTypes, StoreInv
    PROVE  /\ IsFiniteSet(Items!Elements(store.actions))
           /\ Items!Elements(store.actions) \in SUBSET (1 .. Len(issued))
           /\ \A h \in Items!Elements(store.actions) : issued[h].kind = "action"
  <1>1. store.actions \in Seq(Nat)
    BY DEF ItemTypes
  <1>2. Items!Elements(store.actions) = {store.actions[i] : i \in 1 .. Len(store.actions)}
        /\ IsFiniteSet(Items!Elements(store.actions))
    BY <1>1, ElementsFacts
  <1> QED
    BY <1>2 DEF StoreInv

\* Handles that are not of code actions in the store hold none of its bytes.
LEMMA OtherBytes ==
    ASSUME ItemTypes, StoreInv, BytesInv, NEW K, Marked(K), UNCHANGED <<store, recordBytes>>,
           K \cap Items!Elements(store.actions) = {}
    PROVE  BytesInv'
  <1>0. PICK E : E = Items!Elements(store.actions)
    OBVIOUS
  <1>1. E \ K = E /\ E \in SUBSET (1 .. Len(issued))
    BY <1>0, ActionHandles
  <1>2. Items!ActiveBytes(E)' = Items!ActiveBytes(E \ K)
    BY <1>1, BytesOfMarked
  <1>3. Items!Elements(store.actions)' = E
    BY <1>0 DEF Items!Elements
  <1>4. (Items!ActiveBytes(Items!Elements(store.actions)))' = Items!ActiveBytes(E)'
    BY <1>3
  <1>5. recordBytes = Items!ActiveBytes(E)
    BY <1>0 DEF BytesInv
  <1> QED
    BY <1>1, <1>2, <1>4, <1>5 DEF BytesInv

\* forgetDocument gives back the bytes of the records it takes away.
LEMMA ForgottenBytes ==
    ASSUME ItemParameters, ItemTypes, StoreInv, BytesInv, NEW K, Items!Forget(K), UNCHANGED store
    PROVE  Marked(K) /\ BytesInv' /\ recordBytes' \in Int
  <1>0. PICK E : E = Items!Elements(store.actions)
    OBVIOUS
  <1>1. /\ issued' = [h \in Items!Handles |-> [issued[h] EXCEPT !.record = @ /\ h \notin K]]
        /\ recordBytes' = recordBytes - Items!ActiveBytes(K \cap E)
    BY <1>0 DEF Items!Forget
  <1>2. Marked(K)
    BY <1>1, ForgottenAreMarked
  <1>3. IsFiniteSet(E) /\ E \in SUBSET (1 .. Len(issued))
    BY <1>0, ActionHandles
  <1>4. Items!Elements(store.actions)' = E
    BY <1>0 DEF Items!Elements
  <1>5. recordBytes = Items!ActiveBytes(E)
    BY <1>0 DEF BytesInv
  <1>6. Items!ActiveBytes(E)' = Items!ActiveBytes(E \ K)
    BY <1>2, <1>3, BytesOfMarked
  <1>7. Items!ActiveBytes(E) = Items!ActiveBytes(E \ (K \cap E)) + Items!ActiveBytes(K \cap E)
    BY <1>3, BytesAreSplit
  <1>8. Items!ActiveBytes(E \ (K \cap E)) = Items!ActiveBytes(E \ K)
    <2>1. E \ (K \cap E) = E \ K
      OBVIOUS
    <2> QED
      BY <2>1
  <1>9. Items!ActiveBytes(E \ K) \in Nat /\ Items!ActiveBytes(K \cap E) \in Nat
    <2>1. IsFiniteSet(E \ K) /\ IsFiniteSet(K \cap E)
      BY <1>3, FS_Subset
    <2> QED
      BY <2>1, BytesAreFinite
  <1>10. recordBytes' = Items!ActiveBytes(E)'
    <2> DEFINE left == Items!ActiveBytes(E \ K)
               gone == Items!ActiveBytes(K \cap E)
    <2>1. recordBytes = left + gone /\ recordBytes' = recordBytes - gone /\ left \in Nat /\ gone \in Nat
      BY <1>1, <1>5, <1>7, <1>8, <1>9
    <2>2. Items!ActiveBytes(E)' = left
      BY <1>6
    <2> HIDE DEF left, gone
    <2> QED
      BY <2>1, <2>2
  <1>11. (Items!ActiveBytes(Items!Elements(store.actions)))' = Items!ActiveBytes(E)'
    BY <1>4
  <1> QED
    BY <1>2, <1>6, <1>9, <1>10, <1>11 DEF BytesInv

-----------------------------------------------------------------------------
(* The queue                                                                *)

QueueTypes == /\ req' \in [Resolvers -> Resolutions]
              /\ active' \in Resolvers \cup {"none"}
              /\ queued' \in Seq(Resolvers)
              /\ counted' \in Int

\* A request goes from one phase to another.
LEMMA PhaseUpdate ==
    ASSUME NEW q \in Resolutions,
           NEW p \in {"reading", "waiting", "starting", "working", "checking", "fixing", "settled"},
           NEW u, u = [q EXCEPT !.pc = p]
    PROVE  /\ u \in Resolutions /\ u.pc = p /\ u.handle = q.handle /\ u.version = q.version
           /\ u.content = q.content /\ u.aborted = q.aborted /\ u.value = q.value
  BY DEF Resolutions

\* A request has read its file.
LEMMA ContentUpdate ==
    ASSUME NEW q \in Resolutions, NEW c \in Nat, NEW u, u = [q EXCEPT !.content = c]
    PROVE  /\ u \in Resolutions /\ u.pc = q.pc /\ u.handle = q.handle /\ u.version = q.version
           /\ u.content = c /\ u.aborted = q.aborted /\ u.value = q.value
  BY DEF Resolutions

\* What becomes of a request whose document changed.
GivenUp(r) ==
    \/ req[r].pc \in {"idle", "settled"} /\ req'[r] = req[r]
    \/ req[r].pc = "waiting" /\ req'[r] = [req[r] EXCEPT !.pc = "settled"]
    \/ req[r].pc \notin {"idle", "settled", "waiting"} /\ req'[r] = [req[r] EXCEPT !.aborted = TRUE]

\* What is left of a queue has the other requests, each of them once.
LEMMA QueueRemains ==
    ASSUME ItemTypes, QueueInv, NEW S, NEW rest \in Items!Remaining(S)
    PROVE  /\ rest \in Seq(Resolvers) /\ Len(rest) \in Nat
           /\ \A i, j \in 1 .. Len(rest) : rest[i] = rest[j] => i = j
           /\ \A i \in 1 .. Len(rest) : rest[i] \notin S /\ \E k \in 1 .. Len(queued) : queued[k] = rest[i]
           /\ \A k \in 1 .. Len(queued) : queued[k] \notin S => \E i \in 1 .. Len(rest) : rest[i] = queued[k]
  <1>1. /\ rest \in Items!BoundedSeq(Items!Elements(queued), Len(queued))
        /\ Items!Elements(rest) = Items!Elements(queued) \ S
        /\ \A i, j \in DOMAIN rest : i < j =>
              \E k, l \in DOMAIN queued : k < l /\ queued[k] = rest[i] /\ queued[l] = rest[j]
    BY DEF Items!Remaining
  <1>2. /\ Items!Elements(queued) = {queued[k] : k \in 1 .. Len(queued)}
        /\ Items!Elements(queued) \subseteq Resolvers
        /\ Len(queued) \in Nat /\ DOMAIN queued = 1 .. Len(queued)
    BY ElementsFacts DEF ItemTypes
  <1>3. PICK m \in 0 .. Len(queued) : rest \in [1 .. m -> Items!Elements(queued)]
    BY <1>1, <1>2 DEF Items!BoundedSeq, Items!SeqOf
  <1>4. m \in Nat /\ rest \in [1 .. m -> Resolvers]
    BY <1>2, <1>3
  <1>5. rest \in Seq(Resolvers) /\ Len(rest) = m /\ DOMAIN rest = 1 .. Len(rest)
    BY <1>4
  <1>6. Items!Elements(rest) = {rest[i] : i \in 1 .. Len(rest)}
    BY <1>5 DEF Items!Elements
  <1>7. ASSUME NEW i \in 1 .. Len(rest), NEW j \in 1 .. Len(rest), i < j, rest[i] = rest[j]
        PROVE  FALSE
    <2>1. PICK k \in 1 .. Len(queued), l \in 1 .. Len(queued) : k < l /\ queued[k] = queued[l]
      BY <1>1, <1>2, <1>5, <1>7
    <2>2. k \in Nat /\ l \in Nat /\ k # l
      BY <2>1
    <2> QED
      BY <2>1, <2>2 DEF QueueInv
  <1>8. ASSUME NEW i \in 1 .. Len(rest), NEW j \in 1 .. Len(rest), rest[i] = rest[j]
        PROVE  i = j
    <2>1. i \in Int /\ j \in Int
      BY <1>4, <1>5
    <2> QED
      BY <1>7, <1>8, <2>1
  <1>9. ASSUME NEW i \in 1 .. Len(rest)
        PROVE  rest[i] \notin S /\ \E k \in 1 .. Len(queued) : queued[k] = rest[i]
    <2>1. rest[i] \in Items!Elements(queued) \ S
      BY <1>1, <1>6
    <2> QED
      BY <1>2, <2>1
  <1>10. ASSUME NEW k \in 1 .. Len(queued), queued[k] \notin S
         PROVE  \E i \in 1 .. Len(rest) : rest[i] = queued[k]
    <2>1. queued[k] \in Items!Elements(rest)
      BY <1>1, <1>2, <1>10
    <2> QED
      BY <1>6, <2>1
  <1> QED
    BY <1>4, <1>5, <1>8, <1>9, <1>10

\* cancelDocument and clear: the requests leave the queue, and its job keeps its place.
LEMMA AbortedQueue ==
    ASSUME ItemTypes, QueueInv, NEW S, S \subseteq Items!Running, Items!Abort(S), UNCHANGED active,
           closed' => S = Items!Running
    PROVE  /\ QueueTypes /\ QueueInv'
           /\ \A r \in Resolvers : r \in S \/ r \notin Items!Running => GivenUp(r)
           /\ \A r \in Resolvers : r \notin S => req'[r] = req[r]
  <1>1. /\ req' = [r \in Resolvers |-> IF r \in S THEN Items!Aborted(r) ELSE req[r]]
        /\ queued' \in Items!Remaining(S)
        /\ counted' = counted - (Len(queued) - Len(queued'))
    BY DEF Items!Abort
  <1>2. \A r \in Resolvers : req[r] \in Resolutions
    BY DEF ItemTypes
  <1>3. /\ \A r \in Resolvers : r \in S \/ r \notin Items!Running => GivenUp(r)
        /\ \A r \in Resolvers : r \notin S => req'[r] = req[r]
    <2>1. ASSUME NEW r \in Resolvers, r \notin S PROVE req'[r] = req[r]
      BY <1>1, <2>1
    <2>2. ASSUME NEW r \in Resolvers, r \in S PROVE GivenUp(r)
      <3>1. req'[r] = Items!Aborted(r) /\ req[r].pc \notin {"idle", "settled"}
        BY <1>1, <2>2 DEF Items!Running
      <3> QED
        BY <3>1 DEF GivenUp, Items!Aborted, Items!Settled
    <2>3. ASSUME NEW r \in Resolvers, r \notin Items!Running PROVE GivenUp(r)
      <3>1. r \notin S /\ req[r].pc \in {"idle", "settled"}
        BY <2>3 DEF Items!Running
      <3> QED
        BY <2>1, <3>1 DEF GivenUp
    <2> QED
      BY <2>1, <2>2, <2>3
  <1>4. \A r \in Resolvers :
          /\ req'[r] \in Resolutions
          /\ req'[r].pc = "waiting" <=> req[r].pc = "waiting" /\ r \notin S
          /\ req'[r].pc \in {"starting", "working"} <=> req[r].pc \in {"starting", "working"}
          /\ r \in S /\ req'[r].pc \notin {"idle", "settled"} => req'[r].aborted
          /\ req'[r].pc \notin {"idle", "settled"} => r \in Items!Running
    <2> SUFFICES ASSUME NEW r \in Resolvers
                 PROVE  /\ req'[r] \in Resolutions
                        /\ req'[r].pc = "waiting" <=> req[r].pc = "waiting" /\ r \notin S
                        /\ req'[r].pc \in {"starting", "working"} <=> req[r].pc \in {"starting", "working"}
                        /\ r \in S /\ req'[r].pc \notin {"idle", "settled"} => req'[r].aborted
                        /\ req'[r].pc \notin {"idle", "settled"} => r \in Items!Running
      OBVIOUS
    <2>1. req[r] \in Resolutions
      BY <1>2
    <2>2. CASE r \notin S
      <3>1. req'[r] = req[r]
        BY <1>3, <2>2
      <3> QED
        BY <2>1, <2>2, <3>1 DEF Items!Running
    <2>3. CASE r \in S
      <3>1. GivenUp(r) /\ r \in Items!Running /\ req[r].pc \notin {"idle", "settled"}
        BY <1>3, <2>3 DEF Items!Running
      <3>2. CASE req[r].pc = "waiting" /\ req'[r] = [req[r] EXCEPT !.pc = "settled"]
        <4>1. req'[r] \in Resolutions /\ req'[r].pc = "settled"
          BY <2>1, <3>2 DEF Resolutions
        <4> QED
          BY <2>3, <3>2, <4>1
      <3>3. CASE req[r].pc \notin {"idle", "settled", "waiting"} /\ req'[r] = [req[r] EXCEPT !.aborted = TRUE]
        <4>1. req'[r] \in Resolutions /\ req'[r].pc = req[r].pc /\ req'[r].aborted
          BY <2>1, <3>3 DEF Resolutions
        <4> QED
          BY <3>1, <3>3, <4>1
      <3> QED
        BY <3>1, <3>2, <3>3 DEF GivenUp
    <2> QED
      BY <2>2, <2>3
  <1>5. req' \in [Resolvers -> Resolutions]
    BY <1>1, <1>4
  <1>6. /\ queued' \in Seq(Resolvers) /\ Len(queued') \in Nat
        /\ \A i, j \in 1 .. Len(queued') : queued'[i] = queued'[j] => i = j
        /\ \A i \in 1 .. Len(queued') : queued'[i] \notin S /\ \E k \in 1 .. Len(queued) : queued[k] = queued'[i]
        /\ \A k \in 1 .. Len(queued) : queued[k] \notin S => \E i \in 1 .. Len(queued') : queued'[i] = queued[k]
    BY <1>1, QueueRemains
  <1>7. QueueTypes
    <2>1. Len(queued) \in Nat
      BY DEF ItemTypes
    <2> QED
      BY <1>1, <1>5, <1>6, <2>1 DEF ItemTypes, QueueTypes
  <1>8. counted' = Len(queued') + (IF active' = "none" THEN 0 ELSE 1)
    <2>1. Len(queued) \in Nat /\ counted = Len(queued) + (IF active = "none" THEN 0 ELSE 1)
      BY DEF QueueInv, ItemTypes
    <2> QED
      BY <1>1, <1>6, <2>1
  <1>9. \A i \in 1 .. Len(queued') : req'[queued'[i]].pc = "waiting"
    <2> SUFFICES ASSUME NEW i \in 1 .. Len(queued') PROVE req'[queued'[i]].pc = "waiting"
      OBVIOUS
    <2>1. PICK k \in 1 .. Len(queued) : queued[k] = queued'[i]
      BY <1>6
    <2>2. queued'[i] \notin S /\ queued'[i] \in Resolvers /\ req[queued'[i]].pc = "waiting"
      BY <1>6, <2>1 DEF QueueInv, ItemTypes
    <2> QED
      BY <1>4, <2>2
  <1>10. \A r \in Resolvers : req'[r].pc = "waiting" => \E i \in 1 .. Len(queued') : queued'[i] = r
    <2> SUFFICES ASSUME NEW r \in Resolvers, req'[r].pc = "waiting"
                 PROVE  \E i \in 1 .. Len(queued') : queued'[i] = r
      OBVIOUS
    <2>1. req[r].pc = "waiting" /\ r \notin S
      BY <1>4
    <2>2. PICK k \in 1 .. Len(queued) : queued[k] = r
      BY <2>1 DEF QueueInv
    <2> QED
      BY <1>6, <2>1, <2>2
  <1>11. \A r \in Resolvers : req'[r].pc \in {"starting", "working"} <=> r = active'
    BY <1>4 DEF QueueInv
  <1>12. ASSUME active' = "none" \/ closed' PROVE queued' = <<>>
    <2>1. \A i \in 1 .. Len(queued') : FALSE
      <3> SUFFICES ASSUME NEW i \in 1 .. Len(queued') PROVE FALSE
        OBVIOUS
      <3>1. PICK k \in 1 .. Len(queued) : queued[k] = queued'[i]
        BY <1>6
      <3>2. queued[k] \notin S /\ queued[k] \in Resolvers /\ req[queued[k]].pc = "waiting"
        BY <1>6, <3>1 DEF QueueInv, ItemTypes
      <3>3. CASE active' = "none"
        <4>1. queued = <<>>
          BY <3>3 DEF QueueInv
        <4> QED
          BY <4>1
      <3>4. CASE closed'
        BY <3>2, <3>4 DEF Items!Running
      <3> QED
        BY <1>12, <3>3, <3>4
    <2>2. Len(queued') = 0
      BY <1>6, <2>1
    <2> QED
      BY <1>6, <2>2, EmptySeq
  <1>13. closed' => \A r \in Resolvers : req'[r].pc \notin {"idle", "settled"} => req'[r].aborted
    BY <1>4
  <1>14. QueueInv'
    BY <1>6, <1>8, <1>9, <1>10, <1>11, <1>12, <1>13 DEF QueueInv
  <1> QED
    BY <1>3, <1>7, <1>14

\* A request that neither waits nor has the worker changes by itself, or its job begins to work.
LEMMA OneChanged ==
    ASSUME ItemTypes, QueueInv, NEW r \in Resolvers, NEW item \in Resolutions,
           req' = [req EXCEPT ![r] = item],
           \/ /\ req[r].pc \notin {"waiting", "starting", "working"}
              /\ item.pc \notin {"waiting", "starting", "working"}
           \/ req[r].pc \in {"starting", "working"} /\ item.pc \in {"starting", "working"},
           closed /\ item.pc \notin {"idle", "settled"} => item.aborted,
           UNCHANGED <<active, queued, counted, closed>>
    PROVE  QueueTypes /\ QueueInv'
  <1>1. req' \in [Resolvers -> Resolutions] /\ req'[r] = item
        /\ \A k \in Resolvers : k # r => req'[k] = req[k]
    BY DEF ItemTypes
  <1>2. QueueTypes
    BY <1>1 DEF QueueTypes, ItemTypes
  <1>3. \A k \in Resolvers : /\ req'[k].pc = "waiting" <=> req[k].pc = "waiting"
                             /\ req'[k].pc \in {"starting", "working"} <=> req[k].pc \in {"starting", "working"}
    BY <1>1
  <1>4. closed' => \A k \in Resolvers : req'[k].pc \notin {"idle", "settled"} => req'[k].aborted
    BY <1>1 DEF QueueInv
  <1>5. \A i \in 1 .. Len(queued) : queued[i] \in Resolvers
    BY DEF ItemTypes
  <1> QED
    BY <1>2, <1>3, <1>4, <1>5 DEF QueueInv

\* run: the request is refused, or started, or waits.
LEMMA AdmittedQueue ==
    ASSUME ItemParameters, ItemTypes, QueueInv, ~closed, NEW r \in Resolvers, NEW item \in Resolutions,
           req[r].pc \in {"idle", "reading"}, Items!Admitted(r, item), UNCHANGED closed
    PROVE  /\ QueueTypes /\ QueueInv'
           /\ \E p \in {"settled", "starting", "waiting"} : req' = [req EXCEPT ![r] = [item EXCEPT !.pc = p]]
  <1>1. \A p \in {"settled", "starting", "waiting"} :
          [item EXCEPT !.pc = p] \in Resolutions /\ [item EXCEPT !.pc = p].pc = p
    BY DEF Resolutions
  <1>2. CASE counted >= MaxWaiting
    <2>1. req' = [req EXCEPT ![r] = [item EXCEPT !.pc = "settled"]] /\ UNCHANGED <<active, queued, counted>>
      BY <1>2 DEF Items!Admitted
    <2>2. QueueTypes /\ QueueInv'
      BY <1>1, <2>1, OneChanged
    <2> QED
      BY <2>1, <2>2
  <1>3. CASE ~(counted >= MaxWaiting) /\ active = "none"
    <2>1. /\ req' = [req EXCEPT ![r] = [item EXCEPT !.pc = "starting"]]
          /\ active' = r /\ queued' = queued /\ counted' = counted + 1
      BY <1>3 DEF Items!Admitted, Items!NoRequest
    <2>2. queued = <<>> /\ counted = 0 + 0 /\ Len(queued) = 0
      BY <1>3 DEF QueueInv
    <2>3. req' \in [Resolvers -> Resolutions] /\ req'[r].pc = "starting"
          /\ \A k \in Resolvers : k # r => req'[k] = req[k]
      BY <1>1, <2>1 DEF ItemTypes
    <2>4. QueueTypes
      BY <2>1, <2>2, <2>3 DEF QueueTypes, ItemTypes
    <2>5. \A k \in Resolvers : req[k].pc \notin {"starting", "working", "waiting"}
      BY <1>3, <2>2 DEF QueueInv, ItemParameters
    <2>6. active' # "none"
      BY <2>1 DEF ItemParameters
    <2>7. QueueInv'
      BY <2>1, <2>2, <2>3, <2>5, <2>6 DEF QueueInv
    <2> QED
      BY <2>1, <2>4, <2>7
  <1>4. CASE ~(counted >= MaxWaiting) /\ active # "none"
    <2>1. /\ req' = [req EXCEPT ![r] = [item EXCEPT !.pc = "waiting"]]
          /\ active' = active /\ queued' = Append(queued, r) /\ counted' = counted + 1
      BY <1>4 DEF Items!Admitted, Items!NoRequest
    <2>2. queued \in Seq(Resolvers) /\ Len(queued) \in Nat
      BY DEF ItemTypes
    <2>3. req' \in [Resolvers -> Resolutions] /\ req'[r].pc = "waiting"
          /\ \A k \in Resolvers : k # r => req'[k] = req[k]
      BY <1>1, <2>1 DEF ItemTypes
    <2>4. /\ queued' \in Seq(Resolvers) /\ Len(queued') = Len(queued) + 1
          /\ \A i \in 1 .. Len(queued) : queued'[i] = queued[i] /\ queued[i] \in Resolvers
          /\ queued'[Len(queued) + 1] = r
      BY <2>1, <2>2
    <2>5. QueueTypes
      BY <2>1, <2>3, <2>4 DEF QueueTypes, ItemTypes
    <2>6. \A i \in 1 .. Len(queued) : queued[i] # r
      BY DEF QueueInv
    <2>7. \A i, j \in 1 .. Len(queued') : queued'[i] = queued'[j] => i = j
      BY <2>2, <2>4, <2>6 DEF QueueInv
    <2>8. \A i \in 1 .. Len(queued') : req'[queued'[i]].pc = "waiting"
      BY <2>2, <2>3, <2>4, <2>6 DEF QueueInv
    <2>9. ASSUME NEW k \in Resolvers, req'[k].pc = "waiting"
          PROVE  \E i \in 1 .. Len(queued') : queued'[i] = k
      <3>1. CASE k = r
        BY <2>2, <2>4, <3>1
      <3>2. CASE k # r
        <4>1. PICK i \in 1 .. Len(queued) : queued[i] = k
          BY <2>3, <2>9, <3>2 DEF QueueInv
        <4> QED
          BY <2>2, <2>4, <4>1
      <3> QED
        BY <3>1, <3>2
    <2>10. \A k \in Resolvers : req'[k].pc \in {"starting", "working"} <=> k = active'
      BY <2>1, <2>3 DEF QueueInv
    <2>11. counted' = Len(queued') + (IF active' = "none" THEN 0 ELSE 1)
      BY <1>4, <2>1, <2>2, <2>4 DEF QueueInv
    <2>12. QueueInv'
      BY <1>4, <2>1, <2>7, <2>8, <2>9, <2>10, <2>11 DEF QueueInv
    <2> QED
      BY <2>1, <2>5, <2>12
  <1> QED
    BY <1>2, <1>3, <1>4

\* #next: the job that has the worker ends, and the first that waits is started.
LEMMA FinishedQueue ==
    ASSUME ItemParameters, ItemTypes, QueueInv, NEW r \in Resolvers, NEW item \in Resolutions,
           req[r].pc \in {"starting", "working"}, item.pc \in {"settled", "checking"},
           item.aborted = req[r].aborted, Items!Finished(r, item), UNCHANGED closed
    PROVE  /\ QueueTypes /\ QueueInv'
           /\ req'[r] = item
           /\ \A k \in Resolvers : \/ k = r
                                   \/ req'[k] = req[k]
                                   \/ req[k].pc = "waiting" /\ req'[k] = [req[k] EXCEPT !.pc = "starting"]
  <1>1. r = active /\ active # "none" /\ counted' = counted - 1
    BY DEF QueueInv, ItemParameters, Items!Finished
  <1>2. queued \in Seq(Resolvers) /\ Len(queued) \in Nat /\ counted = Len(queued) + 1
    BY <1>1 DEF ItemTypes, QueueInv
  <1>3. closed => item.pc = "settled" \/ item.aborted
    BY DEF QueueInv
  <1>4. CASE queued = <<>> \/ closed
    <2>1. queued = <<>> /\ Len(queued) = 0
      BY <1>4 DEF QueueInv
    <2>2. active' = "none" /\ req' = [req EXCEPT ![r] = item] /\ queued' = queued
      BY <1>4 DEF Items!Finished, Items!NoRequest
    <2>3. req' \in [Resolvers -> Resolutions] /\ req'[r] = item
          /\ \A k \in Resolvers : k # r => req'[k] = req[k]
      BY <2>2 DEF ItemTypes
    <2>4. QueueTypes
      BY <1>1, <1>2, <2>2, <2>3 DEF QueueTypes, ItemTypes
    <2>5. \A k \in Resolvers : req'[k].pc \notin {"starting", "working", "waiting"}
      BY <1>1, <2>1, <2>3 DEF QueueInv
    <2>6. closed' => \A k \in Resolvers : req'[k].pc \notin {"idle", "settled"} => req'[k].aborted
      BY <1>3, <2>3 DEF QueueInv
    <2>7. QueueInv'
      BY <1>1, <1>2, <2>1, <2>2, <2>5, <2>6 DEF QueueInv, ItemParameters
    <2> QED
      BY <2>3, <2>4, <2>7
  <1>5. CASE ~(queued = <<>> \/ closed)
    <2> DEFINE first == Head(queued)
    <2>1. /\ active' = first /\ queued' = Tail(queued)
          /\ req' = [req EXCEPT ![r] = item, ![first].pc = "starting"]
      BY <1>5 DEF Items!Finished
    <2>2. /\ first \in Resolvers /\ first = queued[1] /\ Len(queued) >= 1
          /\ queued' \in Seq(Resolvers) /\ Len(queued') = Len(queued) - 1
          /\ \A i \in 1 .. Len(queued') : queued'[i] = queued[i + 1]
          /\ \A i \in 1 .. Len(queued) : queued[i] \in Resolvers
      BY <1>2, <1>5, <2>1
    <2>3. req[first].pc = "waiting" /\ first # r
      BY <2>2 DEF QueueInv
    <2> HIDE DEF first
    <2>4. /\ req'[r] = item /\ req'[first] = [req[first] EXCEPT !.pc = "starting"]
          /\ \A k \in Resolvers : k # r /\ k # first => req'[k] = req[k]
      BY <2>1, <2>2, <2>3 DEF ItemTypes
    <2>5. \A k \in Resolvers : req'[k] \in Resolutions
      <3>1. req[first] \in Resolutions /\ \A k \in Resolvers : req[k] \in Resolutions
        BY <2>2 DEF ItemTypes
      <3>2. [req[first] EXCEPT !.pc = "starting"] \in Resolutions
        BY <3>1, PhaseUpdate
      <3> QED
        BY <2>4, <3>1, <3>2
    <2>6. req' \in [Resolvers -> Resolutions]
      BY <2>1, <2>5 DEF ItemTypes
    <2>7. QueueTypes
      <3>1. active' \in Resolvers /\ counted' \in Int
        BY <1>1, <1>2, <2>1, <2>2
      <3> QED
        BY <2>2, <2>6, <3>1 DEF QueueTypes
    <2>8. req'[first].pc = "starting"
      BY <2>2, <2>4 DEF ItemTypes, Resolutions
    <2>9. \A i, j \in 1 .. Len(queued') : queued'[i] = queued'[j] => i = j
      BY <1>2, <2>2 DEF QueueInv
    <2>10. \A i \in 1 .. Len(queued') : queued'[i] # first /\ req'[queued'[i]].pc = "waiting"
      <3> SUFFICES ASSUME NEW i \in 1 .. Len(queued')
                   PROVE  queued'[i] # first /\ req'[queued'[i]].pc = "waiting"
        OBVIOUS
      <3>1. i + 1 \in 1 .. Len(queued) /\ 1 \in 1 .. Len(queued) /\ i + 1 # 1
        BY <1>2, <2>2
      <3>2. queued'[i] # first
        BY <2>2, <3>1 DEF QueueInv
      <3>3. req[queued'[i]].pc = "waiting" /\ queued'[i] \in Resolvers
        BY <2>2, <3>1 DEF QueueInv
      <3> QED
        BY <2>4, <3>2, <3>3
    <2>11. ASSUME NEW k \in Resolvers, req'[k].pc = "waiting"
           PROVE  \E i \in 1 .. Len(queued') : queued'[i] = k
      <3>1. k # r /\ k # first
        BY <2>4, <2>8, <2>11
      <3>2. PICK i \in 1 .. Len(queued) : queued[i] = k
        BY <2>4, <2>11, <3>1 DEF QueueInv
      <3>3. i # 1
        BY <2>2, <3>1, <3>2
      <3> QED
        <4>1. i - 1 \in 1 .. Len(queued') /\ (i - 1) + 1 = i
          BY <1>2, <2>2, <3>2, <3>3
        <4>2. queued'[i - 1] = k
          BY <2>2, <3>2, <4>1
        <4> QED
          BY <4>1, <4>2
    <2>12. \A k \in Resolvers : req'[k].pc \in {"starting", "working"} <=> k = active'
      <3> SUFFICES ASSUME NEW k \in Resolvers
                   PROVE  req'[k].pc \in {"starting", "working"} <=> k = first
        BY <2>1
      <3>1. CASE k = r
        BY <2>3, <2>4, <3>1
      <3>2. CASE k = first
        BY <2>8, <3>2
      <3>3. CASE k # r /\ k # first
        <4>1. req[k].pc \in {"starting", "working"} <=> k = r
          BY <1>1 DEF QueueInv
        <4> QED
          BY <2>4, <3>3, <4>1
      <3> QED
        BY <3>1, <3>2, <3>3
    <2>13. active' # "none" /\ counted' = Len(queued') + 1
      BY <1>1, <1>2, <2>1, <2>2 DEF ItemParameters
    <2>14. QueueInv'
      BY <1>5, <2>9, <2>10, <2>11, <2>12, <2>13 DEF QueueInv
    <2> QED
      BY <2>3, <2>4, <2>7, <2>14
  <1> QED
    BY <1>4, <1>5

-----------------------------------------------------------------------------
(* The requests                                                             *)

\* The handles there were stand for what they stood for.
Kept ==
    /\ Len(issued) <= Len(issued')
    /\ \A h \in 1 .. Len(issued) :
          /\ issued'[h].doc = issued[h].doc /\ issued'[h].kind = issued[h].kind
          /\ issued'[h].content = issued[h].content /\ issued'[h].disk = issued[h].disk

\* No open document changes.
OpenKept == \A d \in Docs : doc[d].open => doc'[d] = doc[d]

\* Records go, and nothing else of a handle does.
LEMMA MarkedIsKept ==
    ASSUME ItemTypes, NEW K, Marked(K) PROVE Kept
  BY DEF Marked, Kept, ItemTypes

\* Where the numbers of handles are.
LEMMA HandleRange ==
    ASSUME ItemTypes
    PROVE  /\ Len(issued) \in Nat
           /\ \A h \in 1 .. Len(issued) : issued[h] \in ListedItems /\ issued[h].doc \in Docs
  <1>1. Len(issued) \in Nat /\ \A h \in 1 .. Len(issued) : issued[h] \in ListedItems
    BY DEF ItemTypes
  <1> QED
    BY <1>1 DEF ListedItems

\* What a handle fits, it fits as long as no open document changes.
LEMMA StillFits ==
    ASSUME ItemTypes, Kept, OpenKept, NEW h \in 1 .. Len(issued), NEW content, Fits(h, content)
    PROVE  Fits(h, content)'
  <1>1. issued[h].doc \in Docs
    BY HandleRange
  <1> QED
    BY <1>1 DEF Fits, Kept, OpenKept

\* A request that does not change stays as it must be.
LEMMA StillOk ==
    ASSUME ItemTypes, Kept, issued' \in Seq(ListedItems), OpenKept, NEW q, ResolutionOk(q)
    PROVE  ResolutionOk(q)'
  <1>1. Len(issued) \in Nat /\ Len(issued') \in Nat
    BY DEF ItemTypes
  <1>2. CASE q.pc = "idle"
    BY <1>2 DEF ResolutionOk
  <1>3. CASE q.pc # "idle"
    <2>1. q.handle \in 1 .. Len(issued) /\ q.handle \in 1 .. Len(issued')
      BY <1>1, <1>3 DEF ResolutionOk, Kept
    <2>2. /\ issued'[q.handle].kind = issued[q.handle].kind
          /\ issued'[q.handle].disk = issued[q.handle].disk
          /\ issued'[q.handle].content = issued[q.handle].content
      BY <2>1 DEF Kept
    <2>3. Fits(q.handle, q.content) => Fits(q.handle, q.content)'
      BY <2>1, StillFits
    <2> QED
      BY <1>3, <2>1, <2>2, <2>3 DEF ResolutionOk
  <1> QED
    BY <1>2, <1>3

\* So does one whose document does not change, whatever the others do.
LEMMA UntouchedOk ==
    ASSUME ItemTypes, Kept, issued' \in Seq(ListedItems), NEW q, ResolutionOk(q),
           q.pc # "idle" => doc'[issued[q.handle].doc] = doc[issued[q.handle].doc]
    PROVE  ResolutionOk(q)'
  <1>1. Len(issued) \in Nat /\ Len(issued') \in Nat
    BY DEF ItemTypes
  <1>2. CASE q.pc = "idle"
    BY <1>2 DEF ResolutionOk
  <1>3. CASE q.pc # "idle"
    <2>1. q.handle \in 1 .. Len(issued) /\ q.handle \in 1 .. Len(issued')
      BY <1>1, <1>3 DEF ResolutionOk, Kept
    <2>2. /\ issued'[q.handle].kind = issued[q.handle].kind
          /\ issued'[q.handle].disk = issued[q.handle].disk
          /\ issued'[q.handle].content = issued[q.handle].content
          /\ issued'[q.handle].doc = issued[q.handle].doc
      BY <2>1 DEF Kept
    <2>3. Fits(q.handle, q.content) => Fits(q.handle, q.content)'
      BY <1>3, <2>2 DEF Fits
    <2> QED
      BY <1>3, <2>1, <2>2, <2>3 DEF ResolutionOk
  <1> QED
    BY <1>2, <1>3

\* A request that waits may be started.
LEMMA StartedOk ==
    ASSUME NEW q \in Resolutions, q.pc = "waiting", ResolutionOk(q)
    PROVE  ResolutionOk([q EXCEPT !.pc = "starting"])
  <1>1. LET u == [q EXCEPT !.pc = "starting"]
        IN  /\ u.pc = "starting" /\ u.handle = q.handle
            /\ u.content = q.content /\ u.aborted = q.aborted /\ u.value = q.value
    BY DEF Resolutions
  <1> QED
    BY <1>1 DEF ResolutionOk

\* Whatever becomes of the documents, an aborted request is as it must be.
LEMMA GivenUpOk ==
    ASSUME ItemTypes, ResolutionInv, Kept, issued' \in Seq(ListedItems), NEW r \in Resolvers, GivenUp(r)
    PROVE  /\ ResolutionOk(req[r])'
           /\ req'[r].pc = "settled" /\ req[r].pc # "settled" => req'[r].value = 0
  <1>1. Len(issued) \in Nat /\ Len(issued') \in Nat
    BY DEF ItemTypes
  <1>2. req[r] \in Resolutions /\ ResolutionOk(req[r])
    BY DEF ItemTypes, ResolutionInv
  <1>3. req[r].pc # "idle" =>
          /\ req[r].handle \in 1 .. Len(issued')
          /\ issued'[req[r].handle].kind = issued[req[r].handle].kind
          /\ issued'[req[r].handle].disk = issued[req[r].handle].disk
          /\ issued'[req[r].handle].content = issued[req[r].handle].content
    BY <1>1, <1>2 DEF ResolutionOk, Kept
  <1>4. CASE req[r].pc \in {"idle", "settled"} /\ req'[r] = req[r]
    BY <1>2, <1>3, <1>4 DEF ResolutionOk
  <1>5. CASE req[r].pc = "waiting" /\ req'[r] = [req[r] EXCEPT !.pc = "settled"]
    <2>1. req'[r].pc = "settled" /\ req'[r].handle = req[r].handle /\ req'[r].value = req[r].value
      BY <1>2, <1>5 DEF Resolutions
    <2> QED
      BY <1>2, <1>3, <1>5, <2>1 DEF ResolutionOk
  <1>6. CASE req[r].pc \notin {"idle", "settled", "waiting"} /\ req'[r] = [req[r] EXCEPT !.aborted = TRUE]
    <2>1. /\ req'[r].pc = req[r].pc /\ req'[r].handle = req[r].handle /\ req'[r].value = req[r].value
          /\ req'[r].aborted /\ req'[r].content = req[r].content
      BY <1>2, <1>6 DEF Resolutions
    <2> QED
      BY <1>2, <1>3, <1>6, <2>1 DEF ResolutionOk
  <1> QED
    BY <1>4, <1>5, <1>6 DEF GivenUp

\* A record that is left is of a document that did not change.
LEMMA MarkedHandles ==
    ASSUME ItemTypes, HandleInv, NEW K, Marked(K),
           \A h \in 1 .. Len(issued) : h \notin K /\ doc[issued[h].doc].open =>
               doc'[issued[h].doc] = doc[issued[h].doc]
    PROVE  HandleInv'
  <1> SUFFICES ASSUME NEW h \in 1 .. Len(issued')
               PROVE  /\ issued'[h].kind = "action" => ~issued'[h].disk
                      /\ issued'[h].record /\ ~issued'[h].disk =>
                            Fits(h, issued[h].content)' /\ doc'[issued'[h].doc].version = issued'[h].version
    BY DEF HandleInv
  <1>1. h \in 1 .. Len(issued)
    BY DEF Marked
  <1>2. /\ issued[h].kind = "action" => ~issued[h].disk
        /\ issued[h].record /\ ~issued[h].disk =>
              Fits(h, issued[h].content) /\ doc[issued[h].doc].version = issued[h].version
    BY <1>1 DEF HandleInv
  <1>3. /\ issued'[h].doc = issued[h].doc /\ issued'[h].kind = issued[h].kind
        /\ issued'[h].version = issued[h].version /\ issued'[h].content = issued[h].content
        /\ issued'[h].disk = issued[h].disk
        /\ issued'[h].record <=> issued[h].record /\ h \notin K
    BY <1>1 DEF Marked
  <1> QED
    BY <1>1, <1>2, <1>3 DEF Fits

\* Details are only given where a request is settled with a value.
LEMMA NoDetails ==
    ASSUME \A r \in Resolvers : req'[r].pc = "settled" /\ req[r].pc # "settled" => req'[r].value = 0
    PROVE  Items!DetailsFitTheirText
  BY DEF Items!DetailsFitTheirText

\* A step in which one request goes on, and perhaps the next is started.
LEMMA RequestStep ==
    ASSUME ItemInv, NEW r \in Resolvers, QueueTypes, QueueInv',
           NEW K, Marked(K), BytesInv', recordBytes' \in Int, UNCHANGED <<doc, store, closed, edits>>,
           \A k \in Resolvers : \/ k = r
                                \/ req'[k] = req[k]
                                \/ req[k].pc = "waiting" /\ req'[k] = [req[k] EXCEPT !.pc = "starting"],
           ResolutionOk(req[r])'
    PROVE  /\ ItemInv'
           /\ (req'[r].pc = "settled" => req'[r].value = 0) => Items!DetailsFitTheirText
  <1>1. Kept /\ OpenKept /\ issued' \in Seq(ListedItems)
    BY MarkedIsKept DEF ItemInv, OpenKept, Marked
  <1>2. ItemTypes'
    BY <1>1 DEF ItemInv, ItemTypes, QueueTypes
  <1>3. HandleInv'
    BY MarkedHandles DEF ItemInv
  <1>4. StoreInv'
    BY MarkedStores DEF ItemInv
  <1>5. ASSUME NEW k \in Resolvers, k # r
        PROVE  /\ ResolutionOk(req[k])'
               /\ req'[k].pc = "settled" => req[k].pc = "settled"
    <2>1. req[k] \in Resolutions /\ ResolutionOk(req[k])
      BY DEF ItemInv, ItemTypes, ResolutionInv
    <2>2. CASE req'[k] = req[k]
      <3>1. PICK q : q = req[k]
        OBVIOUS
      <3>2. ResolutionOk(q)'
        BY <1>1, <2>1, <3>1, StillOk DEF ItemInv
      <3>3. req'[k] = q
        BY <2>2, <3>1
      <3> QED
        BY <2>2, <3>2, <3>3
    <2>3. CASE req[k].pc = "waiting" /\ req'[k] = [req[k] EXCEPT !.pc = "starting"]
      <3>1. PICK q : q = [req[k] EXCEPT !.pc = "starting"]
        OBVIOUS
      <3>2. ResolutionOk(q)
        BY <2>1, <2>3, <3>1, StartedOk
      <3>3. ResolutionOk(q)'
        BY <1>1, <3>2, StillOk DEF ItemInv
      <3>4. req'[k] = q /\ q.pc = "starting"
        BY <2>1, <2>3, <3>1 DEF Resolutions
      <3> QED
        BY <3>3, <3>4
    <2> QED
      BY <1>5, <2>2, <2>3
  <1>6. ResolutionInv'
    BY <1>5 DEF ResolutionInv
  <1>7. (req'[r].pc = "settled" => req'[r].value = 0) => Items!DetailsFitTheirText
    BY <1>5, NoDetails
  <1> QED
    BY <1>2, <1>3, <1>4, <1>6, <1>7 DEF ItemInv

-----------------------------------------------------------------------------
(* The actions                                                              *)

\* A change of a document aborts its requests and those for files, and forgets its handles.
LEMMA ItemEdited ==
    ASSUME ItemParameters, ItemInv, NEW d \in Docs, NEW open \in BOOLEAN, NEW version \in Nat,
           Items!Edited(d, open, version), Items!Forget(Items!Of(d)), Items!Abort(Items!Outdated(d)),
           UNCHANGED <<store, active, closed>>
    PROVE  ItemInv' /\ Items!DetailsFitTheirText
  <1> USE DEF ItemInv
  <1>1. /\ edits' = edits + 1
        /\ doc' = [doc EXCEPT ![d] = [open |-> open, version |-> version, content |-> edits + 2]]
    BY DEF Items!Edited
  <1>2. PICK K : K = Items!Of(d)
    OBVIOUS
  <1>3. Marked(K) /\ BytesInv' /\ recordBytes' \in Int
    BY <1>2, ForgottenBytes
  <1> DEFINE S == Items!Outdated(d)
  <1>4. /\ QueueTypes /\ QueueInv'
        /\ \A r \in Resolvers : r \in S \/ r \notin Items!Running => GivenUp(r)
        /\ \A r \in Resolvers : r \notin S => req'[r] = req[r]
    <2>1. S \subseteq Items!Running /\ ~closed'
      BY DEF Items!Outdated, Items!Edited
    <2> QED
      BY <2>1, AbortedQueue
  <1>5. doc' \in [Docs -> [open : BOOLEAN, version : Nat, content : Nat]] /\ edits' \in Nat
    BY <1>1 DEF ItemTypes
  <1>6. ItemTypes'
    BY <1>3, <1>4, <1>5 DEF ItemTypes, QueueTypes, Marked
  <1>7. ASSUME NEW h \in 1 .. Len(issued), h \notin K
        PROVE  doc'[issued[h].doc] = doc[issued[h].doc]
    <2>1. issued[h].doc # d /\ issued[h].doc \in Docs
      BY <1>2, <1>7, HandleRange DEF Items!Of, Items!Handles
    <2> QED
      BY <1>1, <2>1 DEF ItemTypes
  <1>8. HandleInv'
    BY <1>3, <1>7, MarkedHandles
  <1>9. StoreInv'
    BY <1>3, MarkedStores
  <1>10. Kept /\ issued' \in Seq(ListedItems)
    BY <1>3, MarkedIsKept DEF Marked
  <1>11. ASSUME NEW r \in Resolvers
         PROVE  /\ ResolutionOk(req[r])'
                /\ req'[r].pc = "settled" /\ req[r].pc # "settled" => req'[r].value = 0
    <2>1. CASE r \in S \/ r \notin Items!Running
      BY <1>4, <1>10, <2>1, GivenUpOk
    <2>2. CASE r \notin S /\ r \in Items!Running
      <3>1. req'[r] = req[r]
        BY <1>4, <2>2
      <3>2. PICK q : q = req[r]
        OBVIOUS
      <3>3. ResolutionOk(q) /\ q.pc # "idle" /\ issued[q.handle].doc # d
        BY <2>2, <3>2 DEF ResolutionInv, Items!Running, Items!Outdated
      <3>4. q.handle \in 1 .. Len(issued)
        BY <3>3 DEF ResolutionOk
      <3>5. doc'[issued[q.handle].doc] = doc[issued[q.handle].doc]
        BY <1>1, <3>3, <3>4, HandleRange DEF ItemTypes
      <3>6. ResolutionOk(q)'
        BY <1>10, <3>3, <3>5, UntouchedOk
      <3>7. req'[r] = q
        BY <3>1, <3>2
      <3> QED
        BY <3>1, <3>6, <3>7
    <2> QED
      BY <2>1, <2>2
  <1>12. ResolutionInv' /\ Items!DetailsFitTheirText
    BY <1>11, NoDetails DEF ResolutionInv
  <1> QED
    BY <1>3, <1>4, <1>6, <1>8, <1>9, <1>12

\* onDidOpen and onDidChangeContent.
LEMMA ItemDidChange ==
    ASSUME ItemParameters, ItemInv, NEW d \in Docs, Items!DidChange(d)
    PROVE  ItemInv' /\ Items!DetailsFitTheirText
  <1>1. doc[d].version + 1 \in Nat
    BY DEF ItemInv, ItemTypes
  <1> QED
    BY <1>1, ItemEdited DEF Items!DidChange

\* onDidClose.
LEMMA ItemDidClose ==
    ASSUME ItemParameters, ItemInv, NEW d \in Docs, Items!DidClose(d)
    PROVE  ItemInv' /\ Items!DetailsFitTheirText
  BY ItemEdited DEF Items!DidClose

\* A file that is not open is written: no handle of an open document is of it.
LEMMA ItemDiskWritten ==
    ASSUME ItemInv, NEW d \in Docs, Items!DiskWritten(d)
    PROVE  ItemInv' /\ Items!DetailsFitTheirText
  <1> USE DEF ItemInv
  <1>1. /\ edits' = edits + 1 /\ ~doc[d].open
        /\ doc' = [doc EXCEPT ![d] = [open |-> FALSE, version |-> 0, content |-> edits + 2]]
        /\ UNCHANGED <<issued, recordBytes, store, req, active, queued, counted, closed>>
    BY DEF Items!DiskWritten, Items!Edited
  <1>2. OpenKept
    BY <1>1 DEF OpenKept, ItemTypes
  <1>3. Marked({}) /\ Kept /\ issued' \in Seq(ListedItems)
    <2>1. Marked({})
      BY <1>1, NoneIsMarked
    <2>2. Kept
      BY <2>1, MarkedIsKept
    <2> QED
      BY <1>1, <2>1, <2>2 DEF ItemTypes
  <1>4. ItemTypes'
    BY <1>1 DEF ItemTypes
  <1>5. HandleInv'
    <2>1. \A h \in 1 .. Len(issued) : doc[issued[h].doc].open => doc'[issued[h].doc] = doc[issued[h].doc]
      BY <1>2, HandleRange DEF OpenKept
    <2> QED
      BY <1>3, <2>1, MarkedHandles
  <1>6. StoreInv' /\ QueueInv'
    <2>1. QueueInv'
      BY <1>1 DEF QueueInv
    <2>2. StoreInv'
      BY <1>1, <1>3, MarkedStores
    <2> QED
      BY <2>1, <2>2
  <1>7. BytesInv'
    BY <1>1, <1>3, OtherBytes
  <1>8. ResolutionInv'
    <2> SUFFICES ASSUME NEW r \in Resolvers PROVE ResolutionOk(req[r])'
      BY DEF ResolutionInv
    <2>1. PICK q : q = req[r]
      OBVIOUS
    <2>2. ResolutionOk(q)'
      BY <1>2, <1>3, <2>1, StillOk DEF ResolutionInv
    <2> QED
      BY <1>1, <2>1, <2>2
  <1>9. Items!DetailsFitTheirText
    BY <1>1, NoDetails
  <1> QED
    BY <1>4, <1>5, <1>6, <1>7, <1>8, <1>9

\* onShutdown: no handle and no queue is left.
LEMMA ItemShutdown ==
    ASSUME ItemParameters, ItemInv, Items!Shutdown
    PROVE  ItemInv' /\ Items!DetailsFitTheirText
  <1> USE DEF ItemInv
  <1>1. /\ closed' = TRUE /\ recordBytes' = 0 /\ UNCHANGED <<doc, active, edits>>
        /\ store' = [completions |-> <<>>, actions |-> <<>>]
        /\ issued' = [h \in Items!Handles |-> [issued[h] EXCEPT !.record = FALSE]]
        /\ Items!Abort(Items!Running)
    BY DEF Items!Shutdown, Items!Cleared
  <1>2. QueueTypes /\ QueueInv' /\ \A r \in Resolvers : GivenUp(r)
    <2>1. \A r \in Resolvers : r \in Items!Running \/ r \notin Items!Running
      OBVIOUS
    <2> QED
      BY <1>1, <2>1, AbortedQueue
  <1>3. PICK K : K = Items!Handles
    OBVIOUS
  <1>4. Items!Handles = 1 .. Len(issued)
    BY DEF Items!Handles
  <1>5. issued' = [h \in Items!Handles |-> [issued[h] EXCEPT !.record = @ /\ h \notin K]]
    <2>1. \A h \in Items!Handles : [issued[h] EXCEPT !.record = FALSE] = [issued[h] EXCEPT !.record = @ /\ h \notin K]
      <3> SUFFICES ASSUME NEW h \in Items!Handles
                   PROVE  [issued[h] EXCEPT !.record = FALSE] = [issued[h] EXCEPT !.record = @ /\ h \notin K]
        OBVIOUS
      <3>1. (issued[h].record /\ h \notin K) = FALSE
        BY <1>3
      <3> QED
        BY <3>1
    <2> QED
      BY <1>1, <2>1, Zenon
  <1>6. Marked(K)
    BY <1>5, ForgottenAreMarked
  <1>7. store'.actions = <<>> /\ store'.completions = <<>> /\ Len(store'.actions) = 0 /\ Len(store'.completions) = 0
        /\ store' \in [completions : Seq(Nat), actions : Seq(Nat)]
    BY <1>1
  <1>8. ItemTypes'
    <2>1. issued' \in Seq(ListedItems)
      BY <1>6 DEF Marked
    <2>2. /\ doc' \in [Docs -> [open : BOOLEAN, version : Nat, content : Nat]]
          /\ recordBytes' \in Int /\ closed' \in BOOLEAN /\ edits' \in Nat
      BY <1>1 DEF ItemTypes
    <2> QED
      BY <1>2, <1>7, <2>1, <2>2, Zenon DEF ItemTypes, QueueTypes
  <1>9. HandleInv'
    BY <1>1, <1>6, MarkedHandles
  <1>10. StoreInv'
    <2>1. \A i \in 1 .. 0 : FALSE
      OBVIOUS
    <2> QED
      BY <1>7, <2>1, Zenon DEF StoreInv
  <1>11. BytesInv'
    <2>1. Items!Elements(store.actions)' = {}
      BY <1>7 DEF Items!Elements
    <2>2. (Items!RecordBytes(Items!Elements(store.actions)))' = {}
      BY <2>1 DEF Items!RecordBytes
    <2>3. (Items!ActiveBytes(Items!Elements(store.actions)))' = Cardinality({})
      BY <2>2, SameItemCardinality DEF Items!ActiveBytes
    <2> QED
      BY <1>1, <2>3, FS_EmptySet DEF BytesInv
  <1>12. Kept /\ issued' \in Seq(ListedItems)
    BY <1>6, MarkedIsKept DEF Marked
  <1>13. ResolutionInv' /\ Items!DetailsFitTheirText
    BY <1>2, <1>12, GivenUpOk, NoDetails DEF ResolutionInv
  <1> QED
    BY <1>2, <1>8, <1>9, <1>10, <1>11, <1>13

-----------------------------------------------------------------------------
(* The requests go on                                                       *)

\* The same where it is said what becomes of the request.
LEMMA RequestBecomes ==
    ASSUME ItemInv, NEW r \in Resolvers, QueueTypes, QueueInv',
           NEW K, Marked(K), BytesInv', recordBytes' \in Int, UNCHANGED <<doc, store, closed, edits>>,
           \A k \in Resolvers : \/ k = r
                                \/ req'[k] = req[k]
                                \/ req[k].pc = "waiting" /\ req'[k] = [req[k] EXCEPT !.pc = "starting"],
           NEW q, req'[r] = q, ResolutionOk(q)
    PROVE  /\ ItemInv'
           /\ (q.pc = "settled" => q.value = 0) => Items!DetailsFitTheirText
           /\ \A k \in Resolvers \ {r} : req'[k].pc = "settled" => req[k].pc = "settled"
  <1>1. Kept /\ OpenKept /\ issued' \in Seq(ListedItems)
    BY MarkedIsKept DEF ItemInv, OpenKept, Marked
  <1>2. ResolutionOk(q)'
    BY <1>1, StillOk DEF ItemInv
  <1>3. ResolutionOk(req[r])'
    BY <1>2
  <1>4. ASSUME NEW k \in Resolvers \ {r}, req'[k].pc = "settled"
        PROVE  req[k].pc = "settled"
    <2>1. req[k] \in Resolutions
      BY DEF ItemInv, ItemTypes
    <2>2. [req[k] EXCEPT !.pc = "starting"].pc = "starting"
      BY <2>1 DEF Resolutions
    <2> QED
      BY <1>4, <2>2
  <1> QED
    BY <1>3, <1>4, RequestStep

\* A step of one request that leaves the queue and the handles alone.
LEMMA RequestAlone ==
    ASSUME ItemInv, NEW r \in Resolvers, NEW q \in Resolutions, ResolutionOk(q),
           req' = [req EXCEPT ![r] = q],
           \/ /\ req[r].pc \notin {"waiting", "starting", "working"}
              /\ q.pc \notin {"waiting", "starting", "working"}
           \/ req[r].pc \in {"starting", "working"} /\ q.pc \in {"starting", "working"},
           closed /\ q.pc \notin {"idle", "settled"} => q.aborted,
           UNCHANGED <<doc, issued, store, recordBytes, active, queued, counted, closed, edits>>
    PROVE  /\ ItemInv'
           /\ (q.pc = "settled" => q.value = 0) => Items!DetailsFitTheirText
           /\ \A k \in Resolvers \ {r} : req'[k].pc = "settled" => req[k].pc = "settled"
  <1>1. QueueTypes /\ QueueInv'
    BY OneChanged DEF ItemInv
  <1>2. Marked({})
    BY NoneIsMarked DEF ItemInv
  <1>3. BytesInv' /\ recordBytes' \in Int
    BY <1>2, OtherBytes DEF ItemInv, ItemTypes
  <1>4. req'[r] = q /\ \A k \in Resolvers : k = r \/ req'[k] = req[k]
    BY DEF ItemInv, ItemTypes
  <1> QED
    BY <1>1, <1>2, <1>3, <1>4, RequestBecomes

\* What a request knows when it begins.
LEMMA BegunFacts ==
    ASSUME ItemTypes, NEW h \in 1 .. Len(issued), NEW item,
           item = [Items!Idle EXCEPT !.handle = h, !.version = doc[issued[h].doc].version,
                                     !.content = Items!Content(issued[h].doc)]
    PROVE  /\ item \in Resolutions
           /\ item.pc = "idle" /\ item.handle = h /\ item.version = doc[issued[h].doc].version
           /\ item.content = doc[issued[h].doc].content /\ ~item.aborted /\ item.value = 0
  <1>1. issued[h].doc \in Docs /\ h \in Nat
    BY HandleRange
  <1>2. doc[issued[h].doc].version \in Nat /\ doc[issued[h].doc].content \in Nat
    BY <1>1 DEF ItemTypes
  <1> QED
    BY <1>1, <1>2 DEF Items!Idle, Items!Content, Resolutions

\* onCompletionResolve.
LEMMA ItemResolveCompletion ==
    ASSUME ItemParameters, ItemInv, NEW r \in Resolvers, NEW h \in 1 .. Len(issued),
           Items!ResolveCompletion(r, h)
    PROVE  ItemInv' /\ Items!DetailsFitTheirText
  <1> DEFINE d == issued[h].doc
  <1>1. PICK item : item = [Items!Idle EXCEPT !.handle = h, !.version = doc[issued[h].doc].version,
                                              !.content = Items!Content(issued[h].doc)]
    OBVIOUS
  <1>2. /\ ~closed /\ req[r].pc = "idle" /\ issued[h].kind = "completion"
        /\ UNCHANGED <<doc, store, recordBytes, closed, edits>>
    BY DEF Items!ResolveCompletion
  <1>3. /\ item \in Resolutions
        /\ item.pc = "idle" /\ item.handle = h /\ item.version = doc[issued[h].doc].version
        /\ item.content = doc[issued[h].doc].content /\ ~item.aborted /\ item.value = 0
    BY <1>1, BegunFacts DEF ItemInv
  <1>4. \A p \in {"reading", "waiting", "starting", "settled"} :
          LET u == [item EXCEPT !.pc = p]
          IN  /\ u \in Resolutions /\ u.pc = p /\ u.handle = h /\ u.content = doc[issued[h].doc].content
              /\ ~u.aborted /\ u.value = 0
    BY <1>3 DEF Resolutions
  <1>5. CASE ~Items!Find(h) \/ ~Items!Holds(h)
    <2>1. /\ issued' = [issued EXCEPT ![h].record = FALSE]
          /\ req' = [req EXCEPT ![r] = [item EXCEPT !.pc = "settled"]]
          /\ UNCHANGED <<active, queued, counted>>
      BY <1>1, <1>5 DEF Items!ResolveCompletion
    <2>2. PICK q : q = [item EXCEPT !.pc = "settled"]
      OBVIOUS
    <2>3. q \in Resolutions /\ q.pc = "settled" /\ q.handle = h /\ q.value = 0
      BY <1>4, <2>2
    <2>4. ResolutionOk(q)
      BY <2>3 DEF ResolutionOk
    <2>5. QueueTypes /\ QueueInv'
      BY <1>2, <2>1, <2>2, <2>3, OneChanged DEF ItemInv
    <2>6. issued' = [issued EXCEPT ![h].record = @ /\ FALSE]
      BY <2>1
    <2>7. Marked({h})
      BY <2>6, OneIsMarked DEF ItemInv
    <2>8. {h} \cap Items!Elements(store.actions) = {}
      BY <1>2, ActionHandles DEF ItemInv
    <2>9. BytesInv' /\ recordBytes' \in Int
      BY <1>2, <2>7, <2>8, OtherBytes DEF ItemInv, ItemTypes
    <2>10. req'[r] = q /\ \A k \in Resolvers : k = r \/ req'[k] = req[k]
      BY <2>1, <2>2 DEF ItemInv, ItemTypes
    <2> QED
      BY <1>2, <2>3, <2>4, <2>5, <2>7, <2>9, <2>10, RequestBecomes
  <1>6. CASE Items!Find(h) /\ Items!Holds(h) /\ issued[h].disk
    <2>1. /\ req' = [req EXCEPT ![r] = [item EXCEPT !.pc = "reading"]]
          /\ UNCHANGED <<issued, active, queued, counted>>
      BY <1>1, <1>6 DEF Items!ResolveCompletion
    <2>2. PICK q : q = [item EXCEPT !.pc = "reading"]
      OBVIOUS
    <2>3. q \in Resolutions /\ q.pc = "reading" /\ q.handle = h /\ q.value = 0 /\ ~q.aborted
      BY <1>4, <2>2
    <2>4. ResolutionOk(q)
      BY <1>2, <1>6, <2>3 DEF ResolutionOk
    <2> QED
      BY <1>2, <2>1, <2>2, <2>3, <2>4, RequestAlone
  <1>7. CASE Items!Find(h) /\ Items!Holds(h) /\ ~issued[h].disk
    <2>1. Items!Admitted(r, item) /\ UNCHANGED issued
      BY <1>1, <1>7 DEF Items!ResolveCompletion
    <2>2. Fits(h, doc[issued[h].doc].content)
      <3>1. issued[h].record
        BY <1>7 DEF Items!Find
      <3> QED
        BY <1>7, <3>1 DEF ItemInv, HandleInv, Fits
    <2>3. QueueTypes /\ QueueInv'
          /\ \E p \in {"settled", "starting", "waiting"} : req' = [req EXCEPT ![r] = [item EXCEPT !.pc = p]]
      BY <1>2, <1>3, <2>1, AdmittedQueue DEF ItemInv
    <2>4. PICK p \in {"settled", "starting", "waiting"} : req' = [req EXCEPT ![r] = [item EXCEPT !.pc = p]]
      BY <2>3
    <2>5. PICK q : q = [item EXCEPT !.pc = p]
      OBVIOUS
    <2>6. /\ q \in Resolutions /\ q.pc = p /\ q.handle = h /\ q.value = 0 /\ ~q.aborted
          /\ q.content = doc[issued[h].doc].content
      BY <1>4, <2>5
    <2>7. ResolutionOk(q)
      BY <1>2, <1>7, <2>2, <2>6 DEF ResolutionOk
    <2>8. Marked({})
      BY <2>1, NoneIsMarked DEF ItemInv
    <2>9. BytesInv' /\ recordBytes' \in Int
      BY <1>2, <2>8, OtherBytes DEF ItemInv, ItemTypes
    <2>10. req'[r] = q /\ \A k \in Resolvers : k = r \/ req'[k] = req[k]
      BY <2>4, <2>5 DEF ItemInv, ItemTypes
    <2> QED
      BY <1>2, <2>3, <2>6, <2>7, <2>8, <2>9, <2>10, RequestBecomes
  <1> QED
    BY <1>5, <1>6, <1>7

\* diskSourceValue.
LEMMA ItemReadDisk ==
    ASSUME ItemParameters, ItemInv, NEW r \in Resolvers, Items!ReadDisk(r)
    PROVE  ItemInv' /\ Items!DetailsFitTheirText
  <1> DEFINE h == req[r].handle
             d == issued[h].doc
  <1>1. req[r].pc = "reading" /\ UNCHANGED <<doc, issued, store, recordBytes, closed, edits>>
    BY DEF Items!ReadDisk
  <1>2. /\ req[r] \in Resolutions /\ h \in 1 .. Len(issued) /\ issued[h].kind = "completion"
        /\ issued[h].disk /\ req[r].value = 0
    BY <1>1 DEF ItemInv, ItemTypes, ResolutionInv, ResolutionOk
  <1>3. CASE req[r].aborted \/ doc[d].open
    <2>1. req' = [req EXCEPT ![r] = Items!Settled(r)] /\ UNCHANGED <<active, queued, counted>>
      BY <1>3 DEF Items!ReadDisk
    <2>2. PICK q : q = [req[r] EXCEPT !.pc = "settled"]
      OBVIOUS
    <2>3. q \in Resolutions /\ q.pc = "settled" /\ q.handle = h /\ q.value = 0
      BY <1>2, <2>2, PhaseUpdate
    <2>4. ResolutionOk(q)
      BY <1>2, <2>3 DEF ResolutionOk
    <2>5. req' = [req EXCEPT ![r] = q]
      BY <2>1, <2>2 DEF Items!Settled
    <2> QED
      BY <1>1, <2>1, <2>3, <2>4, <2>5, RequestAlone
  <1>4. CASE ~(req[r].aborted \/ doc[d].open)
    <2>1. Items!Admitted(r, [req[r] EXCEPT !.content = Items!Content(d)])
      BY <1>4 DEF Items!ReadDisk
    <2>2. ~closed
      BY <1>1, <1>4 DEF ItemInv, QueueInv
    <2>3. Items!Content(d) \in Nat
      BY <1>2, HandleRange DEF ItemInv, ItemTypes, Items!Content
    <2>4. PICK item : item = [req[r] EXCEPT !.content = Items!Content(d)]
      OBVIOUS
    <2>5. item \in Resolutions /\ item.handle = h /\ item.value = 0
      BY <1>2, <2>3, <2>4, ContentUpdate
    <2>6. QueueTypes /\ QueueInv'
          /\ \E p \in {"settled", "starting", "waiting"} : req' = [req EXCEPT ![r] = [item EXCEPT !.pc = p]]
      BY <1>1, <2>1, <2>2, <2>4, <2>5, AdmittedQueue DEF ItemInv
    <2>7. PICK p \in {"settled", "starting", "waiting"} : req' = [req EXCEPT ![r] = [item EXCEPT !.pc = p]]
      BY <2>6
    <2>8. PICK q : q = [item EXCEPT !.pc = p]
      OBVIOUS
    <2>9. q \in Resolutions /\ q.pc = p /\ q.handle = h /\ q.value = 0
      BY <2>5, <2>8, PhaseUpdate
    <2>10. ResolutionOk(q)
      BY <1>2, <2>9 DEF ResolutionOk
    <2>11. Marked({})
      BY <1>1, NoneIsMarked DEF ItemInv
    <2>12. BytesInv' /\ recordBytes' \in Int
      BY <1>1, <2>11, OtherBytes DEF ItemInv, ItemTypes
    <2>13. req'[r] = q /\ \A k \in Resolvers : k = r \/ req'[k] = req[k]
      BY <2>7, <2>8 DEF ItemInv, ItemTypes
    <2> QED
      BY <1>1, <2>6, <2>9, <2>10, <2>11, <2>12, <2>13, RequestBecomes
  <1> QED
    BY <1>3, <1>4

\* The details a request ends with, where all others end without.
LEMMA DetailsOfOne ==
    ASSUME NEW r \in Resolvers,
           \A k \in Resolvers \ {r} : req'[k].pc = "settled" => req[k].pc = "settled",
           UNCHANGED <<doc, issued>>,
           NEW q, req'[r] = q,
           q.value # 0 => issued[q.handle].content = q.value /\ doc[issued[q.handle].doc].content = q.value
    PROVE  Items!DetailsFitTheirText
  <1> SUFFICES ASSUME NEW k \in Resolvers,
                      req'[k].pc = "settled", req[k].pc # "settled", req'[k].value # 0
               PROVE  /\ req'[k].value = issued'[req'[k].handle].content
                      /\ req'[k].value = doc'[issued'[req'[k].handle].doc].content
    BY DEF Items!DetailsFitTheirText
  <1>1. k = r
    OBVIOUS
  <1> QED
    BY <1>1

\* The job starts, or ends because its handle does not stand for its file any more.
LEMMA ItemStart ==
    ASSUME ItemParameters, ItemInv, NEW r \in Resolvers, Items!Start(r)
    PROVE  ItemInv' /\ Items!DetailsFitTheirText
  <1>0. PICK h : h = req[r].handle
    OBVIOUS
  <1> DEFINE moved == issued[h].disk /\ req[r].content # issued[h].content
  <1>1. req[r].pc = "starting" /\ UNCHANGED <<doc, store, recordBytes, closed, edits>>
    BY DEF Items!Start
  <1>2. /\ req[r] \in Resolutions /\ h \in 1 .. Len(issued) /\ issued[h].kind = "completion"
        /\ req[r].value = 0 /\ ResolutionOk(req[r])
    BY <1>0, <1>1 DEF ItemInv, ItemTypes, ResolutionInv, ResolutionOk
  <1>3. CASE req[r].aborted \/ ~issued[h].record \/ moved
    <2>1. /\ Items!Finished(r, Items!Settled(r))
          /\ issued' = [issued EXCEPT ![h].record = @ /\ (~moved \/ req[r].aborted)]
      BY <1>0, <1>3 DEF Items!Start
    <2>2. PICK q : q = [req[r] EXCEPT !.pc = "settled"]
      OBVIOUS
    <2>3. /\ q \in Resolutions /\ q.pc = "settled" /\ q.handle = h /\ q.value = 0
          /\ q.aborted = req[r].aborted
      BY <1>0, <1>2, <2>2, PhaseUpdate
    <2>4. ResolutionOk(q)
      BY <1>2, <2>3 DEF ResolutionOk
    <2>5. Items!Finished(r, q)
      BY <2>1, <2>2 DEF Items!Settled
    <2>6. /\ QueueTypes /\ QueueInv'
          /\ req'[r] = q
          /\ \A k \in Resolvers : \/ k = r
                                  \/ req'[k] = req[k]
                                  \/ req[k].pc = "waiting" /\ req'[k] = [req[k] EXCEPT !.pc = "starting"]
      BY <1>1, <2>3, <2>5, FinishedQueue DEF ItemInv
    <2>7. PICK b \in BOOLEAN : b = (~moved \/ req[r].aborted)
      OBVIOUS
    <2>8. Marked(IF b THEN {} ELSE {h})
      BY <1>2, <2>1, <2>7, OneIsMarked DEF ItemInv
    <2>9. (IF b THEN {} ELSE {h}) \cap Items!Elements(store.actions) = {}
      BY <1>2, ActionHandles DEF ItemInv
    <2>10. BytesInv' /\ recordBytes' \in Int
      BY <1>1, <2>8, <2>9, OtherBytes DEF ItemInv, ItemTypes
    <2> QED
      BY <1>1, <2>3, <2>4, <2>6, <2>8, <2>10, RequestBecomes
  <1>4. CASE ~(req[r].aborted \/ ~issued[h].record \/ moved)
    <2>1. req' = [req EXCEPT ![r].pc = "working"] /\ UNCHANGED <<issued, active, queued, counted>>
      BY <1>0, <1>4 DEF Items!Start
    <2>2. PICK q : q = [req[r] EXCEPT !.pc = "working"]
      OBVIOUS
    <2>3. /\ q \in Resolutions /\ q.pc = "working" /\ q.handle = h /\ q.value = 0
          /\ q.aborted = req[r].aborted /\ q.content = req[r].content
      BY <1>0, <1>2, <2>2, PhaseUpdate
    <2>4. ResolutionOk(q)
      BY <1>0, <1>1, <1>2, <1>4, <2>3 DEF ResolutionOk
    <2>5. req' = [req EXCEPT ![r] = q]
      BY <2>1, <2>2 DEF ItemInv, ItemTypes
    <2>6. ~closed
      BY <1>1, <1>4 DEF ItemInv, QueueInv
    <2> QED
      BY <1>1, <2>1, <2>3, <2>4, <2>5, <2>6, RequestAlone
  <1> QED
    BY <1>3, <1>4

\* The worker answers.
LEMMA ItemAnswer ==
    ASSUME ItemParameters, ItemInv, NEW r \in Resolvers, Items!Answer(r)
    PROVE  ItemInv' /\ Items!DetailsFitTheirText
  <1>0. PICK h : h = req[r].handle
    OBVIOUS
  <1> DEFINE current == ~req[r].aborted /\ issued[h].record /\ doc[issued[h].doc].version = req[r].version
             v == IF current THEN req[r].content ELSE 0
  <1>1. req[r].pc = "working" /\ UNCHANGED <<doc, issued, store, recordBytes, closed, edits>>
    BY DEF Items!Answer
  <1>2. /\ req[r] \in Resolutions /\ h \in 1 .. Len(issued) /\ issued[h].kind = "completion"
        /\ req[r].value = 0 /\ ResolutionOk(req[r])
    BY <1>0, <1>1 DEF ItemInv, ItemTypes, ResolutionInv, ResolutionOk
  <1>3. PICK q : q = IF issued[h].disk THEN [req[r] EXCEPT !.pc = "checking"]
                     ELSE [[req[r] EXCEPT !.pc = "settled"] EXCEPT !.value = v]
    OBVIOUS
  <1>4. Items!Finished(r, q)
    BY <1>0, <1>3 DEF Items!Answer, Items!Settled
  <1>5. v \in Nat
    BY <1>2 DEF Resolutions
  <1>6. /\ q \in Resolutions /\ q.pc \in {"settled", "checking"} /\ q.handle = h
        /\ q.aborted = req[r].aborted
        /\ q.pc = "checking" <=> issued[h].disk
        /\ q.pc = "checking" => q.content = req[r].content /\ q.value = 0
        /\ q.pc = "settled" => q.value = v
    <2>1. CASE issued[h].disk
      <3>1. q = [req[r] EXCEPT !.pc = "checking"]
        BY <1>3, <2>1
      <3> QED
        BY <1>0, <1>2, <2>1, <3>1, PhaseUpdate
    <2>2. CASE ~issued[h].disk
      <3>1. q = [[req[r] EXCEPT !.pc = "settled"] EXCEPT !.value = v]
        BY <1>3, <2>2
      <3>2. q \in Resolutions /\ q.pc = "settled" /\ q.handle = h /\ q.aborted = req[r].aborted /\ q.value = v
        BY <1>0, <1>2, <1>5, <3>1 DEF Resolutions
      <3> QED
        BY <2>2, <3>2
    <2> QED
      BY <2>1, <2>2
  <1>7. ResolutionOk(q)
    BY <1>0, <1>1, <1>2, <1>6 DEF ResolutionOk
  <1>8. /\ QueueTypes /\ QueueInv'
        /\ req'[r] = q
        /\ \A k \in Resolvers : \/ k = r
                                \/ req'[k] = req[k]
                                \/ req[k].pc = "waiting" /\ req'[k] = [req[k] EXCEPT !.pc = "starting"]
    BY <1>1, <1>4, <1>6, FinishedQueue DEF ItemInv
  <1>9. Marked({})
    BY <1>1, NoneIsMarked DEF ItemInv
  <1>10. BytesInv' /\ recordBytes' \in Int
    BY <1>1, <1>9, OtherBytes DEF ItemInv, ItemTypes
  <1>11. ItemInv' /\ \A k \in Resolvers \ {r} : req'[k].pc = "settled" => req[k].pc = "settled"
    BY <1>1, <1>7, <1>8, <1>9, <1>10, RequestBecomes
  <1>12. ASSUME q.value # 0
         PROVE  issued[q.handle].content = q.value /\ doc[issued[q.handle].doc].content = q.value
    <2>1. q.pc = "settled" /\ current /\ q.value = req[r].content /\ ~issued[h].disk
      BY <1>6, <1>12
    <2>2. Fits(h, req[r].content)
      BY <1>0, <1>1, <1>2, <2>1 DEF ResolutionOk
    <2> QED
      BY <1>6, <2>1, <2>2 DEF Fits
  <1>13. Items!DetailsFitTheirText
    BY <1>1, <1>8, <1>11, <1>12, DetailsOfOne
  <1> QED
    BY <1>11, <1>13

\* sources.isCurrent for a file.
LEMMA ItemCheckDisk ==
    ASSUME ItemInv, NEW r \in Resolvers, Items!CheckDisk(r)
    PROVE  ItemInv' /\ Items!DetailsFitTheirText
  <1>0. PICK h : h = req[r].handle
    OBVIOUS
  <1> DEFINE current == ~req[r].aborted /\ issued[h].record /\ ~doc[issued[h].doc].open
                        /\ doc[issued[h].doc].content = req[r].content
             v == IF current THEN req[r].content ELSE 0
  <1>1. /\ req[r].pc = "checking"
        /\ UNCHANGED <<doc, issued, store, recordBytes, active, queued, counted, closed, edits>>
    BY DEF Items!CheckDisk
  <1>2. /\ req[r] \in Resolutions /\ h \in 1 .. Len(issued) /\ issued[h].disk
        /\ req[r].content = issued[h].content
    BY <1>0, <1>1 DEF ItemInv, ItemTypes, ResolutionInv, ResolutionOk
  <1>3. PICK q : q = [[req[r] EXCEPT !.pc = "settled"] EXCEPT !.value = v]
    OBVIOUS
  <1>4. req' = [req EXCEPT ![r] = q]
    BY <1>0, <1>3 DEF Items!CheckDisk, Items!Settled, Items!Content
  <1>5. v \in Nat
    BY <1>2 DEF Resolutions
  <1>6. q \in Resolutions /\ q.pc = "settled" /\ q.handle = h /\ q.value = v
    BY <1>0, <1>2, <1>3, <1>5 DEF Resolutions
  <1>7. ResolutionOk(q)
    BY <1>2, <1>6 DEF ResolutionOk
  <1>8. ItemInv' /\ \A k \in Resolvers \ {r} : req'[k].pc = "settled" => req[k].pc = "settled"
    BY <1>1, <1>4, <1>6, <1>7, RequestAlone
  <1>9. req'[r] = q
    BY <1>4 DEF ItemInv, ItemTypes
  <1>10. q.value # 0 => issued[q.handle].content = q.value /\ doc[issued[q.handle].doc].content = q.value
    BY <1>2, <1>6
  <1>11. Items!DetailsFitTheirText
    BY <1>1, <1>8, <1>9, <1>10, DetailsOfOne
  <1> QED
    BY <1>8, <1>11

\* The edits of a quick fix.
LEMMA ItemAnswerCodeAction ==
    ASSUME ItemInv, NEW r \in Resolvers, Items!AnswerCodeAction(r)
    PROVE  ItemInv' /\ Items!DetailsFitTheirText
  <1>0. PICK h : h = req[r].handle
    OBVIOUS
  <1> DEFINE current == ~req[r].aborted /\ doc[issued[h].doc].version = req[r].version
                        /\ req[r].version = issued[h].version
             v == IF current THEN req[r].content ELSE 0
  <1>1. /\ req[r].pc = "fixing"
        /\ UNCHANGED <<doc, issued, store, recordBytes, active, queued, counted, closed, edits>>
    BY DEF Items!AnswerCodeAction
  <1>2. /\ req[r] \in Resolutions /\ h \in 1 .. Len(issued)
        /\ ~req[r].aborted => Fits(h, req[r].content)
    BY <1>0, <1>1 DEF ItemInv, ItemTypes, ResolutionInv, ResolutionOk
  <1>3. PICK q : q = [[req[r] EXCEPT !.pc = "settled"] EXCEPT !.value = v]
    OBVIOUS
  <1>4. req' = [req EXCEPT ![r] = q]
    BY <1>0, <1>3 DEF Items!AnswerCodeAction, Items!Settled
  <1>5. v \in Nat
    BY <1>2 DEF Resolutions
  <1>6. q \in Resolutions /\ q.pc = "settled" /\ q.handle = h /\ q.value = v
    BY <1>0, <1>2, <1>3, <1>5 DEF Resolutions
  <1>7. ResolutionOk(q)
    BY <1>2, <1>6 DEF ResolutionOk
  <1>8. ItemInv' /\ \A k \in Resolvers \ {r} : req'[k].pc = "settled" => req[k].pc = "settled"
    BY <1>1, <1>4, <1>6, <1>7, RequestAlone
  <1>9. req'[r] = q
    BY <1>4 DEF ItemInv, ItemTypes
  <1>10. q.value # 0 => issued[q.handle].content = q.value /\ doc[issued[q.handle].doc].content = q.value
    BY <1>2, <1>6 DEF Fits
  <1>11. Items!DetailsFitTheirText
    BY <1>1, <1>8, <1>9, <1>10, DetailsOfOne
  <1> QED
    BY <1>8, <1>11

\* onCodeActionResolve.
LEMMA ItemResolveCodeAction ==
    ASSUME ItemParameters, ItemInv, NEW r \in Resolvers, NEW h \in 1 .. Len(issued),
           Items!ResolveCodeAction(r, h)
    PROVE  ItemInv' /\ Items!DetailsFitTheirText
  <1>1. PICK item : item = [Items!Idle EXCEPT !.handle = h, !.version = doc[issued[h].doc].version,
                                              !.content = Items!Content(issued[h].doc)]
    OBVIOUS
  <1>2. /\ ~closed /\ req[r].pc = "idle" /\ issued[h].kind = "action"
        /\ UNCHANGED <<doc, store, active, queued, counted, closed, edits>>
    BY DEF Items!ResolveCodeAction
  <1>3. /\ item \in Resolutions
        /\ item.pc = "idle" /\ item.handle = h /\ item.version = doc[issued[h].doc].version
        /\ item.content = doc[issued[h].doc].content /\ ~item.aborted /\ item.value = 0
    BY <1>1, BegunFacts DEF ItemInv
  <1>4. CASE Items!Lookup(h) /\ Items!Holds(h)
    <2>1. req' = [req EXCEPT ![r] = [item EXCEPT !.pc = "fixing"]] /\ UNCHANGED <<issued, recordBytes>>
      BY <1>1, <1>4 DEF Items!ResolveCodeAction
    <2>2. PICK q : q = [item EXCEPT !.pc = "fixing"]
      OBVIOUS
    <2>3. /\ q \in Resolutions /\ q.pc = "fixing" /\ q.handle = h /\ q.value = 0 /\ ~q.aborted
          /\ q.content = doc[issued[h].doc].content
      BY <1>3, <2>2, PhaseUpdate
    <2>4. Fits(h, doc[issued[h].doc].content)
      <3>1. issued[h].record
        BY <1>4 DEF Items!Lookup
      <3> QED
        BY <1>2, <3>1 DEF ItemInv, HandleInv, Fits
    <2>5. ResolutionOk(q)
      BY <2>3, <2>4 DEF ResolutionOk
    <2> QED
      BY <1>2, <2>1, <2>2, <2>3, <2>5, RequestAlone
  <1>5. CASE ~(Items!Lookup(h) /\ Items!Holds(h))
    <2>1. req' = [req EXCEPT ![r] = [item EXCEPT !.pc = "settled"]]
      BY <1>1, <1>5 DEF Items!ResolveCodeAction
    <2>2. PICK q : q = [item EXCEPT !.pc = "settled"]
      OBVIOUS
    <2>3. q \in Resolutions /\ q.pc = "settled" /\ q.handle = h /\ q.value = 0
      BY <1>3, <2>2, PhaseUpdate
    <2>4. ResolutionOk(q)
      BY <2>3 DEF ResolutionOk
    <2>5. QueueTypes /\ QueueInv'
      BY <1>2, <2>1, <2>2, <2>3, OneChanged DEF ItemInv
    <2>6. req'[r] = q /\ \A k \in Resolvers : k = r \/ req'[k] = req[k]
      BY <2>1, <2>2 DEF ItemInv, ItemTypes
    <2>7. PICK K : K = IF Items!Lookup(h) THEN Items!Of(issued[h].doc) \cap Items!Elements(store.actions) ELSE {}
      OBVIOUS
    <2>8. Marked(K) /\ BytesInv' /\ recordBytes' \in Int
      <3>1. CASE Items!Lookup(h)
        <4>1. Items!Forget(K)
          BY <1>5, <2>7, <3>1 DEF Items!ResolveCodeAction
        <4> QED
          BY <1>2, <4>1, ForgottenBytes DEF ItemInv
      <3>2. CASE ~Items!Lookup(h)
        <4>1. UNCHANGED <<issued, recordBytes>> /\ K = {}
          BY <1>5, <2>7, <3>2 DEF Items!ResolveCodeAction
        <4>2. Marked(K)
          BY <4>1, NoneIsMarked DEF ItemInv
        <4> QED
          BY <1>2, <4>1, <4>2, OtherBytes DEF ItemInv, ItemTypes
      <3> QED
        BY <3>1, <3>2
    <2> QED
      BY <1>2, <2>3, <2>4, <2>5, <2>6, <2>8, RequestBecomes
  <1> QED
    BY <1>4, <1>5

\* What is left of a queue when one of its jobs leaves it.
LEMMA RemovedFacts ==
    ASSUME NEW T, NEW s \in Seq(T), NEW i \in 1 .. Len(s), NEW t, t = Items!RemoveAt(s, i)
    PROVE  /\ t \in Seq(T)
           /\ Len(t) = Len(s) - 1
           /\ \A j \in 1 .. Len(t) : t[j] = IF j < i THEN s[j] ELSE s[j + 1]
  <1> DEFINE a == SubSeq(s, 1, i - 1)
             b == SubSeq(s, i + 1, Len(s))
  <1>1. Len(s) \in Nat /\ i \in Int /\ \A j \in 1 .. Len(s) : s[j] \in T
    OBVIOUS
  <1>2. /\ a \in Seq(T) /\ Len(a) = i - 1
        /\ \A j \in 1 .. i - 1 : a[j] = s[j]
    BY <1>1, SubSeqProperties
  <1>3. /\ b \in Seq(T) /\ Len(b) = Len(s) - i
        /\ \A j \in 1 .. Len(s) - i : b[j] = s[i + j]
    <2>1. \A j \in i + 1 .. Len(s) : s[j] \in T
      BY <1>1
    <2>2. b \in Seq(T) /\ Len(b) = (IF i + 1 <= Len(s) THEN Len(s) - (i + 1) + 1 ELSE 0)
          /\ \A j \in 1 .. Len(s) - (i + 1) + 1 : b[j] = s[(i + 1) + j - 1]
      BY <1>1, <2>1, SubSeqProperties
    <2> QED
      BY <1>1, <2>2
  <1>4. t = a \o b
    BY DEF Items!RemoveAt
  <1> HIDE DEF a, b
  <1>5. /\ t \in Seq(T) /\ Len(t) = Len(a) + Len(b)
        /\ \A j \in 1 .. Len(a) + Len(b) : t[j] = IF j <= Len(a) THEN a[j] ELSE b[j - Len(a)]
    <2>1. /\ a \o b \in Seq(T) /\ Len(a \o b) = Len(a) + Len(b)
          /\ \A j \in 1 .. Len(a) + Len(b) : (a \o b)[j] = IF j <= Len(a) THEN a[j] ELSE b[j - Len(a)]
      BY <1>2, <1>3, ConcatProperties
    <2> QED
      BY <1>4, <2>1
  <1>6. Len(t) = Len(s) - 1
    BY <1>1, <1>2, <1>3, <1>5
  <1>7. ASSUME NEW j \in 1 .. Len(t)
        PROVE  t[j] = IF j < i THEN s[j] ELSE s[j + 1]
    <2>1. CASE j < i
      <3>1. j \in 1 .. i - 1 /\ j <= Len(a) /\ j \in 1 .. Len(a) + Len(b)
        BY <1>1, <1>2, <1>5, <2>1
      <3> QED
        BY <1>2, <1>5, <2>1, <3>1
    <2>2. CASE ~(j < i)
      <3>1. /\ ~(j <= Len(a)) /\ j \in 1 .. Len(a) + Len(b)
            /\ j - Len(a) \in 1 .. Len(s) - i /\ i + (j - Len(a)) = j + 1
        <4>1. /\ Len(a) = i - 1 /\ Len(b) = Len(s) - i /\ Len(t) = Len(s) - 1
              /\ Len(s) \in Nat /\ i \in Int /\ j \in 1 .. Len(t)
          BY <1>1, <1>2, <1>3, <1>6
        <4> QED
          BY <2>2, <4>1
      <3>2. t[j] = b[j - Len(a)]
        BY <1>5, <3>1
      <3>3. b[j - Len(a)] = s[i + (j - Len(a))]
        BY <1>3, <3>1
      <3>4. t[j] = s[j + 1]
        BY <3>1, <3>2, <3>3
      <3> QED
        BY <2>2, <3>4
    <2> QED
      BY <2>1, <2>2
  <1> QED
    BY <1>5, <1>6, <1>7

\* cancel: a job that waits leaves the queue.
LEMMA RemovedQueue ==
    ASSUME ItemTypes, QueueInv, NEW r \in Resolvers, req[r].pc = "waiting",
           req' = [req EXCEPT ![r] = [req[r] EXCEPT !.pc = "settled"]],
           NEW i \in 1 .. Len(queued), queued[i] = r, queued' = Items!RemoveAt(queued, i),
           counted' = counted - 1, UNCHANGED <<active, closed>>
    PROVE  QueueTypes /\ QueueInv'
  <1>1. queued \in Seq(Resolvers) /\ Len(queued) \in Nat /\ i \in Nat
        /\ \A j \in 1 .. Len(queued) : queued[j] \in Resolvers
    BY DEF ItemTypes
  <1>2. /\ queued' \in Seq(Resolvers) /\ Len(queued') = Len(queued) - 1
        /\ \A j \in 1 .. Len(queued') : queued'[j] = IF j < i THEN queued[j] ELSE queued[j + 1]
    BY <1>1, RemovedFacts
  <1>3. [req[r] EXCEPT !.pc = "settled"] \in Resolutions /\ [req[r] EXCEPT !.pc = "settled"].pc = "settled"
    <2>1. req[r] \in Resolutions
      BY DEF ItemTypes
    <2> QED
      BY <2>1 DEF Resolutions
  <1>4. req' \in [Resolvers -> Resolutions] /\ req'[r].pc = "settled"
        /\ \A k \in Resolvers : k # r => req'[k] = req[k]
    BY <1>3 DEF ItemTypes
  <1>5. QueueTypes
    BY <1>2, <1>4 DEF QueueTypes, ItemTypes
  <1>6. active # "none" /\ ~closed /\ r # active
    <2>1. queued # <<>>
      BY <1>1
    <2> QED
      BY <2>1 DEF QueueInv
  <1>7. \A j \in 1 .. Len(queued') :
          \E m \in 1 .. Len(queued) : m # i /\ queued'[j] = queued[m] /\ m = IF j < i THEN j ELSE j + 1
    <2> SUFFICES ASSUME NEW j \in 1 .. Len(queued')
                 PROVE  \E m \in 1 .. Len(queued) : m # i /\ queued'[j] = queued[m] /\ m = IF j < i THEN j ELSE j + 1
      OBVIOUS
    <2>1. CASE j < i
      BY <1>1, <1>2, <2>1
    <2>2. CASE ~(j < i)
      <3>1. j + 1 \in 1 .. Len(queued) /\ j + 1 # i
        BY <1>1, <1>2, <2>2
      <3> QED
        BY <1>2, <2>2, <3>1
    <2> QED
      BY <2>1, <2>2
  <1>8. \A j, k \in 1 .. Len(queued') : queued'[j] = queued'[k] => j = k
    <2> SUFFICES ASSUME NEW j \in 1 .. Len(queued'), NEW k \in 1 .. Len(queued'), queued'[j] = queued'[k]
                 PROVE  j = k
      OBVIOUS
    <2>1. PICK m \in 1 .. Len(queued) : m # i /\ queued'[j] = queued[m] /\ m = IF j < i THEN j ELSE j + 1
      BY <1>7
    <2>2. PICK n \in 1 .. Len(queued) : n # i /\ queued'[k] = queued[n] /\ n = IF k < i THEN k ELSE k + 1
      BY <1>7
    <2>3. m = n
      <3>1. queued[m] = queued[n]
        BY <2>1, <2>2
      <3> QED
        BY <3>1 DEF QueueInv
    <2>4. j \in Int /\ k \in Int
      OBVIOUS
    <2> QED
      BY <1>1, <2>1, <2>2, <2>3, <2>4
  <1>9. \A j \in 1 .. Len(queued') : req'[queued'[j]].pc = "waiting"
    <2> SUFFICES ASSUME NEW j \in 1 .. Len(queued') PROVE req'[queued'[j]].pc = "waiting"
      OBVIOUS
    <2>1. PICK m \in 1 .. Len(queued) : m # i /\ queued'[j] = queued[m]
      BY <1>7
    <2>2. queued[m] # r /\ queued[m] \in Resolvers /\ req[queued[m]].pc = "waiting"
      BY <1>1, <2>1 DEF QueueInv
    <2> QED
      BY <1>4, <2>1, <2>2
  <1>10. ASSUME NEW k \in Resolvers, req'[k].pc = "waiting"
         PROVE  \E j \in 1 .. Len(queued') : queued'[j] = k
    <2>1. k # r /\ req[k].pc = "waiting"
      BY <1>4, <1>10
    <2>2. PICK m \in 1 .. Len(queued) : queued[m] = k
      BY <2>1 DEF QueueInv
    <2>3. m # i
      BY <2>1, <2>2
    <2>4. CASE m < i
      <3>1. m \in 1 .. Len(queued')
        BY <1>1, <1>2, <2>4
      <3> QED
        BY <1>2, <2>2, <2>4, <3>1
    <2>5. CASE ~(m < i)
      <3>1. m - 1 \in 1 .. Len(queued') /\ ~(m - 1 < i) /\ (m - 1) + 1 = m
        BY <1>1, <1>2, <2>3, <2>5
      <3>2. queued'[m - 1] = k
        BY <1>2, <2>2, <3>1
      <3> QED
        BY <3>1, <3>2
    <2> QED
      BY <2>4, <2>5
  <1>11. \A k \in Resolvers : req'[k].pc \in {"starting", "working"} <=> k = active'
    BY <1>4, <1>6 DEF QueueInv
  <1>12. counted' = Len(queued') + (IF active' = "none" THEN 0 ELSE 1)
    BY <1>1, <1>2, <1>6 DEF QueueInv
  <1>13. QueueInv'
    BY <1>6, <1>8, <1>9, <1>10, <1>11, <1>12 DEF QueueInv
  <1> QED
    BY <1>5, <1>13

\* The client cancels a request.
LEMMA ItemCancel ==
    ASSUME ItemInv, NEW r \in Resolvers, Items!Cancel(r)
    PROVE  ItemInv' /\ Items!DetailsFitTheirText
  <1>1. /\ req[r].pc \notin {"idle", "settled"} /\ req' = [req EXCEPT ![r] = Items!Aborted(r)]
        /\ UNCHANGED <<doc, issued, store, recordBytes, active, closed, edits>>
    BY DEF Items!Cancel, Items!Running
  <1>2. req[r] \in Resolutions /\ ResolutionOk(req[r])
    BY DEF ItemInv, ItemTypes, ResolutionInv
  <1>3. CASE req[r].pc = "waiting"
    <2>1. req' = [req EXCEPT ![r] = [req[r] EXCEPT !.pc = "settled"]]
      BY <1>1, <1>3 DEF Items!Aborted, Items!Settled
    <2>2. DOMAIN queued = 1 .. Len(queued)
      BY DEF ItemInv, ItemTypes
    <2>3. PICK i \in 1 .. Len(queued) : queued[i] = r /\ queued' = Items!RemoveAt(queued, i)
      BY <1>3, <2>2 DEF Items!Cancel
    <2>4. counted' = counted - 1
      BY <1>3 DEF Items!Cancel
    <2>5. QueueTypes /\ QueueInv'
      BY <1>1, <1>3, <2>1, <2>3, <2>4, RemovedQueue DEF ItemInv
    <2>6. PICK q : q = [req[r] EXCEPT !.pc = "settled"]
      OBVIOUS
    <2>7. q.pc = "settled" /\ q.handle = req[r].handle /\ q.value = req[r].value
      BY <1>2, <2>6, PhaseUpdate
    <2>8. ResolutionOk(q) /\ q.value = 0
      BY <1>2, <1>3, <2>7 DEF ResolutionOk
    <2>9. req'[r] = q /\ \A k \in Resolvers : k = r \/ req'[k] = req[k]
      BY <2>1, <2>6 DEF ItemInv, ItemTypes
    <2>10. Marked({})
      BY <1>1, NoneIsMarked DEF ItemInv
    <2>11. BytesInv' /\ recordBytes' \in Int
      BY <1>1, <2>10, OtherBytes DEF ItemInv, ItemTypes
    <2> QED
      BY <1>1, <2>5, <2>8, <2>9, <2>10, <2>11, RequestBecomes
  <1>4. CASE req[r].pc # "waiting"
    <2>1. UNCHANGED <<queued, counted>>
      BY <1>4 DEF Items!Cancel
    <2>2. PICK q : q = [req[r] EXCEPT !.aborted = TRUE]
      OBVIOUS
    <2>3. /\ q \in Resolutions /\ q.pc = req[r].pc /\ q.handle = req[r].handle
          /\ q.content = req[r].content /\ q.aborted /\ q.value = req[r].value
      BY <1>2, <2>2 DEF Resolutions
    <2>4. ResolutionOk(q)
      BY <1>2, <2>3 DEF ResolutionOk
    <2>5. req' = [req EXCEPT ![r] = q]
      BY <1>1, <1>4, <2>2 DEF Items!Aborted
    <2>6. q.pc # "settled"
      BY <1>1, <2>3
    <2>7. \/ /\ req[r].pc \notin {"waiting", "starting", "working"}
             /\ q.pc \notin {"waiting", "starting", "working"}
          \/ req[r].pc \in {"starting", "working"} /\ q.pc \in {"starting", "working"}
      BY <1>4, <2>3
    <2>8. closed /\ q.pc \notin {"idle", "settled"} => q.aborted
      BY <2>3
    <2>9. q \in Resolutions /\ (q.pc = "settled" => q.value = 0)
      BY <2>3, <2>6
    <2> QED
      BY <1>1, <2>1, <2>4, <2>5, <2>7, <2>8, <2>9, RequestAlone
  <1> QED
    BY <1>3, <1>4

-----------------------------------------------------------------------------
(* Handles are issued                                                       *)

\* One more handle, e; of the others, those in K have no record any more.
Grown(K, e) ==
    /\ issued' \in Seq(ListedItems)
    /\ Len(issued') = Len(issued) + 1
    /\ issued'[Len(issued) + 1] = e
    /\ \A h \in 1 .. Len(issued) :
          /\ issued'[h].doc = issued[h].doc /\ issued'[h].kind = issued[h].kind
          /\ issued'[h].version = issued[h].version /\ issued'[h].content = issued[h].content
          /\ issued'[h].disk = issued[h].disk /\ issued'[h].size = issued[h].size
          /\ issued'[h].record <=> issued[h].record /\ h \notin K

\* A handle is issued for its document as it is.
LEMMA HandleFacts ==
    ASSUME ItemTypes, NEW d \in Docs, NEW kind \in {"completion", "action"}, NEW size \in Nat,
           NEW e, e = Items!Handle(d, kind, size)
    PROVE  /\ e \in ListedItems
           /\ e.doc = d /\ e.kind = kind /\ e.size = size /\ e.record
           /\ e.version = doc[d].version /\ e.content = doc[d].content /\ e.disk = ~doc[d].open
  <1>1. doc[d].version \in Nat /\ doc[d].content \in Nat /\ doc[d].open \in BOOLEAN
    BY DEF ItemTypes
  <1> QED
    BY <1>1 DEF Items!Handle, Items!Content, ListedItems

\* A new handle leaves the queue and the requests as they must be.
LEMMA ItemGrown ==
    ASSUME ItemInv, NEW K, NEW e, Grown(K, e), e.doc \in Docs, e.kind = "action" => ~e.disk,
           e.version = doc[e.doc].version, e.content = doc[e.doc].content, e.disk = ~doc[e.doc].open,
           UNCHANGED <<doc, req, active, queued, counted, closed, edits>>
    PROVE  QueueInv' /\ HandleInv' /\ ResolutionInv' /\ Items!DetailsFitTheirText
  <1> USE DEF ItemInv
  <1>1. Len(issued) \in Nat /\ Len(issued') = Len(issued) + 1 /\ issued' \in Seq(ListedItems)
    BY DEF ItemTypes, Grown
  <1>2. Kept /\ OpenKept
    BY <1>1 DEF Grown, Kept, OpenKept
  <1>3. QueueInv'
    BY DEF QueueInv
  <1>4. ASSUME NEW h \in 1 .. Len(issued')
        PROVE  /\ issued'[h].kind = "action" => ~issued'[h].disk
               /\ issued'[h].record /\ ~issued'[h].disk =>
                     Fits(h, issued[h].content)' /\ doc'[issued'[h].doc].version = issued'[h].version
    <2>1. CASE h = Len(issued) + 1
      <3>1. issued'[h] = e
        BY <2>1 DEF Grown
      <3> QED
        BY <3>1 DEF Fits
    <2>2. CASE h # Len(issued) + 1
      <3>1. h \in 1 .. Len(issued)
        BY <1>1, <2>2
      <3>2. /\ issued[h].kind = "action" => ~issued[h].disk
            /\ issued[h].record /\ ~issued[h].disk =>
                  Fits(h, issued[h].content) /\ doc[issued[h].doc].version = issued[h].version
        BY <3>1 DEF HandleInv
      <3>3. /\ issued'[h].doc = issued[h].doc /\ issued'[h].kind = issued[h].kind
            /\ issued'[h].version = issued[h].version /\ issued'[h].content = issued[h].content
            /\ issued'[h].disk = issued[h].disk
            /\ issued'[h].record => issued[h].record
        BY <3>1 DEF Grown
      <3> QED
        BY <3>2, <3>3 DEF Fits
    <2> QED
      BY <2>1, <2>2
  <1>5. HandleInv'
    BY <1>4 DEF HandleInv
  <1>6. ResolutionInv'
    <2> SUFFICES ASSUME NEW r \in Resolvers PROVE ResolutionOk(req[r])'
      BY DEF ResolutionInv
    <2>1. PICK q : q = req[r]
      OBVIOUS
    <2>2. ResolutionOk(q)'
      BY <1>1, <1>2, <2>1, StillOk DEF ResolutionInv
    <2> QED
      BY <2>1, <2>2
  <1>7. Items!DetailsFitTheirText
    BY NoDetails
  <1> QED
    BY <1>3, <1>5, <1>6, <1>7

\* What the handles there were hold after the step.
LEMMA BytesOfGrown ==
    ASSUME ItemTypes, NEW K, NEW e, Grown(K, e), NEW H \in SUBSET (1 .. Len(issued))
    PROVE  Items!RecordBytes(H)' = Items!RecordBytes(H \ K)
  BY DEF Items!RecordBytes, Grown

\* onCompletion.
LEMMA ItemOnCompletion ==
    ASSUME ItemInv, NEW d \in Docs, Items!OnCompletion(d)
    PROVE  ItemInv' /\ Items!DetailsFitTheirText
  <1> USE DEF ItemInv
  <1>1. PICK kept : kept = Append(store.completions, Len(issued) + 1)
    OBVIOUS
  <1>2. PICK K : K = Items!Expired(kept)
    OBVIOUS
  <1>3. PICK e : e = Items!Handle(d, "completion", 0)
    OBVIOUS
  <1>4. PICK M : M = [h \in Items!Handles |-> [issued[h] EXCEPT !.record = @ /\ h \notin K]]
    OBVIOUS
  <1>5. /\ store' = [store EXCEPT !.completions = IF K = {} THEN kept ELSE Tail(kept)]
        /\ issued' = Append(M, e)
        /\ UNCHANGED <<doc, recordBytes, req, active, queued, counted, closed, edits>>
    BY <1>1, <1>2, <1>3, <1>4 DEF Items!OnCompletion
  <1>6. /\ e \in ListedItems
        /\ e.doc = d /\ e.kind = "completion" /\ e.size = 0 /\ e.record
        /\ e.version = doc[d].version /\ e.content = doc[d].content /\ e.disk = ~doc[d].open
    BY <1>3, HandleFacts
  <1>7. Len(issued) \in Nat /\ Items!Handles = 1 .. Len(issued)
    BY DEF ItemTypes, Items!Handles
  <1>8. ASSUME NEW h \in 1 .. Len(issued), NEW m, m = [issued[h] EXCEPT !.record = @ /\ h \notin K]
        PROVE  /\ m \in ListedItems
               /\ m.doc = issued[h].doc /\ m.kind = issued[h].kind /\ m.version = issued[h].version
               /\ m.content = issued[h].content /\ m.disk = issued[h].disk /\ m.size = issued[h].size
               /\ m.record <=> issued[h].record /\ h \notin K
    <2>1. issued[h] \in ListedItems
      BY HandleRange
    <2> QED
      BY <1>8, <2>1 DEF ListedItems
  <1>9. M \in [1 .. Len(issued) -> ListedItems]
        /\ \A h \in 1 .. Len(issued) : M[h] = [issued[h] EXCEPT !.record = @ /\ h \notin K]
    BY <1>4, <1>7, <1>8
  <1>10. M \in Seq(ListedItems) /\ Len(M) = Len(issued)
    BY <1>7, <1>9, FunctionIsSeq
  <1>11. /\ issued' \in Seq(ListedItems) /\ Len(issued') = Len(issued) + 1
         /\ issued'[Len(issued) + 1] = e
         /\ \A h \in 1 .. Len(issued) : issued'[h] = M[h]
    BY <1>5, <1>6, <1>7, <1>10
  <1>12. Grown(K, e)
    BY <1>8, <1>9, <1>11 DEF Grown
  <1>13. QueueInv' /\ HandleInv' /\ ResolutionInv' /\ Items!DetailsFitTheirText
    BY <1>5, <1>6, <1>12, ItemGrown
  <1>14. /\ kept \in Seq(Nat) /\ Len(kept) \in Nat /\ Len(kept) >= 1
         /\ \A i \in 1 .. Len(kept) :
               \/ kept[i] = Len(issued) + 1
               \/ kept[i] \in 1 .. Len(issued) /\ issued[kept[i]].kind = "completion"
    <2>1. store.completions \in Seq(Nat) /\ Len(store.completions) \in Nat
      BY DEF ItemTypes
    <2>2. /\ kept \in Seq(Nat) /\ Len(kept) = Len(store.completions) + 1
          /\ kept[Len(store.completions) + 1] = Len(issued) + 1
          /\ \A i \in 1 .. Len(store.completions) : kept[i] = store.completions[i]
      BY <1>1, <1>7, <2>1
    <2>3. ASSUME NEW i \in 1 .. Len(kept), kept[i] # Len(issued) + 1
          PROVE  kept[i] \in 1 .. Len(issued) /\ issued[kept[i]].kind = "completion"
      <3>1. i \in 1 .. Len(store.completions)
        BY <2>1, <2>2, <2>3
      <3>2. store.completions[i] \in 1 .. Len(issued) /\ issued[store.completions[i]].kind = "completion"
        BY <3>1 DEF StoreInv
      <3> QED
        BY <2>2, <3>1, <3>2
    <2> QED
      BY <2>1, <2>2, <2>3
  <1>15. K \cap Items!Elements(store.actions) = {}
    <2>1. K = {} \/ K = {kept[1]}
      BY <1>2, <1>14 DEF Items!Expired
    <2>2. /\ Items!Elements(store.actions) \in SUBSET (1 .. Len(issued))
          /\ \A h \in Items!Elements(store.actions) : issued[h].kind = "action"
      BY ActionHandles
    <2>3. kept[1] \notin Items!Elements(store.actions)
      <3>1. 1 \in 1 .. Len(kept)
        BY <1>14
      <3>2. CASE kept[1] = Len(issued) + 1
        BY <1>7, <2>2, <3>2
      <3>3. CASE issued[kept[1]].kind = "completion"
        BY <2>2, <3>3
      <3> QED
        BY <1>14, <3>1, <3>2, <3>3
    <2> QED
      BY <2>1, <2>3
  <1>16. PICK c : c = IF K = {} THEN kept ELSE Tail(kept)
    OBVIOUS
  <1>17. /\ c \in Seq(Nat)
         /\ \A i \in 1 .. Len(c) : \E j \in 1 .. Len(kept) : c[i] = kept[j]
    <2>1. CASE K = {}
      BY <1>14, <1>16, <2>1
    <2>2. CASE K # {}
      <3>1. c = Tail(kept) /\ kept # <<>>
        BY <1>14, <1>16, <2>2
      <3>2. c \in Seq(Nat) /\ Len(c) = Len(kept) - 1 /\ \A i \in 1 .. Len(c) : c[i] = kept[i + 1]
        BY <1>14, <3>1, HeadTailProperties
      <3>3. \A i \in 1 .. Len(c) : i + 1 \in 1 .. Len(kept)
        BY <1>14, <3>2
      <3> QED
        BY <3>2, <3>3
    <2> QED
      BY <2>1, <2>2
  <1>18. store'.completions = c /\ store'.actions = store.actions
         /\ store' \in [completions : Seq(Nat), actions : Seq(Nat)]
    BY <1>5, <1>16, <1>17 DEF ItemTypes
  <1>19. ItemTypes'
    BY <1>5, <1>11, <1>18 DEF ItemTypes
  <1>20. StoreInv'
    <2>1. \A i \in 1 .. Len(c) : c[i] \in 1 .. Len(issued') /\ issued'[c[i]].kind = "completion"
      <3> SUFFICES ASSUME NEW i \in 1 .. Len(c)
                   PROVE  c[i] \in 1 .. Len(issued') /\ issued'[c[i]].kind = "completion"
        OBVIOUS
      <3>1. PICK j \in 1 .. Len(kept) : c[i] = kept[j]
        BY <1>17
      <3>2. CASE c[i] = Len(issued) + 1
        BY <1>6, <1>7, <1>11, <3>2
      <3>3. CASE c[i] \in 1 .. Len(issued) /\ issued[c[i]].kind = "completion"
        <4>1. issued'[c[i]].kind = issued[c[i]].kind
          BY <1>12, <3>3 DEF Grown
        <4> QED
          BY <1>7, <1>11, <3>3, <4>1
      <3> QED
        BY <1>14, <3>1, <3>2, <3>3
    <2>2. \A i \in 1 .. Len(store.actions) :
            store.actions[i] \in 1 .. Len(issued') /\ issued'[store.actions[i]].kind = "action"
      <3> SUFFICES ASSUME NEW i \in 1 .. Len(store.actions)
                   PROVE  store.actions[i] \in 1 .. Len(issued') /\ issued'[store.actions[i]].kind = "action"
        OBVIOUS
      <3>1. store.actions[i] \in 1 .. Len(issued) /\ issued[store.actions[i]].kind = "action"
        BY DEF StoreInv
      <3>2. issued'[store.actions[i]].kind = issued[store.actions[i]].kind
        BY <1>12, <3>1 DEF Grown
      <3> QED
        BY <1>7, <1>11, <3>1, <3>2
    <2>3. \A i, j \in 1 .. Len(store.actions) : store.actions[i] = store.actions[j] => i = j
      BY DEF StoreInv
    <2> QED
      BY <1>18, <2>1, <2>2, <2>3, Zenon DEF StoreInv
  <1>21. BytesInv'
    <2>1. PICK E : E = Items!Elements(store.actions)
      OBVIOUS
    <2>2. Items!Elements(store.actions)' = E
      BY <1>18, <2>1 DEF Items!Elements
    <2>3. E \ K = E /\ E \in SUBSET (1 .. Len(issued))
      BY <1>15, <2>1, ActionHandles
    <2>4. Items!RecordBytes(E)' = Items!RecordBytes(E)
      BY <1>12, <2>3, BytesOfGrown
    <2>5. Items!ActiveBytes(E)' = Items!ActiveBytes(E)
      BY <2>4 DEF Items!ActiveBytes
    <2>6. recordBytes = Items!ActiveBytes(E)
      BY <2>1 DEF BytesInv
    <2>7. (Items!ActiveBytes(Items!Elements(store.actions)))' = Items!ActiveBytes(E)'
      BY <2>2
    <2> QED
      BY <1>5, <2>5, <2>6, <2>7 DEF BytesInv
  <1> QED
    BY <1>13, <1>19, <1>20, <1>21

\* A nonempty set of numbers has a smallest one, as this instance finds it.
LEMMA FewestIsThere ==
    ASSUME NEW S, S \subseteq Nat, S # {}
    PROVE  Items!Min(S) \in S
  <1>1. Items!Min(S) = Routes!Min(S)
    BY Zenon DEF Items!Min, Routes!Min
  <1> QED
    BY <1>1, SmallestIsThere

\* onCodeAction: the oldest entries go, and give back the bytes they still hold.
LEMMA ItemOnCodeAction ==
    ASSUME ItemParameters, ItemInv, NEW d \in Docs, NEW size \in RecordSizes, Items!OnCodeAction(d, size)
    PROVE  ItemInv' /\ Items!DetailsFitTheirText
  <1> USE DEF ItemInv
  <1>1. PICK old : old = store.actions
    OBVIOUS
  <1>2. PICK e : e = Items!Handle(d, "action", size)
    OBVIOUS
  <1> DEFINE Left(k) == recordBytes + size - Items!DeletedBytes(Items!Elements(SubSeq(old, 1, k)))
             Enough == {k \in 0 .. Len(old) : Len(old) - k < MaxRecords /\ Left(k) <= MaxActionBytes} \cup {Len(old)}
  <1>3. /\ doc[d].open /\ size <= MaxActionBytes /\ issued' = Append(issued, e)
        /\ store' = [store EXCEPT !.actions = Append(SubSeq(old, Items!Min(Enough) + 1, Len(old)), Len(issued) + 1)]
        /\ recordBytes' = Left(Items!Min(Enough))
        /\ UNCHANGED <<doc, req, active, queued, counted, closed, edits>>
    BY <1>1, <1>2 DEF Items!OnCodeAction
  <1>4. old \in Seq(Nat) /\ Len(old) \in Nat /\ Len(issued) \in Nat /\ size \in Nat
    BY <1>1 DEF ItemTypes, ItemParameters
  <1>5. PICK n \in 0 .. Len(old) : n = Items!Min(Enough)
    <2>1. Enough \subseteq 0 .. Len(old) /\ Enough \subseteq Nat /\ Enough # {}
      BY <1>4
    <2> HIDE DEF Enough
    <2> QED
      BY <2>1, FewestIsThere
  <1>6. /\ e \in ListedItems
        /\ e.doc = d /\ e.kind = "action" /\ e.size = size /\ e.record
        /\ e.version = doc[d].version /\ e.content = doc[d].content /\ e.disk = ~doc[d].open
    BY <1>2, <1>4, HandleFacts
  <1>7. /\ issued' \in Seq(ListedItems) /\ Len(issued') = Len(issued) + 1
        /\ issued'[Len(issued) + 1] = e
        /\ \A h \in 1 .. Len(issued) : issued'[h] = issued[h]
    BY <1>3, <1>4, <1>6 DEF ItemTypes
  <1>8. Grown({}, e)
    BY <1>7 DEF Grown
  <1>9. QueueInv' /\ HandleInv' /\ ResolutionInv' /\ Items!DetailsFitTheirText
    BY <1>3, <1>6, <1>8, ItemGrown
  <1>10. PICK rest : rest = SubSeq(old, n + 1, Len(old))
    OBVIOUS
  <1>11. PICK gone : gone = SubSeq(old, 1, n)
    OBVIOUS
  <1>12. /\ rest \in Seq(Nat) /\ Len(rest) = Len(old) - n
         /\ \A i \in 1 .. Len(rest) : rest[i] = old[n + i]
    <2>1. \A i \in n + 1 .. Len(old) : old[i] \in Nat
      BY <1>4
    <2>2. rest \in Seq(Nat) /\ Len(rest) = (IF n + 1 <= Len(old) THEN Len(old) - (n + 1) + 1 ELSE 0)
          /\ \A i \in 1 .. Len(old) - (n + 1) + 1 : rest[i] = old[(n + 1) + i - 1]
      BY <1>4, <1>10, <2>1, SubSeqProperties
    <2>3. Len(rest) = Len(old) - n
      <3>1. Len(rest) = (IF n + 1 <= Len(old) THEN Len(old) - (n + 1) + 1 ELSE 0) /\ Len(old) \in Nat
        BY <1>4, <2>2, Zenon
      <3> QED
        BY <3>1
    <2>4. ASSUME NEW i \in 1 .. Len(rest) PROVE rest[i] = old[n + i]
      <3>1. i \in 1 .. Len(old) - (n + 1) + 1 /\ (n + 1) + i - 1 = n + i
        BY <1>4, <2>3
      <3> QED
        BY <2>2, <3>1
    <2> QED
      BY <2>2, <2>3, <2>4
  <1>13. /\ gone \in Seq(Nat) /\ Len(gone) = n
         /\ \A i \in 1 .. n : gone[i] = old[i]
    <2>1. \A i \in 1 .. n : old[i] \in Nat
      BY <1>4
    <2>2. gone \in Seq(Nat) /\ Len(gone) = (IF 1 <= n THEN n - 1 + 1 ELSE 0)
          /\ \A i \in 1 .. n - 1 + 1 : gone[i] = old[1 + i - 1]
      BY <1>4, <1>11, <2>1, SubSeqProperties
    <2> QED
      BY <1>4, <2>2
  <1>14. PICK a : a = Append(rest, Len(issued) + 1)
    OBVIOUS
  <1>15. /\ store'.actions = a /\ store'.completions = store.completions
         /\ store' \in [completions : Seq(Nat), actions : Seq(Nat)]
         /\ recordBytes' = recordBytes + size - Items!ActiveBytes(Items!Elements(gone))
    <2>1. a \in Seq(Nat)
      BY <1>4, <1>12, <1>14
    <2>2. store' = [store EXCEPT !.actions = a]
      BY <1>3, <1>5, <1>10, <1>14
    <2>3. recordBytes' = Left(n)
      BY <1>3, <1>5
    <2>4. Left(n) = recordBytes + size - Items!ActiveBytes(Items!Elements(gone))
      BY <1>11 DEF Items!DeletedBytes
    <2> QED
      BY <2>1, <2>2, <2>3, <2>4 DEF ItemTypes
  <1> HIDE DEF Left, Enough
  <1>16. /\ Len(a) = Len(rest) + 1 /\ a[Len(rest) + 1] = Len(issued) + 1
         /\ \A i \in 1 .. Len(rest) : a[i] = rest[i]
    BY <1>4, <1>12, <1>14
  <1>17. /\ \A i \in 1 .. Len(old) : old[i] \in 1 .. Len(issued) /\ issued[old[i]].kind = "action"
         /\ \A i, j \in 1 .. Len(old) : old[i] = old[j] => i = j
    BY <1>1 DEF StoreInv
  <1>18. PICK E : E = Items!Elements(old)
    OBVIOUS
  <1>19. PICK F : F = Items!Elements(gone)
    OBVIOUS
  <1>20. E = {old[i] : i \in 1 .. Len(old)} /\ IsFiniteSet(E) /\ E \in SUBSET (1 .. Len(issued))
    BY <1>4, <1>17, <1>18, ElementsFacts
  <1>21. F = {gone[i] : i \in 1 .. Len(gone)} /\ F \in SUBSET E
    <2>1. F = {gone[i] : i \in 1 .. Len(gone)}
      BY <1>13, <1>19, ElementsFacts
    <2>2. \A i \in 1 .. n : i \in 1 .. Len(old)
      BY <1>4
    <2> QED
      BY <1>13, <1>20, <2>1, <2>2
  <1>22. {rest[i] : i \in 1 .. Len(rest)} = E \ F
    <2>1. ASSUME NEW i \in 1 .. Len(rest)
          PROVE  rest[i] \in E \ F
      <3>0. Len(rest) = Len(old) - n /\ Len(old) \in Nat
        BY <1>4, <1>12, Zenon
      <3>1. n + i \in 1 .. Len(old) /\ rest[i] = old[n + i]
        <4>1. n + i \in 1 .. Len(old)
          BY <3>0
        <4> QED
          BY <1>12, <4>1
      <3>2. ASSUME NEW j \in 1 .. n, old[j] = old[n + i]
            PROVE  FALSE
        <4>1. j \in 1 .. Len(old) /\ j # n + i
          BY <1>4, <3>1
        <4> QED
          BY <1>17, <3>1, <3>2, <4>1
      <3> QED
        BY <1>13, <1>20, <1>21, <3>1, <3>2
    <2>2. ASSUME NEW h \in E \ F
          PROVE  \E i \in 1 .. Len(rest) : rest[i] = h
      <3>1. PICK j \in 1 .. Len(old) : h = old[j]
        BY <1>20
      <3>2. j \notin 1 .. n
        BY <1>13, <1>21, <3>1
      <3>3. j - n \in 1 .. Len(rest) /\ n + (j - n) = j
        BY <1>4, <1>12, <3>2
      <3>4. rest[j - n] = h
        BY <1>12, <3>1, <3>3
      <3> QED
        BY <3>3, <3>4
    <2> QED
      BY <2>1, <2>2
  <1>23. ItemTypes'
    <2>1. recordBytes' \in Int
      <3>1. IsFiniteSet(F)
        BY <1>20, <1>21, FS_Subset
      <3>2. Items!ActiveBytes(F) \in Nat
        BY <3>1, BytesAreFinite
      <3> QED
        BY <1>4, <1>15, <1>19, <3>2 DEF ItemTypes
    <2> QED
      BY <1>3, <1>7, <1>15, <2>1 DEF ItemTypes
  <1>24. StoreInv'
    <2>1. \A i \in 1 .. Len(a) : a[i] \in 1 .. Len(issued') /\ issued'[a[i]].kind = "action"
      <3> SUFFICES ASSUME NEW i \in 1 .. Len(a)
                   PROVE  a[i] \in 1 .. Len(issued') /\ issued'[a[i]].kind = "action"
        OBVIOUS
      <3>1. CASE i = Len(rest) + 1
        BY <1>4, <1>6, <1>7, <1>16, <3>1
      <3>2. CASE i # Len(rest) + 1
        <4>1. i \in 1 .. Len(rest) /\ n + i \in 1 .. Len(old) /\ a[i] = old[n + i]
          <5>1. i \in 1 .. Len(rest) /\ n + i \in 1 .. Len(old)
            BY <1>4, <1>12, <1>16, <3>2
          <5> QED
            BY <1>12, <1>16, <5>1
        <4>2. a[i] \in 1 .. Len(issued) /\ issued[a[i]].kind = "action"
          BY <1>17, <4>1
        <4> QED
          BY <1>4, <1>7, <4>2
      <3> QED
        BY <3>1, <3>2
    <2>2. \A i, j \in 1 .. Len(a) : a[i] = a[j] => i = j
      <3> SUFFICES ASSUME NEW i \in 1 .. Len(a), NEW j \in 1 .. Len(a), a[i] = a[j]
                   PROVE  i = j
        OBVIOUS
      <3>0. \A k \in 1 .. Len(a) : k # Len(rest) + 1 =>
              k \in 1 .. Len(rest) /\ n + k \in 1 .. Len(old) /\ a[k] = old[n + k] /\ a[k] # Len(issued) + 1
        <4> SUFFICES ASSUME NEW k \in 1 .. Len(a), k # Len(rest) + 1
                     PROVE  k \in 1 .. Len(rest) /\ n + k \in 1 .. Len(old) /\ a[k] = old[n + k] /\ a[k] # Len(issued) + 1
          OBVIOUS
        <4>1. k \in 1 .. Len(rest) /\ n + k \in 1 .. Len(old) /\ a[k] = old[n + k]
          <5>1. k \in 1 .. Len(rest) /\ n + k \in 1 .. Len(old)
            <6>1. Len(a) = Len(rest) + 1 /\ Len(rest) = Len(old) - n /\ Len(old) \in Nat /\ n \in 0 .. Len(old)
              BY <1>4, <1>12, <1>16
            <6> QED
              BY <6>1
          <5> QED
            BY <1>12, <1>16, <5>1
        <4>2. old[n + k] \in 1 .. Len(issued)
          BY <1>17, <4>1
        <4> QED
          BY <1>4, <4>1, <4>2
      <3>1. CASE i = Len(rest) + 1 \/ j = Len(rest) + 1
        BY <1>16, <3>0, <3>1
      <3>2. CASE i # Len(rest) + 1 /\ j # Len(rest) + 1
        <4>1. n + i \in 1 .. Len(old) /\ n + j \in 1 .. Len(old) /\ old[n + i] = old[n + j]
          BY <3>0, <3>2
        <4>2. n + i = n + j
          BY <1>17, <4>1
        <4> QED
          BY <1>4, <4>2
      <3> QED
        BY <3>1, <3>2
    <2>3. \A i \in 1 .. Len(store.completions) :
            store.completions[i] \in 1 .. Len(issued') /\ issued'[store.completions[i]].kind = "completion"
      <3> SUFFICES ASSUME NEW i \in 1 .. Len(store.completions)
                   PROVE  store.completions[i] \in 1 .. Len(issued')
                          /\ issued'[store.completions[i]].kind = "completion"
        OBVIOUS
      <3>1. store.completions[i] \in 1 .. Len(issued) /\ issued[store.completions[i]].kind = "completion"
        BY DEF StoreInv
      <3> QED
        BY <1>4, <1>7, <3>1
    <2> QED
      BY <1>15, <2>1, <2>2, <2>3, Zenon DEF StoreInv
  <1>25. BytesInv'
    <2>1. PICK N : N = (E \ F) \cup {Len(issued) + 1}
      OBVIOUS
    <2>2. Items!Elements(store.actions)' = N
      <3>1. a \in Seq(Nat) /\ Items!Elements(store.actions)' = Items!Elements(a)
        BY <1>15 DEF Items!Elements
      <3>2. Items!Elements(a) = {a[i] : i \in 1 .. Len(a)}
        BY <3>1, ElementsFacts
      <3>3. {a[i] : i \in 1 .. Len(a)} = {rest[i] : i \in 1 .. Len(rest)} \cup {Len(issued) + 1}
        <4>1. Len(rest) \in Nat
          BY <1>12
        <4>2. \A i \in 1 .. Len(a) : i \in 1 .. Len(rest) \/ i = Len(rest) + 1
          BY <1>16, <4>1
        <4>3. \A i \in 1 .. Len(rest) : i \in 1 .. Len(a)
          BY <1>16, <4>1
        <4>4. Len(rest) + 1 \in 1 .. Len(a)
          BY <1>16, <4>1
        <4> QED
          BY <1>16, <4>2, <4>3, <4>4
      <3> QED
        BY <1>22, <2>1, <3>1, <3>2, <3>3
    <2>3. PICK X : X = {Len(issued) + 1} \X (1 .. size)
      OBVIOUS
    <2>4. Items!RecordBytes(N)' = Items!RecordBytes(E \ F) \cup X
      <3>1. (1 .. size) \subseteq 1 .. MaxActionBytes
            /\ \A i \in 1 .. MaxActionBytes : i <= size <=> i \in 1 .. size
        BY <1>3, <1>4 DEF ItemParameters
      <3>2. issued'[Len(issued) + 1].record /\ issued'[Len(issued) + 1].size = size
        BY <1>6, <1>7
      <3>3. Items!RecordBytes(E \ F)' = Items!RecordBytes(E \ F)
        <4>1. E \ F \in SUBSET (1 .. Len(issued)) /\ (E \ F) \ {} = E \ F
          BY <1>20
        <4> QED
          BY <1>8, <4>1, BytesOfGrown
      <3>4. PICK new : new = Len(issued) + 1
        OBVIOUS
      <3>5. Items!RecordBytes({new})' = X
        <4>1. Items!RecordBytes({new})' = {b \in {new} \X (1 .. MaxActionBytes) : b[2] <= size}
          BY <3>2, <3>4 DEF Items!RecordBytes
        <4>2. {b \in {new} \X (1 .. MaxActionBytes) : b[2] <= size} = {new} \X (1 .. size)
          BY <3>1
        <4> QED
          BY <2>3, <3>4, <4>1, <4>2
      <3>6. Items!RecordBytes(N)' = Items!RecordBytes(E \ F)' \cup Items!RecordBytes({new})'
        BY <2>1, <3>4 DEF Items!RecordBytes
      <3> QED
        BY <3>3, <3>5, <3>6
    <2>5. Items!RecordBytes(E \ F) \cap X = {}
      <3>1. Len(issued) + 1 \notin E
        <4>1. \A h \in E : h \in 1 .. Len(issued)
          BY <1>20
        <4>2. Len(issued) + 1 \notin 1 .. Len(issued)
          BY <1>4
        <4> QED
          BY <4>1, <4>2
      <3> QED
        BY <2>3, <3>1 DEF Items!RecordBytes
    <2>6. IsFiniteSet(X) /\ Cardinality(X) = size
      BY <1>4, <2>3, BytesOfOne
    <2>7. IsFiniteSet(E \ F) /\ IsFiniteSet(F)
      BY <1>20, <1>21, FS_Subset
    <2>8. /\ IsFiniteSet(Items!RecordBytes(E \ F))
          /\ Items!ActiveBytes(E \ F) = Cardinality(Items!RecordBytes(E \ F))
          /\ Items!ActiveBytes(E \ F) \in Nat
      BY <2>7, BytesAreFinite
    <2>9. Items!ActiveBytes(F) \in Nat
      BY <2>7, BytesAreFinite
    <2>10. Items!ActiveBytes(E) = Items!ActiveBytes(E \ F) + Items!ActiveBytes(F)
      BY <1>20, <1>21, BytesAreSplit
    <2>11. Items!ActiveBytes(N)' = Items!ActiveBytes(E \ F) + size
      <3>1. PICK B : B = Items!RecordBytes(E \ F)
        OBVIOUS
      <3>2. PICK U : U = B \cup X
        OBVIOUS
      <3>3. Cardinality(U) = Cardinality(B) + Cardinality(X)
        BY <2>5, <2>6, <2>8, <3>1, <3>2, DisjointBytes
      <3>4. Items!RecordBytes(N)' = U
        BY <2>4, <3>1, <3>2
      <3>5. Items!ActiveBytes(N)' = Cardinality(U)
        BY <3>4, SameItemCardinality DEF Items!ActiveBytes
      <3> QED
        BY <2>6, <2>8, <3>1, <3>3, <3>5
    <2>12. recordBytes = Items!ActiveBytes(E)
      BY <1>1, <1>18 DEF BytesInv
    <2>13. recordBytes' = Items!ActiveBytes(N)'
      <3>1. PICK x \in Nat : x = Items!ActiveBytes(E \ F)
        BY <2>8
      <3>2. PICK y \in Nat : y = Items!ActiveBytes(F)
        BY <2>9
      <3>3. recordBytes = x + y
        BY <2>10, <2>12, <3>1, <3>2
      <3>4. recordBytes' = recordBytes + size - y
        BY <1>15, <1>19, <3>2
      <3>5. Items!ActiveBytes(N)' = x + size
        BY <2>11, <3>1
      <3> QED
        BY <1>4, <3>3, <3>4, <3>5
    <2>14. (Items!ActiveBytes(Items!Elements(store.actions)))' = Items!ActiveBytes(N)'
      BY <2>2
    <2> QED
      BY <2>13, <2>14 DEF BytesInv
  <1> QED
    BY <1>9, <1>23, <1>24, <1>25

-----------------------------------------------------------------------------

\* No document is open, and nothing was asked for.
LEMMA ItemInit == ASSUME ItemParameters, Items!Init PROVE ItemInv
  <1>1. /\ doc = [d \in Docs |-> [open |-> FALSE, version |-> 0, content |-> 1]]
        /\ issued = <<>> /\ store = [completions |-> <<>>, actions |-> <<>>] /\ recordBytes = 0
        /\ req = [r \in Resolvers |-> Items!Idle]
        /\ active = "none" /\ queued = <<>> /\ counted = 0 /\ closed = FALSE /\ edits = 0
    BY DEF Items!Init, Items!NoRequest
  <1>2. Items!Idle \in Resolutions /\ Items!Idle.pc = "idle" /\ Items!Idle.value = 0
    BY DEF Items!Idle, Resolutions
  <1>3. Len(issued) = 0 /\ Len(queued) = 0 /\ Len(store.actions) = 0 /\ Len(store.completions) = 0
        /\ \A i \in 1 .. 0 : FALSE
    BY <1>1
  <1>4. ItemTypes
    <2>1. /\ issued \in Seq(ListedItems) /\ queued \in Seq(Resolvers)
          /\ store \in [completions : Seq(Nat), actions : Seq(Nat)]
      BY <1>1
    <2>2. doc \in [Docs -> [open : BOOLEAN, version : Nat, content : Nat]]
      BY <1>1
    <2>3. req \in [Resolvers -> Resolutions]
      BY <1>1, <1>2
    <2>4. recordBytes \in Int /\ counted \in Int /\ edits \in Nat
      BY <1>1
    <2>5. active \in Resolvers \cup {"none"} /\ closed \in BOOLEAN
      BY <1>1, Zenon
    <2> QED
      BY <2>1, <2>2, <2>3, <2>4, <2>5, Zenon DEF ItemTypes
  <1>5. \A r \in Resolvers : req[r].pc = "idle" /\ req[r].value = 0
    BY <1>1, <1>2
  <1>6. QueueInv
    <2>1. counted = Len(queued) + (IF active = "none" THEN 0 ELSE 1)
      BY <1>1, <1>3
    <2>2. \A r \in Resolvers : req[r].pc \in {"starting", "working"} <=> r = active
      BY <1>1, <1>5 DEF ItemParameters
    <2> QED
      BY <1>1, <1>3, <1>5, <2>1, <2>2 DEF QueueInv
  <1>7. HandleInv /\ StoreInv
    BY <1>3, Zenon DEF HandleInv, StoreInv
  <1>8. BytesInv
    <2>1. Items!Elements(store.actions) = {}
      BY <1>1 DEF Items!Elements
    <2>2. Items!RecordBytes(Items!Elements(store.actions)) = {}
      BY <2>1 DEF Items!RecordBytes
    <2>3. Items!ActiveBytes(Items!Elements(store.actions)) = Cardinality({})
      BY <2>2, SameItemCardinality DEF Items!ActiveBytes
    <2> QED
      BY <1>1, <2>3, FS_EmptySet DEF BytesInv
  <1>9. ResolutionInv
    BY <1>5 DEF ResolutionInv, ResolutionOk
  <1> QED
    BY <1>4, <1>6, <1>7, <1>8, <1>9 DEF ItemInv

\* Every step keeps the invariant, and gives no details but those of the text.
LEMMA ItemNext ==
    ASSUME ItemParameters, ItemInv, Items!Next
    PROVE  ItemInv' /\ Items!DetailsFitTheirText
  <1>1. Items!Handles = 1 .. Len(issued)
    BY DEF Items!Handles
  <1>2. ASSUME NEW d \in Docs,
               Items!DidChange(d) \/ Items!DidClose(d) \/ Items!DiskWritten(d) \/ Items!OnCompletion(d)
        PROVE  ItemInv' /\ Items!DetailsFitTheirText
    BY <1>2, ItemDidChange, ItemDidClose, ItemDiskWritten, ItemOnCompletion
  <1>3. ASSUME NEW d \in Docs, NEW size \in RecordSizes, Items!OnCodeAction(d, size)
        PROVE  ItemInv' /\ Items!DetailsFitTheirText
    BY <1>3, ItemOnCodeAction
  <1>4. ASSUME NEW r \in Resolvers, Items!Step(r) \/ Items!Cancel(r)
        PROVE  ItemInv' /\ Items!DetailsFitTheirText
    BY <1>4, ItemReadDisk, ItemStart, ItemAnswer, ItemCheckDisk, ItemAnswerCodeAction, ItemCancel
       DEF Items!Step
  <1>5. ASSUME NEW r \in Resolvers, NEW h \in 1 .. Len(issued),
               Items!ResolveCompletion(r, h) \/ Items!ResolveCodeAction(r, h)
        PROVE  ItemInv' /\ Items!DetailsFitTheirText
    BY <1>5, ItemResolveCompletion, ItemResolveCodeAction
  <1>6. ASSUME Items!Shutdown
        PROVE  ItemInv' /\ Items!DetailsFitTheirText
    BY <1>6, ItemShutdown
  <1> QED
    BY <1>1, <1>2, <1>3, <1>4, <1>5, <1>6 DEF Items!Next

\* A step of another component leaves all as it is.
LEMMA ItemStutter ==
    ASSUME ItemInv, UNCHANGED Items!itemVars
    PROVE  ItemInv' /\ Items!DetailsFitTheirText
  <1>1. UNCHANGED <<doc, issued, store, recordBytes, req, active, queued, counted, closed, edits>>
    BY DEF Items!itemVars
  <1>2. Items!DetailsFitTheirText
    BY <1>1, NoDetails
  <1>3. ItemTypes' /\ QueueInv' /\ StoreInv'
    BY <1>1 DEF ItemInv, ItemTypes, QueueInv, StoreInv
  <1>4. HandleInv' /\ ResolutionInv'
    BY <1>1 DEF ItemInv, HandleInv, Fits, ResolutionInv, ResolutionOk
  <1>5. BytesInv'
    BY <1>1, NoneIsMarked, OtherBytes DEF ItemInv
  <1> QED
    BY <1>2, <1>3, <1>4, <1>5 DEF ItemInv

\* The counters agree with what they count.
LEMMA ItemSafety ==
    ASSUME ItemInv PROVE Items!CountersAreExact
  <1>1. Cardinality({active} \ {"none"}) = IF active = "none" THEN 0 ELSE 1
    <2>1. CASE active = "none"
      <3>1. {active} \ {"none"} = {}
        BY <2>1
      <3> QED
        BY <2>1, <3>1, FS_EmptySet
    <2>2. CASE active # "none"
      <3>1. {active} \ {"none"} = {active}
        BY <2>2
      <3> QED
        BY <2>2, <3>1, FS_Singleton
    <2> QED
      BY <2>1, <2>2
  <1>2. Items!Cardinality({active} \ {"none"}) = Cardinality({active} \ {"none"})
    BY SameItemCardinality
  <1>3. counted = Len(queued) + Items!Cardinality({active} \ {"none"})
    BY <1>1, <1>2 DEF ItemInv, QueueInv
  <1> QED
    BY <1>3 DEF ItemInv, QueueInv, BytesInv, Items!CountersAreExact, Items!NoRequest

\* Whatever is edited, closed, cancelled, evicted or cleared, the counters that
\* admit work agree with what they count, and details and edits are given only
\* for the text the item was listed for, while the document has that text.
THEOREM ResolutionsStayExact ==
    ItemParameters /\ Items!Spec =>
        []Items!CountersAreExact /\ [][Items!DetailsFitTheirText]_(Items!itemVars)
  <1> SUFFICES ASSUME ItemParameters
               PROVE  Items!Spec => []Items!CountersAreExact /\ [][Items!DetailsFitTheirText]_(Items!itemVars)
    OBVIOUS
  <1>1. Items!Init => ItemInv
    BY ItemInit
  <1>2. ItemInv /\ [Items!Next]_(Items!itemVars) => ItemInv' /\ Items!DetailsFitTheirText
    BY ItemNext, ItemStutter
  <1>3. ItemInv => Items!CountersAreExact
    BY ItemSafety
  <1> QED
    BY <1>1, <1>2, <1>3, PTL DEF Items!Spec
=============================================================================
