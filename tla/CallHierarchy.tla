---------------------------- MODULE CallHierarchy ----------------------------
(***************************************************************************)
(* A call hierarchy request joins sources that nobody holds still: open    *)
(* documents, files on disk that other programs rewrite, and links that    *)
(* lead out of the workspace.  SemanticRequestRunner resolves the source   *)
(* it is about, lets the worker compute an answer, and then has            *)
(* CallHierarchySourceAuthority read every source of the answer, compare   *)
(* it with the fingerprint in the answer, and look at all of them again.   *)
(*                                                                         *)
(* A text is a small number, so that a file may get back a text it had; a  *)
(* stamp stands for device, inode, size and times, and no two changes of a *)
(* file give the same one.                                                 *)
(***************************************************************************)
EXTENDS Naturals, FiniteSets

CONSTANTS
    Files,        \* sources of one workspace root
    Texts,
    MaxSources,   \* MAX_RESULT_SOURCE_BYTES, in sources of equal size
    MaxChanges    \* bound: changes of files and documents

VARIABLES
    disk,         \* [Files -> [place, text, stamp]]
    editor,       \* [Files -> [open, version, text]]
    call,         \* the request
    changes

hierarchyVars == <<disk, editor, call, changes>>

\* What a reader of the workspace sees as the text of f.
Shown(f) == IF editor[f].open THEN editor[f].text ELSE disk[f].text

(* --------------------------- The world outside ------------------------- *)

\* Changes after the answer are another request's.
Ended == call.pc \in {"answered", "failed"}
Changed ==
    /\ ~Ended
    /\ changes < MaxChanges
    /\ changes' = changes + 1

\* A file is written, replaced, removed, or becomes a link to elsewhere; the
\* watcher has not said so yet.
DiskChanges(f) ==
    /\ Changed
    /\ \E text \in Texts, place \in {"root", "outside", "gone"} :
          /\ place # "root" => text = disk[f].text
          /\ disk' = [disk EXCEPT ![f] = [place |-> place, text |-> text, stamp |-> changes + 1]]
    /\ UNCHANGED <<editor, call>>

\* freshness.cancelWorkspace
Aborted == [call EXCEPT !.aborted = TRUE]

\* onDidOpen and onDidChangeContent; a version may be one used before.
DidChange(f) ==
    /\ Changed
    /\ \E text \in Texts, version \in 1 .. 2 :
          /\ editor[f].open => version > editor[f].version
          /\ editor' = [editor EXCEPT ![f] = [open |-> TRUE, version |-> version, text |-> text]]
    /\ call' = Aborted
    /\ UNCHANGED disk

DidClose(f) ==
    /\ Changed
    /\ editor[f].open
    /\ editor' = [editor EXCEPT ![f].open = FALSE]
    /\ call' = Aborted
    /\ UNCHANGED disk

(* ---------------------------- The authority ---------------------------- *)

\* resolve: the identity of the source read.  A document need not exist as
\* a file, but what exists there must lie in the workspace.
Source(f) ==
    IF editor[f].open THEN [kind |-> "open", at |-> editor[f].version, text |-> editor[f].text]
    ELSE [kind |-> "disk", at |-> disk[f].stamp, text |-> disk[f].text]
Resolves(f) == disk[f].place \in {"root"} \cup (IF editor[f].open THEN {"gone"} ELSE {})

\* isCurrent, isResultIdentityCurrent
IsCurrent(f, source) ==
    /\ editor[f].open <=> source.kind = "open"
    /\ Resolves(f)
    /\ Source(f).at = source.at
    /\ source.kind = "open" => editor[f].text = source.text

(* ------------------------------ The runner ----------------------------- *)

Fail == call' = [call EXCEPT !.pc = "failed"]
Goto(pc) == call' = [call EXCEPT !.pc = pc]

\* runCallHierarchyPrepare and runCallHierarchy begin, with any document
\* open or closed and in any state.
Init ==
    /\ disk \in [Files -> [place : {"root"}, text : Texts, stamp : {0}]]
    /\ editor \in [Files -> [open : BOOLEAN, version : {1}, text : Texts]]
    /\ \A f \in Files : ~editor[f].open => editor[f].text = disk[f].text
    /\ changes = 0
    /\ \E f \in Files :
          call = [pc |-> "resolve", origin |-> f, aborted |-> FALSE, source |-> Source(f),
                  answer |-> <<>>, read |-> <<>>, checked |-> {}, held |-> FALSE]

ResolveOrigin ==
    /\ call.pc = "resolve"
    /\ IF call.aborted \/ ~Resolves(call.origin) THEN Fail
       ELSE call' = [call EXCEPT !.pc = "execute", !.source = Source(call.origin)]
    /\ UNCHANGED <<disk, editor, changes>>

\* The worker answers with the sources of its items and their fingerprints.
\* Its documents are the editor's; its files may be of any age.
Execute ==
    /\ call.pc = "execute"
    /\ \/ Fail
       \/ /\ ~call.aborted
          /\ \E of \in SUBSET Files \ {{}} :
             \E answer \in [of -> Texts] :
                /\ \A f \in of : editor[f].open => answer[f] = editor[f].text
                /\ call' = [call EXCEPT !.pc = "read", !.answer = answer]
    /\ UNCHANGED <<disk, editor, changes>>

\* validateResultItems, first pass: each source in turn.
ReadSource ==
    /\ call.pc = "read"
    /\ LET left == DOMAIN call.answer \ DOMAIN call.read
           first == CHOOSE f \in left : TRUE
           known == [f \in DOMAIN call.read \cup {first} |->
                        IF f = first THEN Source(f) ELSE call.read[f]]
       IN  IF left = {}
           THEN call' = [call EXCEPT !.pc = "recheck",
                           !.held = /\ Shown(call.origin) = call.source.text
                                    /\ \A f \in DOMAIN call.answer : Shown(f) = call.answer[f]]
           ELSE IF ~Resolves(first) \/ Source(first).text # call.answer[first]
                   \/ Cardinality(DOMAIN known) > MaxSources
           THEN Fail
           ELSE call' = [call EXCEPT !.read = known]
    /\ UNCHANGED <<disk, editor, changes>>

\* Second pass: every identity once more.
Recheck ==
    /\ call.pc = "recheck"
    /\ LET left == DOMAIN call.answer \ call.checked
           first == CHOOSE f \in left : TRUE
       IN  IF left = {} THEN (IF call.aborted THEN Fail ELSE Goto("origin"))
           ELSE IF ~IsCurrent(first, call.read[first]) THEN Fail
           ELSE call' = [call EXCEPT !.checked = @ \cup {first}]
    /\ UNCHANGED <<disk, editor, changes>>

\* The source the request is about, last.
CheckOrigin ==
    /\ call.pc = "origin"
    /\ IF call.aborted \/ ~IsCurrent(call.origin, call.source) THEN Fail ELSE Goto("answered")
    /\ UNCHANGED <<disk, editor, changes>>

Runner == ResolveOrigin \/ Execute \/ ReadSource \/ Recheck \/ CheckOrigin

Next ==
    \/ \E f \in Files : DiskChanges(f) \/ DidChange(f) \/ DidClose(f)
    \/ Runner

Spec == Init /\ [][Next]_hierarchyVars

-----------------------------------------------------------------------------

\* An answer is a snapshot: between the two passes there was a moment when
\* all its sources, and the one it is about, had the texts it was computed
\* from, although nothing stops files from changing while they are read one
\* after the other (validateResultItems, isCurrent).
AnswersAreSnapshots == call.pc = "answered" => call.held
=============================================================================
