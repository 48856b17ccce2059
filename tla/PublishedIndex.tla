--------------------------- MODULE PublishedIndex ---------------------------
(* What the symbol index of one workspace promises its users, whatever     *)
(* files, locks and processes implement it: a single sequence of committed *)
(* states.  Every commit is atomic, a full catalog replaces everything and *)
(* is durable, an incremental refresh changes one document and may be lost *)
(* with the power, and a full catalog is committed only over the state it  *)
(* was begun from, so that it never undoes a commit it has not seen.       *)
EXTENDS Integers, Sequences

CONSTANTS Procs, Docs, MaxVersion, MaxGen, NoBase

(* A committed state: its generation, the version of each document its rows *)
(* describe (0: none) and the documents it lists as rejected.               *)
Content == [gen : 0..MaxGen, rows : [Docs -> 0..MaxVersion], rejected : SUBSET Docs]
Empty == [gen |-> 0, rows |-> [d \in Docs |-> 0], rejected |-> {}]

VARIABLES
    log,    \* the committed states since the last durable one; the last is current
    base    \* base[p]: the state the full catalog of process p was begun from

vars == <<log, base>>

Current == log[Len(log)]

Init == log = <<Empty>> /\ base = [p \in Procs |-> NoBase]

Begin(p) == base' = [base EXCEPT ![p] = Current] /\ UNCHANGED log

(* The catalog's states supersede all older ones and survive a power loss. *)
CommitCatalog(p) ==
    /\ base[p] = Current
    /\ Len(log') = 1
    /\ log'[1] \in Content
    /\ log'[1].gen > Current.gen
    /\ UNCHANGED base

CommitRefresh ==
    /\ Len(log') = Len(log) + 1
    /\ SubSeq(log', 1, Len(log)) = log
    /\ LET new == log'[Len(log')] IN
       /\ new \in Content
       /\ new.gen > Current.gen
       /\ \E d \in Docs : \A e \in Docs \ {d} :
             new.rows[e] = Current.rows[e] /\ (e \in new.rejected <=> e \in Current.rejected)
    /\ UNCHANGED base

Abandon(p) == base' = [base EXCEPT ![p] = NoBase] /\ UNCHANGED log

(* A power failure keeps a prefix of what was not yet durable. *)
Lose ==
    /\ \E k \in 1..Len(log) : log' = <<log[k]>>
    /\ base' = [p \in Procs |-> NoBase]

Next == \/ \E p \in Procs : Begin(p) \/ CommitCatalog(p) \/ Abandon(p)
        \/ CommitRefresh
        \/ Lose

Spec == Init /\ [][Next]_vars
=============================================================================
