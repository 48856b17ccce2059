--------------------------- MODULE MCIndexCatalog ---------------------------
(* Two sidecars over one cache directory.                                  *)
EXTENDS IndexCatalog, TLC

CONSTANTS p1, p2

TwoProcesses == {p1, p2}
OneDoc == {1}
LargeVersions == {3}
Rivals == p1 :> {"catalog", "cancel"} @@ p2 :> {"force", "read", "refresh"}

\* Bound: of edits, ends of a process or of the machine and cancelled builds, one.
Cancelled == {p \in Procs : rt[p].phase \in {"cancelling", "cancelled"}}
OneDisturbance == (written - 1) + crashes + Cardinality(Cancelled) <= 1

\* Bound: the queries of a process race the catalogs of the others.
OthersRead == \A p \in Procs : rt[p].pc = "read" => build[p].pc = "none"
=============================================================================
