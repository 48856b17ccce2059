-------------------------- MODULE MCLanguageSession --------------------------
(* A small instance of LanguageSession for TLC: requests at one position.   *)
EXTENDS LanguageSession, TLC

CONSTANTS d1, w1, r1, r2, k1, o1, o2

SessionWorkspaceOf == d1 :> w1
SessionPosition == r1 :> k1 @@ r2 :> k1
=============================================================================
