--------------------------- MODULE MCDatabasePool ---------------------------
(* Instances of DatabasePool for TLC. *)
EXTENDS DatabasePool

CONSTANTS a1, a2, s1, t1, t2, t3, d1

\* t3 is a transaction without statements, d1 is committed directly.
MCSize == [t \in Txns |-> IF t = t3 THEN 0 ELSE 2]
=============================================================================
