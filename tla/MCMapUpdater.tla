---------------------------- MODULE MCMapUpdater ----------------------------
(* Instances of MapUpdater for TLC. *)
EXTENDS MapUpdater, TLC

CONSTANTS w1, w2, continent, dungeon, i1, i2, p1, o1, o2

\* Both instances are copies of the dungeon.
MCBase == [i \in Instances |-> dungeon]

\* Worker threads run the same code on the same queue.
Symmetry == Permutations(Workers)
=============================================================================
