--------------------------- MODULE MCInstanceSaves ---------------------------
(* Model-checking instance of InstanceSaves: two players and three ids, so  *)
(* that an id is freed and handed out again while the other player holds    *)
(* one.                                                                     *)
EXTENDS InstanceSaves
=============================================================================
