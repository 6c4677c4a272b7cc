------------------------------ MODULE MCTrade ------------------------------
(***************************************************************************)
(* Small instances of Trade.                                               *)
(***************************************************************************)
EXTENDS Trade, TLC

CONSTANTS a, b, x, y, z, w, u1, u2, u3

\* The bag of a is full, that of b holds two more; three items share a maximum
\* count of two.  z may become soulbound.
Owner2 == [i \in Item |-> IF i \in {x, y} THEN a ELSE b]
Money2 == [p \in Player |-> IF p = a THEN 1 ELSE 0]
Bags2 == [p \in Player |-> IF p = a THEN 2 ELSE 4]

\* x and y are alike.
Symmetry == Permutations({x, y})

ItemsOffered(p) == Cardinality({s \in Slot : offer[p].items[s] # NoItem})

\* The bounds of the run.  A state that breaks one is checked, but what follows
\* it is not explored.
StateConstraint ==
    \* w stays the item of b, and one item at most is mailed away.
    /\ Latest(ItemRow(w)) = b
    /\ Cardinality({i \in Item : Latest(ItemRow(i)) = Nobody}) <= 1
    \* While a window is open, the queue has room for its trade; it is empty
    \* while the window holds w or more than one item.
    /\ Trading(a) => Len(queue) < MaxQueue
    /\ Offered(b, w) \/ ItemsOffered(a) + ItemsOffered(b) > 1 => queue = <<>>
    \* After the crash no window is opened.
    /\ crashes > 0 => ~Trading(a)

\* Two full bags; the bag of b holds one of three limited items.
OwnerFull == [i \in Item |-> IF i \in {u1, u2} THEN a ELSE b]
MoneyFull == [p \in Player |-> 0]
BagsFull == [p \in Player |-> IF p = a THEN 2 ELSE 3]

=============================================================================
