------------------------------- MODULE BtreeMC -------------------------------
(* Values of the constants for checking the B-tree on small instances. *)
EXTENDS Btree

CONSTANT MaxKey

SmallKeys == 1 .. MaxKey
NoLevels == {}
ThreeLevels == 0 .. 2
FourLevels == 0 .. 3
=============================================================================
