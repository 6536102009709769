------------------------------ MODULE BtreeTest ------------------------------
(***************************************************************************)
(* The tree that btree_test/btree_test.c builds, and removals from it.     *)
(* The test inserts 22 keys and removes four; here any of the 22 can be    *)
(* removed, in any order.                                                  *)
(***************************************************************************)
EXTENDS Btree
LOCAL Seqs == INSTANCE SequencesExt

InsertedKeys ==
    <<39, 22, 97, 41, 53, 13, 21, 40, 30, 27, 33, 36, 35, 34, 24, 29, 26, 17, 28, 23, 31, 32>>

TestKeys == Seqs!ToSet(InsertedKeys)
NoLevels == {}

\* The root after inserting one more key, every allocation succeeding.
Grown(n, k) ==
    LET answer == InsertInto(n, k, {})
    IN  IF answer.rtval = "split" THEN NewRoot(answer) ELSE answer.node

TestInit ==
    /\ head = "ready"
    /\ root = Seqs!FoldLeft(Grown, NewNode, InsertedKeys)
    /\ live = NodeCount(root)
    /\ rotated = FALSE
    /\ result = "ok"
    /\ last = <<"insert", 32>>

TestNext == \E k \in TestKeys : Remove(k)

TestSpec == TestInit /\ [][TestNext]_vars

\* The traversal of the values walks a node only if it has one child more than
\* keys and otherwise leaves out the whole subtree without a word (btree.c:559):
\* the code takes a remove to keep every inner node in that shape.
InnerNodesWhole ==
    \A n \in Nodes(root) : IsLeaf(n) \/ KeyLen(n) = ChildLen(n) - 1
=============================================================================
