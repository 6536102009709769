------------------------------ MODULE BtreeNode ------------------------------
(***************************************************************************)
(* One node of the kernel B-tree of btree/btree.c and the operations that  *)
(* rearrange a node and its children.                                      *)
(*                                                                         *)
(* A node is two fixed arrays.  Neither stores a length: the number of     *)
(* keys is the index of the first zero key, the number of children is the  *)
(* index of the first NULL child, and slots behind that index may hold     *)
(* stale values.  pair[i].key and pair[i].data always move together and    *)
(* are cleared together, so the data pointer is left out: a key stands     *)
(* for its pair.                                                           *)
(*                                                                         *)
(* A child pointer is represented by the child itself.  No operation makes *)
(* two pointers to one node (each either moves a pointer or drops it), so  *)
(* nothing is lost by that.                                                *)
(***************************************************************************)
EXTENDS Integers

CONSTANTS
    M,     \* LKE_BTREE_M_LEN, the key slots of a node
    NULL   \* the null child pointer

ASSUME MAssumption == M \in Nat /\ M >= 3

Slots == 0 .. M - 1      \* indices of pair[]
Links == 0 .. M          \* indices of child[], LKE_BTREE_C_LEN of them

\* The nodes whose child pointers are in S.
Node(S) == [key : [Slots -> Nat], child : [Links -> S]]

\* A node fresh from lke_btree_node_alloc: zeroed memory.
NewNode == [key |-> [i \in Slots |-> 0], child |-> [i \in Links |-> NULL]]

-----------------------------------------------------------------------------
(* Reading a node *)

KeyLen(n) ==
    CHOOSE len \in 0 .. M :
        /\ \A i \in 0 .. len - 1 : n.key[i] # 0
        /\ len < M => n.key[len] = 0

ChildLen(n) ==
    CHOOSE len \in 0 .. M + 1 :
        /\ \A i \in 0 .. len - 1 : n.child[i] # NULL
        /\ len <= M => n.child[len] = NULL

IsLeaf(n) == ChildLen(n) = 0

\* Both getters answer 0 or NULL for any index past the length, stale or not.
Key(n, i) == IF i \in 0 .. KeyLen(n) - 1 THEN n.key[i] ELSE 0
Child(n, i) == IF i \in 0 .. ChildLen(n) - 1 THEN n.child[i] ELSE NULL

\* The first position whose key is not below k; the key length if there is none.
FindPos(n, k) ==
    CHOOSE pos \in 0 .. KeyLen(n) :
        /\ \A i \in 0 .. pos - 1 : n.key[i] < k
        /\ pos < KeyLen(n) => n.key[pos] >= k

-----------------------------------------------------------------------------
(* Changing one node *)

\* The setters silently ignore an index outside the arrays.
SetKey(n, i, k) == IF i \in Slots THEN [n EXCEPT !.key[i] = k] ELSE n
SetChild(n, i, c) == IF i \in Links THEN [n EXCEPT !.child[i] = c] ELSE n

\* Makes room at index for key k and for a child to its right.
RightShift(n, index, k, c) ==
    LET len == KeyLen(n) IN
    IF k = 0 \/ index \notin 0 .. len - 1
    THEN n
    ELSE [key   |-> [i \in Slots |-> IF i = index THEN k
                                     ELSE IF i \in index + 1 .. len THEN n.key[i - 1]
                                     ELSE n.key[i]],
          child |-> [i \in Links |-> IF i = index + 1 THEN c
                                     ELSE IF i \in index + 2 .. len + 1 THEN Child(n, i - 1)
                                     ELSE n.child[i]]]

\* Writes key k at index with the children left and right on its two sides.
NodeInsert(n, index, k, left, right) ==
    IF k = 0 \/ index \notin Slots
    THEN n
    ELSE [key   |-> [n.key EXCEPT ![index] = k],
          child |-> [i \in Links |-> IF i = index /\ left # NULL THEN left
                                     ELSE IF i = index + 1 /\ right # NULL THEN right
                                     ELSE n.child[i]]]

\* The leaf part of an insert: append behind the last key, or make room.
LeafInsert(n, pos, k) ==
    IF pos = KeyLen(n) THEN SetKey(n, pos, k) ELSE RightShift(n, pos, k, NULL)

\* Mutant of LeafLeftShift: the last slot is not cleared.
LeafShiftKeepsLast(n, index) ==
    LET len == KeyLen(n) IN
    IF ~IsLeaf(n) \/ index \notin 0 .. len - 1
    THEN n
    ELSE [n EXCEPT !.key = [i \in Slots |-> IF i \in index .. len - 2 THEN n.key[i + 1]
                                            ELSE n.key[i]]]

\* Removes the key at index from a leaf.
LeafLeftShift(n, index) ==
    LET len == KeyLen(n) IN
    IF ~IsLeaf(n) \/ index \notin 0 .. len - 1
    THEN n
    ELSE [n EXCEPT !.key = [i \in Slots |-> IF i \in index .. len - 2 THEN n.key[i + 1]
                                            ELSE IF i = len - 1 THEN 0
                                            ELSE n.key[i]]]

-----------------------------------------------------------------------------
(* Splitting a full node: the middle key goes up, the keys above it move   *)
(* with their children to a new right sibling.                             *)

Mid == M \div 2

\* Mutant of SplitLeft: clearing starts behind the middle key.
SplitLeftKeepsMiddle(n) ==
    [key   |-> [i \in Slots |-> IF i <= Mid THEN n.key[i] ELSE 0],
     child |-> [i \in Links |-> IF i <= Mid THEN n.child[i] ELSE NULL]]

SplitLeft(n) ==
    [key   |-> [i \in Slots |-> IF i < Mid THEN n.key[i] ELSE 0],
     child |-> [i \in Links |-> IF i <= Mid THEN n.child[i] ELSE NULL]]

\* Mutant of SplitRight: the child behind the last key is left behind.
SplitRightLosesChild(n) ==
    [key   |-> [i \in Slots |-> IF i + Mid + 1 < M THEN n.key[i + Mid + 1] ELSE 0],
     child |-> [i \in Links |-> IF i + Mid + 1 < M THEN Child(n, i + Mid + 1) ELSE NULL]]

SplitRight(n) ==
    [key   |-> [i \in Slots |-> IF i + Mid + 1 < M THEN n.key[i + Mid + 1] ELSE 0],
     child |-> [i \in Links |-> IF i + Mid + 1 <= M THEN Child(n, i + Mid + 1) ELSE NULL]]

SplitKey(n) == n.key[Mid]

-----------------------------------------------------------------------------
(* Rearranging two neighbouring children of n around its key at pos.  Each *)
(* of the three operators is the node after the call; all of them need an  *)
(* inner node and a key at pos.                                            *)

CanRearrange(n, pos) == ~IsLeaf(n) /\ pos \in 0 .. KeyLen(n) - 1

\* Mutant of Fits: off by one.
FitsTightly(left, right) == KeyLen(left) + KeyLen(right) + 1 <= M

\* The test that chooses merging over rotating, at every call site.
Fits(left, right) == KeyLen(left) + KeyLen(right) + 1 < M

\* Mutant of MergedChild: the child behind right's last key is not taken over.
MergedWithoutLastChild(left, k, right) ==
    LET ll == KeyLen(left)
        rl == KeyLen(right)
    IN  [key   |-> [i \in Slots |-> IF i = ll THEN k
                                    ELSE IF i \in ll + 1 .. ll + rl THEN right.key[i - ll - 1]
                                    ELSE left.key[i]],
         child |-> [i \in Links |-> IF i \in ll + 1 .. ll + rl THEN Child(right, i - ll - 1)
                                    ELSE left.child[i]]]

\* left absorbs the key at pos and all of right; right is freed.
MergedChild(left, k, right) ==
    LET ll == KeyLen(left)
        rl == KeyLen(right)
    IN  [key   |-> [i \in Slots |-> IF i = ll THEN k
                                    ELSE IF i \in ll + 1 .. ll + rl THEN right.key[i - ll - 1]
                                    ELSE left.key[i]],
         child |-> [i \in Links |-> IF i \in ll + 1 .. ll + rl + 1 THEN Child(right, i - ll - 1)
                                    ELSE left.child[i]]]

Merge(n, pos) ==
    LET len == KeyLen(n)
        left == Child(n, pos)
        right == Child(n, pos + 1)
    IN  IF ~CanRearrange(n, pos) \/ ~Fits(left, right)
        THEN n
        ELSE [key   |-> [i \in Slots |-> IF i \in pos .. len - 2 THEN n.key[i + 1]
                                         ELSE IF i = len - 1 THEN 0
                                         ELSE n.key[i]],
              child |-> [i \in Links |-> IF i = pos THEN MergedChild(left, n.key[pos], right)
                                         ELSE IF i \in pos + 1 .. len - 1 THEN Child(n, i + 1)
                                         ELSE IF i = len THEN NULL
                                         ELSE n.child[i]]]

\* right gives its first key to n, and n's key at pos goes to the end of left.
LeftRotate(n, pos) ==
    LET left == Child(n, pos)
        right == Child(n, pos + 1)
        ll == KeyLen(left)
        last == IF KeyLen(right) = 0 THEN 0 ELSE KeyLen(right) - 1
        newLeft == SetChild(SetKey(left, ll, n.key[pos]), ll + 1, Child(right, 0))
        newRight ==
            [key   |-> [i \in Slots |-> IF i < last THEN right.key[i + 1]
                                        ELSE IF i = last THEN 0
                                        ELSE right.key[i]],
             child |-> [i \in Links |-> IF i <= last THEN Child(right, i + 1)
                                        ELSE IF i = last + 1 THEN NULL
                                        ELSE right.child[i]]]
    IN  IF ~CanRearrange(n, pos)
        THEN n
        ELSE [key   |-> [n.key EXCEPT ![pos] = Key(right, 0)],
              child |-> [n.child EXCEPT ![pos] = newLeft, ![pos + 1] = newRight]]

\* left gives its last key to n, and n's key at pos goes to the front of right.
RightRotate(n, pos) ==
    LET left == Child(n, pos)
        right == Child(n, pos + 1)
        ll == KeyLen(left)
        rl == KeyLen(right)
        newRight ==
            [key   |-> [i \in Slots |-> IF i = 0 THEN n.key[pos]
                                        ELSE IF i <= rl THEN right.key[i - 1]
                                        ELSE right.key[i]],
             child |-> [i \in Links |-> IF i = 0 THEN Child(left, ll)
                                        ELSE IF i <= rl + 1 THEN Child(right, i - 1)
                                        ELSE right.child[i]]]
        newLeft == SetChild(SetKey(left, ll - 1, 0), ll, NULL)
    IN  IF ~CanRearrange(n, pos)
        THEN n
        ELSE [key   |-> [n.key EXCEPT ![pos] = Key(left, ll - 1)],
              child |-> [n.child EXCEPT ![pos] = newLeft, ![pos + 1] = newRight]]
=============================================================================
