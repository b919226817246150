------------------------------ MODULE BinaryTree ------------------------------
(***************************************************************************)
(* What the two red-black trees of the repository share: a heap of nodes   *)
(* linked by left, right and parent, as a record of functions on           *)
(* addresses, and the reference definitions their code is compared with.   *)
(* A node's address stands for its key as well: each key is in a tree at   *)
(* most once.  The operators below only look at links and colours; how the *)
(* code changes them is in UtilRbtree and LinuxRbtree.                     *)
(***************************************************************************)
EXTENDS Integers, Sequences, FiniteSets, SequencesExt

NULL == 0       \* the null pointer, or the tree's null node
STALE == -1     \* a pointer to memory that has been freed

Other(d) == IF d = "left" THEN "right" ELSE "left"

(* The side of its parent p that node hangs on: the code tests left.       *)
SideOf(t, node, p) == IF t.left[p] = node THEN "left" ELSE "right"

EmptyTree(max) ==
    LET all(v) == [n \in NULL .. max |-> v]
    IN  [root |-> NULL, size |-> 0, left |-> all(NULL), right |-> all(NULL),
         parent |-> all(NULL), color |-> all("black")]

(* An access through a freed pointer: nothing is known of the tree then.   *)
Undefined(t) == [EmptyTree(Cardinality(DOMAIN t.left) - 1) EXCEPT !.root = STALE]
IsUndefined(t) == t.root = STALE

(* A freed node is no longer a node: pointers to it are stale.  The parent *)
(* of the null node is forgotten: a call that reads it has written it.     *)
Freed(t, node) ==
    [t EXCEPT !.parent = [n \in DOMAIN @ |-> IF @[n] = node THEN STALE ELSE @[n]],
              !.parent[node] = NULL, !.parent[NULL] = NULL, !.color[node] = "black"]

-----------------------------------------------------------------------------
(* Reference definitions, by recursion on the tree.                        *)

RECURSIVE InOrder(_, _)
InOrder(t, n) ==
    IF n = NULL THEN << >>
    ELSE InOrder(t, t.left[n]) \o <<n>> \o InOrder(t, t.right[n])

Members(t) == ToSet(InOrder(t, t.root))

(* The black height of the subtree of n, or -1 where two paths disagree or *)
(* a red node has a red child.                                             *)
RECURSIVE BlackHeight(_, _)
BlackHeight(t, n) ==
    IF n = NULL THEN 0
    ELSE LET l == BlackHeight(t, t.left[n])
             r == BlackHeight(t, t.right[n])
             redRed == /\ t.color[n] = "red"
                       /\ \E d \in {"left", "right"} :
                              t[d][n] # NULL /\ t.color[t[d][n]] = "red"
         IN  IF l # r \/ l = -1 \/ redRed THEN -1
             ELSE l + (IF t.color[n] = "black" THEN 1 ELSE 0)

Ascending(s) == \A i \in 1 .. Len(s) - 1 : s[i] < s[i + 1]

(* A red-black search tree whose parent links agree with its child links;  *)
(* nothing is asked of the root's parent.                                  *)
IsRedBlackTree(t) ==
    /\ Ascending(InOrder(t, t.root))
    /\ t.color[t.root] = "black"
    /\ BlackHeight(t, t.root) >= 0
    /\ \A n \in Members(t) : \A d \in {"left", "right"} :
           t[d][n] # NULL => t.parent[t[d][n]] = n
=============================================================================
