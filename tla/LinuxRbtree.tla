----------------------------- MODULE LinuxRbtree -----------------------------
(***************************************************************************)
(* tree/rbtree: the red-black tree of the Linux kernel (rbtree.c,          *)
(* rbtree.h) and the ordered set of records built on it (ex-rbtree.c).     *)
(* There is no null node here: the repair after a deletion carries the     *)
(* parent of a missing child along.  A record's id is its node's address.  *)
(* Mirrored halves of the code are one operator with a direction.          *)
(***************************************************************************)
EXTENDS BinaryTree

CONSTANT MaxId      \* ids of the records are 1 .. MaxId

ASSUME LinuxRbtreeAssumption == MaxId \in Nat \ {0}

Ids == 1 .. MaxId

VARIABLES
    rb_root,    \* the tree
    stored      \* history: the ids that were inserted and not deleted

rbVars == <<rb_root, stored>>

RbRed(t, n) == n # NULL /\ t.color[n] = "red"

(* new takes the place of node below p, the parent of node.                *)
SetChild(t, p, node, new) ==
    IF p = NULL THEN [t EXCEPT !.root = new] ELSE [t EXCEPT ![SideOf(t, node, p)][p] = new]

SetParent(t, node, p) == IF node = NULL THEN t ELSE [t EXCEPT !.parent[node] = p]

__rb_rotate(t, node, d) ==
    LET o      == Other(d)
        right  == t[o][node]
        parent == t.parent[node]
        t1     == SetParent([t EXCEPT ![o][node] = t[d][right]], t[d][right], node)
        t2     == SetChild([t1 EXCEPT ![d][right] = node, !.parent[right] = parent],
                           parent, node, right)
    IN  [t2 EXCEPT !.parent[node] = right]

RECURSIVE RepairInsert(_, _)
RepairInsert(t, node) ==
    LET parent == t.parent[node]
    IN  IF ~ RbRed(t, parent) THEN t
        ELSE LET gparent == t.parent[parent]
                 d     == SideOf(t, parent, gparent)
                 uncle == t[Other(d)][gparent]
             IN  IF RbRed(t, uncle)
                 THEN RepairInsert([t EXCEPT !.color[uncle] = "black", !.color[parent] = "black",
                                             !.color[gparent] = "red"], gparent)
                 ELSE LET inner == t[Other(d)][parent] = node
                          up    == IF inner THEN node ELSE parent
                          down  == IF inner THEN parent ELSE node
                          t1    == IF inner THEN __rb_rotate(t, parent, d) ELSE t
                          t2    == [t1 EXCEPT !.color[up] = "black", !.color[gparent] = "red"]
                      IN  RepairInsert(__rb_rotate(t2, gparent, Other(d)), down)

rb_insert_color(t, node) ==
    LET t1 == RepairInsert(t, node) IN [t1 EXCEPT !.color[t1.root] = "black"]

(* node may be NULL: parent is given because it has none to ask.           *)
RECURSIVE __rb_erase_color(_, _, _)
__rb_erase_color(t, node, parent) ==
    IF RbRed(t, node) \/ node = t.root
    THEN IF node = NULL THEN t ELSE [t EXCEPT !.color[node] = "black"]
    ELSE LET d      == SideOf(t, node, parent)
             o      == Other(d)
             other0 == t[o][parent]
             t1     == IF RbRed(t, other0)
                       THEN __rb_rotate([t EXCEPT !.color[other0] = "black",
                                                  !.color[parent] = "red"], parent, d)
                       ELSE t
             other1 == t1[o][parent]
         IN  IF ~ RbRed(t1, t1.left[other1]) /\ ~ RbRed(t1, t1.right[other1])
             THEN __rb_erase_color([t1 EXCEPT !.color[other1] = "red"], parent, t1.parent[parent])
             ELSE LET t2 == IF RbRed(t1, t1[o][other1]) THEN t1
                            ELSE __rb_rotate([t1 EXCEPT !.color[t1[d][other1]] = "black",
                                                        !.color[other1] = "red"], other1, o)
                      other2 == t2[o][parent]
                      t3 == [t2 EXCEPT !.color[other2] = t2.color[parent],
                                       !.color[parent] = "black",
                                       !.color[t2[o][other2]] = "black"]
                      t4 == __rb_rotate(t3, parent, d)
                  IN  [t4 EXCEPT !.color[t4.root] = "black"]

RECURSIVE Furthest(_, _, _)
Furthest(t, n, d) == IF n = NULL \/ t[d][n] = NULL THEN n ELSE Furthest(t, t[d][n], d)

(* A node with at most one child is unlinked.                              *)
EraseSimple(t, node) ==
    LET child  == IF t.left[node] = NULL THEN t.right[node] ELSE t.left[node]
        parent == t.parent[node]
        t1     == SetChild(SetParent(t, child, parent), parent, node, child)
    IN  IF t.color[node] = "black" THEN __rb_erase_color(t1, child, parent) ELSE t1

\* Mutant: the child of a successor that hangs below old gets no new parent link.
EraseInner_no_parent(t, old) ==
    LET node   == Furthest(t, t.right[old], "left")
        child  == t.right[node]
        parent == t.parent[node]
        t1     == SetChild(t, t.parent[old], old, node)
        t2     == IF parent = old THEN t1
                  ELSE SetParent([t1 EXCEPT !.left[parent] = child,
                                            !.right[node] = t.right[old]], t.right[old], node)
        t3     == [t2 EXCEPT !.parent[node] = t.parent[old], !.color[node] = t.color[old],
                             !.left[node] = t.left[old], !.parent[t.left[old]] = node]
    IN  IF t.color[node] = "black"
        THEN __rb_erase_color(t3, child, IF parent = old THEN node ELSE parent)
        ELSE t3

(* A node with two children is replaced by its successor.                  *)
EraseInner(t, old) ==
    LET node   == Furthest(t, t.right[old], "left")
        child  == t.right[node]
        parent == t.parent[node]
        t1     == SetChild(t, t.parent[old], old, node)
        t2     == IF parent = old THEN t1
                  ELSE SetParent([SetParent(t1, child, parent) EXCEPT
                                      !.left[parent] = child, !.right[node] = t.right[old]],
                                 t.right[old], node)
        t3     == [t2 EXCEPT !.parent[node] = t.parent[old], !.color[node] = t.color[old],
                             !.left[node] = t.left[old], !.parent[t.left[old]] = node]
    IN  IF t.color[node] = "black"
        THEN __rb_erase_color(t3, child, IF parent = old THEN node ELSE parent)
        ELSE t3

rb_erase(t, node) ==
    IF t.left[node] = NULL \/ t.right[node] = NULL THEN EraseSimple(t, node)
    ELSE EraseInner(t, node)

-----------------------------------------------------------------------------
(* Iteration.                                                              *)

rb_first(t) == Furthest(t, t.root, "left")
rb_last(t) == Furthest(t, t.root, "right")

(* The first ancestor of which node is not on side d.                      *)
RECURSIVE Climb(_, _, _)
Climb(t, node, d) ==
    LET parent == t.parent[node]
    IN  IF parent # NULL /\ node = t[d][parent] THEN Climb(t, parent, d) ELSE parent

rb_next(t, n) == IF t.right[n] # NULL THEN Furthest(t, t.right[n], "left") ELSE Climb(t, n, "right")
rb_prev(t, n) == IF t.left[n] # NULL THEN Furthest(t, t.left[n], "right") ELSE Climb(t, n, "left")

(* The loop of print_rbtree; steps bounds it.                              *)
RECURSIVE Walk(_, _, _)
Walk(t, n, steps) == IF n = NULL \/ steps = 0 THEN << >> ELSE <<n>> \o Walk(t, rb_next(t, n), steps - 1)
print_rbtree(t) == Walk(t, rb_first(t), MaxId + 1)

RECURSIVE WalkBack(_, _, _)
WalkBack(t, n, steps) ==
    IF n = NULL \/ steps = 0 THEN << >> ELSE <<n>> \o WalkBack(t, rb_prev(t, n), steps - 1)

-----------------------------------------------------------------------------
RECURSIVE Descend(_, _, _)
Descend(t, n, id) ==
    IF n = NULL \/ n = id THEN n ELSE Descend(t, IF id < n THEN t.left[n] ELSE t.right[n], id)

rbtree_search(t, id) == Descend(t, t.root, id)

RECURSIVE LinkParent(_, _, _)
LinkParent(t, n, id) ==
    LET next == IF id < n THEN t.left[n] ELSE t.right[n]
    IN  IF next = NULL THEN n ELSE LinkParent(t, next, id)

(* Where the new node goes, and rb_link_node; a node that calloc cleared   *)
(* is red.                                                                 *)
rb_link_node(t, id) ==
    LET parent == IF t.root = NULL THEN NULL ELSE LinkParent(t, t.root, id)
        t1 == IF parent = NULL THEN [t EXCEPT !.root = id]
              ELSE [t EXCEPT ![IF id < parent THEN "left" ELSE "right"][parent] = id]
    IN  [t1 EXCEPT !.parent[id] = parent, !.color[id] = "red",
                   !.left[id] = NULL, !.right[id] = NULL]

rbtree_init == EmptyTree(MaxId)

(* An id that is there is refused with -1 and the tree left alone.         *)
rbtree_insert(id) ==
    /\ rbtree_search(rb_root, id) = NULL
    /\ rb_root' = rb_insert_color(rb_link_node(rb_root, id), id)
    /\ stored' = stored \union {id}

rbtree_delete(id) ==
    /\ rbtree_search(rb_root, id) # NULL
    /\ LET t == Freed(rb_erase(rb_root, id), id)
       IN  rb_root' = [t EXCEPT !.left[id] = NULL, !.right[id] = NULL]
    /\ stored' = stored \ {id}

(* new takes over all links and the colour of victim; the caller sees to   *)
(* it that it sorts to the same place.                                     *)
rb_replace_node(victim, new) ==
    /\ victim \in stored /\ new \notin stored
    /\ \A k \in stored \ {victim} : (k < victim) = (k < new)
    /\ LET t  == rb_root
           t1 == SetChild(t, t.parent[victim], victim, new)
           t2 == SetParent(SetParent(t1, t.left[victim], new), t.right[victim], new)
           t3 == [t2 EXCEPT !.parent[new] = t.parent[victim], !.color[new] = t.color[victim],
                            !.left[new] = t.left[victim], !.right[new] = t.right[victim]]
           t4 == Freed(t3, victim)
       IN  rb_root' = [t4 EXCEPT !.left[victim] = NULL, !.right[victim] = NULL]
    /\ stored' = (stored \ {victim}) \union {new}

RbInit == rb_root = rbtree_init /\ stored = {}

RbNext ==
    \/ \E id \in Ids : rbtree_insert(id)
    \/ \E id \in Ids : rbtree_delete(id)
    \/ \E victim, new \in Ids : rb_replace_node(victim, new)

(* RbTreeSound: after any sequence of insertions, deletions and            *)
(* replacements the tree is a red-black search tree of exactly the ids     *)
(* stored, without a link to freed memory; search finds those and no       *)
(* others; rb_next from rb_first and rb_prev from rb_last visit each of    *)
(* them once, in order.                                                    *)
RbTreeSound ==
    /\ IsRedBlackTree(rb_root)
    /\ Members(rb_root) = stored
    /\ \A n \in stored : rb_root.parent[n] \in stored \union {NULL}
    /\ \A id \in Ids : rbtree_search(rb_root, id) = IF id \in stored THEN id ELSE NULL
    /\ LET s == print_rbtree(rb_root)
       IN  /\ ToSet(s) = stored /\ Ascending(s)
           /\ WalkBack(rb_root, rb_last(rb_root), MaxId + 1) = Reverse(s)
=============================================================================
