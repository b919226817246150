------------------------------ MODULE UtilRbtree ------------------------------
(***************************************************************************)
(* libconhash/util_rbtree.c: a red-black tree with a null node inside the  *)
(* tree structure, whose parent field the deletion writes.  Each function  *)
(* is an operator from trees to trees; the mirrored halves of the code are *)
(* one operator with a direction.  Loops are recursive operators.          *)
(***************************************************************************)
EXTENDS BinaryTree

util_rbtree_init(max) == EmptyTree(max)

IsRed(t, n) == t.color[n] = "red"

RECURSIVE util_rbsubtree_min(_, _)
util_rbsubtree_min(t, n) ==
    IF n = NULL THEN NULL
    ELSE IF t.left[n] = NULL THEN n
    ELSE util_rbsubtree_min(t, t.left[n])

(* rc, the child on the other side, replaces node, and node becomes rc's   *)
(* child on side d.                                                        *)
rbtree_rotate(t, node, d) ==
    LET o  == Other(d)
        rc == t[o][node]
        c  == t[d][rc]
        p  == t.parent[node]
        t1 == IF node = t.root THEN [t EXCEPT !.root = rc]
              ELSE [t EXCEPT ![SideOf(t, node, p)][p] = rc]
        t2 == [t1 EXCEPT !.parent[rc] = p, !.parent[node] = rc,
                         ![d][rc] = node, ![o][node] = c]
    IN  IF c = NULL THEN t2 ELSE [t2 EXCEPT !.parent[c] = node]

(* The loop ends at a black parent.  It looks at the parent of the root    *)
(* too, which may be a node that has been freed: see util_rbtree_delete.   *)
RECURSIVE rbtree_insert_fixup(_, _)
rbtree_insert_fixup(t, node) ==
    LET p == t.parent[node]
    IN  IF p = STALE THEN Undefined(t)
        ELSE IF ~ IsRed(t, p) THEN [t EXCEPT !.color[t.root] = "black"]
        ELSE LET g == t.parent[p]
                 d == SideOf(t, p, g)
                 u == t[Other(d)][g]
             IN  IF IsRed(t, u)
                 THEN rbtree_insert_fixup([t EXCEPT !.color[u] = "black", !.color[p] = "black",
                                                    !.color[g] = "red"], g)
                 ELSE LET inner == t[Other(d)][p] = node
                          n1 == IF inner THEN p ELSE node
                          t1 == IF inner THEN rbtree_rotate(t, p, d) ELSE t
                          p1 == t1.parent[n1]
                          g1 == t1.parent[p1]
                          t2 == [t1 EXCEPT !.color[p1] = "black", !.color[g1] = "red"]
                      IN  rbtree_insert_fixup(rbtree_rotate(t2, g1, Other(d)), n1)

(* The last node on the way down from x to where node belongs.             *)
RECURSIVE InsertParent(_, _, _)
InsertParent(t, x, node) ==
    LET next == IF node < x THEN t.left[x] ELSE t.right[x]
    IN  IF next = NULL THEN x ELSE InsertParent(t, next, node)

util_rbtree_insert(t, node) ==
    LET y  == IF t.root = NULL THEN NULL ELSE InsertParent(t, t.root, node)
        t1 == IF t.root = NULL THEN [t EXCEPT !.root = node]
              ELSE [t EXCEPT ![IF node < y THEN "left" ELSE "right"][y] = node]
        t2 == rbtree_insert_fixup([t1 EXCEPT !.parent[node] = y, !.left[node] = NULL,
                                             !.right[node] = NULL, !.color[node] = "red"], node)
    IN  [t2 EXCEPT !.size = @ + 1]

RECURSIVE rbtree_delete_fixup(_, _)
rbtree_delete_fixup(t, node) ==
    IF node = t.root \/ IsRed(t, node) THEN [t EXCEPT !.color[node] = "black"]
    ELSE LET p  == t.parent[node]
             d  == SideOf(t, node, p)
             o  == Other(d)
             w0 == t[o][p]
             t1 == IF IsRed(t, w0)
                   THEN rbtree_rotate([t EXCEPT !.color[w0] = "black", !.color[p] = "red"], p, d)
                   ELSE t
             w1 == t1[o][p]
         IN  IF ~ IsRed(t1, t1.left[w1]) /\ ~ IsRed(t1, t1.right[w1])
             THEN rbtree_delete_fixup([t1 EXCEPT !.color[w1] = "red"], p)
             ELSE LET near == t1[d][w1]
                      t2 == IF IsRed(t1, t1[o][w1]) THEN t1
                            ELSE rbtree_rotate([t1 EXCEPT !.color[near] = "black",
                                                          !.color[w1] = "red"], w1, o)
                      w2 == t2[o][p]
                      t3 == [t2 EXCEPT !.color[w2] = t2.color[p], !.color[p] = "black",
                                       !.color[t2[o][w2]] = "black"]
                      t4 == rbtree_rotate(t3, p, d)
                  IN  [t4 EXCEPT !.color[t4.root] = "black"]

ClearNode(t, n) == [t EXCEPT !.left[n] = NULL, !.right[n] = NULL, !.parent[n] = NULL]

(* temp takes the place of node in the tree.                               *)
Relink(t, node, temp) ==
    LET p  == t.parent[node]
        t1 == IF node = t.root THEN [t EXCEPT !.root = temp]
              ELSE [t EXCEPT ![SideOf(t, node, p)][p] = temp]
        l  == t1.left[node]
        r  == t1.right[node]
        t2 == [t1 EXCEPT !.parent[temp] = p, !.left[temp] = l, !.right[temp] = r]
        t3 == IF l = NULL THEN t2 ELSE [t2 EXCEPT !.parent[l] = temp]
    IN  IF r = NULL THEN t3 ELSE [t3 EXCEPT !.parent[r] = temp]

\* Mutant: temp keeps the colour of the place it left.
Replace_keep_color(t, node, temp) == Relink(t, node, temp)

Replace(t, node, temp) == [Relink(t, node, temp) EXCEPT !.color[temp] = t.color[node]]

(* temp is the node that leaves its position: node, or its successor where *)
(* it has two children.  When temp is the root, subst becomes the root and *)
(* keeps its parent pointer to temp, which the caller frees.               *)
util_rbtree_delete(t, node) ==
    LET both  == t.left[node] # NULL /\ t.right[node] # NULL
        temp  == IF both THEN util_rbsubtree_min(t, t.right[node]) ELSE node
        subst == IF t.left[temp] # NULL THEN t.left[temp] ELSE t.right[temp]
        p     == t.parent[temp]
        t0    == [t EXCEPT !.size = @ - 1]
        t1    == [t0 EXCEPT !.parent[subst] = IF p = node THEN temp ELSE p,
                            ![SideOf(t, temp, p)][p] = subst]
        t2    == ClearNode(IF temp # node THEN Replace(t1, node, temp) ELSE t1, node)
    IN  IF temp = t.root
        THEN ClearNode([t0 EXCEPT !.root = subst, !.color[subst] = "black"], temp)
        ELSE IF IsRed(t, temp) THEN t2
        ELSE rbtree_delete_fixup(t2, subst)

RECURSIVE SearchFrom(_, _, _)
SearchFrom(t, n, key) ==
    IF n = NULL \/ n = key THEN n
    ELSE SearchFrom(t, IF key < n THEN t.left[n] ELSE t.right[n], key)

util_rbtree_search(t, key) == SearchFrom(t, t.root, key)

RECURSIVE LookupFrom(_, _, _, _)
LookupFrom(t, n, best, key) ==
    IF n = NULL THEN best
    ELSE IF key <= n THEN LookupFrom(t, t.left[n], n, key)
    ELSE LookupFrom(t, t.right[n], best, key)

util_rbtree_lookup(t, key) ==
    LET n == LookupFrom(t, t.root, NULL, key)
    IN  IF n # NULL THEN n ELSE util_rbsubtree_min(t, t.root)

-----------------------------------------------------------------------------
(* The tree's own checker.  c holds fini, the black height of the first    *)
(* leaf and the largest depth.  A node without a left child is treated as  *)
(* a leaf: its right subtree is not visited.                               *)
RECURSIVE rbtree_check_subtree(_, _, _, _, _)
rbtree_check_subtree(t, n, c, level, above) ==
    LET height == above + (IF IsRed(t, n) THEN 0 ELSE 1)
        l == t.left[n]
        r == t.right[n]
        fail(v) == [c EXCEPT !.fini = v]
        leaf(k) == LET h == IF k.rbh = 0 THEN height ELSE k.rbh
                   IN  [k EXCEPT !.rbh = h, !.maxd = IF @ < level THEN level ELSE @,
                                 !.fini = IF h # height THEN 3 ELSE @]
        right(k) == IF r = NULL THEN leaf(k)
                    ELSE IF IsRed(t, n) /\ IsRed(t, r) THEN [k EXCEPT !.fini = 4]
                    ELSE IF n > r THEN [k EXCEPT !.fini = 5]
                    ELSE rbtree_check_subtree(t, r, k, level + 1, height)
    IN  IF c.fini # 0 THEN c
        ELSE IF l = NULL THEN leaf(c)
        ELSE IF IsRed(t, n) /\ IsRed(t, l) THEN fail(4)
        ELSE IF n < l THEN fail(5)
        ELSE right(rbtree_check_subtree(t, l, c, level + 1, height))

util_rbtree_check(t) ==
    IF t.root = NULL THEN 0
    ELSE IF IsRed(t, t.root) THEN 1
    ELSE rbtree_check_subtree(t, t.root, [fini |-> 0, rbh |-> 0, maxd |-> 0], 1, 0).fini

RECURSIVE rbtree_mid_travel(_, _, _)
rbtree_mid_travel(t, n, visited) ==
    LET before == IF t.left[n] # NULL THEN rbtree_mid_travel(t, t.left[n], visited) ELSE visited
        here   == Append(before, n)
    IN  IF t.right[n] # NULL THEN rbtree_mid_travel(t, t.right[n], here) ELSE here

util_rbtree_mid_travel(t) == IF t.root = NULL THEN << >> ELSE rbtree_mid_travel(t, t.root, << >>)
=============================================================================
