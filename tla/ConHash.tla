------------------------------- MODULE ConHash -------------------------------
(***************************************************************************)
(* libconhash/conhash.c, conhash_inter.c, conhash_util.c: consistent       *)
(* hashing.  A node of the cluster has replicas on a ring of hash values;  *)
(* an object belongs to the node of the first replica at or after its      *)
(* hash.  The ring is the tree of UtilRbtree.                              *)
(*                                                                         *)
(* Calls refused with -1 change nothing and are not steps.                 *)
(***************************************************************************)
EXTENDS UtilRbtree, HashRing

VARIABLES
    conhash,    \* vnode_tree, ivnodes, and vnode->node of each tree node
    members     \* replicas and flag of each struct node_s

conHashVars == <<conhash, members>>

conhash_init ==
    [vnode_tree |-> util_rbtree_init(MaxHash), ivnodes |-> 0,
     node |-> [h \in 1 .. MaxHash |-> NoNode]]

ConHashInit ==
    /\ conhash = conhash_init
    /\ members = [n \in ClusterNodes |-> [replicas |-> 0, flag |-> {}]]

ConHashLive == ~ IsUndefined(conhash.vnode_tree)

-----------------------------------------------------------------------------
(* A replica whose hash is on the ring already is skipped; so is one whose *)
(* memory cannot be allocated.                                             *)
RECURSIVE AddReplicas(_, _, _, _)
AddReplicas(c, n, i, failed) ==
    LET hash == Hash[n][i]
        skip == util_rbtree_search(c.vnode_tree, hash) # NULL \/ i \in failed
        next == IF skip THEN c
                ELSE [c EXCEPT !.vnode_tree = util_rbtree_insert(@, hash),
                               !.node[hash] = n, !.ivnodes = @ + 1]
    IN  IF i >= members[n].replicas \/ IsUndefined(c.vnode_tree) THEN c
        ELSE AddReplicas(next, n, i + 1, failed)

__conhash_add_replicas(c, n, failed) == AddReplicas(c, n, 0, failed)

(* util_rbtree_delete and __conhash_del_rbnode.                            *)
__conhash_del_rbnode(c, hash) ==
    [c EXCEPT !.vnode_tree = Freed(util_rbtree_delete(@, hash), hash), !.node[hash] = NoNode]

\* Mutant: the owner of the tree node is not compared.
OwnedBy_any(c, n, hash) == util_rbtree_search(c.vnode_tree, hash) # NULL

OwnedBy(c, n, hash) == util_rbtree_search(c.vnode_tree, hash) # NULL /\ c.node[hash] = n

RECURSIVE DelReplicas(_, _, _)
DelReplicas(c, n, i) ==
    LET hash == Hash[n][i]
        next == IF OwnedBy(c, n, hash)
                THEN [__conhash_del_rbnode(c, hash) EXCEPT !.ivnodes = @ - 1]
                ELSE c
    IN  IF i >= members[n].replicas THEN c ELSE DelReplicas(next, n, i + 1)

__conhash_del_replicas(c, n) == DelReplicas(c, n, 0)

-----------------------------------------------------------------------------
(* The interface.  conhash_set_node may be called again on a node that is  *)
(* in the ring: it forgets that, and how many replicas there were.         *)

conhash_set_node(n, r) ==
    /\ members' = [members EXCEPT ![n] = [replicas |-> r, flag |-> {"INIT"}]]
    /\ UNCHANGED conhash

conhash_add_node(n, failed) ==
    /\ "INIT" \in members[n].flag /\ "IN" \notin members[n].flag
    /\ members' = [members EXCEPT ![n].flag = @ \union {"IN"}]
    /\ conhash' = __conhash_add_replicas(conhash, n, failed)

conhash_del_node(n) ==
    /\ "INIT" \in members[n].flag /\ "IN" \in members[n].flag
    /\ members' = [members EXCEPT ![n].flag = @ \ {"IN"}]
    /\ conhash' = __conhash_del_replicas(conhash, n)

(* Deletes the root until the tree is empty; the caller starts again.      *)
RECURSIVE EmptyTheRing(_)
EmptyTheRing(c) ==
    IF c.vnode_tree.root = NULL THEN c
    ELSE EmptyTheRing(__conhash_del_rbnode(c, c.vnode_tree.root))

conhash_fini ==
    /\ conhash.ivnodes > 0
    /\ LET last == EmptyTheRing(conhash).vnode_tree
       IN  conhash' = IF last.size = 0 /\ Members(last) = {} THEN conhash_init
                      ELSE [conhash EXCEPT !.vnode_tree = Undefined(@)]
    /\ members' = [n \in ClusterNodes |-> [replicas |-> 0, flag |-> {}]]

conhash_lookup(c, hash) ==
    IF c.ivnodes = 0 THEN NoNode
    ELSE LET n == util_rbtree_lookup(c.vnode_tree, hash)
         IN  IF n = NULL THEN NoNode ELSE c.node[n]

(* __get_vnodes stores at most size keys.                                  *)
conhash_get_vnodes(c, size) ==
    LET keys == util_rbtree_mid_travel(c.vnode_tree)
    IN  SubSeq(keys, 1, IF Len(keys) < size THEN Len(keys) ELSE size)

ConHashNext ==
    /\ ConHashLive
    /\ \/ \E n \in ClusterNodes, r \in ReplicaCounts : conhash_set_node(n, r)
       \/ \E n \in ClusterNodes, failed \in FailedAllocs :
              conhash_add_node(n, failed)
       \/ \E n \in ClusterNodes : conhash_del_node(n)
       \/ conhash_fini

ConHashSpec == ConHashInit /\ [][ConHashNext]_conHashVars

-----------------------------------------------------------------------------
(* RingSound: after any sequence of set, add and delete calls, failed      *)
(* allocations and hash collisions included, the tree is a red-black       *)
(* search tree that its own checker accepts, ivnodes and size count it,    *)
(* get_vnodes lists it in ascending order, every virtual node is a hash of *)
(* the node it points to, and a lookup gives the node of the ring          *)
(* successor.  Memory that has been freed is only ever referred to by the  *)
(* parent field of the root: the one place where the code can go wrong.    *)
RingSound ==
    ConHashLive =>
    LET t == conhash.vnode_tree
        ring == Members(t)
    IN  /\ IsRedBlackTree(t)
        /\ util_rbtree_check(t) = 0
        /\ t.size = Cardinality(ring) /\ conhash.ivnodes = Cardinality(ring)
        /\ \A size \in {2, MaxHash} :
               LET keys == conhash_get_vnodes(conhash, size)
               IN  /\ Ascending(keys)
                   /\ \A h \in ring \ ToSet(keys) :
                          Len(keys) = size /\ h > keys[size]
        /\ \A h \in ring : conhash.node[h] # NoNode /\ h \in ToSet(
               [i \in 1 .. MaxReplicas |-> Hash[conhash.node[h]][i - 1]])
        /\ \A h \in 1 .. MaxHash :
               conhash_lookup(conhash, h) =
                   IF ring = {} THEN NoNode ELSE conhash.node[Successor(ring, h)]
        /\ \A n \in ring \ {t.root} : t.parent[n] \in ring

(* The ring that the tree stands for.                                      *)
Keeper == INSTANCE RingKeeper WITH
    ring <- IF ConHashLive THEN [h \in Members(conhash.vnode_tree) |-> conhash.node[h]] ELSE EmptyRing,
    lost <- ~ ConHashLive

(* ImplementsRing: the calls do to the tree what RingKeeper says they do   *)
(* to the ring, collisions and failed allocations included.  Together with *)
(* the lookups of RingSound, OnlyOwnersMove of RingKeeper is then true of  *)
(* the program: deleting a node moves only its objects.                    *)
ImplementsRing == Keeper!RingSpec
=============================================================================
