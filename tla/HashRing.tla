------------------------------- MODULE HashRing -------------------------------
(***************************************************************************)
(* What libconhash promises: a ring of hash values, each with the node of  *)
(* the cluster that has a replica there.  An object belongs to the node of *)
(* the first replica at or after its hash.  A ring is a function from the  *)
(* hashes in use to nodes; ConHash keeps it as a red-black tree.           *)
(*                                                                         *)
(* The hash function is a constant: Hash[n][i] stands for the hash of      *)
(* "iden-%03d" of node n and replica i, whatever function is plugged in.   *)
(* Two replicas may have the same hash.                                    *)
(***************************************************************************)
EXTENDS Integers, FiniteSets

CONSTANTS
    ClusterNodes,   \* struct node_s objects of the caller
    MaxReplicas,    \* bound on node->replicas
    ReplicaCounts,  \* numbers of replicas the caller asks for
    MaxHash,        \* hash values are 1 .. MaxHash
    Hash,           \* hash of each node's replicas
    NoNode          \* a null struct node_s pointer

Replica == 0 .. MaxReplicas - 1

ASSUME HashRingAssumption ==
    /\ MaxReplicas \in Nat /\ MaxHash \in Nat \ {0}
    /\ ReplicaCounts \subseteq 0 .. MaxReplicas
    /\ Hash \in [ClusterNodes -> [Replica -> 1 .. MaxHash]]
    /\ NoNode \notin ClusterNodes

(* A call goes on to the next replica after each allocation that fails.    *)
FailedAllocs == SUBSET Replica

Rings == UNION {[S -> ClusterNodes] : S \in SUBSET (1 .. MaxHash)}
EmptyRing == [h \in {} |-> NoNode]

MemberStates == [replicas : 0 .. MaxReplicas, flag : SUBSET {"INIT", "IN"}]

(* The replica an object with this hash belongs to: the first at or after  *)
(* it, or the first of all.                                                *)
Successor(points, hash) ==
    LET after == {h \in points : h >= hash}
        least(S) == CHOOSE h \in S : \A x \in S : h <= x
    IN  IF after # {} THEN least(after) ELSE least(points)

Owner(r, hash) == IF DOMAIN r = {} THEN NoNode ELSE r[Successor(DOMAIN r, hash)]

(* The first replicas of n, those in failed left out.                      *)
Points(n, replicas, failed) == {Hash[n][i] : i \in {j \in Replica : j < replicas} \ failed}

(* A hash on the ring already keeps its owner; a deletion leaves alone     *)
(* what belongs to another.                                                *)
WithPoints(r, n, points) ==
    [h \in DOMAIN r \union points |-> IF h \in DOMAIN r THEN r[h] ELSE n]
WithoutPoints(r, n, points) ==
    [h \in {x \in DOMAIN r : ~ (x \in points /\ r[x] = n)} |-> r[h]]
=============================================================================
