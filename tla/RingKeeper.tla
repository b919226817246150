------------------------------ MODULE RingKeeper ------------------------------
(***************************************************************************)
(* The abstract specification of ConHash: the calls of conhash.h on the    *)
(* ring itself.  In RingLost the keeper's memory is no longer known (the   *)
(* tree goes through a pointer to freed memory), and nothing is promised   *)
(* from there on.                                                          *)
(***************************************************************************)
EXTENDS HashRing

VARIABLES
    ring,       \* the ring
    lost,       \* whether it is lost
    members     \* replicas and flag of each struct node_s

ringVars == <<ring, lost, members>>

RingInit ==
    /\ ring = EmptyRing /\ lost = FALSE
    /\ members = [n \in ClusterNodes |-> [replicas |-> 0, flag |-> {}]]

(* May be called again on a node of the ring: that it is one is forgotten, *)
(* and how many replicas there were.                                       *)
SetNode(n, r) ==
    /\ members' = [members EXCEPT ![n] = [replicas |-> r, flag |-> {"INIT"}]]
    /\ UNCHANGED <<ring, lost>>

AddNode(n, failed) ==
    /\ "INIT" \in members[n].flag /\ "IN" \notin members[n].flag
    /\ members' = [members EXCEPT ![n].flag = @ \union {"IN"}]
    /\ ring' = WithPoints(ring, n, Points(n, members[n].replicas, failed))
    /\ UNCHANGED lost

DelNode(n) ==
    /\ "INIT" \in members[n].flag /\ "IN" \in members[n].flag
    /\ members' = [members EXCEPT ![n].flag = @ \ {"IN"}]
    /\ ring' = WithoutPoints(ring, n, Points(n, members[n].replicas, {}))
    /\ UNCHANGED lost

Fini ==
    /\ DOMAIN ring # {}
    /\ ring' = EmptyRing
    /\ members' = [n \in ClusterNodes |-> [replicas |-> 0, flag |-> {}]]
    /\ UNCHANGED lost

RingLost == lost' = TRUE /\ ring' = EmptyRing /\ members' \in [ClusterNodes -> MemberStates]

RingNext ==
    /\ ~ lost
    /\ \/ \E n \in ClusterNodes, r \in ReplicaCounts : SetNode(n, r)
       \/ \E n \in ClusterNodes, failed \in FailedAllocs : AddNode(n, failed)
       \/ \E n \in ClusterNodes : DelNode(n)
       \/ Fini
       \/ RingLost

RingSpec == RingInit /\ [][RingNext]_ringVars

(* The objects that a step gives another owner.                            *)
Moved == {h \in 1 .. MaxHash : Owner(ring', h) # Owner(ring, h)}

MovesAreNeeded ==
    /\ \A n \in ClusterNodes : DelNode(n) => \A h \in Moved : Owner(ring, h) = n
    /\ \A n \in ClusterNodes, failed \in FailedAllocs :
           AddNode(n, failed) => \A h \in Moved : Owner(ring', h) = n

(* OnlyOwnersMove: what consistent hashing is for.  When a node is deleted *)
(* no object of another node moves, and when a node is added objects move  *)
(* only to it, whatever the hashes and wherever an allocation fails.       *)
OnlyOwnersMove == [][MovesAreNeeded]_ringVars
=============================================================================
