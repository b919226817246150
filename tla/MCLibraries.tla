------------------------------ MODULE MCLibraries ------------------------------
(***************************************************************************)
(* The libraries: consistent hashing, the two other trees, the HTTP codec  *)
(* and JSON.  They share no state: a behaviour is one of one of them,      *)
(* chosen first, while the others stay as they began.                      *)
(***************************************************************************)
EXTENDS ConHash, LinuxRbtree, RadixTree, HttpUtil, JsonText

CONSTANTS nodeA, nodeB, nodeC \* the cluster's nodes

VARIABLE part           \* the component that runs

librariesVars == <<part, conHashVars, rbVars, radixVars, httpVars, utilVars, jsonVars>>

LibrariesInit ==
    /\ part \in {"conhash", "rbtree", "radix", "request", "params", "json"}
    /\ ConHashInit /\ RbInit /\ RadixInit /\ HttpInit /\ HttpUtilInit /\ JsonInit

LibrariesNext ==
    \/ /\ part = "conhash" /\ ConHashNext
       /\ UNCHANGED <<part, rbVars, radixVars, httpVars, utilVars, jsonVars>>
    \/ /\ part = "rbtree" /\ RbNext
       /\ UNCHANGED <<part, conHashVars, radixVars, httpVars, utilVars, jsonVars>>
    \/ /\ part = "radix" /\ RadixNext
       /\ UNCHANGED <<part, conHashVars, rbVars, httpVars, utilVars, jsonVars>>
    \/ /\ part = "request" /\ HttpNext
       /\ UNCHANGED <<part, conHashVars, rbVars, radixVars, utilVars, jsonVars>>
    \/ /\ part = "params" /\ HttpUtilNext
       /\ UNCHANGED <<part, conHashVars, rbVars, radixVars, httpVars, jsonVars>>
    \/ /\ part = "json" /\ JsonNext
       /\ UNCHANGED <<part, conHashVars, rbVars, radixVars, httpVars, utilVars>>

LibrariesSpec == LibrariesInit /\ [][LibrariesNext]_librariesVars

(* Replicas of nodeB and nodeA collide at 4.                           *)
MCHash ==
    (nodeA :> (0 :> 1 @@ 1 :> 4 @@ 2 :> 7))
        @@ (nodeB :> (0 :> 2 @@ 1 :> 5 @@ 2 :> 4))
        @@ (nodeC :> (0 :> 3 @@ 1 :> 6 @@ 2 :> 8))

(* The items of the radix tree are only told apart.                        *)
ItemSymmetry == Permutations(Items)

MCKeys == {<<"a">>, <<"a", "b">>, <<"1", "a">>}
MCValues == {<< >>, <<"x", "=">>, <<"&", "y">>, <<"%", "2", "6">>, <<"+", "%", "2", "0">>}
=============================================================================
