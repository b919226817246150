------------------------------ MODULE RadixTree ------------------------------
(***************************************************************************)
(* tree/radix-tree/radix-tree.c: an array of items by index, as a tree     *)
(* whose height grows with the largest index.                              *)
(*                                                                         *)
(* A pointer is a set: {} is NULL and {x} points to x, the address of a    *)
(* node or, in the slots of the lowest nodes, an item.  calloc gives every *)
(* node memory of its own; its address is named after the height and the   *)
(* range of indexes that the node is made for, which only tells it apart   *)
(* from the others.  RADIX_TREE_MAP_SIZE and RADIX_TREE_MAX_PATH are       *)
(* parameters here as in radix-tree.h (8 and 4 in the source).             *)
(***************************************************************************)
EXTENDS Integers, Sequences, FiniteSets, SequencesExt

CONSTANTS
    MapSize,        \* RADIX_TREE_MAP_SIZE, slots of a node
    MaxPath,        \* RADIX_TREE_MAX_PATH, entries of height_to_maxindex
    Items           \* items

ASSUME RadixTreeAssumption == MapSize \in Nat \ {0, 1} /\ MaxPath \in Nat \ {0, 1}

Slots == 0 .. MapSize - 1
PowerOf[k \in 0 .. MaxPath] == IF k = 0 THEN 1 ELSE MapSize * PowerOf[k - 1]
Power == [k \in 0 .. MaxPath |-> PowerOf[k]]     \* MapSize ^ k, as a table
MaxIndex(height) == Power[height] - 1           \* __maxindex
Indexes == 0 .. MaxIndex(MaxPath - 1)           \* what the tree can hold

VARIABLES
    head,       \* height, rnode
    nodes,      \* count and slots of the nodes, by address
    held,       \* history: the item stored at each index
    damage      \* "none", or why the memory of the tree is no longer known

radixVars == <<head, nodes, held, damage>>

radix_tree_node_alloc == [count |-> 0, slots |-> [i \in Slots |-> {}]]

The(p) == CHOOSE x \in p : TRUE                 \* *p

(* The slot of index in a node at this height, and the address of a node   *)
(* made there for it.                                                      *)
SlotOf(index, height) == (index \div Power[height - 1]) % MapSize
Address(index, height) == <<height, index \div Power[height]>>

RadixInit ==
    /\ head = [height |-> 0, rnode |-> {}]
    /\ nodes = [a \in {} |-> radix_tree_node_alloc]
    /\ held = [i \in Indexes |-> {}]
    /\ damage = "none"

-----------------------------------------------------------------------------
(* The loop that goes down the tree h, whose nodes are m: where it is      *)
(* after each step.                                                        *)
Path(h, m, index) ==
    LET p[d \in 0 .. h.height] ==
            LET above == p[d - 1]
            IN  IF d = 0 THEN h.rnode
                ELSE IF above = {} THEN {}
                ELSE m[The(above)].slots[SlotOf(index, h.height - d + 1)]
    IN  [d \in 0 .. h.height |-> p[d]]

radix_tree_lookup(h, m, index) ==
    IF index > MaxIndex(h.height) THEN {} ELSE Path(h, m, index)[h.height]

-----------------------------------------------------------------------------
(* Insertion.  allocs is how many allocations succeed before one fails.    *)

(* The first height that holds index; a table of MaxPath entries is read   *)
(* past its end where there is none.                                       *)
Fits(h, index) == {k \in h.height + 1 .. MaxPath - 1 : index <= MaxIndex(k)}

FirstFit(h, index) == CHOOSE k \in Fits(h, index) : \A l \in Fits(h, index) : k <= l

(* One new root after another, each with the one before in slot 0, up to   *)
(* the height top.                                                         *)
NewRoot(h, k) ==
    [count |-> 1,
     slots |-> [i \in Slots |-> IF i # 0 THEN {}
                                ELSE IF k = h.height + 1 THEN h.rnode
                                ELSE {Address(0, k - 1)}]]

Grow(h, m, top, allocs) ==
    LET roots == {Address(0, k) : k \in h.height + 1 .. top}
    IN  [head |-> [height |-> top, rnode |-> IF top = h.height THEN h.rnode ELSE {Address(0, top)}],
         nodes |-> [a \in DOMAIN m \union roots |-> IF a \in roots THEN NewRoot(h, a[1]) ELSE m[a]],
         allocs |-> allocs - (top - h.height)]

radix_tree_extend(h, m, index, allocs) ==
    LET height == FirstFit(h, index)
    IN  IF h.rnode = {} THEN [head |-> [h EXCEPT !.height = height], nodes |-> m, allocs |-> allocs]
        ELSE Grow(h, m, IF height <= h.height + allocs THEN height ELSE h.height + allocs, allocs)

Occupied(p) == p # {}

(* Which of the nodes on the path p are not there, and which of them are   *)
(* made before an allocation fails.                                        *)
Missing(h, p) == {d \in 0 .. h.height - 1 : p[d] = {}}
Made(missing, allocs) == {d \in missing : Cardinality({c \in missing : c < d}) < allocs}

(* The path after the insertion; stored is whether the item is put there.  *)
NewPath(h, p, made, stored, index, item) ==
    [d \in 0 .. h.height |->
        IF d \in made THEN {Address(index, h.height - d)}
        ELSE IF d = h.height /\ stored THEN {item}
        ELSE p[d]]

(* A node n of the path, d steps down it, when p has become q.             *)
Linked(n, h, p, q, index, d) ==
    [n EXCEPT !.slots[SlotOf(index, h.height - d)] = q[d + 1],
              !.count = IF p[d + 1] = {} /\ q[d + 1] # {} THEN @ + 1 ELSE @]

InsertBelow(h, m, p, q, made, index) ==
    [a \in DOMAIN m \union {Address(index, h.height - d) : d \in made} |->
        LET n  == IF a \in DOMAIN m THEN m[a] ELSE radix_tree_node_alloc
            at == {d \in 0 .. h.height - 1 : q[d] = {a}}
        IN  IF at = {} THEN n ELSE Linked(n, h, p, q, index, The(at))]

NeedsExtend(h, index) == index > MaxIndex(h.height) \/ MaxIndex(h.height) = 0

(* Returns 0 where it stores the item, and 1 for an occupied slot and for  *)
(* want of memory.                                                         *)
radix_tree_insert(index, item, allocs) ==
    /\ damage = "none"
    /\ IF NeedsExtend(head, index) /\ Fits(head, index) = {}
       THEN damage' = "index out of range" /\ UNCHANGED <<head, nodes, held>>
       ELSE LET e == IF NeedsExtend(head, index) THEN radix_tree_extend(head, nodes, index, allocs)
                     ELSE [head |-> head, nodes |-> nodes, allocs |-> allocs]
                grown == index <= MaxIndex(e.head.height)
                p       == Path(e.head, e.nodes, index)
                missing == Missing(e.head, p)
                made    == Made(missing, e.allocs)
                stored  == made = missing /\ ~ Occupied(p[e.head.height])
                q       == NewPath(e.head, p, made, stored, index, item)
            IN  /\ head' = IF grown THEN [e.head EXCEPT !.rnode = q[0]] ELSE e.head
                /\ nodes' = IF grown THEN InsertBelow(e.head, e.nodes, p, q, made, index) ELSE e.nodes
                /\ held' = IF grown /\ stored THEN [held EXCEPT ![index] = {item}] ELSE held
                /\ UNCHANGED damage

-----------------------------------------------------------------------------
(* __lookup goes down to the leaf of index and takes its items from there  *)
(* on.  A missing node on the way is reported and then dereferenced.       *)

Crash == <<{"crash"}>>

__lookup(h, m, index, max) ==
    LET l     == Path(h, m, index)[h.height - 1]
        at    == index % MapSize
        rest  == [j \in 1 .. MapSize - at |-> m[The(l)].slots[at + j - 1]]
        found == SelectSeq(rest, LAMBDA p : p # {})
    IN  IF l = {} THEN [items |-> Crash, next |-> 0]
        ELSE IF Len(found) >= max THEN [items |-> SubSeq(found, 1, max), next |-> 0]
        ELSE [items |-> found, next |-> index + Len(rest)]

(* One turn of the loop over the leaves, from the state s.                 *)
GangTurn(h, m, max, s) ==
    LET r == __lookup(h, m, s.next, max - Len(s.results))
    IN  IF ~ s.more \/ Len(s.results) >= max \/ s.next > MaxIndex(h.height) THEN s
        ELSE [next    |-> r.next,
              results |-> IF r.items = Crash THEN Crash ELSE s.results \o r.items,
              more    |-> r.next # 0]

GangFrom(h, m, first, max) ==
    LET s[k \in 0 .. Power[h.height]] ==
            IF k = 0 THEN [next |-> first, results |-> << >>, more |-> TRUE]
            ELSE GangTurn(h, m, max, s[k - 1])
    IN  s[Power[h.height]].results

\* Mutant: each leaf is scanned from its first slot.
radix_tree_gang_lookup_aligned(h, m, first, max) ==
    IF h.rnode = {} THEN << >> ELSE GangFrom(h, m, first - (first % MapSize), max)

radix_tree_gang_lookup(h, m, first, max) ==
    IF h.rnode = {} \/ MaxIndex(h.height) = 0 THEN << >> ELSE GangFrom(h, m, first, max)

-----------------------------------------------------------------------------
(* radix_tree_delete takes the address of head->rnode, and then addresses  *)
(* of slots, for nodes: in a tree of height one or more it decrements the  *)
(* root pointer or memory behind it, and removes no item.  With height 0   *)
(* it changes nothing, and returns an address all the same.                *)
radix_tree_delete(index) ==
    /\ damage = "none"
    /\ index <= MaxIndex(head.height) /\ head.height > 0
    /\ damage' = "delete"
    /\ UNCHANGED <<head, nodes, held>>

(* No insertion makes more nodes than this: roots, and a path below them.  *)
MaxAllocs == 2 * MaxPath - 3

RadixNext ==
    \/ \E index \in Indexes \union {MaxIndex(MaxPath - 1) + 1}, item \in Items,
          allocs \in 0 .. MaxAllocs : radix_tree_insert(index, item, allocs)
    \/ \E index \in Indexes : radix_tree_delete(index)

RadixSpec == RadixInit /\ [][RadixNext]_radixVars

-----------------------------------------------------------------------------
(* Every node's count is the number of its slots in use.                   *)
CountsRight ==
    \A a \in DOMAIN nodes :
        nodes[a].count = Cardinality({i \in Slots : nodes[a].slots[i] # {}})

(* RadixArray: insert and lookup are an array, whatever the order of the   *)
(* indexes and wherever an allocation fails half-way down or half-way      *)
(* through growing the tree, and the node counts stay right.  The memory   *)
(* of the tree is lost only to an index it cannot hold and to delete.      *)
RadixArray ==
    /\ damage \in {"none", "index out of range", "delete"}
    /\ damage = "none" =>
           /\ \A i \in Indexes : radix_tree_lookup(head, nodes, i) = held[i]
           /\ CountsRight

(* The leaf of index is there.                                             *)
LeafPresent(index) == Path(head, nodes, index)[head.height - 1] # {}

(* GangLookupAscends: radix_tree_gang_lookup returns the first max items   *)
(* from index first on, in ascending order, as its comment says, unless it *)
(* meets a range of indexes without a leaf before it has them: then, and   *)
(* only then, it goes through a null pointer.                              *)
GangLookupAscends ==
    damage = "none" /\ head.rnode # {} =>
    LET size   == MaxIndex(head.height)
        leaves == {i \in 0 .. size : LeafPresent(i)}
    IN  \A first \in Indexes, max \in 1 .. 3 :
            LET there   == {i \in first .. size : held[i] # {}}
                upTo    == {i \in there : Cardinality({j \in there : j < i}) < max}
                wanted  == SetToSortSeq(upTo, <)
                last    == IF Cardinality(upTo) = max THEN wanted[max] ELSE size
                dense   == first .. last \subseteq leaves
            IN  radix_tree_gang_lookup(head, nodes, first, max) =
                    IF first <= size /\ ~ dense THEN Crash
                    ELSE [k \in 1 .. Len(wanted) |-> held[wanted[k]]]

(* RadixFaithful: the tree is an array (RadixArray), and a gang lookup     *)
(* returns what it should or crashes (GangLookupAscends).                  *)
RadixFaithful == RadixArray /\ GangLookupAscends
=============================================================================
