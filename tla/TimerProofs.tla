----------------------------- MODULE TimerProofs -----------------------------
(***************************************************************************)
(* Theorems about the timers, for every size of the wheel and of the heap  *)
(* and any number of timers.                                               *)
(***************************************************************************)
EXTENDS TimeHeap, TimeWheel, ListFacts, SequenceTheorems

-----------------------------------------------------------------------------
(* TimeWheel.                                                              *)

(* t is s, of length n, without its element at p.                          *)
Without(t, s, n, p) ==
    /\ n \in Nat /\ p \in Nat /\ 1 <= p /\ p <= n
    /\ DOMAIN s = 1 .. n /\ DOMAIN t = 1 .. n - 1
    /\ \A i \in 1 .. p - 1 : t[i] = s[i]
    /\ \A i \in p .. n - 1 : t[i] = s[i + 1]

LEMMA ShiftFacts ==
    ASSUME NEW n, NEW p, NEW s, NEW t, Without(t, s, n, p), IsInjective(s)
    PROVE  IsInjective(t) /\ Range(t) = Range(s) \ {s[p]}
<1>0. /\ n \in Nat /\ p \in Nat /\ 1 <= p /\ p <= n
      /\ DOMAIN s = 1 .. n /\ DOMAIN t = 1 .. n - 1
      /\ \A i \in 1 .. p - 1 : t[i] = s[i]
      /\ \A i \in p .. n - 1 : t[i] = s[i + 1]
  BY DEF Without
<1> USE <1>0
<1>1. ASSUME NEW i \in 1 .. n - 1
      PROVE  \E k \in 1 .. n : k # p /\ t[i] = s[k] /\ k = IF i < p THEN i ELSE i + 1
  <2>1. CASE i < p
    <3>1. i \in 1 .. p - 1 /\ i \in 1 .. n
      BY <2>1
    <3> QED
      BY <2>1, <3>1
  <2>2. CASE ~(i < p)
    <3>1. i \in p .. n - 1 /\ i + 1 \in 1 .. n /\ i + 1 # p
      BY <2>2
    <3> QED
      BY <2>2, <3>1
  <2> QED
    BY <2>1, <2>2
<1>2. ASSUME NEW i \in 1 .. n - 1, NEW j \in 1 .. n - 1, t[i] = t[j] PROVE i = j
  <2>1. PICK k \in 1 .. n : k # p /\ t[i] = s[k] /\ k = IF i < p THEN i ELSE i + 1
    BY <1>1
  <2>2. PICK l \in 1 .. n : l # p /\ t[j] = s[l] /\ l = IF j < p THEN j ELSE j + 1
    BY <1>1
  <2>3. k = l
    BY <1>2, <2>1, <2>2 DEF IsInjective
  <2>4. i \in Int /\ j \in Int
    OBVIOUS
  <2> QED
    BY <2>1, <2>2, <2>3, <2>4
<1>3. ASSUME NEW k \in 1 .. n, k # p PROVE \E i \in 1 .. n - 1 : t[i] = s[k]
  <2>1. CASE k < p
    <3>1. k \in 1 .. p - 1 /\ k \in 1 .. n - 1
      BY <2>1
    <3> QED
      BY <3>1
  <2>2. CASE ~(k < p)
    <3>1. k - 1 \in p .. n - 1 /\ k - 1 \in 1 .. n - 1 /\ (k - 1) + 1 = k
      BY <1>3, <2>2
    <3> QED
      BY <3>1
  <2> QED
    BY <2>1, <2>2
<1>4. \A k \in 1 .. n : s[k] = s[p] => k = p
  BY DEF IsInjective
<1>5. IsInjective(t)
  BY <1>2 DEF IsInjective
<1>6. Range(t) \subseteq Range(s) \ {s[p]}
  BY <1>1, <1>4 DEF Range
<1>7. ASSUME NEW x \in Range(s) \ {s[p]} PROVE x \in Range(t)
  <2>1. PICK k \in 1 .. n : x = s[k]
    BY DEF Range
  <2>2. k # p
    BY <2>1
  <2>3. PICK i \in 1 .. n - 1 : t[i] = s[k]
    BY <1>3, <2>2
  <2> QED
    BY <2>1, <2>3 DEF Range
<1> QED
  BY <1>5, <1>6, <1>7

(* Taking the element at a position away moves those after it up by one.   *)
LEMMA RemoveAtFacts ==
    ASSUME NEW S, NEW s \in Seq(S), NEW p, p \in DOMAIN s
    PROVE  RemoveAt(s, p) \in Seq(S) /\ Without(RemoveAt(s, p), s, Len(s), p)
<1>1. PICK n : n = Len(s)
  OBVIOUS
<1>2. n \in Nat /\ DOMAIN s = 1 .. n /\ p \in Nat /\ 1 <= p /\ p <= n /\ \A i \in 1 .. n : s[i] \in S
  BY <1>1
<1>3. PICK a : a = SubSeq(s, 1, p - 1)
  OBVIOUS
<1>4. a \in Seq(S) /\ Len(a) = p - 1 /\ \A i \in 1 .. p - 1 : a[i] = s[i]
  <2>1. 1 \in Int /\ p - 1 \in Int /\ \A i \in 1 .. p - 1 : s[i] \in S
    BY <1>2
  <2>2. /\ a \in Seq(S) /\ Len(a) = IF 1 <= p - 1 THEN (p - 1) - 1 + 1 ELSE 0
        /\ \A i \in 1 .. (p - 1) - 1 + 1 : a[i] = s[1 + i - 1]
    BY <1>3, <2>1, SubSeqProperties
  <2>3. Len(a) = p - 1
    BY <1>2, <2>2
  <2>4. \A i \in 1 .. p - 1 : i \in 1 .. (p - 1) - 1 + 1 /\ 1 + i - 1 = i
    BY <1>2
  <2> QED
    BY <2>2, <2>3, <2>4
<1>5. PICK b : b = SubSeq(s, p + 1, n)
  OBVIOUS
<1>6. b \in Seq(S) /\ Len(b) = n - p /\ \A i \in 1 .. n - p : b[i] = s[p + i]
  <2>1. p + 1 \in Int /\ n \in Int /\ \A i \in p + 1 .. n : s[i] \in S
    BY <1>2
  <2>2. /\ b \in Seq(S) /\ Len(b) = IF p + 1 <= n THEN n - (p + 1) + 1 ELSE 0
        /\ \A i \in 1 .. n - (p + 1) + 1 : b[i] = s[(p + 1) + i - 1]
    BY <1>5, <2>1, SubSeqProperties
  <2>3. Len(b) = n - p
    BY <1>2, <2>2
  <2>4. \A i \in 1 .. n - p : i \in 1 .. n - (p + 1) + 1 /\ (p + 1) + i - 1 = p + i
    BY <1>2
  <2> QED
    BY <2>2, <2>3, <2>4
<1>7. PICK t : t = a \o b
  OBVIOUS
<1>8. /\ t \in Seq(S) /\ Len(t) = Len(a) + Len(b)
      /\ \A i \in 1 .. Len(a) + Len(b) : t[i] = IF i <= Len(a) THEN a[i] ELSE b[i - Len(a)]
  BY <1>4, <1>6, <1>7, ConcatProperties
<1>9. Len(t) = n - 1 /\ DOMAIN t = 1 .. n - 1
  BY <1>2, <1>4, <1>6, <1>8
<1>10. ASSUME NEW i \in 1 .. p - 1 PROVE t[i] = s[i]
  <2>1. i \in 1 .. Len(a) + Len(b) /\ i <= Len(a)
    BY <1>2, <1>4, <1>6
  <2> QED
    BY <1>4, <1>8, <2>1
<1>11. ASSUME NEW i \in p .. n - 1 PROVE t[i] = s[i + 1]
  <2>1. /\ i \in 1 .. Len(a) + Len(b) /\ ~(i <= Len(a))
        /\ i - Len(a) \in 1 .. n - p /\ p + (i - Len(a)) = i + 1
    BY <1>2, <1>4, <1>6
  <2> QED
    BY <1>6, <1>8, <2>1
<1>12. RemoveAt(s, p) = t
  BY <1>1, <1>3, <1>5, <1>7 DEF RemoveAt
<1>13. Without(t, s, n, p)
  <2>1. (\A i \in 1 .. p - 1 : t[i] = s[i]) /\ (\A i \in p .. n - 1 : t[i] = s[i + 1])
    BY <1>10, <1>11
  <2> QED
    BY <1>2, <1>9, <2>1 DEF Without
<1> QED
  BY <1>1, <1>8, <1>12, <1>13

(* Where the element at k was before one at p was taken away; the order    *)
(* stays.                                                                  *)
Up(k, p) == IF k < p THEN k ELSE k + 1

LEMMA WithoutOrder ==
    ASSUME NEW n, NEW p, NEW s, NEW t, Without(t, s, n, p)
    PROVE  /\ \A k \in 1 .. n - 1 : Up(k, p) \in 1 .. n /\ t[k] = s[Up(k, p)]
           /\ \A k, l \in 1 .. n - 1 : k < l <=> Up(k, p) < Up(l, p)
           /\ \A m \in 1 .. n : m # p => \E k \in 1 .. n - 1 : Up(k, p) = m
<1>0. /\ n \in Nat /\ p \in Nat /\ 1 <= p /\ p <= n
      /\ \A i \in 1 .. p - 1 : t[i] = s[i]
      /\ \A i \in p .. n - 1 : t[i] = s[i + 1]
  BY DEF Without
<1>1. ASSUME NEW k \in 1 .. n - 1 PROVE Up(k, p) \in 1 .. n /\ t[k] = s[Up(k, p)]
  <2>1. CASE k < p
    <3>1. k \in 1 .. p - 1 /\ Up(k, p) = k /\ k \in 1 .. n
      BY <1>0, <2>1 DEF Up
    <3> QED
      BY <1>0, <3>1
  <2>2. CASE ~(k < p)
    <3>1. k \in p .. n - 1 /\ Up(k, p) = k + 1 /\ k + 1 \in 1 .. n
      BY <1>0, <2>2 DEF Up
    <3> QED
      BY <1>0, <3>1
  <2> QED
    BY <2>1, <2>2
<1>2. ASSUME NEW k \in 1 .. n - 1, NEW l \in 1 .. n - 1 PROVE k < l <=> Up(k, p) < Up(l, p)
  BY <1>0 DEF Up
<1>3. ASSUME NEW m \in 1 .. n, m # p PROVE \E k \in 1 .. n - 1 : Up(k, p) = m
  <2>1. CASE m < p
    <3>1. m \in 1 .. n - 1 /\ Up(m, p) = m
      BY <1>0, <2>1 DEF Up
    <3> QED
      BY <3>1
  <2>2. CASE ~(m < p)
    <3>1. m - 1 \in 1 .. n - 1 /\ Up(m - 1, p) = m
      BY <1>0, <1>3, <2>2 DEF Up
    <3> QED
      BY <3>1
  <2> QED
    BY <2>1, <2>2
<1> QED
  BY <1>1, <1>2, <1>3

LEMMA PositionFacts ==
    ASSUME NEW list, NEW id \in Range(list)
    PROVE  PositionOf(list, id) \in DOMAIN list /\ list[PositionOf(list, id)] = id
BY DEF PositionOf, Range

LEMMA UnlinkFacts ==
    ASSUME NEW list \in Seq(Nat), IsInjective(list), NEW id \in Range(list)
    PROVE  /\ Unlink(list, id) \in Seq(Nat) /\ IsInjective(Unlink(list, id))
           /\ Range(Unlink(list, id)) = Range(list) \ {id}
           /\ Without(Unlink(list, id), list, Len(list), PositionOf(list, id))
<1>1. PICK p : p = PositionOf(list, id)
  OBVIOUS
<1>2. p \in DOMAIN list /\ list[p] = id
  BY <1>1, PositionFacts
<1>3. PICK t : t = RemoveAt(list, p)
  OBVIOUS
<1>4. Unlink(list, id) = t
  BY <1>1, <1>3 DEF Unlink
<1>5. t \in Seq(Nat) /\ Without(t, list, Len(list), p)
  BY <1>2, <1>3, RemoveAtFacts
<1>6. IsInjective(t) /\ Range(t) = Range(list) \ {list[p]}
  BY <1>5, ShiftFacts
<1> QED
  BY <1>1, <1>2, <1>4, <1>5, <1>6

-----------------------------------------------------------------------------
(* The walk of a tick at timer t of a list, 0 at its end, has timer id     *)
(* behind it.                                                              *)
Behind(list, t, id) ==
    \E i \in DOMAIN list : list[i] = id /\ (t = 0 \/ \E j \in DOMAIN list : list[j] = t /\ i < j)

(* At the head of the list no timer is.                                    *)
LEMMA BehindHead ==
    ASSUME NEW list \in Seq(Nat), IsInjective(list), 0 \notin Range(list), NEW id
    PROVE  /\ ~ Behind(list, HeadOf(list), id)
           /\ HeadOf(list) = 0 \/ HeadOf(list) \in Range(list)
           /\ HeadOf(list) \in Nat
<1>1. PICK n : n = Len(list)
  OBVIOUS
<1>2. n \in Nat /\ DOMAIN list = 1 .. n
  BY <1>1
<1>3. CASE list = <<>>
  <2>1. Len(<<>>) = 0 /\ n = 0
    BY <1>1, <1>3, EmptyFacts
  <2>2. DOMAIN list = {} /\ HeadOf(list) = 0
    BY <1>2, <1>3, <2>1 DEF HeadOf
  <2> QED
    BY <2>2 DEF Behind
<1>4. CASE list # <<>>
  <2>1. 1 \in DOMAIN list /\ HeadOf(list) = list[1]
    BY <1>1, <1>2, <1>4, EmptyFacts DEF HeadOf
  <2>2. list[1] # 0 /\ list[1] \in Range(list) /\ list[1] \in Nat
    BY <2>1 DEF Range
  <2>3. \A j \in DOMAIN list : list[j] = list[1] => j = 1
    BY <2>1 DEF IsInjective
  <2>4. \A i \in DOMAIN list : ~(i < 1)
    BY <1>2
  <2>5. ~ Behind(list, list[1], id)
    BY <2>2, <2>3, <2>4 DEF Behind
  <2> QED
    BY <2>1, <2>2, <2>5
<1> QED
  BY <1>3, <1>4

(* At a timer of the list, behind means before it.                         *)
LEMMA BehindAt ==
    ASSUME NEW list \in Seq(Nat), IsInjective(list), NEW t \in Range(list), t # 0, NEW id
    PROVE  Behind(list, t, id) <=>
               \E i \in DOMAIN list : list[i] = id /\ i < PositionOf(list, t)
<1>1. PositionOf(list, t) \in DOMAIN list /\ list[PositionOf(list, t)] = t
  BY PositionFacts
<1>2. \A j \in DOMAIN list : list[j] = t => j = PositionOf(list, t)
  BY <1>1 DEF IsInjective
<1> QED
  BY <1>1, <1>2 DEF Behind

(* Going on to the next timer leaves this one behind, and no other.        *)
LEMMA BehindNext ==
    ASSUME NEW list \in Seq(Nat), IsInjective(list), 0 \notin Range(list), NEW t \in Range(list), NEW id
    PROVE  /\ Behind(list, NextOf(list, t), id) <=> Behind(list, t, id) \/ id = t
           /\ ~ Behind(list, t, t)
           /\ NextOf(list, t) # t
           /\ NextOf(list, t) = 0 \/ NextOf(list, t) \in Range(list)
           /\ NextOf(list, t) \in Nat
<1>1. PICK n, p : n = Len(list) /\ p = PositionOf(list, t)
  OBVIOUS
<1>2. /\ n \in Nat /\ DOMAIN list = 1 .. n /\ p \in 1 .. n /\ list[p] = t /\ t # 0
      /\ \A i \in 1 .. n : list[i] \in Nat /\ list[i] # 0
  <2>1. p \in DOMAIN list /\ list[p] = t
    BY <1>1, PositionFacts
  <2>2. n \in Nat /\ DOMAIN list = 1 .. n
    BY <1>1
  <2> QED
    BY <2>1, <2>2 DEF Range
<1>3. Behind(list, t, id) <=> \E i \in 1 .. n : list[i] = id /\ i < p
  BY <1>1, <1>2, BehindAt
<1>4. \A i \in 1 .. n : list[i] = t => i = p
  BY <1>2 DEF IsInjective
<1>5. ~ Behind(list, t, t)
  <2>1. Behind(list, t, t) <=> \E i \in DOMAIN list : list[i] = t /\ i < PositionOf(list, t)
    BY <1>2, BehindAt
  <2> QED
    BY <1>1, <1>2, <1>4, <2>1
<1>6. CASE p = n
  <2>1. NextOf(list, t) = 0
    BY <1>1, <1>6 DEF NextOf
  <2>2. Behind(list, 0, id) <=> \E i \in 1 .. n : list[i] = id
    BY <1>2 DEF Behind
  <2>3. \A i \in 1 .. n : i < p \/ i = p
    BY <1>2, <1>6
  <2>4. Behind(list, 0, id) <=> Behind(list, t, id) \/ id = t
    BY <1>2, <1>3, <2>2, <2>3
  <2> QED
    BY <1>2, <1>5, <2>1, <2>4
<1>7. CASE p # n
  <2>1. NextOf(list, t) = list[p + 1] /\ p + 1 \in 1 .. n
    BY <1>1, <1>2, <1>7 DEF NextOf
  <2>2. PICK u : u = list[p + 1]
    OBVIOUS
  <2>3. u \in Nat /\ u # 0 /\ u \in Range(list)
    BY <1>2, <2>1, <2>2 DEF Range
  <2>4. \A j \in 1 .. n : list[j] = u => j = p + 1
    BY <1>2, <2>1, <2>2 DEF IsInjective
  <2>5. u # t
    BY <1>2, <1>4, <2>1, <2>2
  <2>6. Behind(list, u, id) <=> \E i \in 1 .. n : list[i] = id /\ i < p + 1
    BY <1>2, <2>1, <2>2, <2>3, <2>4 DEF Behind
  <2>7. \A i \in 1 .. n : i < p + 1 <=> (i < p \/ i = p)
    BY <1>2
  <2>8. Behind(list, u, id) <=> Behind(list, t, id) \/ id = t
    BY <1>2, <1>3, <2>6, <2>7
  <2> QED
    BY <1>5, <2>1, <2>2, <2>3, <2>5, <2>8
<1> QED
  BY <1>6, <1>7

(* A timer that comes in front of the walk is behind it.                   *)
LEMMA BehindPush ==
    ASSUME NEW list \in Seq(Nat), IsInjective(list), NEW t \in Range(list), t # 0,
           NEW e \in Nat, e \notin Range(list), NEW id
    PROVE  Behind(<<e>> \o list, t, id) <=> Behind(list, t, id) \/ id = e
<1>1. PICK n, p, l : n = Len(list) /\ p = PositionOf(list, t) /\ l = <<e>> \o list
  OBVIOUS
<1>2. n \in Nat /\ DOMAIN list = 1 .. n /\ p \in 1 .. n /\ list[p] = t /\ t # e
  <2>1. p \in DOMAIN list /\ list[p] = t
    BY <1>1, PositionFacts
  <2>2. n \in Nat /\ DOMAIN list = 1 .. n
    BY <1>1
  <2> QED
    BY <2>1, <2>2
<1>3. l \in Seq(Nat) /\ Len(l) = n + 1 /\ IsInjective(l) /\ Range(l) = Range(list) \cup {e}
  BY <1>1, PushFacts
<1>4. DOMAIN l = 1 .. n + 1
  BY <1>2, <1>3
<1>5. l[1] = e /\ \A i \in 1 .. n : l[i + 1] = list[i]
  BY <1>1, <1>2
<1>6. /\ p + 1 \in 1 .. n + 1 /\ l[p + 1] = t
      /\ \A j \in 1 .. n + 1 : l[j] = t => j = p + 1
  <2>1. p + 1 \in 1 .. n + 1 /\ l[p + 1] = t
    BY <1>2, <1>5
  <2> QED
    BY <1>3, <1>4, <2>1 DEF IsInjective
<1>7. Behind(list, t, id) <=> \E i \in 1 .. n : list[i] = id /\ i < p
  BY <1>1, <1>2, BehindAt
<1>8. Behind(l, t, id) <=> \E i \in 1 .. n + 1 : l[i] = id /\ i < p + 1
  <2>1. PICK m : m = p + 1
    OBVIOUS
  <2>2. \A j \in DOMAIN l : l[j] = t <=> j = m
    BY <1>4, <1>6, <2>1
  <2>3. m \in DOMAIN l
    BY <1>4, <1>6, <2>1
  <2>4. Behind(l, t, id) <=> \E i \in DOMAIN l : l[i] = id /\ i < m
    BY <2>2, <2>3 DEF Behind
  <2> QED
    BY <1>4, <2>1, <2>4
<1>9. ASSUME NEW i \in 1 .. n, list[i] = id, i < p PROVE Behind(l, t, id)
  <2>1. i + 1 \in 1 .. n + 1 /\ l[i + 1] = id /\ i + 1 < p + 1
    BY <1>2, <1>5, <1>9
  <2> QED
    BY <1>8, <2>1
<1>10. ASSUME id = e PROVE Behind(l, t, id)
  <2>1. 1 \in 1 .. n + 1 /\ l[1] = id /\ 1 < p + 1
    BY <1>2, <1>5, <1>10
  <2> QED
    BY <1>8, <2>1
<1>11. ASSUME NEW i \in 1 .. n + 1, l[i] = id, i < p + 1 PROVE Behind(list, t, id) \/ id = e
  <2>1. CASE i = 1
    BY <1>5, <1>11, <2>1
  <2>2. CASE i # 1
    <3>1. i - 1 \in 1 .. n /\ (i - 1) + 1 = i /\ i - 1 < p
      BY <1>2, <1>11, <2>2
    <3>2. list[i - 1] = id
      BY <1>5, <1>11, <3>1
    <3> QED
      BY <1>7, <3>1, <3>2
  <2> QED
    BY <2>1, <2>2
<1> QED
  BY <1>1, <1>7, <1>8, <1>9, <1>10, <1>11

(* Unlinking another timer leaves the same ones behind.                    *)
LEMMA BehindUnlink ==
    ASSUME NEW list \in Seq(Nat), IsInjective(list), NEW t \in Range(list), t # 0,
           NEW x \in Range(list), x # t, NEW id, id # x
    PROVE  Behind(Unlink(list, x), t, id) <=> Behind(list, t, id)
<1>1. PICK n, p, l : n = Len(list) /\ p = PositionOf(list, x) /\ l = Unlink(list, x)
  OBVIOUS
<1>2. Without(l, list, n, p)
  BY <1>1, UnlinkFacts
<1>3. /\ \A k \in 1 .. n - 1 : Up(k, p) \in 1 .. n /\ l[k] = list[Up(k, p)]
      /\ \A k, m \in 1 .. n - 1 : k < m <=> Up(k, p) < Up(m, p)
      /\ \A m \in 1 .. n : m # p => \E k \in 1 .. n - 1 : Up(k, p) = m
  BY <1>2, WithoutOrder
<1>4. DOMAIN l = 1 .. n - 1 /\ DOMAIN list = 1 .. n
  BY <1>2 DEF Without
<1>5. p \in 1 .. n /\ list[p] = x
  BY <1>1, <1>4, PositionFacts
<1>6. ASSUME Behind(l, t, id) PROVE Behind(list, t, id)
  <2>1. PICK i \in 1 .. n - 1, j \in 1 .. n - 1 : l[i] = id /\ l[j] = t /\ i < j
    BY <1>4, <1>6 DEF Behind
  <2>2. /\ Up(i, p) \in DOMAIN list /\ list[Up(i, p)] = id
        /\ Up(j, p) \in DOMAIN list /\ list[Up(j, p)] = t /\ Up(i, p) < Up(j, p)
    BY <1>3, <1>4, <2>1
  <2> QED
    BY <2>2 DEF Behind
<1>7. ASSUME Behind(list, t, id) PROVE Behind(l, t, id)
  <2>1. PICK i \in 1 .. n, j \in 1 .. n : list[i] = id /\ list[j] = t /\ i < j
    BY <1>4, <1>7 DEF Behind
  <2>2. i # p /\ j # p
    BY <1>5, <2>1
  <2>3. PICK k \in 1 .. n - 1, m \in 1 .. n - 1 : Up(k, p) = i /\ Up(m, p) = j
    BY <1>3, <2>2
  <2>4. k \in DOMAIN l /\ m \in DOMAIN l /\ l[k] = id /\ l[m] = t /\ k < m
    BY <1>3, <1>4, <2>1, <2>3
  <2> QED
    BY <2>4 DEF Behind
<1> QED
  BY <1>1, <1>6, <1>7

(* The walk goes on after the timer it is at has been unlinked.            *)
LEMMA BehindUnlinkNext ==
    ASSUME NEW list \in Seq(Nat), IsInjective(list), 0 \notin Range(list),
           NEW t \in Range(list), NEW id, id # t
    PROVE  Behind(Unlink(list, t), NextOf(list, t), id) <=> Behind(list, t, id)
<1>1. PICK u : u = NextOf(list, t)
  OBVIOUS
<1>2. /\ Behind(list, u, id) <=> Behind(list, t, id)
      /\ u # t /\ (u = 0 \/ u \in Range(list))
  BY <1>1, BehindNext
<1>3. CASE u # 0
  <2>1. Behind(Unlink(list, t), u, id) <=> Behind(list, u, id)
    BY <1>2, <1>3, BehindUnlink
  <2> QED
    BY <1>1, <1>2, <2>1
<1>4. CASE u = 0
  <2>1. Range(Unlink(list, t)) = Range(list) \ {t}
    BY UnlinkFacts
  <2>2. Behind(Unlink(list, t), 0, id) <=> id \in Range(Unlink(list, t))
    BY DEF Behind, Range
  <2>3. Behind(list, 0, id) <=> id \in Range(list)
    BY DEF Behind, Range
  <2> QED
    BY <1>1, <1>2, <1>4, <2>1, <2>2, <2>3
<1> QED
  BY <1>3, <1>4

-----------------------------------------------------------------------------
(* The handles of a Timer: those not on the stack are in use.              *)
InUse(h) == DOMAIN h.timers \ Range(h.stack)

HandlesSound(h) ==
    /\ h \in [timers : Seq(Nat), stack : Seq(Nat)]
    /\ IsInjective(h.stack) /\ Range(h.stack) \subseteq DOMAIN h.timers

(* A new timer takes one handle into use and disturbs no other.            *)
LEMMA TakeFacts ==
    ASSUME NEW h, HandlesSound(h), NEW id \in Nat
    PROVE  \E k : /\ k \notin InUse(h) /\ InUse(TakeHandle(h, id)) = InUse(h) \cup {k}
                  /\ HandlesSound(TakeHandle(h, id)) /\ TakeHandle(h, id).timers[k] = id
                  /\ \A n \in InUse(h) : TakeHandle(h, id).timers[n] = h.timers[n]
<1>1. PICK ts, st, g, a, m : /\ ts = h.timers /\ st = h.stack /\ g = TakeHandle(h, id)
                             /\ a = Len(ts) /\ m = Len(st)
  OBVIOUS
<1>2. /\ h = [timers |-> ts, stack |-> st] /\ ts \in Seq(Nat) /\ st \in Seq(Nat)
      /\ IsInjective(st) /\ Range(st) \subseteq DOMAIN ts
  BY <1>1 DEF HandlesSound
<1>3. a \in Nat /\ m \in Nat /\ DOMAIN ts = 1 .. a /\ DOMAIN st = 1 .. m
  BY <1>1, <1>2
<1>4. ASSUME NEW us, NEW tt, NEW k, g = [timers |-> us, stack |-> tt],
             us \in Seq(Nat), tt \in Seq(Nat), IsInjective(tt), Range(tt) = Range(st) \ {k},
             DOMAIN us = DOMAIN ts \cup {k}, us[k] = id,
             \A n \in DOMAIN ts : n # k => us[n] = ts[n],
             k \notin DOMAIN ts \/ k \in Range(st)
      PROVE  /\ k \notin InUse(h) /\ InUse(g) = InUse(h) \cup {k}
             /\ HandlesSound(g) /\ g.timers[k] = id
             /\ \A n \in InUse(h) : g.timers[n] = h.timers[n]
  <2>1. g.timers = us /\ g.stack = tt /\ h.timers = ts /\ h.stack = st
    BY <1>1, <1>4
  <2>2. InUse(h) = DOMAIN ts \ Range(st) /\ InUse(g) = DOMAIN us \ Range(tt)
    BY <2>1 DEF InUse
  <2>3. k \notin InUse(h) /\ InUse(g) = InUse(h) \cup {k}
    BY <1>2, <1>4, <2>2
  <2>4. Range(tt) \subseteq DOMAIN us
    BY <1>2, <1>4
  <2>5. HandlesSound(g)
    BY <1>4, <2>1, <2>4 DEF HandlesSound
  <2>6. \A n \in InUse(h) : us[n] = ts[n]
    BY <1>4, <2>2, <2>3
  <2> QED
    BY <1>4, <2>1, <2>3, <2>5, <2>6
<1>5. CASE st = <<>>
  <2>1. PICK us, k : us = Append(ts, id) /\ k = a + 1
    OBVIOUS
  <2>2. g = [timers |-> us, stack |-> st]
    BY <1>1, <1>2, <1>5, <2>1 DEF TakeHandle
  <2>3. /\ us \in Seq(Nat) /\ DOMAIN us = 1 .. a + 1 /\ us[a + 1] = id
        /\ \A n \in 1 .. a : us[n] = ts[n]
    BY <1>1, <1>2, <1>3, <2>1
  <2>4. Range(st) = {}
    BY <1>5, EmptyFacts
  <2>5. k \notin DOMAIN ts /\ DOMAIN us = DOMAIN ts \cup {k}
    BY <1>3, <2>1, <2>3
  <2>6. /\ st \in Seq(Nat) /\ IsInjective(st) /\ Range(st) = Range(st) \ {k} /\ us[k] = id
        /\ \A n \in DOMAIN ts : n # k => us[n] = ts[n]
    BY <1>2, <1>3, <2>1, <2>3, <2>4
  <2>7. us \in Seq(Nat)
    BY <2>3
  <2>8. /\ k \notin InUse(h) /\ InUse(g) = InUse(h) \cup {k}
        /\ HandlesSound(g) /\ g.timers[k] = id
        /\ \A n \in InUse(h) : g.timers[n] = h.timers[n]
    BY <1>4, <2>2, <2>5, <2>6, <2>7
  <2> QED
    BY <1>1, <2>8
<1>6. CASE st # <<>>
  <2>1. PICK k : k = st[m]
    OBVIOUS
  <2>2. m # 0
    BY <1>1, <1>2, <1>6, EmptyFacts
  <2>3. m \in DOMAIN st
    BY <1>3, <2>2
  <2>4. k \in Range(st) /\ k \in DOMAIN ts
    BY <1>2, <2>1, <2>3 DEF Range
  <2>5. PICK us, tt : us = [ts EXCEPT ![k] = id] /\ tt = SubSeq(st, 1, m - 1)
    OBVIOUS
  <2>6. NextHandle(h) = k
    BY <1>1, <1>6, <2>1 DEF NextHandle
  <2>7. g = [timers |-> us, stack |-> tt]
    BY <1>1, <1>6, <2>5, <2>6 DEF TakeHandle
  <2>8. us \in Seq(Nat) /\ DOMAIN us = DOMAIN ts /\ us[k] = id /\ \A n \in DOMAIN ts : n # k => us[n] = ts[n]
    BY <1>2, <2>4, <2>5
  <2>9. tt \in Seq(Nat) /\ Without(tt, st, m, m)
    <3>1. 1 \in Int /\ m - 1 \in Int /\ \A i \in 1 .. m - 1 : st[i] \in Nat
      BY <1>1, <1>2, <1>3
    <3>2. /\ tt \in Seq(Nat) /\ Len(tt) = IF 1 <= m - 1 THEN (m - 1) - 1 + 1 ELSE 0
          /\ \A i \in 1 .. (m - 1) - 1 + 1 : tt[i] = st[1 + i - 1]
      BY <2>5, <3>1, SubSeqProperties
    <3>3. Len(tt) = m - 1
      BY <1>3, <2>2, <3>2
    <3>4. \A i \in 1 .. m - 1 : i \in 1 .. (m - 1) - 1 + 1 /\ 1 + i - 1 = i
      BY <1>3
    <3>5. \A i \in 1 .. m - 1 : tt[i] = st[i]
      BY <3>2, <3>4
    <3>6. DOMAIN tt = 1 .. m - 1 /\ 1 <= m /\ m .. m - 1 = {}
      BY <1>3, <2>2, <3>2, <3>3
    <3> QED
      BY <1>3, <3>2, <3>5, <3>6 DEF Without
  <2>10. IsInjective(tt) /\ Range(tt) = Range(st) \ {k}
    BY <1>2, <2>1, <2>9, ShiftFacts
  <2>11. DOMAIN us = DOMAIN ts \cup {k}
    BY <2>4, <2>8
  <2> QED
    BY <1>1, <1>4, <2>4, <2>7, <2>8, <2>9, <2>10, <2>11
<1> QED
  BY <1>5, <1>6

(* A deleted timer's handle goes out of use, and no other.                 *)
LEMMA DropFacts ==
    ASSUME NEW h, HandlesSound(h), NEW n \in InUse(h)
    PROVE  /\ HandlesSound(DropHandle(h, n)) /\ InUse(DropHandle(h, n)) = InUse(h) \ {n}
           /\ DropHandle(h, n).timers = h.timers
<1>1. PICK ts, st, us : ts = h.timers /\ st = h.stack /\ us = Append(st, n)
  OBVIOUS
<1>2. /\ h = [timers |-> ts, stack |-> st] /\ ts \in Seq(Nat) /\ st \in Seq(Nat)
      /\ IsInjective(st) /\ Range(st) \subseteq DOMAIN ts
      /\ n \in DOMAIN ts /\ n \notin Range(st) /\ n \in Nat
  BY <1>1 DEF HandlesSound, InUse
<1>3. DropHandle(h, n).timers = ts /\ DropHandle(h, n).stack = us
      /\ DropHandle(h, n) \in [timers : Seq(Nat), stack : Seq(Nat)]
  <2>1. PICK g : g = [h EXCEPT !.stack = us]
    OBVIOUS
  <2>2. DropHandle(h, n) = g
    BY <1>1, <2>1 DEF DropHandle
  <2>3. us \in Seq(Nat) /\ h \in [timers : Seq(Nat), stack : Seq(Nat)]
    BY <1>1, <1>2, AppendFacts
  <2>4. g.timers = ts /\ g.stack = us /\ g \in [timers : Seq(Nat), stack : Seq(Nat)]
    BY <1>1, <1>2, <2>1, <2>3
  <2> QED
    BY <2>2, <2>4
<1>4. us \in Seq(Nat) /\ IsInjective(us) /\ Range(us) = Range(st) \cup {n}
  <2>1. /\ Append(st, n) \in Seq(Nat) /\ Range(Append(st, n)) = Range(st) \cup {n}
        /\ IsInjective(st) /\ n \notin Range(st) => IsInjective(Append(st, n))
    BY ONLY <1>2, AppendFacts
  <2> QED
    BY ONLY <1>1, <1>2, <2>1, Zenon
<1>5. HandlesSound(DropHandle(h, n))
  BY <1>2, <1>3, <1>4 DEF HandlesSound
<1>6. InUse(DropHandle(h, n)) = InUse(h) \ {n}
  BY <1>1, <1>3, <1>4 DEF InUse
<1> QED
  BY <1>1, <1>3, <1>5, <1>6

(* What the property says of handles, from their being used once.          *)
LEMMA HandlesCounted ==
    ASSUME NEW h, HandlesSound(h), NEW live,
           \A id \in live : id # 0 /\ \E n \in InUse(h) : h.timers[n] = id,
           \A n, m \in InUse(h) : h.timers[n] # 0 /\ h.timers[n] = h.timers[m] => n = m
    PROVE  HandlesNameTimers(h, live)
<1>1. Recycled(h) = Range(h.stack)
  BY DEF Recycled, Range
<1>2. Cardinality(Range(h.stack)) = Len(h.stack)
  BY RangeCount DEF HandlesSound
<1>3. ASSUME NEW id \in live
      PROVE  Cardinality({n \in DOMAIN h.timers \ Recycled(h) : h.timers[n] = id}) = 1
  <2>1. PICK f : f = h.timers
    OBVIOUS
  <2>2. \A v, w \in InUse(h) : f[v] = id /\ f[w] = id => v = w
    BY <2>1
  <2>3. \E w \in InUse(h) : f[w] = id
    BY <2>1
  <2>4. Cardinality({n \in InUse(h) : f[n] = id}) = 1
    <3>1. PICK w \in InUse(h) : f[w] = id
      BY <2>3
    <3>2. {n \in InUse(h) : f[n] = id} = {w}
      BY <2>2, <3>1
    <3> QED
      BY <3>2, FS_Singleton
  <2> QED
    BY <1>1, <2>1, <2>4 DEF InUse
<1> QED
  BY <1>1, <1>2, <1>3 DEF HandlesNameTimers

-----------------------------------------------------------------------------
(* The wheel.  A timer is due after the distance of its slot and its turns *)
(* that are left; the tick under way counts for the timers of its slot     *)
(* until the walk has them behind it.                                      *)
WheelSlots == 0 .. WheelSize - 1

WheelTimer == [rotation : Nat, time_slot : WheelSlots, due : Nat, firedAt : Nat, deleted : BOOLEAN]

Distance(from, to) == IF to >= from THEN to - from ELSE to - from + WheelSize

WheelLive == {id \in DOMAIN tw_timer : tw_timer[id].firedAt = 0 /\ ~ tw_timer[id].deleted}

Passed(id) == walk # "asleep" /\ Behind(slots[cur_slot], tmp, id)

WheelTypes ==
    /\ slots \in [WheelSlots -> Seq(Nat)] /\ cur_slot \in WheelSlots
    /\ tw_timer \in Seq(WheelTimer)
    /\ walk \in {"asleep", "walking", "callback"} /\ tmp \in Nat /\ ticked \in Nat

SlotsLinked ==
    /\ \A s \in WheelSlots : IsInjective(slots[s])
    /\ \A s \in WheelSlots : \A id \in Range(slots[s]) :
           /\ id \in DOMAIN tw_timer /\ tw_timer[id].time_slot = s /\ ~ tw_timer[id].deleted
           /\ tw_timer[id].firedAt # 0 => walk = "callback" /\ id = tmp
    /\ \A id \in WheelLive : id \in Range(slots[tw_timer[id].time_slot])

WalkAt ==
    /\ walk = "callback" => tmp \in Range(slots[cur_slot]) /\ tw_timer[tmp].firedAt # 0
    /\ walk = "walking" => tmp = 0 \/ tmp \in Range(slots[cur_slot])

OnTime(id) ==
    /\ Passed(id) =>
           tw_timer[id].due = ticked + 1 + (tw_timer[id].rotation + 1) * WheelSize
    /\ ~ Passed(id) =>
           tw_timer[id].due = ticked + 1 + Distance(cur_slot, tw_timer[id].time_slot)
                                + tw_timer[id].rotation * WheelSize

DueOnTime ==
    /\ \A id \in DOMAIN tw_timer :
           tw_timer[id].firedAt # 0 => tw_timer[id].firedAt = tw_timer[id].due /\ ~ tw_timer[id].deleted
    /\ \A id \in WheelLive : OnTime(id)

WheelHandles ==
    /\ HandlesSound(tw_handles)
    /\ \A n \in InUse(tw_handles) : tw_handles.timers[n] # 0 =>
           tw_handles.timers[n] \in DOMAIN tw_timer /\ ~ tw_timer[tw_handles.timers[n]].deleted
    /\ \A n, m \in InUse(tw_handles) :
           tw_handles.timers[n] # 0 /\ tw_handles.timers[n] = tw_handles.timers[m] => n = m
    /\ \A id \in WheelLive : \E n \in InUse(tw_handles) : tw_handles.timers[n] = id

WheelInv == WheelTypes /\ SlotsLinked /\ WalkAt /\ DueOnTime /\ WheelHandles

(* The wheel as a clock: where a timer goes and what a turn does.          *)
LEMMA AroundTheWheel ==
    ASSUME NEW n \in Nat \ {0}, NEW cs \in 0 .. n - 1, NEW r \in 0 .. n - 1
    PROVE  \/ cs + r < n /\ (cs + r) % n = cs + r
           \/ cs + r >= n /\ (cs + r) % n = (cs + r) - n
<1>1. \A a \in 0 .. n - 1 : a % n = a
  OBVIOUS
<1>2. \A a \in n .. 2 * n - 1 : a % n = a - n
  OBVIOUS
<1>3. PICK a : a = cs + r
  OBVIOUS
<1>4. a \in 0 .. n - 1 \/ a \in n .. 2 * n - 1
  BY <1>3
<1>5. (a < n /\ a % n = a) \/ (a >= n /\ a % n = a - n)
  BY <1>1, <1>2, <1>4
<1> QED
  BY <1>3, <1>5, Zenon

LEMMA WheelAdd ==
    ASSUME NEW cs \in WheelSlots, NEW ticks \in Nat
    PROVE  LET ts == (cs + (ticks % WheelSize)) % WheelSize
           IN  /\ ts \in WheelSlots /\ Distance(cs, ts) = ticks % WheelSize
               /\ ts = cs <=> ticks % WheelSize = 0
               /\ wheel_rotation(ticks) \in Nat /\ ticks % WheelSize \in Nat
               /\ ticks = wheel_rotation(ticks) * WheelSize + (ticks % WheelSize)
<1>1. PICK n : n = WheelSize
  OBVIOUS
<1>2. n \in Nat \ {0} /\ cs \in 0 .. n - 1
  BY <1>1, TimeWheelAssumption DEF WheelSlots
<1>3. PICK r, q : r = ticks % n /\ q = ticks \div n
  OBVIOUS
<1>4. r \in 0 .. n - 1 /\ q \in Nat /\ ticks = q * n + r
  BY <1>2, <1>3
<1>5. PICK ts : ts = (cs + r) % n
  OBVIOUS
<1>6. (cs + r < n /\ ts = cs + r) \/ (cs + r >= n /\ ts = (cs + r) - n)
  <2>1. \/ cs + r < n /\ (cs + r) % n = cs + r
        \/ cs + r >= n /\ (cs + r) % n = (cs + r) - n
    BY <1>2, <1>4, AroundTheWheel
  <2> QED
    BY <1>5, <2>1, Zenon
<1>7. ts \in 0 .. n - 1 /\ (ts = cs <=> r = 0)
  BY <1>2, <1>4, <1>6
<1>8. Distance(cs, ts) = r
  BY <1>1, <1>2, <1>4, <1>6 DEF Distance
<1>9. ts \in WheelSlots /\ wheel_rotation(ticks) = q
  BY <1>1, <1>3, <1>7 DEF WheelSlots, wheel_rotation
<1>10. ts = (cs + (ticks % WheelSize)) % WheelSize /\ r = ticks % WheelSize
  BY <1>1, <1>3, <1>5, Zenon
<1>11. r \in Nat
  BY <1>4
<1>12. ticks = wheel_rotation(ticks) * WheelSize + (ticks % WheelSize)
  BY <1>1, <1>4, <1>9, <1>10, Zenon
<1> QED
  BY <1>4, <1>7, <1>8, <1>9, <1>10, <1>11, <1>12, Zenon

LEMMA WheelTurned ==
    ASSUME NEW cs \in WheelSlots, NEW next, next = (cs + 1) % WheelSize, NEW ts \in WheelSlots
    PROVE  /\ next \in WheelSlots
           /\ ts = cs => Distance(next, ts) = WheelSize - 1
           /\ ts # cs => Distance(cs, ts) = Distance(next, ts) + 1
           /\ Distance(cs, ts) \in Nat /\ Distance(next, ts) \in Nat
           /\ Distance(cs, cs) = 0
<1>1. PICK n : n = WheelSize
  OBVIOUS
<1>2. n \in Nat \ {0} /\ cs \in 0 .. n - 1 /\ ts \in 0 .. n - 1
  BY <1>1, TimeWheelAssumption DEF WheelSlots
<1>3. next = IF cs + 1 = n THEN 0 ELSE cs + 1
  <2>1. CASE cs + 1 = n
    <3>1. n % n = 0
      BY <1>2
    <3> QED
      BY <1>1, <2>1, <3>1
  <2>2. CASE cs + 1 # n
    <3>1. (cs + 1) % n = cs + 1
      BY <1>2, <2>2
    <3> QED
      BY <1>1, <2>2, <3>1
  <2> QED
    BY <2>1, <2>2
<1>4. next \in WheelSlots
  BY <1>1, <1>2, <1>3 DEF WheelSlots
<1>5. /\ ts = cs => Distance(next, ts) = n - 1
      /\ ts # cs => Distance(cs, ts) = Distance(next, ts) + 1
      /\ Distance(cs, ts) \in Nat /\ Distance(next, ts) \in Nat
      /\ Distance(cs, cs) = 0
  BY <1>1, <1>2, <1>3 DEF Distance
<1> QED
  BY <1>1, <1>4, <1>5

LEMMA WholeTurns ==
    ASSUME NEW r \in Nat
    PROVE  /\ r * WheelSize \in Nat /\ (r + 1) * WheelSize = r * WheelSize + WheelSize
           /\ WheelSize \in Nat \ {0} /\ 0 * WheelSize = 0
BY TimeWheelAssumption

(* A list of the wheel.                                                    *)
LEMMA WheelList ==
    ASSUME WheelTypes, SlotsLinked, NEW s \in WheelSlots
    PROVE  /\ slots[s] \in Seq(Nat) /\ IsInjective(slots[s]) /\ 0 \notin Range(slots[s])
           /\ \A id \in Range(slots[s]) : id \in DOMAIN tw_timer /\ id \in Nat
<1>1. DOMAIN tw_timer = 1 .. Len(tw_timer) /\ Len(tw_timer) \in Nat
  BY DEF WheelTypes
<1>2. 0 \notin DOMAIN tw_timer /\ \A id \in DOMAIN tw_timer : id \in Nat
  BY <1>1
<1> QED
  BY <1>2 DEF WheelTypes, SlotsLinked

LEMMA TimerFacts ==
    ASSUME WheelTypes, NEW id \in DOMAIN tw_timer
    PROVE  /\ tw_timer[id] \in WheelTimer /\ id \in Nat \ {0} /\ id <= Len(tw_timer)
           /\ tw_timer[id].rotation \in Nat /\ tw_timer[id].time_slot \in WheelSlots
           /\ tw_timer[id].due \in Nat
<1>1. tw_timer[id] \in WheelTimer /\ id \in Nat \ {0} /\ id <= Len(tw_timer)
  BY DEF WheelTypes
<1> QED
  BY <1>1 DEF WheelTimer

LEMMA WheelInitially == TimeWheelInit => WheelInv
<1> SUFFICES ASSUME TimeWheelInit PROVE WheelInv
  OBVIOUS
<1>1. /\ slots = [s \in WheelSlots |-> <<>>] /\ cur_slot = 0 /\ tw_timer = <<>>
      /\ walk = "asleep" /\ tmp = 0 /\ ticked = 0 /\ tw_handles = [timers |-> <<>>, stack |-> <<>>]
  BY DEF TimeWheelInit, WheelSlots, NoHandles
<1>2. DOMAIN tw_timer = {} /\ WheelLive = {}
  BY <1>1 DEF WheelLive
<1>3. WheelTypes
  BY <1>1, TimeWheelAssumption, EmptySeq DEF WheelTypes, WheelSlots
<1>4. \A s \in WheelSlots : IsInjective(slots[s]) /\ Range(slots[s]) = {}
  BY <1>1, EmptyFacts
<1>5. SlotsLinked /\ WalkAt /\ DueOnTime
  BY <1>1, <1>2, <1>4 DEF SlotsLinked, WalkAt, DueOnTime
<1>6. HandlesSound(tw_handles) /\ InUse(tw_handles) = {}
  BY <1>1, EmptyFacts, EmptySeq DEF HandlesSound, InUse
<1>7. WheelHandles
  BY <1>2, <1>6 DEF WheelHandles
<1> QED
  BY <1>3, <1>5, <1>7 DEF WheelInv

(* Handles that stay, while timers fire.                                   *)
LEMMA HandlesStay ==
    ASSUME WheelHandles, UNCHANGED tw_handles, DOMAIN tw_timer' = DOMAIN tw_timer,
           \A id \in DOMAIN tw_timer : tw_timer'[id].deleted = tw_timer[id].deleted,
           WheelLive' \subseteq WheelLive
    PROVE  WheelHandles'
BY DEF WheelHandles

LEMMA OnTimeStays ==
    ASSUME NEW id, OnTime(id), Passed(id)' <=> Passed(id),
           UNCHANGED <<cur_slot, ticked>>, tw_timer'[id] = tw_timer[id]
    PROVE  OnTime(id)'
BY DEF OnTime

(* A tick starts at the head of its list, with nothing behind it.          *)
LEMMA WheelTicks == WheelInv /\ wheel_tick => WheelInv'
<1> SUFFICES ASSUME WheelInv, wheel_tick PROVE WheelInv'
  OBVIOUS
<1>1. /\ walk = "asleep" /\ walk' = "walking" /\ tmp' = HeadOf(slots[cur_slot])
      /\ UNCHANGED <<slots, cur_slot, tw_timer, ticked, tw_handles>>
  BY DEF wheel_tick
<1>2. WheelTypes /\ SlotsLinked /\ DueOnTime /\ WheelHandles /\ cur_slot \in WheelSlots
  BY DEF WheelInv, WheelTypes
<1>3. /\ slots[cur_slot] \in Seq(Nat) /\ IsInjective(slots[cur_slot])
      /\ 0 \notin Range(slots[cur_slot])
  BY <1>2, WheelList
<1>4. PICK list : list = slots[cur_slot]
  OBVIOUS
<1>5. tmp' \in Nat /\ (tmp' = 0 \/ tmp' \in Range(list))
  <2>1. CASE list = <<>>
    BY <1>1, <1>4, <2>1 DEF HeadOf
  <2>2. CASE list # <<>>
    <3>1. tmp' = list[1] /\ 1 \in DOMAIN list /\ list[1] \in Nat
      BY <1>1, <1>3, <1>4, <2>2 DEF HeadOf
    <3> QED
      BY <3>1 DEF Range
  <2> QED
    BY <2>1, <2>2
<1>6. WheelTypes'
  BY <1>1, <1>2, <1>5 DEF WheelTypes
<1>7. WheelLive' = WheelLive
  BY <1>1 DEF WheelLive
<1>8. SlotsLinked' /\ WalkAt'
  BY <1>1, <1>2, <1>4, <1>5, <1>7 DEF SlotsLinked, WalkAt
<1>9. ASSUME NEW id \in WheelLive PROVE OnTime(id)'
  <2>1. ~ Passed(id) /\ ~ Passed(id)'
    BY <1>1, <1>3, BehindHead DEF Passed
  <2>2. OnTime(id)
    BY <1>2 DEF DueOnTime
  <2> QED
    BY <1>1, <2>1, <2>2, OnTimeStays
<1>10. DueOnTime'
  BY <1>1, <1>2, <1>7, <1>9 DEF DueOnTime
<1>11. WheelHandles'
  BY <1>1, <1>2, <1>7, HandlesStay
<1> QED
  BY <1>6, <1>8, <1>10, <1>11 DEF WheelInv

(* The timer the walk is at.                                               *)
LEMMA WalkFacts ==
    ASSUME WheelInv, walk # "asleep", tmp # 0
    PROVE  /\ tmp \in Range(slots[cur_slot]) /\ tmp \in DOMAIN tw_timer
           /\ tw_timer[tmp].time_slot = cur_slot /\ ~ tw_timer[tmp].deleted
           /\ walk = "walking" => tmp \in WheelLive
           /\ walk = "callback" => tmp \notin WheelLive
           /\ cur_slot \in WheelSlots /\ tw_timer[tmp] \in WheelTimer
           /\ slots[cur_slot] \in Seq(Nat) /\ IsInjective(slots[cur_slot])
           /\ 0 \notin Range(slots[cur_slot])
<1>1. WheelTypes /\ SlotsLinked /\ WalkAt /\ cur_slot \in WheelSlots
  BY DEF WheelInv, WheelTypes
<1>2. tmp \in Range(slots[cur_slot])
  BY <1>1 DEF WalkAt, WheelTypes
<1>3. /\ tmp \in DOMAIN tw_timer /\ tw_timer[tmp].time_slot = cur_slot /\ ~ tw_timer[tmp].deleted
      /\ tw_timer[tmp].firedAt # 0 => walk = "callback"
  BY <1>1, <1>2 DEF SlotsLinked
<1>4. walk = "callback" => tw_timer[tmp].firedAt # 0
  BY <1>1 DEF WalkAt
<1>5. tw_timer[tmp] \in WheelTimer
  BY <1>1, <1>3 DEF WheelTypes
<1> QED
  BY <1>1, <1>2, <1>3, <1>4, <1>5, WheelList DEF WheelLive

(* A timer with turns left is put behind the walk with one turn less.      *)
LEMMA WheelCounts ==
    ASSUME WheelInv, WheelVisit, tw_timer[tmp].rotation > 0
    PROVE  WheelInv'
<1>1. /\ walk = "walking" /\ tmp # 0
      /\ tw_timer' = [tw_timer EXCEPT ![tmp].rotation = @ - 1]
      /\ tmp' = NextOf(slots[cur_slot], tmp)
      /\ UNCHANGED <<walk, slots, cur_slot, ticked, tw_handles>>
  BY DEF WheelVisit
<1>2. WheelTypes /\ SlotsLinked /\ DueOnTime /\ WheelHandles
  BY DEF WheelInv
<1>3. PICK list : list = slots[cur_slot]
  OBVIOUS
<1>4. /\ tmp \in Range(list) /\ tmp \in DOMAIN tw_timer /\ tmp \in WheelLive
      /\ tw_timer[tmp].time_slot = cur_slot /\ cur_slot \in WheelSlots /\ tw_timer[tmp] \in WheelTimer
      /\ list \in Seq(Nat) /\ IsInjective(list) /\ 0 \notin Range(list)
  BY <1>1, <1>3, WalkFacts
<1>5. \A id : /\ Behind(list, NextOf(list, tmp), id) <=> Behind(list, tmp, id) \/ id = tmp
              /\ ~ Behind(list, tmp, tmp)
              /\ NextOf(list, tmp) = 0 \/ NextOf(list, tmp) \in Range(list)
              /\ NextOf(list, tmp) \in Nat
  BY <1>4, BehindNext
<1>6. PICK r : r = tw_timer[tmp].rotation
  OBVIOUS
<1>7. r \in Nat /\ r > 0 /\ r - 1 \in Nat
  BY <1>4, <1>6 DEF WheelTimer
<1>8. /\ DOMAIN tw_timer' = DOMAIN tw_timer
      /\ \A id \in DOMAIN tw_timer : id # tmp => tw_timer'[id] = tw_timer[id]
      /\ tw_timer'[tmp] = [tw_timer[tmp] EXCEPT !.rotation = r - 1]
  BY <1>1, <1>4, <1>6
<1>9. /\ tw_timer'[tmp].rotation = r - 1 /\ tw_timer'[tmp].due = tw_timer[tmp].due
      /\ tw_timer'[tmp].time_slot = tw_timer[tmp].time_slot
      /\ tw_timer'[tmp].firedAt = tw_timer[tmp].firedAt
      /\ tw_timer'[tmp].deleted = tw_timer[tmp].deleted
      /\ tw_timer'[tmp] \in WheelTimer
  BY <1>4, <1>7, <1>8 DEF WheelTimer
<1>10. \A id \in DOMAIN tw_timer : /\ tw_timer'[id].due = tw_timer[id].due
                                   /\ tw_timer'[id].time_slot = tw_timer[id].time_slot
                                   /\ tw_timer'[id].firedAt = tw_timer[id].firedAt
                                   /\ tw_timer'[id].deleted = tw_timer[id].deleted
  BY <1>8, <1>9
<1>11. WheelTypes'
  <2>1. tw_timer' \in Seq(WheelTimer)
    BY <1>1, <1>2, <1>4, <1>8, <1>9 DEF WheelTypes
  <2> QED
    BY <1>1, <1>2, <1>3, <1>5, <2>1 DEF WheelTypes
<1>12. WheelLive' = WheelLive
  BY <1>8, <1>10 DEF WheelLive
<1>13. SlotsLinked' /\ WalkAt'
  BY <1>1, <1>2, <1>3, <1>5, <1>8, <1>10, <1>12 DEF SlotsLinked, WalkAt
<1>14. ASSUME NEW id \in WheelLive, id # tmp PROVE OnTime(id)'
  <2>1. Passed(id)' <=> Passed(id)
    BY <1>1, <1>3, <1>5, <1>14 DEF Passed
  <2>2. OnTime(id) /\ tw_timer'[id] = tw_timer[id]
    BY <1>2, <1>8, <1>14 DEF DueOnTime, WheelLive
  <2> QED
    BY <1>1, <2>1, <2>2, OnTimeStays
<1>15. OnTime(tmp) /\ ~ Passed(tmp)
  BY <1>2, <1>3, <1>4, <1>5 DEF DueOnTime, Passed
<1>16. \A id \in WheelLive : id = tmp => OnTime(id)'
  <2> SUFFICES ASSUME NEW id \in WheelLive, id = tmp PROVE OnTime(id)'
    OBVIOUS
  <2>1. Passed(id)'
    BY <1>1, <1>3, <1>5 DEF Passed
  <2>2. tw_timer[tmp].due = ticked + 1 + Distance(cur_slot, cur_slot) + r * WheelSize
    BY <1>4, <1>6, <1>15 DEF OnTime
  <2>3. Distance(cur_slot, cur_slot) = 0
    BY <1>4, WheelTurned
  <2>4. r * WheelSize \in Nat
    BY <1>7, WholeTurns
  <2>5. tw_timer[tmp].due = ticked + 1 + r * WheelSize
    BY <1>2, <2>2, <2>3, <2>4 DEF WheelTypes
  <2>6. tw_timer'[id].due = ticked' + 1 + (tw_timer'[id].rotation + 1) * WheelSize
    <3>1. (r - 1) + 1 = r
      BY <1>7
    <3> QED
      BY <1>1, <1>9, <2>5, <3>1
  <2> QED
    BY <2>1, <2>6 DEF OnTime
<1>17. DueOnTime'
  BY <1>2, <1>8, <1>10, <1>12, <1>14, <1>16 DEF DueOnTime
<1>18. WheelHandles'
  BY <1>1, <1>2, <1>8, <1>10, <1>12, HandlesStay
<1> QED
  BY <1>11, <1>13, <1>17, <1>18 DEF WheelInv

(* A timer with no turn left is due on this very tick.                     *)
LEMMA WheelFires ==
    ASSUME WheelInv, WheelVisit, ~(tw_timer[tmp].rotation > 0)
    PROVE  WheelInv'
<1>1. /\ walk = "walking" /\ tmp # 0 /\ walk' = "callback"
      /\ tw_timer' = [tw_timer EXCEPT ![tmp].firedAt = ticked + 1]
      /\ UNCHANGED <<tmp, slots, cur_slot, ticked, tw_handles>>
  BY DEF WheelVisit
<1>2. WheelTypes /\ SlotsLinked /\ DueOnTime /\ WheelHandles
  BY DEF WheelInv
<1>3. PICK list : list = slots[cur_slot]
  OBVIOUS
<1>4. /\ tmp \in Range(list) /\ tmp \in DOMAIN tw_timer /\ tmp \in WheelLive
      /\ tw_timer[tmp].time_slot = cur_slot /\ cur_slot \in WheelSlots /\ tw_timer[tmp] \in WheelTimer
      /\ list \in Seq(Nat) /\ IsInjective(list) /\ 0 \notin Range(list)
  BY <1>1, <1>3, WalkFacts
<1>5. ticked \in Nat /\ ticked + 1 \in Nat /\ ticked + 1 # 0
  BY <1>2 DEF WheelTypes
<1>6. tw_timer[tmp].rotation = 0
  BY <1>4 DEF WheelTimer
<1>7. tw_timer[tmp].due = ticked + 1
  <2>1. ~ Passed(tmp)
    BY <1>3, <1>4, BehindNext DEF Passed
  <2>2. OnTime(tmp)
    BY <1>2, <1>4 DEF DueOnTime
  <2>3. tw_timer[tmp].due = ticked + 1 + Distance(cur_slot, cur_slot) + 0 * WheelSize
    BY <1>4, <1>6, <2>1, <2>2 DEF OnTime
  <2>4. Distance(cur_slot, cur_slot) = 0 /\ 0 * WheelSize = 0
    BY <1>4, WheelTurned, WholeTurns
  <2> QED
    BY <1>5, <2>3, <2>4
<1>8. /\ DOMAIN tw_timer' = DOMAIN tw_timer
      /\ \A id \in DOMAIN tw_timer : id # tmp => tw_timer'[id] = tw_timer[id]
      /\ tw_timer'[tmp] = [tw_timer[tmp] EXCEPT !.firedAt = ticked + 1]
  BY <1>1, <1>4
<1>9. /\ tw_timer'[tmp].firedAt = ticked + 1 /\ tw_timer'[tmp].due = tw_timer[tmp].due
      /\ tw_timer'[tmp].time_slot = tw_timer[tmp].time_slot
      /\ tw_timer'[tmp].deleted = tw_timer[tmp].deleted
      /\ tw_timer'[tmp] \in WheelTimer
  BY <1>4, <1>5, <1>8 DEF WheelTimer
<1>10. \A id \in DOMAIN tw_timer : /\ tw_timer'[id].time_slot = tw_timer[id].time_slot
                                   /\ tw_timer'[id].deleted = tw_timer[id].deleted
  BY <1>8, <1>9
<1>11. WheelTypes'
  <2>1. tw_timer' \in Seq(WheelTimer)
    BY <1>1, <1>2, <1>4, <1>8, <1>9 DEF WheelTypes
  <2> QED
    BY <1>1, <1>2, <2>1 DEF WheelTypes
<1>12. WheelLive' = WheelLive \ {tmp}
  BY <1>5, <1>8, <1>9 DEF WheelLive
<1>13. SlotsLinked'
  <2>1. ASSUME NEW s \in WheelSlots, NEW id \in Range(slots[s]), tw_timer'[id].firedAt # 0
        PROVE  id = tmp
    BY <1>1, <1>2, <1>8, <2>1 DEF SlotsLinked
  <2> QED
    BY <1>1, <1>2, <1>8, <1>10, <1>12, <2>1 DEF SlotsLinked
<1>14. WalkAt'
  BY <1>1, <1>3, <1>4, <1>5, <1>9 DEF WalkAt
<1>15. ASSUME NEW id \in WheelLive, id # tmp PROVE OnTime(id)'
  <2>1. Passed(id)' <=> Passed(id)
    BY <1>1 DEF Passed
  <2>2. OnTime(id) /\ tw_timer'[id] = tw_timer[id]
    BY <1>2, <1>8, <1>15 DEF DueOnTime, WheelLive
  <2> QED
    BY <1>1, <2>1, <2>2, OnTimeStays
<1>16. tw_timer'[tmp].firedAt = tw_timer'[tmp].due /\ ~ tw_timer'[tmp].deleted
  BY <1>4, <1>7, <1>9 DEF WheelLive
<1>17. DueOnTime'
  BY <1>2, <1>8, <1>12, <1>15, <1>16 DEF DueOnTime
<1>18. WheelHandles'
  BY <1>1, <1>2, <1>8, <1>10, <1>12, HandlesStay
<1> QED
  BY <1>11, <1>13, <1>14, <1>17, <1>18 DEF WheelInv

(* After the callback the walk goes on where it would have gone on.        *)
LEMMA WheelUnlinks == WheelInv /\ WheelUnlink => WheelInv'
<1> SUFFICES ASSUME WheelInv, WheelUnlink PROVE WheelInv'
  OBVIOUS
<1>1. /\ walk = "callback" /\ walk' = "walking" /\ tmp' = NextOf(slots[cur_slot], tmp)
      /\ slots' = [slots EXCEPT ![cur_slot] = Unlink(@, tmp)]
      /\ UNCHANGED <<cur_slot, tw_timer, ticked, tw_handles>>
  BY DEF WheelUnlink
<1>2. WheelTypes /\ SlotsLinked /\ WalkAt /\ DueOnTime /\ WheelHandles /\ cur_slot \in WheelSlots
  BY DEF WheelInv, WheelTypes
<1>3. PICK list : list = slots[cur_slot]
  OBVIOUS
<1>4. tmp # 0
  BY <1>1, <1>2, WheelList DEF WalkAt
<1>5. /\ tmp \in Range(list) /\ tmp \notin WheelLive /\ tw_timer[tmp].time_slot = cur_slot
      /\ list \in Seq(Nat) /\ IsInjective(list) /\ 0 \notin Range(list)
  BY <1>1, <1>3, <1>4, WalkFacts
<1>6. PICK new : new = Unlink(list, tmp)
  OBVIOUS
<1>7. new \in Seq(Nat) /\ IsInjective(new) /\ Range(new) = Range(list) \ {tmp}
  BY <1>5, <1>6, UnlinkFacts
<1>8. slots' = [slots EXCEPT ![cur_slot] = new]
  BY <1>1, <1>3, <1>6
<1>9. slots'[cur_slot] = new /\ \A s \in WheelSlots : s # cur_slot => slots'[s] = slots[s]
  BY <1>2, <1>8 DEF WheelTypes
<1>10. /\ tmp' = 0 \/ tmp' \in Range(new)
       /\ tmp' \in Nat
  BY <1>1, <1>3, <1>5, <1>7, BehindNext
<1>11. WheelTypes'
  BY <1>1, <1>2, <1>7, <1>8, <1>10 DEF WheelTypes
<1>12. WheelLive' = WheelLive
  BY <1>1 DEF WheelLive
<1>13. SlotsLinked'
  <2>1. ASSUME NEW s \in WheelSlots
        PROVE  IsInjective(slots'[s]) /\ Range(slots'[s]) = Range(slots[s]) \ {tmp}
    <3>1. CASE s = cur_slot
      BY <1>3, <1>7, <1>9, <3>1
    <3>2. CASE s # cur_slot
      <4>1. tmp \notin Range(slots[s])
        BY <1>2, <1>5, <3>2 DEF SlotsLinked
      <4> QED
        BY <1>2, <1>9, <3>2, <4>1 DEF SlotsLinked
    <3> QED
      BY <3>1, <3>2
  <2>2. \A id \in WheelLive : id # tmp /\ tw_timer[id].time_slot \in WheelSlots
    BY <1>2, <1>5, TimerFacts DEF WheelLive
  <2> QED
    BY <1>1, <1>2, <1>12, <2>1, <2>2 DEF SlotsLinked
<1>14. WalkAt'
  BY <1>1, <1>9, <1>10 DEF WalkAt
<1>15. ASSUME NEW id \in WheelLive PROVE OnTime(id)'
  <2>0. id # tmp
    BY <1>5
  <2>1. Passed(id)' <=> Passed(id)
    BY <1>1, <1>3, <1>5, <1>6, <1>9, <2>0, BehindUnlinkNext DEF Passed
  <2>2. OnTime(id)
    BY <1>2 DEF DueOnTime
  <2> QED
    BY <1>1, <2>1, <2>2, OnTimeStays
<1>16. DueOnTime'
  BY <1>1, <1>2, <1>12, <1>15 DEF DueOnTime
<1>17. WheelHandles'
  BY <1>1, <1>2, <1>12, HandlesStay
<1> QED
  BY <1>11, <1>13, <1>14, <1>16, <1>17 DEF WheelInv

(* The walk has the whole list behind it when the wheel turns.             *)
LEMMA WheelMoves == WheelInv /\ WheelTurn => WheelInv'
<1> SUFFICES ASSUME WheelInv, WheelTurn PROVE WheelInv'
  OBVIOUS
<1>1. /\ walk = "walking" /\ tmp = 0 /\ cur_slot' = (cur_slot + 1) % WheelSize
      /\ ticked' = ticked + 1 /\ walk' = "asleep"
      /\ UNCHANGED <<slots, tw_timer, tmp, tw_handles>>
  BY DEF WheelTurn
<1>2. WheelTypes /\ SlotsLinked /\ WalkAt /\ DueOnTime /\ WheelHandles /\ cur_slot \in WheelSlots
  BY DEF WheelInv, WheelTypes
<1>3. cur_slot' \in WheelSlots
  BY <1>1, <1>2, WheelTurned
<1>4. WheelTypes'
  BY <1>1, <1>2, <1>3 DEF WheelTypes
<1>5. WheelLive' = WheelLive
  BY <1>1 DEF WheelLive
<1>6. SlotsLinked' /\ WalkAt'
  BY <1>1, <1>2, <1>5 DEF SlotsLinked, WalkAt
<1>7. ASSUME NEW id \in WheelLive PROVE OnTime(id)'
  <2>1. PICK ts, r, w, t, d, cs, next :
               /\ ts = tw_timer[id].time_slot /\ r = tw_timer[id].rotation /\ w = WheelSize
               /\ t = ticked /\ d = tw_timer[id].due /\ cs = cur_slot /\ next = cur_slot'
    OBVIOUS
  <2>2. /\ ts \in WheelSlots /\ r \in Nat /\ t \in Nat /\ d \in Nat /\ cs \in WheelSlots
        /\ id \in Range(slots[ts]) /\ next = (cs + 1) % WheelSize
    <3>1. id \in DOMAIN tw_timer /\ ticked \in Nat
      BY <1>2 DEF WheelLive, WheelTypes
    <3>2. id \in Range(slots[tw_timer[id].time_slot])
      BY <1>2 DEF SlotsLinked
    <3> QED
      BY <1>1, <1>2, <2>1, <3>1, <3>2, TimerFacts
  <2>3. Passed(id) <=> ts = cs
    <3>1. Passed(id) <=> id \in Range(slots[cs])
      BY <1>1, <2>1 DEF Passed, Behind, Range
    <3>2. id \in Range(slots[cs]) => ts = cs
      BY <1>2, <2>1, <2>2 DEF SlotsLinked
    <3> QED
      BY <2>2, <3>1, <3>2
  <2>4. /\ ts = cs => Distance(next, ts) = w - 1
        /\ ts # cs => Distance(cs, ts) = Distance(next, ts) + 1
        /\ Distance(cs, ts) \in Nat /\ Distance(next, ts) \in Nat
    BY <2>1, <2>2, WheelTurned
  <2>5. OnTime(id)
    BY <1>2 DEF DueOnTime
  <2>6. /\ ts = cs => d = t + 1 + (r + 1) * w
        /\ ts # cs => d = t + 1 + Distance(cs, ts) + r * w
    BY <2>1, <2>3, <2>5 DEF OnTime
  <2>7. PICK m : m = r * w
    OBVIOUS
  <2>8. m \in Nat /\ (r + 1) * w = m + w /\ w \in Nat \ {0}
    BY <2>1, <2>2, <2>7, WholeTurns
  <2>9. PICK a, b : a = Distance(cs, ts) /\ b = Distance(next, ts)
    OBVIOUS
  <2>10. d = (t + 1) + 1 + b + m
    <3>1. a \in Nat /\ b \in Nat /\ (ts = cs => b = w - 1) /\ (ts # cs => a = b + 1)
      BY <2>4, <2>9
    <3>2. CASE ts = cs
      BY <2>2, <2>6, <2>8, <3>1, <3>2
    <3>3. CASE ts # cs
      <4>1. d = t + 1 + a + m
        BY <2>6, <2>7, <2>9, <3>3
      <4> QED
        BY <2>2, <2>8, <3>1, <3>3, <4>1
    <3> QED
      BY <3>2, <3>3
  <2>11. ~ Passed(id)'
    BY <1>1 DEF Passed
  <2> QED
    BY <1>1, <2>1, <2>7, <2>9, <2>10, <2>11 DEF OnTime
<1>8. DueOnTime'
  BY <1>1, <1>2, <1>5, <1>7 DEF DueOnTime
<1>9. WheelHandles'
  BY <1>1, <1>2, <1>5, HandlesStay
<1> QED
  BY <1>4, <1>6, <1>8, <1>9 DEF WheelInv

(* A negative timeout takes a handle for NULL and nothing else.            *)
LEMMA WheelRefuses ==
    ASSUME WheelInv, tw_handles' = TakeHandle(tw_handles, 0),
           UNCHANGED <<slots, tw_timer, cur_slot, walk, tmp, ticked>>
    PROVE  WheelInv'
<1>1. WheelTypes /\ SlotsLinked /\ WalkAt /\ DueOnTime /\ WheelHandles
  BY DEF WheelInv
<1>2. WheelLive' = WheelLive
  BY DEF WheelLive
<1>3. WheelTypes' /\ SlotsLinked' /\ WalkAt'
  BY <1>1, <1>2 DEF WheelTypes, SlotsLinked, WalkAt
<1>4. ASSUME NEW id \in WheelLive PROVE OnTime(id)'
  <2>1. Passed(id)' <=> Passed(id)
    BY DEF Passed
  <2>2. OnTime(id)
    BY <1>1 DEF DueOnTime
  <2> QED
    BY <2>1, <2>2, OnTimeStays
<1>5. DueOnTime'
  BY <1>1, <1>2, <1>4 DEF DueOnTime
<1>6. PICK h, g : h = tw_handles /\ g = TakeHandle(tw_handles, 0)
  OBVIOUS
<1>7. HandlesSound(h)
  BY <1>1, <1>6 DEF WheelHandles
<1>8. PICK k : /\ k \notin InUse(h) /\ InUse(g) = InUse(h) \cup {k}
               /\ HandlesSound(g) /\ g.timers[k] = 0
               /\ \A n \in InUse(h) : g.timers[n] = h.timers[n]
  BY <1>6, <1>7, TakeFacts
<1>9. WheelHandles'
  BY <1>1, <1>2, <1>6, <1>8 DEF WheelHandles
<1> QED
  BY <1>3, <1>5, <1>9 DEF WheelInv

(* A new timer goes to the head of its slot: in front of the walk when a   *)
(* callback adds it to the slot of the tick under way.                     *)
LEMMA WheelAdds ==
    ASSUME WheelInv, NEW timeout \in Int, NoNegative(timeout), wheel_addTimer(timeout)
    PROVE  WheelInv'
<1>1. PICK id, ticks : id = Len(tw_timer) + 1 /\ ticks = TicksOf(timeout)
  OBVIOUS
<1>2. PICK ts, rot, due : /\ ts = (cur_slot + (ticks % WheelSize)) % WheelSize
                          /\ rot = wheel_rotation(ticks) /\ due = DueTick(ticks)
  OBVIOUS
<1>3. PICK e : e = [rotation |-> rot, time_slot |-> ts, due |-> due, firedAt |-> 0, deleted |-> FALSE]
  OBVIOUS
<1>4. /\ walk # "walking" /\ slots' = [slots EXCEPT ![ts] = <<id>> \o @]
      /\ tw_timer' = Append(tw_timer, e) /\ tw_handles' = TakeHandle(tw_handles, id)
      /\ UNCHANGED <<cur_slot, walk, tmp, ticked>>
  BY <1>1, <1>2, <1>3 DEF wheel_addTimer
<1>5. /\ WheelTypes /\ SlotsLinked /\ WalkAt /\ DueOnTime /\ WheelHandles
      /\ cur_slot \in WheelSlots /\ ticked \in Nat
  BY DEF WheelInv, WheelTypes
<1>6. ticks \in Nat
  BY <1>1 DEF TicksOf, NoNegative
<1>7. PICK rem : rem = ticks % WheelSize
  OBVIOUS
<1>8. /\ ts \in WheelSlots /\ Distance(cur_slot, ts) = rem /\ (ts = cur_slot <=> rem = 0)
      /\ rot \in Nat /\ rem \in Nat /\ ticks = rot * WheelSize + rem
  BY <1>2, <1>5, <1>6, <1>7, WheelAdd
<1>9. PICK m, w : m = rot * w /\ w = WheelSize
  OBVIOUS
<1>10. m \in Nat /\ w \in Nat \ {0} /\ (rot + 1) * w = m + w /\ ticks = m + rem
  BY <1>8, <1>9, WholeTurns
<1>11. /\ walk = "asleep" => due = ticked + 1 + ticks
       /\ walk # "asleep" /\ rem = 0 => due = ticked + 1 + ticks + w
       /\ walk # "asleep" /\ rem # 0 => due = ticked + 1 + ticks + 0
  BY <1>2, <1>7, <1>9, Zenon DEF DueTick
<1>12. due \in Nat
  BY <1>5, <1>6, <1>8, <1>10, <1>11
<1>13. e \in WheelTimer
  BY <1>3, <1>8, <1>12 DEF WheelTimer
<1>14. /\ id \in Nat \ {0} /\ id \notin DOMAIN tw_timer
       /\ DOMAIN tw_timer' = DOMAIN tw_timer \cup {id} /\ tw_timer'[id] = e
       /\ \A i \in DOMAIN tw_timer : tw_timer'[i] = tw_timer[i]
       /\ tw_timer' \in Seq(WheelTimer)
  BY <1>1, <1>4, <1>5, <1>13 DEF WheelTypes
<1>15. WheelLive' = WheelLive \cup {id}
  BY <1>3, <1>14 DEF WheelLive
<1>16. \A s \in WheelSlots : /\ slots[s] \in Seq(Nat) /\ IsInjective(slots[s])
                             /\ id \notin Range(slots[s]) /\ 0 \notin Range(slots[s])
  BY <1>5, <1>14, WheelList
<1>17. PICK new : new = <<id>> \o slots[ts]
  OBVIOUS
<1>18. new \in Seq(Nat) /\ IsInjective(new) /\ Range(new) = Range(slots[ts]) \cup {id}
  BY <1>8, <1>14, <1>16, <1>17, PushFacts
<1>19. slots' = [slots EXCEPT ![ts] = new]
  BY <1>4, <1>17
<1>20. slots'[ts] = new /\ \A s \in WheelSlots : s # ts => slots'[s] = slots[s]
  BY <1>5, <1>8, <1>19 DEF WheelTypes
<1>21. WheelTypes'
  BY <1>4, <1>5, <1>14, <1>18, <1>19 DEF WheelTypes
<1>22. \A s \in WheelSlots : /\ IsInjective(slots'[s])
                             /\ s # ts => Range(slots'[s]) = Range(slots[s])
                             /\ s = ts => Range(slots'[s]) = Range(slots[s]) \cup {id}
  BY <1>16, <1>18, <1>20
<1>23. e.time_slot = ts /\ ~ e.deleted /\ e.firedAt = 0 /\ e.due = due /\ e.rotation = rot
  BY <1>3
<1>24. SlotsLinked'
  <2>1. ASSUME NEW s \in WheelSlots, NEW i \in Range(slots'[s])
        PROVE  /\ i \in DOMAIN tw_timer' /\ tw_timer'[i].time_slot = s /\ ~ tw_timer'[i].deleted
               /\ tw_timer'[i].firedAt # 0 => walk' = "callback" /\ i = tmp'
    <3>1. CASE i = id
      <4>1. s = ts
        BY <1>16, <1>22, <3>1
      <4> QED
        BY <1>14, <1>23, <3>1, <4>1
    <3>2. CASE i # id
      <4>1. i \in Range(slots[s])
        BY <1>22, <3>2
      <4>2. /\ i \in DOMAIN tw_timer /\ tw_timer[i].time_slot = s /\ ~ tw_timer[i].deleted
            /\ tw_timer[i].firedAt # 0 => walk = "callback" /\ i = tmp
        BY <1>5, <4>1 DEF SlotsLinked
      <4> QED
        BY <1>4, <1>14, <4>2
    <3> QED
      BY <3>1, <3>2
  <2>2. ASSUME NEW i \in WheelLive PROVE i \in Range(slots'[tw_timer'[i].time_slot])
    <3>1. i \in DOMAIN tw_timer /\ i \in Range(slots[tw_timer[i].time_slot])
      BY <1>5 DEF WheelLive, SlotsLinked
    <3>2. tw_timer[i].time_slot \in WheelSlots
      BY <1>5, <3>1, TimerFacts
    <3> QED
      BY <1>14, <1>22, <3>1, <3>2
  <2>3. id \in Range(slots'[tw_timer'[id].time_slot])
    BY <1>8, <1>14, <1>22, <1>23
  <2> QED
    BY <1>15, <1>22, <2>1, <2>2, <2>3 DEF SlotsLinked
<1>25. walk = "callback" => tmp \in Range(slots[cur_slot]) /\ tmp \in DOMAIN tw_timer /\ tmp # 0
  BY <1>5, <1>16, WheelList DEF WalkAt
<1>26. WalkAt'
  BY <1>4, <1>5, <1>14, <1>22, <1>25 DEF WalkAt
<1>27. walk = "asleep" \/ walk = "callback"
  BY <1>4, <1>5 DEF WheelTypes
<1>28. ASSUME NEW i, walk = "callback", ts = cur_slot
       PROVE  Passed(i)' <=> Passed(i) \/ i = id
  <2>1. Behind(new, tmp, i) <=> Behind(slots[cur_slot], tmp, i) \/ i = id
    BY <1>5, <1>14, <1>16, <1>17, <1>25, <1>28, BehindPush
  <2> QED
    BY <1>4, <1>20, <1>28, <2>1 DEF Passed
<1>29. ASSUME NEW i, walk = "callback", ts # cur_slot
       PROVE  Passed(i)' <=> Passed(i)
  BY <1>4, <1>5, <1>20, <1>29 DEF Passed
<1>30. ASSUME NEW i, walk = "asleep" PROVE ~ Passed(i) /\ ~ Passed(i)'
  BY <1>4, <1>30 DEF Passed
<1>31. ASSUME NEW i \in WheelLive PROVE OnTime(i)'
  <2>1. i # id /\ tw_timer'[i] = tw_timer[i]
    BY <1>14 DEF WheelLive
  <2>2. Passed(i)' <=> Passed(i)
    BY <1>27, <1>28, <1>29, <1>30, <2>1
  <2>3. OnTime(i)
    BY <1>5 DEF DueOnTime
  <2> QED
    BY <1>4, <2>1, <2>2, <2>3, OnTimeStays
<1>32. OnTime(id)'
  <2>1. /\ Passed(id)' => due = ticked + 1 + (m + w)
        /\ ~ Passed(id)' => due = ticked + 1 + rem + m
    <3>1. CASE walk = "asleep"
      <4>1. due = ticked + 1 + rem + m
        BY <1>5, <1>8, <1>10, <1>11, <3>1
      <4> QED
        BY <1>30, <3>1, <4>1
    <3>2. CASE walk = "callback" /\ ts = cur_slot
      <4>1. due = ticked + 1 + (m + w)
        BY <1>5, <1>8, <1>10, <1>11, <3>2
      <4> QED
        BY <1>28, <3>2, <4>1
    <3>3. CASE walk = "callback" /\ ts # cur_slot
      <4>1. due = ticked + 1 + rem + m
        BY <1>5, <1>8, <1>10, <1>11, <3>3
      <4>2. ~ Passed(id)
        BY <1>5, <1>16 DEF Passed, Behind, Range
      <4> QED
        BY <1>29, <3>3, <4>1, <4>2
    <3> QED
      BY <1>27, <3>1, <3>2, <3>3
  <2>2. /\ (tw_timer'[id].rotation + 1) * WheelSize = m + w /\ tw_timer'[id].due = due
        /\ tw_timer'[id].rotation * WheelSize = m
        /\ Distance(cur_slot', tw_timer'[id].time_slot) = rem
    BY <1>4, <1>8, <1>9, <1>10, <1>14, <1>23
  <2> QED
    BY <1>4, <2>1, <2>2 DEF OnTime
<1>33. DueOnTime'
  BY <1>5, <1>14, <1>15, <1>23, <1>31, <1>32 DEF DueOnTime
<1>34. PICK h, g : h = tw_handles /\ g = TakeHandle(tw_handles, id)
  OBVIOUS
<1>35. HandlesSound(h)
  BY <1>5, <1>34 DEF WheelHandles
<1>36. PICK k : /\ k \notin InUse(h) /\ InUse(g) = InUse(h) \cup {k}
                /\ HandlesSound(g) /\ g.timers[k] = id
                /\ \A n \in InUse(h) : g.timers[n] = h.timers[n]
  <2>1. id \in Nat /\ g = TakeHandle(h, id)
    BY <1>14, <1>34
  <2> QED
    BY <1>35, <2>1, TakeFacts
<1>37. \A n \in InUse(h) : h.timers[n] # id
  BY <1>5, <1>14, <1>34 DEF WheelHandles
<1>38. /\ \A n \in InUse(g) : g.timers[n] # 0 =>
               g.timers[n] \in DOMAIN tw_timer' /\ ~ tw_timer'[g.timers[n]].deleted
       /\ \A i \in WheelLive' : \E n \in InUse(g) : g.timers[n] = i
  BY <1>5, <1>14, <1>15, <1>23, <1>34, <1>36 DEF WheelHandles
<1>39. \A n, l \in InUse(g) : g.timers[n] # 0 /\ g.timers[n] = g.timers[l] => n = l
  BY <1>5, <1>34, <1>36, <1>37 DEF WheelHandles
<1>40. WheelHandles'
  BY <1>4, <1>34, <1>36, <1>38, <1>39 DEF WheelHandles
<1> QED
  BY <1>21, <1>24, <1>26, <1>33, <1>40 DEF WheelInv

(* del_timer takes a timer out of a list that may be the one walked, never *)
(* the timer the walk is at.                                               *)
LEMMA WheelDeletes ==
    ASSUME WheelInv, NEW n \in Nat, wheel_deleteTimer(n)
    PROVE  WheelInv'
<1>1. PICK h, id : h = tw_handles /\ id = tw_handles.timers[n]
  OBVIOUS
<1>2. /\ walk # "walking" /\ n \in InUse(h) /\ id # 0 /\ tw_timer[id].firedAt = 0
      /\ slots' = [slots EXCEPT ![tw_timer[id].time_slot] = Unlink(@, id)]
      /\ tw_timer' = [tw_timer EXCEPT ![id].deleted = TRUE]
      /\ tw_handles' = DropHandle(h, n)
      /\ UNCHANGED <<cur_slot, walk, tmp, ticked>>
  BY <1>1 DEF wheel_deleteTimer, InUse, Recycled, Range
<1>3. /\ WheelTypes /\ SlotsLinked /\ WalkAt /\ DueOnTime /\ WheelHandles
      /\ cur_slot \in WheelSlots /\ HandlesSound(h)
  BY <1>1 DEF WheelInv, WheelTypes, WheelHandles
<1>4. id \in DOMAIN tw_timer /\ ~ tw_timer[id].deleted
  BY <1>1, <1>2, <1>3 DEF WheelHandles
<1>5. id \in WheelLive
  BY <1>2, <1>4 DEF WheelLive
<1>6. PICK ts : ts = tw_timer[id].time_slot
  OBVIOUS
<1>7. ts \in WheelSlots /\ id \in Range(slots[ts]) /\ tw_timer[id] \in WheelTimer
  BY <1>3, <1>4, <1>5, <1>6, TimerFacts DEF SlotsLinked
<1>8. slots[ts] \in Seq(Nat) /\ IsInjective(slots[ts]) /\ 0 \notin Range(slots[ts])
  BY <1>3, <1>7, WheelList
<1>9. PICK new : new = Unlink(slots[ts], id)
  OBVIOUS
<1>10. new \in Seq(Nat) /\ IsInjective(new) /\ Range(new) = Range(slots[ts]) \ {id}
  BY <1>7, <1>8, <1>9, UnlinkFacts
<1>11. slots' = [slots EXCEPT ![ts] = new]
  BY <1>2, <1>6, <1>9
<1>12. slots'[ts] = new /\ \A s \in WheelSlots : s # ts => slots'[s] = slots[s]
  BY <1>3, <1>7, <1>11 DEF WheelTypes
<1>13. /\ DOMAIN tw_timer' = DOMAIN tw_timer
       /\ \A i \in DOMAIN tw_timer : i # id => tw_timer'[i] = tw_timer[i]
       /\ tw_timer'[id] = [tw_timer[id] EXCEPT !.deleted = TRUE]
  BY <1>2, <1>4
<1>14. tw_timer'[id] \in WheelTimer /\ tw_timer'[id].deleted /\ tw_timer'[id].firedAt = 0
  <2>1. PICK e, f : e = tw_timer[id] /\ f = [e EXCEPT !.deleted = TRUE]
    OBVIOUS
  <2>2. e \in WheelTimer /\ e.firedAt = 0
    BY <1>2, <1>7, <2>1
  <2>3. f.deleted = TRUE /\ f.firedAt = 0 /\ f \in WheelTimer
    BY <2>1, <2>2 DEF WheelTimer
  <2> QED
    BY <1>13, <2>1, <2>3
<1>15. WheelTypes'
  <2>1. tw_timer' \in Seq(WheelTimer)
    BY <1>2, <1>3, <1>4, <1>13, <1>14 DEF WheelTypes
  <2> QED
    BY <1>2, <1>3, <1>10, <1>11, <2>1 DEF WheelTypes
<1>16. WheelLive' = WheelLive \ {id}
  BY <1>13, <1>14 DEF WheelLive
<1>17. ASSUME NEW s \in WheelSlots
       PROVE  IsInjective(slots'[s]) /\ Range(slots'[s]) = Range(slots[s]) \ {id}
  <2>1. CASE s = ts
    BY <1>10, <1>12, <2>1
  <2>2. CASE s # ts
    <3>1. id \notin Range(slots[s])
      BY <1>3, <1>6, <2>2 DEF SlotsLinked
    <3> QED
      BY <1>3, <1>12, <2>2, <3>1 DEF SlotsLinked
  <2> QED
    BY <2>1, <2>2
<1>18. SlotsLinked'
  <2>1. ASSUME NEW s \in WheelSlots, NEW i \in Range(slots'[s])
        PROVE  /\ i \in DOMAIN tw_timer' /\ tw_timer'[i].time_slot = s /\ ~ tw_timer'[i].deleted
               /\ tw_timer'[i].firedAt # 0 => walk' = "callback" /\ i = tmp'
    <3>1. i # id /\ i \in Range(slots[s])
      BY <1>17
    <3>2. /\ i \in DOMAIN tw_timer /\ tw_timer[i].time_slot = s /\ ~ tw_timer[i].deleted
          /\ tw_timer[i].firedAt # 0 => walk = "callback" /\ i = tmp
      BY <1>3, <3>1 DEF SlotsLinked
    <3> QED
      BY <1>2, <1>13, <3>1, <3>2
  <2>2. ASSUME NEW i \in WheelLive, i # id PROVE i \in Range(slots'[tw_timer'[i].time_slot])
    <3>1. i \in DOMAIN tw_timer /\ i \in Range(slots[tw_timer[i].time_slot])
      BY <1>3 DEF WheelLive, SlotsLinked
    <3>2. tw_timer[i].time_slot \in WheelSlots
      BY <1>3, <3>1, TimerFacts
    <3> QED
      BY <1>13, <1>17, <2>2, <3>1, <3>2
  <2> QED
    BY <1>16, <1>17, <2>1, <2>2 DEF SlotsLinked
<1>19. walk = "callback" =>
           /\ tmp \in Range(slots[cur_slot]) /\ tmp \in DOMAIN tw_timer
           /\ tmp # 0 /\ tmp # id /\ tw_timer[tmp].firedAt # 0
  BY <1>2, <1>3, WheelList DEF WalkAt
<1>20. WalkAt'
  BY <1>2, <1>3, <1>13, <1>17, <1>19 DEF WalkAt
<1>21. ASSUME NEW i \in WheelLive, i # id PROVE OnTime(i)'
  <2>1. tw_timer'[i] = tw_timer[i]
    BY <1>13, <1>21 DEF WheelLive
  <2>2. Passed(i)' <=> Passed(i)
    <3>1. CASE walk = "asleep"
      BY <1>2, <3>1 DEF Passed
    <3>2. CASE walk = "callback" /\ ts # cur_slot
      BY <1>2, <1>3, <1>12, <3>2 DEF Passed
    <3>3. CASE walk = "callback" /\ ts = cur_slot
      <4>1. Behind(new, tmp, i) <=> Behind(slots[ts], tmp, i)
        BY <1>7, <1>8, <1>9, <1>19, <1>21, <3>3, BehindUnlink
      <4> QED
        BY <1>2, <1>12, <3>3, <4>1 DEF Passed
    <3> QED
      BY <1>2, <1>3, <3>1, <3>2, <3>3 DEF WheelTypes
  <2>3. OnTime(i)
    BY <1>3 DEF DueOnTime
  <2> QED
    BY <1>2, <2>1, <2>2, <2>3, OnTimeStays
<1>22. DueOnTime'
  BY <1>3, <1>13, <1>14, <1>16, <1>21 DEF DueOnTime
<1>23. PICK g : g = DropHandle(h, n)
  OBVIOUS
<1>24. HandlesSound(g) /\ InUse(g) = InUse(h) \ {n} /\ g.timers = h.timers
  BY <1>2, <1>3, <1>23, DropFacts
<1>25. \A k \in InUse(g) : k \in InUse(h) /\ g.timers[k] = h.timers[k] /\ h.timers[k] # id
  BY <1>1, <1>2, <1>3, <1>24 DEF WheelHandles
<1>26. /\ \A k \in InUse(g) : g.timers[k] # 0 =>
               g.timers[k] \in DOMAIN tw_timer' /\ ~ tw_timer'[g.timers[k]].deleted
       /\ \A k, l \in InUse(g) : g.timers[k] # 0 /\ g.timers[k] = g.timers[l] => k = l
  BY <1>1, <1>3, <1>13, <1>25 DEF WheelHandles
<1>27. \A i \in WheelLive' : \E k \in InUse(g) : g.timers[k] = i
  <2> SUFFICES ASSUME NEW i \in WheelLive, i # id PROVE \E k \in InUse(g) : g.timers[k] = i
    BY <1>16
  <2>1. PICK k \in InUse(h) : h.timers[k] = i
    BY <1>1, <1>3 DEF WheelHandles
  <2>2. k # n
    BY <1>1, <2>1
  <2> QED
    BY <1>24, <2>1, <2>2
<1>28. WheelHandles'
  BY <1>2, <1>23, <1>24, <1>26, <1>27 DEF WheelHandles
<1> QED
  BY <1>15, <1>18, <1>20, <1>22, <1>28 DEF WheelInv

LEMMA WheelStep == WheelInv /\ [TimeWheelNext]_wheelVars => WheelInv'
<1> SUFFICES ASSUME WheelInv, [TimeWheelNext]_wheelVars PROVE WheelInv'
  OBVIOUS
<1>1. ASSUME NEW timeout \in Timeouts, wheel_addTimer(timeout) PROVE WheelInv'
  <2>1. timeout \in Int
    BY TimeWheelAssumption
  <2>2. CASE NoNegative(timeout)
    BY <1>1, <2>1, <2>2, WheelAdds
  <2>3. CASE ~ NoNegative(timeout)
    <3>1. /\ tw_handles' = TakeHandle(tw_handles, 0)
          /\ UNCHANGED <<slots, tw_timer, cur_slot, walk, tmp, ticked>>
      BY <1>1, <2>3 DEF wheel_addTimer
    <3> QED
      BY <3>1, WheelRefuses
  <2> QED
    BY <2>2, <2>3
<1>2. ASSUME NEW n \in 1 .. WheelTimers, wheel_deleteTimer(n) PROVE WheelInv'
  <2>1. n \in Nat
    BY TimeWheelAssumption
  <2> QED
    BY <1>2, <2>1, WheelDeletes
<1>3. CASE wheel_tick
  BY <1>3, WheelTicks
<1>4. CASE WheelVisit
  BY <1>4, WheelCounts, WheelFires
<1>5. CASE WheelUnlink
  BY <1>5, WheelUnlinks
<1>6. CASE WheelTurn
  BY <1>6, WheelMoves
<1>7. CASE UNCHANGED wheelVars
  BY <1>7 DEF wheelVars, WheelInv, WheelTypes, SlotsLinked, WalkAt, DueOnTime, OnTime, Passed,
              WheelHandles, WheelLive
<1> QED
  BY <1>1, <1>2, <1>3, <1>4, <1>5, <1>6, <1>7 DEF TimeWheelNext

LEMMA WheelImplies == WheelInv => WheelExact
<1> SUFFICES ASSUME WheelInv PROVE WheelExact
  OBVIOUS
<1>1. /\ WheelTypes /\ SlotsLinked /\ WalkAt /\ DueOnTime /\ WheelHandles
      /\ cur_slot \in WheelSlots /\ ticked \in Nat /\ DOMAIN slots = WheelSlots
  BY DEF WheelInv, WheelTypes
<1>2. ASSUME NEW id \in WheelLive PROVE tw_timer[id].due > ticked
  <2>1. id \in DOMAIN tw_timer /\ OnTime(id)
    BY <1>1 DEF WheelLive, DueOnTime
  <2>2. PICK r, ts, d : /\ r = tw_timer[id].rotation /\ ts = tw_timer[id].time_slot
                        /\ d = tw_timer[id].due
    OBVIOUS
  <2>3. r \in Nat /\ ts \in WheelSlots /\ d \in Nat
    BY <1>1, <2>1, <2>2, TimerFacts
  <2>4. PICK m, l, a : m = r * WheelSize /\ l = (r + 1) * WheelSize /\ a = Distance(cur_slot, ts)
    OBVIOUS
  <2>5. m \in Nat /\ l \in Nat /\ a \in Nat
    <3>1. m \in Nat /\ l = m + WheelSize /\ WheelSize \in Nat
      BY <2>3, <2>4, WholeTurns
    <3>2. \A next : next = (cur_slot + 1) % WheelSize => Distance(cur_slot, ts) \in Nat
      BY <1>1, <2>3, WheelTurned
    <3> QED
      BY <2>4, <3>1, <3>2
  <2>6. d = ticked + 1 + l \/ d = ticked + 1 + a + m
    BY <2>1, <2>2, <2>4 DEF OnTime
  <2> QED
    BY <1>1, <2>2, <2>3, <2>5, <2>6
<1>3. WheelLive \cup (IF walk = "callback" THEN {tmp} ELSE {})
        = UNION {Range(slots[s]) : s \in WheelSlots}
  <2>1. ASSUME NEW s \in WheelSlots, NEW id \in Range(slots[s])
        PROVE  id \in WheelLive \/ (walk = "callback" /\ id = tmp)
    BY <1>1 DEF SlotsLinked, WheelLive
  <2>2. ASSUME NEW id \in WheelLive PROVE \E s \in WheelSlots : id \in Range(slots[s])
    <3>1. id \in DOMAIN tw_timer /\ id \in Range(slots[tw_timer[id].time_slot])
      BY <1>1 DEF WheelLive, SlotsLinked
    <3> QED
      BY <1>1, <3>1, TimerFacts
  <2>3. walk = "callback" => tmp \in Range(slots[cur_slot])
    BY <1>1 DEF WalkAt
  <2> QED
    BY <1>1, <2>1, <2>2, <2>3
<1>4. HandlesNameTimers(tw_handles, WheelLive)
  <2>1. /\ HandlesSound(tw_handles)
        /\ \A id \in WheelLive : \E n \in InUse(tw_handles) : tw_handles.timers[n] = id
        /\ \A n, m \in InUse(tw_handles) :
               tw_handles.timers[n] # 0 /\ tw_handles.timers[n] = tw_handles.timers[m] => n = m
    BY <1>1 DEF WheelHandles
  <2>2. \A id \in WheelLive : id # 0
    BY <1>1, TimerFacts DEF WheelLive
  <2> QED
    BY <2>1, <2>2, HandlesCounted
<1>5. /\ \A id \in DOMAIN tw_timer :
             tw_timer[id].firedAt # 0 => /\ tw_timer[id].firedAt = tw_timer[id].due
                                         /\ ~ tw_timer[id].deleted
      /\ \A s \in WheelSlots : IsInjective(slots[s])
  BY <1>1 DEF DueOnTime, SlotsLinked
<1> QED
  BY <1>1, <1>2, <1>3, <1>4, <1>5, Zenon DEF WheelExact, WheelLive

(* For every wheel, whatever timers the user and the callbacks add and     *)
(* delete: every timer of time_wheel fires once and exactly on its tick, a *)
(* deleted one never does, the lists hold the live timers, each once, and  *)
(* each live timer has one handle of its Timer.                            *)
THEOREM WheelFiresOnTime == TimeWheelSpec => []WheelExact
<1>1. TimeWheelInit => WheelInv
  BY WheelInitially
<1>2. WheelInv /\ [TimeWheelNext]_wheelVars => WheelInv'
  BY WheelStep
<1>3. WheelInv => WheelExact
  BY WheelImplies
<1> QED
  BY <1>1, <1>2, <1>3, PTL DEF TimeWheelSpec

-----------------------------------------------------------------------------
(* TimeHeap: the loops of add_timer and percolate_down, by what they visit. *)

(* V is what the loop visits from hole on: hole, with each position the    *)
(* one it goes on to, and nothing else.                                    *)
Loop(V, next, hole, n) ==
    /\ n \in Nat /\ hole \in 1 .. n /\ next \in [1 .. n -> 0 .. n]
    /\ V \subseteq 1 .. n /\ hole \in V
    /\ \A i \in V : next[i] # 0 => next[i] \in V
    /\ \A S \in SUBSET (1 .. n) :
           hole \in S /\ (\A j \in S : next[j] # 0 => next[j] \in S) => V \subseteq S
    /\ \A i \in V : i # hole => \E c \in V : next[c] = i

LEMMA LoopIs ==
    ASSUME NEW n \in Nat, NEW next \in [1 .. n -> 0 .. n], NEW hole \in 1 .. n
    PROVE  Loop(Visited(next, hole), next, hole, n)
<1>1. PICK V : V = Visited(next, hole)
  OBVIOUS
<1>2. V = {i \in 1 .. n : \A S \in SUBSET (1 .. n) :
               (hole \in S /\ \A j \in S : next[j] # 0 => next[j] \in S) => i \in S}
  BY <1>1 DEF Visited
<1>3. V \subseteq 1 .. n /\ hole \in V
  BY <1>2
<1>4. ASSUME NEW i \in V, next[i] # 0 PROVE next[i] \in V
  <2>1. next[i] \in 1 .. n
    BY <1>2, <1>4
  <2> QED
    BY <1>2, <1>4, <2>1
<1>5. ASSUME NEW S \in SUBSET (1 .. n), hole \in S, \A j \in S : next[j] # 0 => next[j] \in S
      PROVE  V \subseteq S
  BY <1>2, <1>5
<1>6. ASSUME NEW i \in V, i # hole PROVE \E c \in V : next[c] = i
  <2> SUFFICES ASSUME \A c \in V : next[c] # i PROVE FALSE
    OBVIOUS
  <2>1. PICK S : S = V \ {i}
    OBVIOUS
  <2>2. S \in SUBSET (1 .. n) /\ hole \in S /\ \A j \in S : next[j] # 0 => next[j] \in S
    BY <1>3, <1>4, <1>6, <2>1
  <2>3. V \subseteq S
    BY <1>5, <2>2
  <2> QED
    BY <2>1, <2>3
<1> QED
  BY <1>1, <1>3, <1>4, <1>5, <1>6 DEF Loop

(* The loop of add_timer goes up one path.                                 *)
LEMMA UpChain ==
    ASSUME NEW V, NEW next, NEW hole, NEW n, Loop(V, next, hole, n),
           \A i \in 1 .. n : next[i] = 0 \/ next[i] = i \div 2
    PROVE  /\ \A i \in V : i <= hole
           /\ \A i, j \in V : i < j => i <= next[j]
<1>0. n \in Nat /\ hole \in 1 .. n /\ V \subseteq 1 .. n /\ hole \in V /\ next \in [1 .. n -> 0 .. n]
  BY DEF Loop
<1>1. \A i \in V : i <= hole
  <2>1. PICK S : S = {i \in V : i <= hole}
    OBVIOUS
  <2>2. ASSUME NEW j \in S, next[j] # 0 PROVE next[j] \in S
    <3>1. j \in V /\ j <= hole /\ j \in 1 .. n
      BY <1>0, <2>1
    <3>2. next[j] = j \div 2 /\ next[j] \in V
      BY <2>2, <3>1 DEF Loop
    <3>3. j \div 2 <= j
      BY <3>1
    <3> QED
      BY <1>0, <2>1, <3>1, <3>2, <3>3
  <2>3. S \in SUBSET (1 .. n) /\ hole \in S
    <3>1. hole \in Int /\ hole <= hole
      BY <1>0
    <3> QED
      BY <1>0, <2>1, <3>1, Zenon
  <2>4. V \subseteq S
    BY <2>2, <2>3 DEF Loop
  <2> QED
    BY <2>1, <2>4
<1>2. PICK S : S = {i \in V : \A j \in V : i < j => i <= next[j]}
  OBVIOUS
<1>3. hole \in S
  BY <1>0, <1>1, <1>2
<1>4. ASSUME NEW i \in S, next[i] # 0 PROVE next[i] \in S
  <2>1. PICK p : p = next[i]
    OBVIOUS
  <2>2. i \in V /\ i \in 1 .. n /\ p \in V /\ p = i \div 2 /\ p \in 1 .. n
    BY <1>0, <1>2, <1>4, <2>1 DEF Loop
  <2>3. ASSUME NEW j \in V, p < j PROVE p <= next[j]
    <3>0. j \in 1 .. n /\ next[j] \in 0 .. n
      BY <1>0
    <3>1. CASE i < j
      <4>1. i <= next[j]
        BY <1>2, <3>1
      <4> QED
        BY <2>2, <3>0, <4>1
    <3>2. CASE i = j
      <4>1. p = next[j]
        BY <2>1, <3>2, Zenon
      <4>2. p <= p
        BY <2>2
      <4> QED
        BY <4>1, <4>2, Zenon
    <3>3. CASE j < i
      <4>1. j # hole
        BY <1>0, <1>1, <2>2, <3>0, <3>3
      <4>2. PICK c \in V : next[c] = j
        BY <4>1 DEF Loop
      <4>3. c \in 1 .. n /\ j = c \div 2
        BY <1>0, <3>0, <4>2
      <4>4. i < c
        BY <2>2, <2>3, <3>0, <4>3
      <4>5. i <= j
        BY <1>2, <4>2, <4>4
      <4> QED
        BY <2>2, <3>0, <3>3, <4>5
    <3> QED
      BY <2>2, <3>0, <3>1, <3>2, <3>3
  <2> QED
    BY <1>2, <2>1, <2>2, <2>3
<1>5. V \subseteq S
  BY <1>0, <1>2, <1>3, <1>4 DEF Loop
<1> QED
  BY <1>1, <1>2, <1>5

(* The loop of percolate_down goes down one path.                          *)
LEMMA DownChain ==
    ASSUME NEW V, NEW next, NEW hole, NEW n, Loop(V, next, hole, n),
           \A i \in 1 .. n : next[i] = 0 \/ next[i] = 2 * i \/ next[i] = 2 * i + 1
    PROVE  /\ \A i \in V : hole <= i
           /\ \A i, j \in V : i < j => next[i] # 0 /\ next[i] <= j
<1>0. n \in Nat /\ hole \in 1 .. n /\ V \subseteq 1 .. n /\ hole \in V /\ next \in [1 .. n -> 0 .. n]
  BY DEF Loop
<1>1. \A i \in V : hole <= i
  <2>1. PICK S : S = {i \in V : hole <= i}
    OBVIOUS
  <2>2. ASSUME NEW j \in S, next[j] # 0 PROVE next[j] \in S
    <3>1. j \in V /\ hole <= j /\ j \in 1 .. n
      BY <1>0, <2>1
    <3>2. next[j] \in V /\ (next[j] = 2 * j \/ next[j] = 2 * j + 1)
      BY <2>2, <3>1 DEF Loop
    <3> QED
      BY <1>0, <2>1, <3>1, <3>2
  <2>3. S \in SUBSET (1 .. n) /\ hole \in S
    <3>1. hole \in Int /\ hole <= hole
      BY <1>0
    <3> QED
      BY <1>0, <2>1, <3>1, Zenon
  <2>4. V \subseteq S
    BY <2>2, <2>3 DEF Loop
  <2> QED
    BY <2>1, <2>4
<1>2. PICK S : S = {j \in V : \A i \in V : i < j => next[i] # 0 /\ next[i] <= j}
  OBVIOUS
<1>3. hole \in S
  BY <1>0, <1>1, <1>2
<1>4. ASSUME NEW j \in S, next[j] # 0 PROVE next[j] \in S
  <2>1. PICK k : k = next[j]
    OBVIOUS
  <2>2. j \in V /\ j \in 1 .. n /\ k \in V /\ k \in 1 .. n /\ (k = 2 * j \/ k = 2 * j + 1)
    BY <1>0, <1>2, <1>4, <2>1 DEF Loop
  <2>3. ASSUME NEW i \in V, i < k PROVE next[i] # 0 /\ next[i] <= k
    <3>0. i \in 1 .. n /\ next[i] \in 0 .. n
      BY <1>0
    <3>1. CASE i < j
      <4>1. next[i] # 0 /\ next[i] <= j
        BY <1>2, <3>1
      <4> QED
        BY <2>2, <3>0, <4>1
    <3>2. CASE i = j
      BY <1>4, <2>1, <2>2, <3>2
    <3>3. CASE j < i
      <4>1. i # hole
        BY <1>0, <1>1, <2>2, <3>0, <3>3
      <4>2. PICK c \in V : next[c] = i
        BY <4>1 DEF Loop
      <4>3. c \in 1 .. n /\ (i = 2 * c \/ i = 2 * c + 1)
        BY <1>0, <3>0, <4>2
      <4>4. c = j \/ c < j
        BY <2>2, <2>3, <3>0, <4>3
      <4>5. c < j => i <= j
        BY <1>2, <4>2
      <4>6. c # j
        BY <2>1, <2>2, <2>3, <3>0, <4>2
      <4> QED
        BY <2>2, <3>0, <3>3, <4>4, <4>5, <4>6
    <3> QED
      BY <2>2, <3>0, <3>1, <3>2, <3>3
  <2> QED
    BY <1>2, <2>1, <2>2, <2>3
<1>5. V \subseteq S
  BY <1>0, <1>2, <1>3, <1>4 DEF Loop
<1> QED
  BY <1>1, <1>2, <1>5

-----------------------------------------------------------------------------
(* A loop that comes to each of its positions once, and stops.             *)
OnePath(V, next, hole) ==
    /\ \A i, j \in V : next[i] = next[j] => i = j
    /\ \A i \in V : next[i] # hole
    /\ \E z \in V : next[z] = 0

LEMMA UpPath ==
    ASSUME NEW V, NEW next, NEW hole, NEW n, Loop(V, next, hole, n),
           \A i \in 1 .. n : next[i] = 0 \/ next[i] = i \div 2
    PROVE  OnePath(V, next, hole)
<1>0. n \in Nat /\ hole \in 1 .. n /\ V \subseteq 1 .. n /\ hole \in V /\ next \in [1 .. n -> 0 .. n]
  BY DEF Loop
<1>1. /\ \A i \in V : i <= hole
      /\ \A i, j \in V : i < j => i <= next[j]
  BY UpChain
<1>2. ASSUME NEW i \in V PROVE next[i] < i /\ next[i] \in Nat /\ i \in Nat
  <2>1. i \in 1 .. n /\ next[i] \in 0 .. n /\ i \div 2 < i
    BY <1>0
  <2> QED
    BY <2>1
<1>3. ASSUME NEW i \in V, NEW j \in V, next[i] = next[j], i < j PROVE FALSE
  <2>1. i <= next[j] /\ next[i] < i /\ next[i] \in Nat /\ i \in Nat
    BY <1>1, <1>2, <1>3
  <2> QED
    BY <1>3, <2>1
<1>4. ASSUME NEW i \in V PROVE next[i] # hole
  BY <1>0, <1>1, <1>2
<1>5. \E z \in V : next[z] = 0
  <2>1. V \subseteq Nat /\ V # {}
    BY <1>0
  <2>2. PICK z \in V : \A y \in V : z <= y
    BY <2>1, LeastNat
  <2>3. next[z] # 0 => next[z] \in V
    BY DEF Loop
  <2> QED
    BY <1>2, <2>2, <2>3
<1>6. ASSUME NEW i \in V, NEW j \in V, next[i] = next[j] PROVE i = j
  <2>1. i \in Nat /\ j \in Nat /\ ~(i < j) /\ ~(j < i)
    BY <1>2, <1>3, <1>6
  <2> QED
    BY <2>1
<1> QED
  BY <1>4, <1>5, <1>6 DEF OnePath

LEMMA DownPath ==
    ASSUME NEW V, NEW next, NEW hole, NEW n, Loop(V, next, hole, n),
           \A i \in 1 .. n : next[i] = 0 \/ next[i] = 2 * i \/ next[i] = 2 * i + 1
    PROVE  OnePath(V, next, hole)
<1>0. n \in Nat /\ hole \in 1 .. n /\ V \subseteq 1 .. n /\ hole \in V /\ next \in [1 .. n -> 0 .. n]
  BY DEF Loop
<1>1. /\ \A i \in V : hole <= i
      /\ \A i, j \in V : i < j => next[i] # 0 /\ next[i] <= j
  BY DownChain
<1>2. ASSUME NEW i \in V PROVE (next[i] = 0 \/ i < next[i]) /\ next[i] \in Nat /\ i \in Nat
  <2>1. i \in 1 .. n /\ next[i] \in 0 .. n
    BY <1>0
  <2> QED
    BY <2>1
<1>3. ASSUME NEW i \in V, NEW j \in V, next[i] = next[j], i < j PROVE FALSE
  <2>1. /\ next[i] # 0 /\ next[i] <= j /\ (next[j] = 0 \/ j < next[j])
        /\ next[i] \in Nat /\ j \in Nat
    BY <1>1, <1>2, <1>3
  <2> QED
    BY <1>3, <2>1
<1>4. ASSUME NEW i \in V PROVE next[i] # hole
  <2>1. hole <= i /\ (next[i] = 0 \/ i < next[i]) /\ next[i] \in Nat /\ i \in Nat
    BY <1>1, <1>2
  <2> QED
    BY <1>0, <2>1
<1>5. \E z \in V : next[z] = 0
  <2>1. PICK T : T = {k \in Nat : \E i \in V : k = n - i}
    OBVIOUS
  <2>2. \A i \in V : n - i \in T
    BY <1>0, <2>1
  <2>3. T \subseteq Nat /\ T # {}
    BY <1>0, <2>1, <2>2
  <2>4. PICK k \in T : \A l \in T : k <= l
    BY <2>3, LeastNat
  <2>5. PICK z \in V : k = n - z
    BY <2>1
  <2>6. next[z] # 0 => n - next[z] \in T
    BY <2>2 DEF Loop
  <2>7. next[z] # 0 => k <= n - next[z]
    BY <2>4, <2>6
  <2>8. z \in Nat /\ next[z] \in Nat /\ (next[z] = 0 \/ z < next[z])
    BY <1>2
  <2> QED
    BY <1>0, <2>5, <2>7, <2>8
<1>6. ASSUME NEW i \in V, NEW j \in V, next[i] = next[j] PROVE i = j
  <2>1. i \in Nat /\ j \in Nat /\ ~(i < j) /\ ~(j < i)
    BY <1>2, <1>3, <1>6
  <2> QED
    BY <2>1
<1> QED
  BY <1>4, <1>5, <1>6 DEF OnePath

(* r is a after the loop.                                                  *)
Moved(r, a, V, next, hole, n) ==
    /\ DOMAIN a = 1 .. n /\ DOMAIN r = 1 .. n
    /\ \A i \in 1 .. n : i \notin V => r[i] = a[i]
    /\ \A i \in V : next[i] = 0 => r[i] = a[hole]
    /\ \A i \in V : next[i] # 0 => r[i] = a[next[i]]

(* No timer is lost or doubled.                                            *)
LEMMA MovedAll ==
    ASSUME NEW V, NEW next, NEW hole, NEW n, NEW a, NEW r,
           Loop(V, next, hole, n), OnePath(V, next, hole), Moved(r, a, V, next, hole, n), IsInjective(a)
    PROVE  IsInjective(r) /\ Range(r) = Range(a)
<1>0. /\ n \in Nat /\ hole \in 1 .. n /\ V \subseteq 1 .. n /\ hole \in V
      /\ \A i \in V : next[i] # 0 => next[i] \in V
      /\ DOMAIN a = 1 .. n /\ DOMAIN r = 1 .. n
  BY DEF Loop, Moved
<1>1. ASSUME NEW i \in 1 .. n
      PROVE  \E k \in 1 .. n : /\ r[i] = a[k]
                               /\ i \notin V => k = i
                               /\ i \in V => k \in V
                               /\ i \in V /\ next[i] = 0 => k = hole
                               /\ i \in V /\ next[i] # 0 => k = next[i]
  <2>1. CASE i \notin V
    BY <2>1 DEF Moved
  <2>2. CASE i \in V /\ next[i] = 0
    BY <1>0, <2>2 DEF Moved
  <2>3. CASE i \in V /\ next[i] # 0
    BY <1>0, <2>3 DEF Moved
  <2> QED
    BY <2>1, <2>2, <2>3
<1>2. ASSUME NEW i \in 1 .. n, NEW j \in 1 .. n, r[i] = r[j] PROVE i = j
  <2>1. PICK k \in 1 .. n : /\ r[i] = a[k]
                            /\ i \notin V => k = i
                            /\ i \in V => k \in V
                            /\ i \in V /\ next[i] = 0 => k = hole
                            /\ i \in V /\ next[i] # 0 => k = next[i]
    BY <1>1
  <2>2. PICK l \in 1 .. n : /\ r[j] = a[l]
                            /\ j \notin V => l = j
                            /\ j \in V => l \in V
                            /\ j \in V /\ next[j] = 0 => l = hole
                            /\ j \in V /\ next[j] # 0 => l = next[j]
    BY <1>1
  <2>3. k = l
    BY <1>0, <1>2, <2>1, <2>2 DEF IsInjective
  <2> QED
    BY <2>1, <2>2, <2>3 DEF OnePath
<1>3. ASSUME NEW k \in 1 .. n PROVE \E i \in 1 .. n : r[i] = a[k]
  <2>1. CASE k \notin V
    BY <2>1 DEF Moved
  <2>2. CASE k = hole
    BY <1>0, <2>2 DEF OnePath, Moved
  <2>3. CASE k \in V /\ k # hole
    <3>1. PICK c \in V : next[c] = k
      BY <2>3 DEF Loop
    <3>2. next[c] # 0 /\ c \in 1 .. n
      BY <1>0, <3>1
    <3> QED
      BY <3>1, <3>2 DEF Moved
  <2> QED
    BY <2>1, <2>2, <2>3
<1>4. IsInjective(r)
  BY <1>0, <1>2 DEF IsInjective
<1>5. Range(r) = Range(a)
  <2>1. \A i \in 1 .. n : \E k \in 1 .. n : r[i] = a[k]
    BY <1>1
  <2>2. Range(r) = {r[i] : i \in 1 .. n} /\ Range(a) = {a[i] : i \in 1 .. n}
    BY <1>0 DEF Range
  <2> QED
    BY <1>3, <2>1, <2>2
<1> QED
  BY <1>4, <1>5

(* After percolate_down from hole the order holds at hole too.             *)
LEMMA DownOrder ==
    ASSUME NEW V, NEW next, NEW hole, NEW n, Loop(V, next, hole, n),
           NEW k \in [1 .. n -> Int], NEW r, Moved(r, k, V, next, hole, n),
           \A i \in 1 .. n : next[i] = 0 => \A j \in 2 .. n : j \div 2 = i => k[hole] <= k[j],
           \A i \in 1 .. n : next[i] # 0 =>
               /\ next[i] \in 2 .. n /\ next[i] \div 2 = i /\ k[next[i]] < k[hole]
               /\ \A j \in 2 .. n : j \div 2 = i => k[next[i]] <= k[j],
           \A j \in 2 .. n : j \div 2 > hole => k[j \div 2] <= k[j]
    PROVE  \A j \in 2 .. n : j \div 2 >= hole => r[j \div 2] <= r[j]
<1> SUFFICES ASSUME NEW j \in 2 .. n, j \div 2 >= hole PROVE r[j \div 2] <= r[j]
  OBVIOUS
<1>0. n \in Nat /\ hole \in 1 .. n /\ V \subseteq 1 .. n /\ hole \in V /\ next \in [1 .. n -> 0 .. n]
  BY DEF Loop
<1>1. PICK p : p = j \div 2
  OBVIOUS
<1>2. p \in 1 .. n /\ p < j /\ j \in 1 .. n /\ hole <= p
  BY <1>0, <1>1
<1>3. CASE j \in V
  <2>1. j # hole
    BY <1>0, <1>2
  <2>2. PICK c \in V : next[c] = j
    BY <1>3, <2>1 DEF Loop
  <2>3. c \in 1 .. n /\ next[c] # 0 /\ c = p
    <3>1. c \in 1 .. n /\ next[c] # 0
      BY <1>0, <1>2, <2>2
    <3>2. next[c] \div 2 = c
      BY <3>1
    <3> QED
      BY <1>1, <2>2, <3>1, <3>2, Zenon
  <2>4. r[p] = k[j] /\ k[j] < k[hole]
    BY <2>2, <2>3 DEF Moved
  <2>5. CASE next[j] = 0
    <3>1. r[j] = k[hole]
      BY <1>3, <2>5 DEF Moved
    <3>2. k[j] \in Int /\ k[hole] \in Int
      BY <1>0, <1>2
    <3>3. r[p] <= r[j]
      BY ONLY <2>4, <3>1, <3>2
    <3> QED
      BY ONLY <1>1, <3>3
  <2>6. CASE next[j] # 0
    <3>1. PICK m : m = next[j]
      OBVIOUS
    <3>2. r[j] = k[m] /\ m \in 2 .. n /\ m \div 2 = j
      BY <1>2, <1>3, <2>6, <3>1 DEF Moved
    <3>3. j > hole
      BY <1>0, <1>2
    <3>4. k[j] <= k[m]
      BY <3>2, <3>3
    <3> QED
      BY <1>1, <2>4, <3>2, <3>4
  <2> QED
    BY <2>5, <2>6
<1>4. CASE j \notin V
  <2>1. r[j] = k[j]
    BY <1>2, <1>4 DEF Moved
  <2>2. CASE p \in V /\ next[p] = 0
    <3>1. r[p] = k[hole] /\ k[hole] <= k[j]
      BY <1>1, <1>2, <2>2 DEF Moved
    <3> QED
      BY <1>1, <2>1, <3>1
  <2>3. CASE p \in V /\ next[p] # 0
    <3>1. r[p] = k[next[p]] /\ k[next[p]] <= k[j]
      BY <1>1, <1>2, <2>3 DEF Moved
    <3> QED
      BY <1>1, <2>1, <3>1
  <2>4. CASE p \notin V
    <3>1. r[p] = k[p] /\ p > hole
      BY <1>0, <1>2, <2>4 DEF Moved
    <3>2. k[p] <= k[j]
      BY <1>1, <3>1
    <3> QED
      BY <1>1, <2>1, <3>1, <3>2
  <2> QED
    BY <2>2, <2>3, <2>4
<1> QED
  BY <1>3, <1>4

(* The loop of add_timer: the last position is the hole it begins with,    *)
(* and it goes on to the parent as long as that expires later.             *)
UpRule(next, k, n) ==
    /\ k \in [1 .. n -> Int]
    /\ \A i \in 1 .. n : next[i] = 0 => i = 1 \/ k[i \div 2] <= k[n]
    /\ \A i \in 1 .. n : next[i] # 0 => i # 1 /\ next[i] = i \div 2 /\ k[n] < k[i \div 2]
    /\ \A j \in 2 .. n - 1 : k[j \div 2] <= k[j]

LEMMA UpOrder ==
    ASSUME NEW V, NEW next, NEW n, Loop(V, next, n, n),
           NEW k, NEW r, Moved(r, k, V, next, n, n), UpRule(next, k, n)
    PROVE  /\ \A j \in 2 .. n : r[j \div 2] <= r[j]
           /\ n > 1 /\ k[1] <= k[n] => r[1] = k[1] /\ 1 \notin V
<1>0. n \in Nat /\ n \in 1 .. n /\ V \subseteq 1 .. n /\ n \in V /\ next \in [1 .. n -> 0 .. n]
  BY DEF Loop
<1> USE DEF UpRule
<1>a. \A i, j \in V : i < j => i <= next[j]
  <2>1. \A i \in 1 .. n : next[i] = 0 \/ next[i] = i \div 2
    OBVIOUS
  <2> QED
    BY <2>1, UpChain
<1>b. ASSUME n > 1, k[1] <= k[n] PROVE r[1] = k[1] /\ 1 \notin V
  <2>1. 1 \notin V
    <3> SUFFICES ASSUME 1 \in V PROVE FALSE
      OBVIOUS
    <3>1. PICK c \in V : next[c] = 1
      BY <1>b DEF Loop
    <3>2. c \in 1 .. n /\ k[n] < k[c \div 2] /\ c \div 2 = 1
      BY <1>0, <3>1
    <3> QED
      BY <1>0, <1>b, <3>2
  <2> QED
    BY <1>0, <2>1 DEF Moved
<1> SUFFICES ASSUME NEW j \in 2 .. n PROVE r[j \div 2] <= r[j]
  BY <1>b
<1>1. PICK p : p = j \div 2
  OBVIOUS
<1>2. p \in 1 .. n /\ p < j /\ j \in 1 .. n /\ p <= n - 1
  BY <1>0, <1>1
<1>c. ASSUME p \in V, next[p] # 0 PROVE r[p] <= k[p]
  <2>1. r[p] = k[p \div 2]
    BY <1>2, <1>c DEF Moved
  <2>2. p \in 2 .. n - 1
    BY <1>0, <1>2, <1>c
  <2> QED
    BY <2>1, <2>2
<1>3. CASE j \in V /\ next[j] = 0
  <2>1. r[j] = k[n] /\ k[p] <= k[n]
    BY <1>1, <1>2, <1>3 DEF Moved
  <2>2. p \notin V
    BY <1>a, <1>2, <1>3
  <2>3. r[p] = k[p]
    BY <1>2, <2>2 DEF Moved
  <2> QED
    BY <1>1, <2>1, <2>3
<1>4. CASE j \in V /\ next[j] # 0
  <2>1. next[j] = p /\ k[n] < k[p] /\ r[j] = k[p] /\ p \in V
    <3>1. next[j] = p /\ k[n] < k[p]
      BY <1>1, <1>2, <1>4
    <3>2. r[j] = k[next[j]]
      BY ONLY <1>4, Moved(r, k, V, next, n, n), Zenon DEF Moved
    <3>3. next[j] \in V
      BY ONLY <1>4, Loop(V, next, n, n), Zenon DEF Loop
    <3> QED
      BY ONLY <3>1, <3>2, <3>3, Zenon
  <2>2. CASE next[p] = 0
    <3>1. r[p] = k[n]
      BY <2>1, <2>2 DEF Moved
    <3> QED
      BY <1>0, <1>1, <1>2, <2>1, <3>1
  <2>3. CASE next[p] # 0
    BY <1>c, <1>1, <2>1, <2>3
  <2> QED
    BY <2>2, <2>3
<1>5. CASE j \notin V
  <2>1. r[j] = k[j] /\ j \in 2 .. n - 1
    BY <1>0, <1>2, <1>5 DEF Moved
  <2>2. k[p] <= k[j]
    BY <1>1, <2>1
  <2>3. CASE p \in V /\ next[p] = 0
    <3>1. PICK c \in V : next[c] = p
      BY <1>2, <2>3 DEF Loop
    <3>2. c \in 1 .. n /\ k[n] < k[p]
      <4>1. c \in 1 .. n /\ next[c] # 0
        BY <1>0, <1>2, <3>1
      <4>2. next[c] = c \div 2 /\ k[n] < k[c \div 2]
        BY <4>1
      <4> QED
        BY ONLY <3>1, <4>1, <4>2
    <3>3. r[p] = k[n]
      BY <2>3 DEF Moved
    <3>4. k[n] \in Int /\ k[p] \in Int /\ k[j] \in Int
      BY <1>0, <1>2
    <3> QED
      BY <1>1, <2>1, <2>2, <3>2, <3>3, <3>4
  <2>4. CASE p \in V /\ next[p] # 0
    <3>0. next[p] = p \div 2 /\ p # 1
      BY <1>2, <2>4
    <3>1. r[p] <= k[p] /\ r[p] = k[p \div 2] /\ p \div 2 \in 1 .. n
      <4>1. r[p] <= k[p]
        BY <1>c, <2>4
      <4>2. r[p] = k[p \div 2]
        BY <2>4, <3>0 DEF Moved
      <4>3. p \div 2 \in 1 .. n
        BY <1>0, <1>2, <3>0
      <4> QED
        BY <4>1, <4>2, <4>3, Zenon
    <3>2. k[p \div 2] \in Int /\ k[p] \in Int /\ k[j] \in Int
      BY <1>2, <3>1
    <3> QED
      BY <1>1, <2>1, <2>2, <3>1, <3>2
  <2>5. CASE p \notin V
    <3>1. r[p] = k[p]
      BY <1>2, <2>5 DEF Moved
    <3> QED
      BY <1>1, <2>1, <2>2, <3>1
  <2> QED
    BY <2>3, <2>4, <2>5
<1> QED
  BY <1>3, <1>4, <1>5

-----------------------------------------------------------------------------
(* The order of the heap below the positions from k on.                    *)
HeapFrom(a, e, k) == \A i \in 2 .. Len(a) : i \div 2 >= k => e[a[i \div 2]] <= e[a[i]]

(* b has the timers of a, in some order.                                   *)
Rearranged(b, a, T) ==
    b \in Seq(T) /\ Len(b) = Len(a) /\ IsInjective(b) /\ Range(b) = Range(a)

LEMMA ArraySeq ==
    ASSUME NEW T, NEW n \in Nat, NEW f \in [1 .. n -> T]
    PROVE  f \in Seq(T) /\ Len(f) = n /\ DOMAIN f = 1 .. n
OBVIOUS

(* k holds the expiry at each position of an array of n timers.            *)
Keys(k, a, e, n) ==
    n \in Nat /\ k \in [1 .. n -> Int] /\ Len(a) = n /\ \A j \in 1 .. n : k[j] = e[a[j]]

EarlierChild(c, k, i, n) ==
    /\ c \in 2 .. n /\ c \div 2 = i /\ (c = 2 * i \/ c = 2 * i + 1)
    /\ \A j \in 2 .. n : j \div 2 = i => k[c] <= k[j]

LEMMA ChildFacts ==
    ASSUME NEW n, NEW a, NEW e, NEW k, Keys(k, a, e, n), NEW i \in 1 .. n, 2 * i <= n
    PROVE  EarlierChild(Child(a, i, e), k, i, n)
<1>0. n \in Nat /\ k \in [1 .. n -> Int] /\ Len(a) = n /\ \A j \in 1 .. n : k[j] = e[a[j]]
  BY DEF Keys
<1>1. PICK c, l : c = Child(a, i, e) /\ l = 2 * i
  OBVIOUS
<1>2. l \in 2 .. n /\ l \in 1 .. n /\ l \div 2 = i /\ (l + 1) \div 2 = i
      /\ \A j \in 2 .. n : j \div 2 = i => j = l \/ j = l + 1
  BY <1>0, <1>1
<1>3. /\ l < n /\ e[a[l + 1]] < e[a[l]] => c = l + 1
      /\ ~(l < n /\ e[a[l + 1]] < e[a[l]]) => c = l
  BY <1>0, <1>1, Zenon DEF Child
<1>4. CASE l < n
  <2>1. l + 1 \in 1 .. n /\ l + 1 \in 2 .. n
    BY <1>0, <1>2, <1>4
  <2>2. e[a[l + 1]] = k[l + 1] /\ e[a[l]] = k[l] /\ k[l] \in Int /\ k[l + 1] \in Int
    BY <1>0, <1>2, <2>1
  <2>3. (c = l + 1 /\ k[l + 1] < k[l]) \/ (c = l /\ k[l] <= k[l + 1])
    BY <1>3, <1>4, <2>2
  <2>4. c \in 2 .. n /\ c \div 2 = i /\ (c = l \/ c = l + 1)
    BY <1>2, <2>1, <2>3
  <2>5. k[c] <= k[l] /\ k[c] <= k[l + 1]
    BY <2>2, <2>3
  <2>6. \A j \in 2 .. n : j \div 2 = i => k[c] <= k[j]
    BY <1>2, <2>5, Zenon
  <2> QED
    BY <1>1, <2>4, <2>6 DEF EarlierChild
<1>5. CASE ~(l < n)
  <2>1. c = l /\ \A j \in 2 .. n : j \div 2 = i => j = l
    BY <1>0, <1>2, <1>3, <1>5
  <2>2. k[l] <= k[l]
    BY <1>0, <1>2
  <2>3. \A j \in 2 .. n : j \div 2 = i => k[c] <= k[j]
    BY <2>1, <2>2, Zenon
  <2> QED
    BY <1>1, <1>2, <2>1, <2>3 DEF EarlierChild
<1> QED
  BY <1>4, <1>5

LEMMA SinkFacts ==
    ASSUME NEW T, NEW a \in Seq(T), NEW e, \A x \in T : e[x] \in Int,
           NEW hole \in 1 .. Len(a), IsInjective(a), HeapFrom(a, e, hole + 1)
    PROVE  /\ Rearranged(percolate_down(a, hole, e), a, T)
           /\ HeapFrom(percolate_down(a, hole, e), e, hole)
<1>1. PICK n : n = Len(a)
  OBVIOUS
<1>2. n \in Nat /\ hole \in 1 .. n /\ DOMAIN a = 1 .. n /\ \A i \in 1 .. n : a[i] \in T
  BY <1>1
<1>3. PICK next : next = Sink(a, a[hole], e)
  OBVIOUS
<1>4. PICK k : k = [i \in 1 .. n |-> e[a[i]]]
  OBVIOUS
<1>5. k \in [1 .. n -> Int] /\ \A i \in 1 .. n : k[i] = e[a[i]]
  BY <1>2, <1>4
<1>a. Keys(k, a, e, n)
  BY <1>1, <1>2, <1>5 DEF Keys
<1>6. ASSUME NEW i \in 1 .. n
      PROVE  /\ ~(2 * i <= n /\ k[Child(a, i, e)] < k[hole]) => next[i] = 0
             /\ 2 * i <= n /\ k[Child(a, i, e)] < k[hole] => next[i] = Child(a, i, e)
  <2>1. PICK c : c = Child(a, i, e)
    OBVIOUS
  <2>2. next[i] = IF 2 * i <= n /\ e[a[c]] < e[a[hole]] THEN c ELSE 0
    BY <1>1, <1>2, <1>3, <2>1 DEF Sink
  <2>3. e[a[hole]] = k[hole]
    BY <1>2, <1>5
  <2>4. 2 * i <= n => e[a[c]] = k[c]
    <3>1. 2 * i <= n => c \in 2 .. n
      BY <1>a, <2>1, ChildFacts DEF EarlierChild
    <3> QED
      BY <1>2, <1>5, <3>1
  <2> QED
    BY <2>1, <2>2, <2>3, <2>4, Zenon
<1>7. ASSUME NEW i \in 1 .. n, 2 * i <= n
      PROVE  /\ Child(a, i, e) \in 2 .. n /\ Child(a, i, e) \div 2 = i
             /\ Child(a, i, e) = 2 * i \/ Child(a, i, e) = 2 * i + 1
             /\ \A j \in 2 .. n : j \div 2 = i => k[Child(a, i, e)] <= k[j]
  BY <1>a, <1>7, ChildFacts DEF EarlierChild
<1>8. next \in [1 .. n -> 0 .. n] /\ \A i \in 1 .. n : next[i] = 0 \/ next[i] = 2 * i \/ next[i] = 2 * i + 1
  <2>1. \A i \in 1 .. n : next[i] \in 0 .. n /\ (next[i] = 0 \/ next[i] = 2 * i \/ next[i] = 2 * i + 1)
    BY <1>2, <1>6, <1>7
  <2>2. next = [i \in 1 .. n |-> next[i]]
    BY <1>2, <1>3 DEF Sink
  <2> QED
    BY <2>1, <2>2
<1>9. PICK V : V = Visited(next, hole)
  OBVIOUS
<1>10. Loop(V, next, hole, n)
  BY <1>2, <1>8, <1>9, LoopIs
<1>11. OnePath(V, next, hole)
  BY <1>8, <1>10, DownPath
<1>12. PICK r : r = percolate_down(a, hole, e)
  OBVIOUS
<1>13. r = [i \in 1 .. n |-> IF i \notin V THEN a[i] ELSE IF next[i] = 0 THEN a[hole] ELSE a[next[i]]]
  <2>1. a # <<>>
    BY <1>1, <1>2
  <2> QED
    BY <1>2, <1>3, <1>9, <1>12, <2>1 DEF percolate_down, Percolate
<1>14. Moved(r, a, V, next, hole, n)
  BY <1>2, <1>10, <1>13 DEF Moved, Loop
<1>15. IsInjective(r) /\ Range(r) = Range(a)
  BY <1>10, <1>11, <1>14, MovedAll
<1>16. r \in [1 .. n -> T]
  <2>1. \A i \in 1 .. n : next[i] # 0 => next[i] \in 1 .. n
    BY <1>8
  <2> QED
    BY <1>2, <1>13, <2>1
<1>17. r \in Seq(T) /\ Len(r) = n
  BY <1>2, <1>16, ArraySeq
<1>18. PICK rk : rk = [i \in 1 .. n |-> e[r[i]]]
  OBVIOUS
<1>19. Moved(rk, k, V, next, hole, n)
  <2>1. V \subseteq 1 .. n /\ hole \in 1 .. n /\ \A i \in V : next[i] # 0 => next[i] \in 1 .. n
    BY <1>10 DEF Loop
  <2> QED
    BY <1>5, <1>14, <1>18, <2>1 DEF Moved
<1>20. \A i \in 1 .. n : next[i] = 0 => \A j \in 2 .. n : j \div 2 = i => k[hole] <= k[j]
  <2> SUFFICES ASSUME NEW i \in 1 .. n, next[i] = 0, NEW j \in 2 .. n, j \div 2 = i
               PROVE  k[hole] <= k[j]
    BY Zenon
  <2>1. 2 * i <= n
    BY <1>2
  <2>2. PICK c : c = Child(a, i, e)
    OBVIOUS
  <2>3. c \in 2 .. n /\ k[c] <= k[j]
    BY <1>7, <2>1, <2>2
  <2>4. ~(k[c] < k[hole])
    BY <1>6, <2>1, <2>2, <2>3
  <2>5. k[c] \in Int /\ k[hole] \in Int /\ k[j] \in Int
    <3>1. c \in 1 .. n /\ hole \in 1 .. n /\ j \in 1 .. n
      BY <1>2, <2>3
    <3> QED
      BY ONLY <1>5, <3>1
  <2> QED
    BY <2>3, <2>4, <2>5
<1>21. \A i \in 1 .. n : next[i] # 0 =>
           /\ next[i] \in 2 .. n /\ next[i] \div 2 = i /\ k[next[i]] < k[hole]
           /\ \A j \in 2 .. n : j \div 2 = i => k[next[i]] <= k[j]
  <2> SUFFICES ASSUME NEW i \in 1 .. n, next[i] # 0
               PROVE  /\ next[i] \in 2 .. n /\ next[i] \div 2 = i /\ k[next[i]] < k[hole]
                      /\ \A j \in 2 .. n : j \div 2 = i => k[next[i]] <= k[j]
    OBVIOUS
  <2>1. 2 * i <= n /\ k[Child(a, i, e)] < k[hole] /\ next[i] = Child(a, i, e)
    BY <1>6, Zenon
  <2> QED
    BY <1>7, <2>1
<1>22. \A j \in 2 .. n : j \div 2 > hole => k[j \div 2] <= k[j]
  <2> SUFFICES ASSUME NEW j \in 2 .. n, j \div 2 > hole PROVE k[j \div 2] <= k[j]
    OBVIOUS
  <2>1. j \div 2 \in 1 .. n /\ j \in 1 .. n /\ j \div 2 >= hole + 1
    BY <1>2
  <2>2. e[a[j \div 2]] <= e[a[j]]
    BY <1>1, <2>1 DEF HeapFrom
  <2> QED
    BY <1>5, <2>1, <2>2
<1>23. \A j \in 2 .. n : j \div 2 >= hole => rk[j \div 2] <= rk[j]
  BY <1>5, <1>10, <1>19, <1>20, <1>21, <1>22, DownOrder
<1>24. HeapFrom(r, e, hole)
  <2> SUFFICES ASSUME NEW j \in 2 .. n, j \div 2 >= hole PROVE e[r[j \div 2]] <= e[r[j]]
    BY <1>17 DEF HeapFrom
  <2>1. j \div 2 \in 1 .. n /\ j \in 1 .. n
    BY <1>2
  <2>2. rk[j \div 2] = e[r[j \div 2]] /\ rk[j] = e[r[j]]
    BY <1>18, <2>1
  <2> QED
    BY <1>23, <2>2
<1> QED
  BY <1>1, <1>12, <1>15, <1>17, <1>24 DEF Rearranged

(* add_timer puts the timer in its place; the top stays unless the new     *)
(* timer expires before it.                                                *)
LEMMA AddFacts ==
    ASSUME NEW T, NEW a \in Seq(T), NEW e, \A x \in T : e[x] \in Int, NEW id \in T,
           id \notin Range(a), IsInjective(a), HeapFrom(a, e, 1)
    PROVE  /\ add_timer(a, id, e) \in Seq(T) /\ Len(add_timer(a, id, e)) = Len(a) + 1
           /\ IsInjective(add_timer(a, id, e)) /\ Range(add_timer(a, id, e)) = Range(a) \cup {id}
           /\ HeapFrom(add_timer(a, id, e), e, 1)
           /\ a # <<>> /\ e[a[1]] <= e[id] => add_timer(a, id, e)[1] = a[1]
<1>1. PICK n, b : n = Len(a) + 1 /\ b = Append(a, id)
  OBVIOUS
<1>2. b \in Seq(T) /\ Len(b) = n /\ IsInjective(b) /\ Range(b) = Range(a) \cup {id}
  BY <1>1, AppendFacts
<1>3. /\ n \in Nat /\ n \in 1 .. n /\ n > 0 /\ DOMAIN b = 1 .. n /\ \A i \in 1 .. n : b[i] \in T
      /\ b[n] = id /\ \A i \in 1 .. n - 1 : b[i] = a[i]
  BY <1>1, <1>2
<1>4. PICK next : next = Parent(b, id, e)
  OBVIOUS
<1>5. PICK k : k = [i \in 1 .. n |-> e[b[i]]]
  OBVIOUS
<1>6. k \in [1 .. n -> Int] /\ \A i \in 1 .. n : k[i] = e[b[i]]
  BY <1>3, <1>5
<1>7. ASSUME NEW i \in 1 .. n
      PROVE  /\ i = 1 \/ k[i \div 2] <= k[n] => next[i] = 0
             /\ ~(i = 1 \/ k[i \div 2] <= k[n]) => next[i] = i \div 2
  <2>1. PICK p : p = i \div 2
    OBVIOUS
  <2>2. next[i] = IF i = 1 \/ e[b[p]] <= e[id] THEN 0 ELSE p
    BY <1>3, <1>4, <2>1 DEF Parent
  <2>3. e[id] = k[n]
    BY <1>3, <1>6
  <2>4. i # 1 => e[b[p]] = k[p]
    <3>1. i # 1 => p \in 1 .. n
      BY <1>3, <2>1
    <3> QED
      BY <1>6, <3>1
  <2> QED
    BY <2>1, <2>2, <2>3, <2>4, Zenon
<1>8. \A i \in 1 .. n : next[i] = 0 \/ next[i] = i \div 2
  BY <1>7, Zenon
<1>9. next \in [1 .. n -> 0 .. n]
  <2>1. \A i \in 1 .. n : 0 \in 0 .. n /\ i \div 2 \in 0 .. n
    BY <1>3
  <2>2. \A i \in 1 .. n : next[i] \in 0 .. n
    BY <1>8, <2>1, Zenon
  <2>3. next = [i \in 1 .. n |-> next[i]]
    BY <1>3, <1>4 DEF Parent
  <2> QED
    BY <2>2, <2>3
<1>10. PICK V : V = Visited(next, n)
  OBVIOUS
<1>11. Loop(V, next, n, n)
  BY <1>3, <1>9, <1>10, LoopIs
<1>12. OnePath(V, next, n)
  BY <1>8, <1>11, UpPath
<1>13. PICK r : r = add_timer(a, id, e)
  OBVIOUS
<1>14. r = [i \in 1 .. n |-> IF i \notin V THEN b[i] ELSE IF next[i] = 0 THEN b[n] ELSE b[next[i]]]
  BY <1>1, <1>3, <1>4, <1>10, <1>13 DEF add_timer, Percolate
<1>15. Moved(r, b, V, next, n, n)
  BY <1>3, <1>11, <1>14 DEF Moved, Loop
<1>16. IsInjective(r) /\ Range(r) = Range(b)
  BY <1>2, <1>11, <1>12, <1>15, MovedAll
<1>17. r \in [1 .. n -> T]
  <2>1. \A i \in 1 .. n : next[i] # 0 => next[i] \in 1 .. n
    BY <1>9
  <2> QED
    BY <1>3, <1>14, <2>1
<1>18. r \in Seq(T) /\ Len(r) = n
  BY <1>3, <1>17, ArraySeq
<1>19. PICK rk : rk = [i \in 1 .. n |-> e[r[i]]]
  OBVIOUS
<1>20. Moved(rk, k, V, next, n, n)
  <2>1. V \subseteq 1 .. n /\ n \in 1 .. n /\ \A i \in V : next[i] # 0 => next[i] \in 1 .. n
    BY <1>11 DEF Loop
  <2> QED
    BY <1>6, <1>15, <1>19, <2>1 DEF Moved
<1>21. \A i \in 1 .. n : next[i] = 0 => i = 1 \/ k[i \div 2] <= k[n]
  <2> SUFFICES ASSUME NEW i \in 1 .. n, next[i] = 0, i # 1 PROVE k[i \div 2] <= k[n]
    BY Zenon
  <2>1. i \div 2 # 0
    BY <1>3
  <2> QED
    BY <1>7, <2>1, Zenon
<1>22. \A i \in 1 .. n : next[i] # 0 => i # 1 /\ next[i] = i \div 2 /\ k[n] < k[i \div 2]
  <2> SUFFICES ASSUME NEW i \in 1 .. n, next[i] # 0
               PROVE  i # 1 /\ next[i] = i \div 2 /\ k[n] < k[i \div 2]
    OBVIOUS
  <2>1. i # 1 /\ ~(k[i \div 2] <= k[n]) /\ next[i] = i \div 2
    BY <1>7, Zenon
  <2>2. i \div 2 \in 1 .. n
    BY <1>3, <2>1
  <2>3. k[i \div 2] \in Int /\ k[n] \in Int
    BY <1>3, <1>6, <2>2
  <2> QED
    BY <2>1, <2>3
<1>23. \A j \in 2 .. n - 1 : k[j \div 2] <= k[j]
  <2> SUFFICES ASSUME NEW j \in 2 .. n - 1 PROVE k[j \div 2] <= k[j]
    OBVIOUS
  <2>1. j \div 2 \in 1 .. n - 1 /\ j \in 1 .. n - 1 /\ j \div 2 \in 1 .. n /\ j \in 1 .. n
        /\ j \div 2 >= 1 /\ j \in 2 .. Len(a)
    BY <1>1, <1>3
  <2>2. e[a[j \div 2]] <= e[a[j]]
    BY <2>1 DEF HeapFrom
  <2>3. b[j \div 2] = a[j \div 2] /\ b[j] = a[j]
    BY <1>3, <2>1
  <2> QED
    BY <1>6, <2>1, <2>2, <2>3
<1>24. /\ \A j \in 2 .. n : rk[j \div 2] <= rk[j]
       /\ n > 1 /\ k[1] <= k[n] => rk[1] = k[1] /\ 1 \notin V
  <2>1. UpRule(next, k, n)
    BY <1>6, <1>21, <1>22, <1>23 DEF UpRule
  <2> QED
    BY <1>11, <1>20, <2>1, UpOrder
<1>25. HeapFrom(r, e, 1)
  <2> SUFFICES ASSUME NEW j \in 2 .. n PROVE e[r[j \div 2]] <= e[r[j]]
    BY <1>18 DEF HeapFrom
  <2>1. j \div 2 \in 1 .. n /\ j \in 1 .. n
    BY <1>3
  <2>2. rk[j \div 2] = e[r[j \div 2]] /\ rk[j] = e[r[j]]
    BY <1>19, <2>1
  <2> QED
    BY <1>24, <2>2
<1>26. ASSUME a # <<>>, e[a[1]] <= e[id] PROVE r[1] = a[1]
  <2>1. n > 1 /\ 1 \in 1 .. n - 1 /\ 1 \in 1 .. n
    BY <1>1, <1>26
  <2>2. k[1] = e[a[1]] /\ k[n] = e[id]
    BY <1>3, <1>6, <2>1
  <2>3. 1 \notin V
    BY <1>24, <1>26, <2>1, <2>2
  <2> QED
    BY <1>3, <1>15, <2>1, <2>3 DEF Moved
<1> QED
  BY <1>1, <1>2, <1>13, <1>16, <1>18, <1>25, <1>26

(* pop_timer takes the top away.                                           *)
LEMMA PopFacts ==
    ASSUME NEW T, NEW a \in Seq(T), NEW e, \A x \in T : e[x] \in Int, a # <<>>,
           IsInjective(a), HeapFrom(a, e, 1)
    PROVE  /\ pop_timer(a, e) \in Seq(T) /\ Len(pop_timer(a, e)) = Len(a) - 1
           /\ IsInjective(pop_timer(a, e)) /\ Range(pop_timer(a, e)) = Range(a) \ {a[1]}
           /\ HeapFrom(pop_timer(a, e), e, 1)
<1>1. PICK n, b : n = Len(a) /\ b = LastFirst(a)
  OBVIOUS
<1>2. /\ n \in Nat /\ n > 0 /\ n - 1 \in Nat /\ DOMAIN a = 1 .. n /\ \A i \in 1 .. n : a[i] \in T
      /\ n \in 1 .. n /\ 1 \in 1 .. n
  BY <1>1
<1>3. b = [i \in 1 .. n - 1 |-> IF i = 1 THEN a[n] ELSE a[i]]
  BY <1>1 DEF LastFirst
<1>4. \A i \in 1 .. n - 1 : (i = 1 => b[i] = a[n]) /\ (i # 1 => b[i] = a[i]) /\ i \in 1 .. n
  BY <1>2, <1>3
<1>5. b \in [1 .. n - 1 -> T]
  BY <1>2, <1>3
<1>6. b \in Seq(T) /\ Len(b) = n - 1 /\ DOMAIN b = 1 .. n - 1
  BY <1>2, <1>5, ArraySeq
<1>7. IsInjective(b)
  <2> SUFFICES ASSUME NEW i \in 1 .. n - 1, NEW j \in 1 .. n - 1, b[i] = b[j] PROVE i = j
    BY <1>6 DEF IsInjective
  <2>1. i \in 1 .. n /\ j \in 1 .. n /\ i # n /\ j # n
    BY <1>2
  <2> QED
    BY <1>2, <1>4, <2>1 DEF IsInjective
<1>8. Range(b) = Range(a) \ {a[1]}
  <2>1. \A i \in 1 .. n : a[i] = a[1] => i = 1
    BY <1>2 DEF IsInjective
  <2>2. ASSUME NEW i \in 1 .. n - 1 PROVE \E j \in 1 .. n : j # 1 /\ b[i] = a[j]
    <3>1. CASE i = 1
      <4>1. n # 1
        BY <1>2, <2>2
      <4> QED
        BY <1>2, <1>4, <3>1, <4>1
    <3>2. CASE i # 1
      BY <1>4, <3>2
    <3> QED
      BY <3>1, <3>2
  <2>3. ASSUME NEW j \in 1 .. n, j # 1 PROVE \E i \in 1 .. n - 1 : b[i] = a[j]
    <3>1. CASE j = n
      <4>1. 1 \in 1 .. n - 1
        BY <1>2, <2>3, <3>1
      <4> QED
        BY <1>4, <3>1, <4>1
    <3>2. CASE j # n
      <4>1. j \in 1 .. n - 1
        BY <1>2, <3>2
      <4> QED
        BY <1>4, <2>3, <4>1
    <3> QED
      BY <3>1, <3>2
  <2>4. Range(b) = {b[i] : i \in 1 .. n - 1} /\ Range(a) = {a[i] : i \in 1 .. n}
    BY <1>2, <1>6 DEF Range
  <2>5. ASSUME NEW x \in Range(b) PROVE x \in Range(a) \ {a[1]}
    <3>1. PICK i \in 1 .. n - 1 : x = b[i]
      BY <2>4
    <3>2. PICK j \in 1 .. n : j # 1 /\ b[i] = a[j]
      BY <2>2
    <3> QED
      BY <2>1, <2>4, <3>1, <3>2
  <2>6. ASSUME NEW x \in Range(a) \ {a[1]} PROVE x \in Range(b)
    <3>1. PICK j \in 1 .. n : x = a[j]
      BY <2>4
    <3>2. j # 1
      BY <3>1
    <3>3. PICK i \in 1 .. n - 1 : b[i] = a[j]
      BY <2>3, <3>2
    <3> QED
      BY <2>4, <3>1, <3>3
  <2> QED
    BY <2>5, <2>6
<1>9. PICK r : r = percolate_down(b, 1, e)
  OBVIOUS
<1>10. r = pop_timer(a, e)
  BY <1>1, <1>9 DEF pop_timer
<1>11. Rearranged(r, b, T) /\ HeapFrom(r, e, 1)
  <2>1. CASE n = 1
    <3>1. b = <<>> /\ r = b
      BY <1>6, <1>9, <2>1 DEF percolate_down
    <3>2. HeapFrom(r, e, 1)
      BY <1>6, <2>1, <3>1 DEF HeapFrom
    <3> QED
      BY <1>6, <1>7, <3>1, <3>2 DEF Rearranged
  <2>2. CASE n # 1
    <3>1. 1 \in 1 .. Len(b)
      BY <1>2, <1>6, <2>2
    <3>2. HeapFrom(b, e, 1 + 1)
      <4> SUFFICES ASSUME NEW i \in 2 .. n - 1, i \div 2 >= 1 + 1 PROVE e[b[i \div 2]] <= e[b[i]]
        BY <1>6 DEF HeapFrom
      <4>1. /\ i \in 1 .. n - 1 /\ i # 1 /\ i \div 2 \in 1 .. n - 1 /\ i \div 2 # 1
            /\ i \in 2 .. Len(a) /\ i \div 2 >= 1
        BY <1>1, <1>2
      <4>2. e[a[i \div 2]] <= e[a[i]]
        BY <4>1 DEF HeapFrom
      <4>3. b[i] = a[i] /\ b[i \div 2] = a[i \div 2]
        BY <1>4, <4>1
      <4> QED
        BY <4>2, <4>3
    <3> QED
      BY <1>6, <1>7, <1>9, <3>1, <3>2, SinkFacts
  <2> QED
    BY <2>1, <2>2
<1> QED
  BY <1>1, <1>6, <1>8, <1>10, <1>11 DEF Rearranged

(* Nothing in a heap expires before its top.                               *)
LEMMA HeapTop ==
    ASSUME NEW T, NEW a \in Seq(T), NEW e, \A x \in T : e[x] \in Int, HeapFrom(a, e, 1)
    PROVE  \A i \in 1 .. Len(a) : e[a[1]] <= e[a[i]]
<1>1. PICK n : n = Len(a)
  OBVIOUS
<1>2. n \in Nat /\ \A i \in 1 .. n : a[i] \in T /\ e[a[i]] \in Int
  BY <1>1
<1>3. PICK B : B = {i \in 1 .. n : ~(e[a[1]] <= e[a[i]])}
  OBVIOUS
<1>4. B = {}
  <2> SUFFICES ASSUME B # {} PROVE FALSE
    OBVIOUS
  <2>1. B \subseteq Nat
    BY <1>2, <1>3
  <2>2. PICK i \in B : \A j \in B : i <= j
    BY <2>1, LeastNat
  <2>3. i \in 1 .. n /\ ~(e[a[1]] <= e[a[i]]) /\ 1 \in 1 .. n
    BY <1>2, <1>3
  <2>4. i # 1
    BY <1>2, <2>3
  <2>5. i \div 2 \in 1 .. n /\ i \div 2 < i /\ i \in 2 .. n /\ i \div 2 >= 1 /\ i \in Nat
    BY <1>2, <2>3, <2>4
  <2>6. e[a[i \div 2]] <= e[a[i]]
    BY <1>1, <2>5 DEF HeapFrom
  <2>7. i \div 2 \notin B
    BY <2>2, <2>5
  <2>8. e[a[1]] <= e[a[i \div 2]]
    BY <1>3, <2>5, <2>7
  <2>9. e[a[1]] \in Int /\ e[a[i]] \in Int /\ e[a[i \div 2]] \in Int
    BY <1>2, <2>3, <2>5
  <2> QED
    BY <2>3, <2>6, <2>8, <2>9
<1> QED
  BY <1>1, <1>3, <1>4

LEMMA RearrangedAgain ==
    ASSUME NEW T, NEW a, NEW b, NEW c, Rearranged(b, a, T), Rearranged(c, b, T)
    PROVE  Rearranged(c, a, T)
BY DEF Rearranged

(* The first j of the m arrays that Heapify makes, after a.                *)
Built(g, a, e, m, j) ==
    g = [i \in 0 .. j |-> IF i = 0 THEN a ELSE percolate_down(g[i - 1], m + 1 - i, e)]

LEMMA BuiltStep ==
    ASSUME NEW a, NEW e, NEW m \in Nat, NEW j \in Nat, NEW g, Built(g, a, e, m, j)
    PROVE  \E f : Built(f, a, e, m, j + 1)
<1>1. PICK x : x = percolate_down(g[j], m + 1 - (j + 1), e)
  OBVIOUS
<1>2. PICK f : f = [i \in 0 .. j + 1 |-> IF i = j + 1 THEN x ELSE g[i]]
  OBVIOUS
<1>3. /\ DOMAIN g = 0 .. j
      /\ \A i \in 0 .. j : g[i] = IF i = 0 THEN a ELSE percolate_down(g[i - 1], m + 1 - i, e)
  BY DEF Built
<1>4. f[j + 1] = x /\ \A i \in 0 .. j : f[i] = g[i]
  BY <1>2
<1>5. ASSUME NEW i \in 0 .. j + 1
      PROVE  f[i] = IF i = 0 THEN a ELSE percolate_down(f[i - 1], m + 1 - i, e)
  <2>1. CASE i = j + 1
    <3>1. f[i - 1] = g[j] /\ i # 0
      BY <1>4, <2>1
    <3> QED
      BY <1>1, <1>4, <2>1, <3>1
  <2>2. CASE i # j + 1
    <3>1. i \in 0 .. j /\ (i # 0 => i - 1 \in 0 .. j)
      BY <2>2
    <3>2. i # 0 => f[i - 1] = g[i - 1]
      BY <1>4, <3>1
    <3>3. f[i] = g[i]
      BY <1>4, <3>1
    <3> QED
      BY <1>3, <3>1, <3>2, <3>3, Zenon
  <2> QED
    BY <2>1, <2>2
<1>6. f = [i \in 0 .. j + 1 |-> f[i]]
  BY <1>2
<1>7. Built(f, a, e, m, j + 1)
  BY <1>5, <1>6 DEF Built
<1> QED
  BY <1>7

LEMMA BuiltExists ==
    ASSUME NEW a, NEW e, NEW m \in Nat
    PROVE  \A j \in Nat : \E g : Built(g, a, e, m, j)
<1>1. PICK B : B = {j \in Nat : ~ \E g : Built(g, a, e, m, j)}
  OBVIOUS
<1>2. B = {}
  <2> SUFFICES ASSUME B # {} PROVE FALSE
    OBVIOUS
  <2>1. B \subseteq Nat
    BY <1>1
  <2>2. PICK j \in B : \A l \in B : j <= l
    BY <2>1, LeastNat
  <2>3. j \in Nat /\ ~ \E g : Built(g, a, e, m, j)
    BY <1>1
  <2>4. j # 0
    <3>1. PICK g : g = [i \in 0 .. 0 |-> a]
      OBVIOUS
    <3>2. g = [i \in 0 .. 0 |-> IF i = 0 THEN a ELSE percolate_down(g[i - 1], m + 1 - i, e)]
      BY <3>1
    <3> QED
      BY <2>3, <3>2 DEF Built
  <2>5. j - 1 \in Nat /\ j - 1 < j /\ (j - 1) + 1 = j
    BY <2>3, <2>4
  <2>6. j - 1 \notin B
    BY <2>2, <2>3, <2>5
  <2>7. PICK g : Built(g, a, e, m, j - 1)
    BY <1>1, <2>5, <2>6
  <2>8. \E f : Built(f, a, e, m, (j - 1) + 1)
    BY <2>5, <2>7, BuiltStep
  <2> QED
    BY <2>3, <2>5, <2>8
<1> QED
  BY <1>1, <1>2

(* The constructor makes a heap of what it is given.                       *)
LEMMA HeapifyFacts ==
    ASSUME NEW T, NEW a \in Seq(T), NEW e, \A x \in T : e[x] \in Int, IsInjective(a)
    PROVE  Rearranged(Heapify(a, e), a, T) /\ HeapFrom(Heapify(a, e), e, 1)
<1>1. PICK n, m : n = Len(a) /\ m = (n + 1) \div 2
  OBVIOUS
<1>2. n \in Nat /\ m \in Nat /\ m <= n /\ n \div 2 <= m
  BY <1>1
<1>3. PICK h : h = CHOOSE g : g = [i \in 0 .. m |->
                   IF i = 0 THEN a ELSE percolate_down(g[i - 1], m + 1 - i, e)]
  OBVIOUS
<1>4. Heapify(a, e) = h[m]
  BY <1>1, <1>3 DEF Heapify
<1>5. h = [i \in 0 .. m |-> IF i = 0 THEN a ELSE percolate_down(h[i - 1], m + 1 - i, e)]
  <2>1. \E g : g = [i \in 0 .. m |-> IF i = 0 THEN a ELSE percolate_down(g[i - 1], m + 1 - i, e)]
    <3>1. PICK g : Built(g, a, e, m, m)
      BY <1>2, BuiltExists
    <3> QED
      BY <3>1, Zenon DEF Built
  <2> QED
    BY <1>3, <2>1, Zenon
<1>6. \A i \in 0 .. m : h[i] = IF i = 0 THEN a ELSE percolate_down(h[i - 1], m + 1 - i, e)
  BY <1>5
<1> DEFINE Good(i) == Rearranged(h[i], a, T) /\ HeapFrom(h[i], e, m + 1 - i)
<1>7. Good(0)
  <2>1. h[0] = a
    BY <1>2, <1>6
  <2>2. Rearranged(a, a, T)
    BY DEF Rearranged
  <2>3. HeapFrom(a, e, m + 1 - 0)
    <3>1. \A i \in 2 .. Len(a) : ~(i \div 2 >= m + 1 - 0)
      BY <1>1, <1>2
    <3> QED
      BY <3>1 DEF HeapFrom
  <2> QED
    BY <2>1, <2>2, <2>3
<1>8. ASSUME NEW i \in 1 .. m, Good(i - 1) PROVE Good(i)
  <2>1. PICK b, p : b = h[i - 1] /\ p = m + 1 - i
    OBVIOUS
  <2>2. p \in 1 .. n /\ p + 1 = m + 1 - (i - 1) /\ i \in 0 .. m /\ i # 0
    BY <1>2, <2>1
  <2>3. h[i] = percolate_down(b, p, e)
    BY <1>6, <2>1, <2>2
  <2>4. Rearranged(b, a, T) /\ HeapFrom(b, e, p + 1)
    BY <1>8, <2>1, <2>2
  <2>5. b \in Seq(T) /\ Len(b) = n /\ IsInjective(b)
    BY <1>1, <2>4 DEF Rearranged
  <2>6. Rearranged(percolate_down(b, p, e), b, T) /\ HeapFrom(percolate_down(b, p, e), e, p)
    BY <2>2, <2>4, <2>5, SinkFacts
  <2> QED
    BY <2>1, <2>3, <2>4, <2>6, RearrangedAgain
<1>9. \A i \in 0 .. m : Good(i)
  <2>1. PICK B : B = {i \in 0 .. m : ~ Good(i)}
    OBVIOUS
  <2>2. B = {}
    <3> SUFFICES ASSUME B # {} PROVE FALSE
      OBVIOUS
    <3>1. B \subseteq Nat
      BY <1>2, <2>1
    <3>2. PICK i \in B : \A l \in B : i <= l
      BY <3>1, LeastNat
    <3>3. i \in 0 .. m /\ ~ Good(i)
      BY <2>1
    <3>4. i # 0
      BY <1>7, <3>3
    <3>5. i \in 1 .. m /\ i - 1 \in 0 .. m /\ ~(i <= i - 1)
      BY <1>2, <3>3, <3>4
    <3>6. i - 1 \notin B
      BY <3>2, <3>5
    <3>7. Good(i - 1)
      BY <2>1, <3>5, <3>6
    <3> HIDE DEF Good
    <3> QED
      BY <1>8, <3>3, <3>5, <3>7
  <2> HIDE DEF Good
  <2> QED
    BY <2>1, <2>2
<1>10. m \in 0 .. m /\ m + 1 - m = 1
  BY <1>2
<1>11. Good(m)
  BY <1>9, <1>10
<1> QED
  BY <1>4, <1>10, <1>11

-----------------------------------------------------------------------------
(* The heap's state.  The handler that runs is that of the timer on top,   *)
(* which has expired, unless it has added a timer above it.                *)
HeapTimer == [expire : Int, handler : BOOLEAN, ranAt : Int, gone : BOOLEAN, early : BOOLEAN]

HeapTypes ==
    /\ timer \in Seq(HeapTimer) /\ array \in Seq(DOMAIN timer)
    /\ capacity \in Nat \ {0} /\ now \in Nat /\ cur \in Nat
    /\ run \in {"waiting", "sleeping", "tick", "handler", "looptop", "ended"}
    /\ deletedTwice \in BOOLEAN

HeapOrder ==
    /\ HeapFrom(array, Expires(timer), 1) /\ IsInjective(array) /\ Len(array) <= capacity

TimerFate(id) ==
    /\ timer[id].ranAt # -1 => timer[id].ranAt >= timer[id].expire
    /\ timer[id].gone <=> id \notin Range(array)
    /\ timer[id].gone /\ timer[id].ranAt = -1 => ~ timer[id].handler \/ timer[id].early
    /\ ~ timer[id].gone /\ timer[id].ranAt # -1 => (run = "handler" /\ id = array[1]) \/ Overtaken
    /\ run = "looptop" /\ ~ timer[id].gone => timer[id].expire > cur

HeapFates == \A id \in DOMAIN timer : TimerFate(id)

TopRuns ==
    /\ cur <= now
    /\ run = "handler" => /\ array # <<>> /\ timer[array[1]].expire <= cur
                          /\ timer[array[1]].ranAt # -1 \/ timer[array[1]].early

(* The handles, whatever the caller deletes.                               *)
HandleTypes(h, T) ==
    /\ h \in [timers : Seq(Nat), stack : Seq(Nat)]
    /\ Range(h.timers) \subseteq T /\ Range(h.stack) \subseteq DOMAIN h.timers

HeapHandles ==
    /\ HandleTypes(handles, DOMAIN timer)
    /\ ~ deletedTwice =>
           /\ IsInjective(handles.stack)
           /\ \A n, m \in InUse(handles) : handles.timers[n] = handles.timers[m] => n = m
           /\ \A id \in DOMAIN timer : ~ timer[id].gone /\ timer[id].handler =>
                  \E n \in InUse(handles) : handles.timers[n] = id

HeapInv == HeapTypes /\ HeapOrder /\ HeapFates /\ TopRuns /\ HeapHandles

(* A heap's state as the lemmas about its operators see it.                *)
HeapShape ==
    /\ DOMAIN Expires(timer) = DOMAIN timer
    /\ \A x \in DOMAIN timer :
           /\ Expires(timer)[x] = timer[x].expire /\ Expires(timer)[x] \in Int
           /\ timer[x] \in HeapTimer
           /\ timer[x].expire \in Int /\ timer[x].ranAt \in Int
           /\ timer[x].gone \in BOOLEAN /\ timer[x].handler \in BOOLEAN
           /\ timer[x].early \in BOOLEAN
    /\ DOMAIN timer = 1 .. Len(timer) /\ Len(timer) \in Nat
    /\ Len(array) \in Nat /\ DOMAIN array = 1 .. Len(array)
    /\ \A i \in 1 .. Len(array) : array[i] \in DOMAIN timer
    /\ Range(array) \subseteq DOMAIN timer
    /\ array # <<>> => 1 \in 1 .. Len(array) /\ array[1] \in DOMAIN timer

LEMMA HeapArray == HeapTypes => HeapShape
<1> SUFFICES ASSUME HeapTypes PROVE HeapShape
  OBVIOUS
<1>1. timer \in Seq(HeapTimer) /\ array \in Seq(DOMAIN timer)
  BY DEF HeapTypes
<1>2. DOMAIN timer = 1 .. Len(timer) /\ Len(timer) \in Nat
  BY <1>1
<1>3. /\ Len(array) \in Nat /\ DOMAIN array = 1 .. Len(array)
      /\ \A i \in 1 .. Len(array) : array[i] \in DOMAIN timer
      /\ array # <<>> => 1 \in 1 .. Len(array)
  BY <1>1
<1>4. Range(array) \subseteq DOMAIN timer
  BY <1>3 DEF Range
<1>5. ASSUME NEW x \in DOMAIN timer
      PROVE  /\ timer[x] \in HeapTimer
             /\ timer[x].expire \in Int /\ timer[x].ranAt \in Int
             /\ timer[x].gone \in BOOLEAN /\ timer[x].handler \in BOOLEAN
             /\ timer[x].early \in BOOLEAN
  <2>1. timer[x] \in HeapTimer
    BY <1>1, <1>2
  <2> QED
    BY <2>1 DEF HeapTimer
<1>6. DOMAIN Expires(timer) = DOMAIN timer /\ \A x \in DOMAIN timer : Expires(timer)[x] = timer[x].expire
  BY DEF Expires
<1> QED
  BY <1>2, <1>3, <1>4, <1>5, <1>6 DEF HeapShape

LEMMA HeapInitially == TimeHeapInit => HeapInv
<1> SUFFICES ASSUME TimeHeapInit PROVE HeapInv
  OBVIOUS
<1>1. /\ array = <<>> /\ timer = <<>> /\ capacity = HeapCapacity /\ now = 0 /\ cur = 0
      /\ run = "waiting" /\ handles = NoHandles /\ deletedTwice = FALSE
  BY DEF TimeHeapInit
<1>2. HeapTypes
  <2>1. timer \in Seq(HeapTimer) /\ array \in Seq(DOMAIN timer)
    BY <1>1
  <2> QED
    BY <1>1, <2>1, TimeHeapAssumption DEF HeapTypes
<1>3. IsInjective(array) /\ Range(array) = {} /\ Len(array) = 0
  BY <1>1, EmptyFacts
<1>4. HeapOrder
  <2>1. Len(array) <= capacity
    BY <1>1, <1>3, TimeHeapAssumption
  <2>2. 2 .. Len(array) = {}
    BY <1>3
  <2> QED
    BY <1>3, <2>1, <2>2 DEF HeapOrder, HeapFrom
<1>5. HeapFates
  BY <1>1 DEF HeapFates
<1>6. TopRuns
  BY <1>1 DEF TopRuns
<1>7. handles.timers = <<>> /\ handles.stack = <<>> /\ handles \in [timers : Seq(Nat), stack : Seq(Nat)]
  BY <1>1 DEF NoHandles
<1>8. HeapHandles
  <2>1. Range(handles.timers) = {} /\ Range(handles.stack) = {} /\ IsInjective(handles.stack)
    BY <1>7, EmptyFacts
  <2>2. InUse(handles) = {} /\ DOMAIN timer = {}
    BY <1>1, <1>7 DEF InUse
  <2> QED
    BY <1>7, <2>1, <2>2 DEF HeapHandles, HandleTypes
<1> QED
  BY <1>2, <1>4, <1>5, <1>6, <1>8 DEF HeapInv

(* What the handles say depends on the timers only so far.                 *)
LEMMA HeapHandlesStay ==
    ASSUME HeapHandles, UNCHANGED <<handles, deletedTwice>>, DOMAIN timer' = DOMAIN timer,
           \A id \in DOMAIN timer : ~ timer'[id].gone /\ timer'[id].handler =>
                                    ~ timer[id].gone /\ timer[id].handler
    PROVE  HeapHandles'
BY DEF HeapHandles

(* Steps of the thread and the clock that leave the array alone.           *)
LEMMA HeapThread ==
    HeapInv /\ (start \/ stop \/ RunLoop \/ TickBegins \/ HandlerTakesTime) => HeapInv'
<1> SUFFICES ASSUME HeapInv, start \/ stop \/ RunLoop \/ TickBegins \/ HandlerTakesTime PROVE HeapInv'
  OBVIOUS
<1>1. HeapTypes /\ HeapOrder /\ HeapFates /\ TopRuns /\ HeapHandles
  BY DEF HeapInv
<1>2. UNCHANGED <<array, capacity, timer, handles, deletedTwice>>
  BY DEF start, stop, RunLoop, TickBegins, HandlerTakesTime
<1>3. /\ run' = "looptop" => run = "looptop" /\ cur' = cur
      /\ run' = "handler" => run = "handler" /\ cur' = cur
      /\ run = "handler" => run' = "handler"
      /\ run' \in {"waiting", "sleeping", "tick", "handler", "looptop", "ended"}
      /\ cur' \in Nat /\ now' \in Nat /\ cur' <= now'
  <2>1. CASE start \/ stop
    BY <1>1, <2>1 DEF start, stop, HeapTypes, TopRuns
  <2>2. CASE RunLoop
    BY <1>1, <2>2 DEF RunLoop, HeapTypes, TopRuns
  <2>3. CASE TickBegins
    BY <1>1, <2>3 DEF TickBegins, HeapTypes, TopRuns
  <2>4. CASE HandlerTakesTime
    BY <1>1, <2>4 DEF HandlerTakesTime, HeapTypes, TopRuns
  <2> QED
    BY <2>1, <2>2, <2>3, <2>4
<1>4. HeapTypes'
  BY <1>1, <1>2, <1>3 DEF HeapTypes
<1>5. HeapOrder'
  BY <1>1, <1>2 DEF HeapOrder, HeapFrom, Expires
<1>6. HeapFates'
  BY <1>1, <1>2, <1>3 DEF HeapFates, TimerFate, Overtaken
<1>7. TopRuns'
  BY <1>1, <1>2, <1>3 DEF TopRuns
<1>8. HeapHandles'
  BY <1>1, <1>2, HeapHandlesStay
<1> QED
  BY <1>4, <1>5, <1>6, <1>7, <1>8 DEF HeapInv

LEMMA ReplaceFacts ==
    ASSUME NEW S, NEW s \in Seq(S), NEW i \in DOMAIN s, NEW x \in S
    PROVE  [s EXCEPT ![i] = x] \in Seq(S) /\ DOMAIN [s EXCEPT ![i] = x] = DOMAIN s
<1>1. s \in [1 .. Len(s) -> S] /\ Len(s) \in Nat
  OBVIOUS
<1>2. [s EXCEPT ![i] = x] \in [1 .. Len(s) -> S] /\ DOMAIN [s EXCEPT ![i] = x] = DOMAIN s
  BY <1>1
<1> QED
  BY <1>1, <1>2, ArraySeq

(* The timer on top goes.                                                  *)
HeapPops ==
    /\ array # <<>>
    /\ timer[array[1]].ranAt # -1 \/ ~ timer[array[1]].handler \/ timer[array[1]].early
    /\ timer' = [timer EXCEPT ![array[1]].gone = TRUE]
    /\ array' = pop_timer(array, Expires(timer))
    /\ run' = "tick"
    /\ UNCHANGED <<capacity, now, cur, isStart, handles, deletedTwice>>

LEMMA TopGoes == HeapInv /\ HeapPops => HeapInv'
<1> SUFFICES ASSUME HeapInv, HeapPops PROVE HeapInv'
  OBVIOUS
<1>1. HeapTypes /\ HeapOrder /\ HeapFates /\ TopRuns /\ HeapHandles
  BY DEF HeapInv
<1>2. /\ array # <<>>
      /\ timer[array[1]].ranAt # -1 \/ ~ timer[array[1]].handler \/ timer[array[1]].early
      /\ timer' = [timer EXCEPT ![array[1]].gone = TRUE]
      /\ array' = pop_timer(array, Expires(timer))
      /\ run' = "tick"
      /\ UNCHANGED <<capacity, now, cur, isStart, handles, deletedTwice>>
  BY DEF HeapPops
<1>3. HeapShape
  BY <1>1, HeapArray
<1>4. PICK top, T, e : top = array[1] /\ T = DOMAIN timer /\ e = Expires(timer)
  OBVIOUS
<1>5. top \in T /\ top \in Range(array) /\ \A x \in T : e[x] \in Int
  BY <1>2, <1>3, <1>4 DEF HeapShape, Range
<1>6. timer' \in Seq(HeapTimer) /\ DOMAIN timer' = T
  <2>1. PICK x : x = [timer[top] EXCEPT !.gone = TRUE]
    OBVIOUS
  <2>2. x \in HeapTimer
    <3>1. timer[top] \in HeapTimer
      BY <1>3, <1>4, <1>5 DEF HeapShape
    <3> QED
      BY ONLY <2>1, <3>1 DEF HeapTimer
  <2>3. timer' = [timer EXCEPT ![top] = x]
    BY <1>2, <1>4, <2>1
  <2>4. timer \in Seq(HeapTimer) /\ top \in DOMAIN timer
    BY <1>1, <1>4, <1>5 DEF HeapTypes
  <2> QED
    BY <1>4, <2>2, <2>3, <2>4, ReplaceFacts
<1>7. ASSUME NEW id \in T
      PROVE  /\ timer'[id].expire = timer[id].expire /\ timer'[id].ranAt = timer[id].ranAt
             /\ timer'[id].handler = timer[id].handler /\ timer'[id].early = timer[id].early
             /\ id # top => timer'[id].gone = timer[id].gone
             /\ id = top => timer'[id].gone = TRUE
  BY <1>2, <1>3, <1>4, <1>5 DEF HeapTimer, HeapShape
<1>8. Expires(timer') = e
  BY <1>4, <1>6, <1>7 DEF Expires
<1>15. Overtaken' = Overtaken
  BY <1>4, <1>6, <1>7 DEF Overtaken
<1>9. /\ array' \in Seq(T) /\ Len(array') = Len(array) - 1
      /\ IsInjective(array') /\ Range(array') = Range(array) \ {top}
      /\ HeapFrom(array', e, 1)
  <2>1. array \in Seq(T) /\ IsInjective(array) /\ HeapFrom(array, e, 1)
    BY <1>1, <1>4 DEF HeapTypes, HeapOrder
  <2> QED
    BY <1>2, <1>4, <1>5, <2>1, PopFacts
<1>10. HeapTypes'
  BY <1>1, <1>2, <1>4, <1>6, <1>9 DEF HeapTypes
<1>11. HeapOrder'
  <2>1. Len(array') <= capacity'
    BY <1>1, <1>2, <1>3, <1>9 DEF HeapOrder, HeapTypes, HeapShape
  <2> QED
    BY <1>8, <1>9, <2>1 DEF HeapOrder
<1>12. HeapFates'
  <2> SUFFICES ASSUME NEW id \in T PROVE TimerFate(id)'
    BY <1>6 DEF HeapFates
  <2>1. TimerFate(id) /\ (timer[top].ranAt # -1 \/ ~ timer[top].handler \/ timer[top].early)
    BY <1>1, <1>2, <1>4 DEF HeapFates
  <2>2. id \in Range(array') <=> id \in Range(array) /\ id # top
    BY <1>9
  <2>3. run' # "looptop" /\ run' = "tick"
    BY <1>2
  <2>4. CASE id = top
    BY <1>4, <1>7, <1>15, <2>1, <2>2, <2>3, <2>4, Zenon DEF TimerFate
  <2>5. CASE id # top
    BY <1>4, <1>7, <1>15, <2>1, <2>2, <2>3, <2>5, Zenon DEF TimerFate
  <2> QED
    BY <2>4, <2>5
<1>13. TopRuns'
  BY <1>1, <1>2 DEF TopRuns
<1>14. HeapHandles'
  <2>1. DOMAIN timer' = DOMAIN timer
    BY <1>4, <1>6
  <2>2. ASSUME NEW id \in DOMAIN timer, ~ timer'[id].gone, timer'[id].handler
        PROVE  ~ timer[id].gone /\ timer[id].handler
    BY <1>4, <1>7, <2>2, Zenon
  <2> QED
    BY <1>1, <1>2, <2>1, <2>2, HeapHandlesStay
<1> QED
  BY <1>10, <1>11, <1>12, <1>13, <1>14 DEF HeapInv

(* The handler of an expired timer begins.                                 *)
HeapRuns ==
    /\ run = "tick" /\ array # <<>> /\ timer[array[1]].expire <= cur
    /\ run' = "handler" /\ timer' = [timer EXCEPT ![array[1]].ranAt = now]
    /\ UNCHANGED <<array, capacity, now, cur, isStart, handles, deletedTwice>>

LEMMA TopBegins == HeapInv /\ HeapRuns => HeapInv'
<1> SUFFICES ASSUME HeapInv, HeapRuns PROVE HeapInv'
  OBVIOUS
<1>1. HeapTypes /\ HeapOrder /\ HeapFates /\ TopRuns /\ HeapHandles
  BY DEF HeapInv
<1>2. /\ run = "tick" /\ array # <<>> /\ timer[array[1]].expire <= cur
      /\ run' = "handler" /\ timer' = [timer EXCEPT ![array[1]].ranAt = now]
      /\ UNCHANGED <<array, capacity, now, cur, isStart, handles, deletedTwice>>
  BY DEF HeapRuns
<1>3. HeapShape
  BY <1>1, HeapArray
<1>4. PICK top, T, e : top = array[1] /\ T = DOMAIN timer /\ e = Expires(timer)
  OBVIOUS
<1>5. top \in T /\ top \in Range(array) /\ now \in Nat /\ cur \in Nat /\ cur <= now
  BY <1>1, <1>2, <1>3, <1>4 DEF HeapShape, Range, HeapTypes, TopRuns
<1>6. timer' \in Seq(HeapTimer) /\ DOMAIN timer' = T
  <2>1. PICK x : x = [timer[top] EXCEPT !.ranAt = now]
    OBVIOUS
  <2>2. x \in HeapTimer
    <3>1. timer[top] \in HeapTimer /\ now \in Int
      BY <1>3, <1>4, <1>5 DEF HeapShape
    <3> QED
      BY ONLY <2>1, <3>1 DEF HeapTimer
  <2>3. timer' = [timer EXCEPT ![top] = x]
    BY <1>2, <1>4, <2>1
  <2>4. timer \in Seq(HeapTimer) /\ top \in DOMAIN timer
    BY <1>1, <1>4, <1>5 DEF HeapTypes
  <2> QED
    BY <1>4, <2>2, <2>3, <2>4, ReplaceFacts
<1>7. ASSUME NEW id \in T
      PROVE  /\ timer'[id].expire = timer[id].expire /\ timer'[id].gone = timer[id].gone
             /\ timer'[id].handler = timer[id].handler /\ timer'[id].early = timer[id].early
             /\ id # top => timer'[id].ranAt = timer[id].ranAt
             /\ id = top => timer'[id].ranAt = now
  BY <1>2, <1>3, <1>4, <1>5 DEF HeapTimer, HeapShape
<1>8. Expires(timer') = e
  BY <1>4, <1>6, <1>7 DEF Expires
<1>15. Overtaken' = Overtaken
  BY <1>4, <1>6, <1>7 DEF Overtaken
<1>10. HeapTypes'
  BY <1>1, <1>2, <1>4, <1>6 DEF HeapTypes
<1>11. HeapOrder'
  BY <1>1, <1>2, <1>4, <1>8 DEF HeapOrder
<1>12. HeapFates'
  <2> SUFFICES ASSUME NEW id \in T PROVE TimerFate(id)'
    BY <1>6 DEF HeapFates
  <2>1. TimerFate(id)
    BY <1>1, <1>4 DEF HeapFates
  <2>2. run' # "looptop" /\ run' = "handler" /\ run # "handler" /\ array' = array
    BY <1>2
  <2>4. CASE id = top
    <3>1. now >= timer[id].expire /\ now # -1
      BY <1>2, <1>3, <1>4, <1>5, <2>4 DEF HeapShape
    <3>2. id \in Range(array)
      BY <1>5, <2>4
    <3> QED
      BY <1>4, <1>7, <1>15, <2>1, <2>2, <2>4, <3>1, <3>2, Zenon DEF TimerFate
  <2>5. CASE id # top
    BY <1>4, <1>7, <1>15, <2>1, <2>2, <2>5, Zenon DEF TimerFate
  <2> QED
    BY <2>4, <2>5
<1>13. TopRuns'
  <2>1. timer'[top].expire = timer[top].expire /\ timer'[top].ranAt = now /\ array'[1] = top
    BY <1>2, <1>4, <1>5, <1>7
  <2>2. now # -1 /\ array' # <<>> /\ timer[top].expire <= cur'
    BY <1>2, <1>4, <1>5
  <2> QED
    BY <1>1, <1>2, <2>1, <2>2 DEF TopRuns
<1>14. HeapHandles'
  <2>1. DOMAIN timer' = DOMAIN timer
    BY <1>4, <1>6
  <2>2. ASSUME NEW id \in DOMAIN timer, ~ timer'[id].gone, timer'[id].handler
        PROVE  ~ timer[id].gone /\ timer[id].handler
    BY <1>4, <1>7, <2>2, Zenon
  <2> QED
    BY <1>1, <1>2, <2>1, <2>2, HeapHandlesStay
<1> QED
  BY <1>10, <1>11, <1>12, <1>13, <1>14 DEF HeapInv

LEMMA HeapTicks == HeapInv /\ (TickTop \/ HandlerReturns) => HeapInv'
<1> SUFFICES ASSUME HeapInv, TickTop \/ HandlerReturns PROVE HeapInv'
  OBVIOUS
<1>1. CASE TickTop /\ timer[array[1]].handler
  <2>1. HeapRuns
    BY <1>1 DEF TickTop, Due, Expire, HeapRuns
  <2> QED
    BY <2>1, TopBegins
<1>2. CASE TickTop /\ ~ timer[array[1]].handler
  <2>1. HeapPops
    BY <1>2 DEF TickTop, Due, HeapPops
  <2> QED
    BY <2>1, TopGoes
<1>3. CASE HandlerReturns
  <2>1. array # <<>> /\ (timer[array[1]].ranAt # -1 \/ timer[array[1]].early)
    BY <1>3 DEF HeapInv, TopRuns, HandlerReturns
  <2>2. HeapPops
    BY <1>3, <2>1 DEF HandlerReturns, HeapPops
  <2> QED
    BY <2>2, TopGoes
<1> QED
  BY <1>1, <1>2, <1>3

(* When the top has not expired no timer has.                              *)
LEMMA HeapTickEnds == HeapInv /\ TickEnds => HeapInv'
<1> SUFFICES ASSUME HeapInv, TickEnds PROVE HeapInv'
  OBVIOUS
<1>1. HeapTypes /\ HeapOrder /\ HeapFates /\ TopRuns /\ HeapHandles
  BY DEF HeapInv
<1>2. /\ run = "tick" /\ ~ Due /\ run' = "looptop"
      /\ UNCHANGED <<array, capacity, timer, now, cur, isStart, handles, deletedTwice>>
  BY DEF TickEnds
<1>3. HeapShape
  BY <1>1, HeapArray
<1>4. HeapTypes' /\ HeapOrder' /\ TopRuns'
  BY <1>1, <1>2 DEF HeapTypes, HeapOrder, HeapFrom, Expires, TopRuns
<1>5. HeapHandles'
  BY <1>1, <1>2, HeapHandlesStay
<1>6. ASSUME NEW id \in DOMAIN timer, ~ timer[id].gone PROVE timer[id].expire > cur
  <2>1. PICK e : e = Expires(timer)
    OBVIOUS
  <2>2. id \in Range(array)
    BY <1>1, <1>6 DEF HeapFates, TimerFate
  <2>3. PICK i \in 1 .. Len(array) : id = array[i]
    BY <1>3, <2>2 DEF HeapShape, Range
  <2>4. e[array[1]] <= e[array[i]]
    <3>1. /\ array \in Seq(DOMAIN timer) /\ HeapFrom(array, e, 1)
          /\ \A x \in DOMAIN timer : e[x] \in Int
      BY <1>1, <1>3, <2>1 DEF HeapTypes, HeapOrder, HeapShape
    <3> QED
      BY <2>3, <3>1, HeapTop
  <2>5. array # <<>>
    BY <1>3, <2>3 DEF HeapShape
  <2>6. timer[array[1]].expire <= timer[id].expire
    BY <1>3, <2>1, <2>3, <2>4, <2>5 DEF HeapShape
  <2>7. ~(timer[array[1]].expire <= cur)
    BY <1>2, <2>5 DEF Due, Expire
  <2>8. timer[array[1]].expire \in Int /\ timer[id].expire \in Int /\ cur \in Nat
    BY <1>1, <1>3, <2>5 DEF HeapShape, HeapTypes
  <2> QED
    BY <2>6, <2>7, <2>8
<1>7. HeapFates'
  <2> SUFFICES ASSUME NEW id \in DOMAIN timer PROVE TimerFate(id)'
    BY <1>2 DEF HeapFates
  <2>1. TimerFate(id) /\ run # "handler" /\ (~ timer[id].gone => timer[id].expire > cur)
    BY <1>1, <1>2, <1>6 DEF HeapFates
  <2>2. Overtaken' = Overtaken
    BY <1>2 DEF Overtaken
  <2> QED
    BY <1>2, <2>1, <2>2, Zenon DEF TimerFate
<1> QED
  BY <1>4, <1>5, <1>7 DEF HeapInv

LEMMA DropTypes ==
    ASSUME NEW h, NEW T, HandleTypes(h, T), NEW n \in DOMAIN h.timers
    PROVE  HandleTypes(DropHandle(h, n), T) /\ DropHandle(h, n).timers = h.timers
<1>1. PICK ts, st, us : ts = h.timers /\ st = h.stack /\ us = Append(st, n)
  OBVIOUS
<1>2. /\ h = [timers |-> ts, stack |-> st] /\ ts \in Seq(Nat) /\ st \in Seq(Nat)
      /\ Range(ts) \subseteq T /\ Range(st) \subseteq DOMAIN ts /\ n \in DOMAIN ts /\ n \in Nat
  BY <1>1 DEF HandleTypes
<1>3. PICK g : g = DropHandle(h, n)
  OBVIOUS
<1>4. g = [h EXCEPT !.stack = us]
  BY <1>1, <1>3 DEF DropHandle
<1>5. us \in Seq(Nat) /\ Range(us) = Range(st) \cup {n}
  <2>1. st \in Seq(Nat) /\ n \in Nat /\ us = Append(st, n)
    BY <1>1, <1>2
  <2> QED
    BY ONLY <2>1, AppendFacts
<1>6. g.timers = ts /\ g.stack = us /\ g \in [timers : Seq(Nat), stack : Seq(Nat)]
  BY <1>2, <1>4, <1>5
<1>7. Range(us) \subseteq DOMAIN ts
  BY <1>2, <1>5
<1> QED
  BY <1>1, <1>2, <1>3, <1>6, <1>7 DEF HandleTypes

LEMMA TakeTypes ==
    ASSUME NEW h, NEW T, HandleTypes(h, T), NEW id \in Nat
    PROVE  HandleTypes(TakeHandle(h, id), T \cup {id})
<1>1. PICK ts, st, g, m : ts = h.timers /\ st = h.stack /\ g = TakeHandle(h, id) /\ m = Len(st)
  OBVIOUS
<1>2. /\ h = [timers |-> ts, stack |-> st] /\ ts \in Seq(Nat) /\ st \in Seq(Nat)
      /\ Range(ts) \subseteq T /\ Range(st) \subseteq DOMAIN ts
      /\ m \in Nat /\ DOMAIN st = 1 .. m
  BY <1>1 DEF HandleTypes
<1>3. CASE st = <<>>
  <2>1. PICK us : us = Append(ts, id)
    OBVIOUS
  <2>2. g = [timers |-> us, stack |-> st]
    BY <1>1, <1>2, <1>3, <2>1 DEF TakeHandle
  <2>3. us \in Seq(Nat) /\ Range(us) = Range(ts) \cup {id}
    BY <1>2, <2>1, AppendFacts
  <2>4. Range(st) = {}
    BY <1>3, EmptyFacts
  <2>5. g.timers = us /\ g.stack = st /\ g \in [timers : Seq(Nat), stack : Seq(Nat)]
    BY <1>2, <2>2, <2>3
  <2>6. Range(us) \subseteq T \cup {id} /\ Range(st) \subseteq DOMAIN us
    BY <1>2, <2>3, <2>4
  <2> QED
    BY <1>1, <2>5, <2>6 DEF HandleTypes
<1>4. CASE st # <<>>
  <2>1. PICK k : k = st[m]
    OBVIOUS
  <2>2. m # 0
    BY <1>1, <1>2, <1>4, EmptyFacts
  <2>3. m \in DOMAIN st
    BY <1>2, <2>2
  <2>4. k \in DOMAIN ts
    BY <1>2, <2>1, <2>3 DEF Range
  <2>5. PICK us, tt : us = [ts EXCEPT ![k] = id] /\ tt = SubSeq(st, 1, m - 1)
    OBVIOUS
  <2>6. NextHandle(h) = k
    BY <1>1, <1>4, <2>1 DEF NextHandle
  <2>7. g = [timers |-> us, stack |-> tt]
    BY <1>1, <1>4, <2>5, <2>6 DEF TakeHandle
  <2>8. us \in Seq(Nat) /\ DOMAIN us = DOMAIN ts
    BY <1>2, <2>4, <2>5, ReplaceFacts
  <2>9. \A i \in DOMAIN us : us[i] = id \/ us[i] = ts[i]
    BY <2>5, <2>8
  <2>10. Range(us) \subseteq T \cup {id}
    <3>1. \A i \in DOMAIN us : us[i] \in T \cup {id}
      BY <1>2, <2>8, <2>9 DEF Range
    <3> QED
      BY <3>1 DEF Range
  <2>11. tt \in Seq(Nat) /\ Range(tt) \subseteq Range(st)
    <3>1. 1 \in Int /\ m - 1 \in Int /\ \A i \in 1 .. m - 1 : st[i] \in Nat /\ i \in DOMAIN st
      BY <1>1, <1>2
    <3>2. /\ tt \in Seq(Nat) /\ Len(tt) = IF 1 <= m - 1 THEN (m - 1) - 1 + 1 ELSE 0
          /\ \A i \in 1 .. (m - 1) - 1 + 1 : tt[i] = st[1 + i - 1]
      BY <2>5, <3>1, SubSeqProperties
    <3>3. \A i \in DOMAIN tt : i \in 1 .. m - 1 /\ tt[i] = st[i]
      <4>1. Len(tt) = m - 1 /\ DOMAIN tt = 1 .. Len(tt)
        BY <1>2, <2>2, <3>2
      <4>2. \A i \in 1 .. m - 1 : i \in 1 .. (m - 1) - 1 + 1 /\ 1 + i - 1 = i
        BY <1>2
      <4> QED
        BY <3>2, <4>1, <4>2
    <3> QED
      BY <3>1, <3>2, <3>3 DEF Range
  <2>12. g.timers = us /\ g.stack = tt /\ g \in [timers : Seq(Nat), stack : Seq(Nat)]
    BY <2>7, <2>8, <2>11
  <2>13. Range(tt) \subseteq DOMAIN us
    BY <1>2, <2>8, <2>11
  <2> QED
    BY <1>1, <2>10, <2>12, <2>13 DEF HandleTypes
<1> QED
  BY <1>3, <1>4

LEMMA HeapDeletes ==
    ASSUME HeapInv, NEW n \in 1 .. HeapTimers, deleteTimer(n)
    PROVE  HeapInv'
<1>1. HeapTypes /\ HeapOrder /\ HeapFates /\ TopRuns /\ HeapHandles
  BY DEF HeapInv
<1>2. PICK id, T, e : id = handles.timers[n] /\ T = DOMAIN timer /\ e = Expires(timer)
  OBVIOUS
<1>3. /\ n \in DOMAIN handles.timers /\ ~ timer[id].gone
      /\ timer' = [timer EXCEPT ![id].handler = FALSE]
      /\ handles' = DropHandle(handles, n)
      /\ deletedTwice' = (deletedTwice \/ n \in Recycled(handles))
      /\ UNCHANGED <<array, capacity, now, run, cur, isStart>>
  BY <1>2 DEF deleteTimer
<1>4. HeapShape /\ HandleTypes(handles, T)
  BY <1>1, <1>2, HeapArray DEF HeapHandles
<1>5. id \in T
  BY <1>2, <1>3, <1>4 DEF HandleTypes, Range
<1>6. timer' \in Seq(HeapTimer) /\ DOMAIN timer' = T
  <2>1. PICK x : x = [timer[id] EXCEPT !.handler = FALSE]
    OBVIOUS
  <2>2. x \in HeapTimer
    <3>1. timer[id] \in HeapTimer
      BY <1>2, <1>4, <1>5 DEF HeapShape
    <3> QED
      BY ONLY <2>1, <3>1 DEF HeapTimer
  <2>3. timer' = [timer EXCEPT ![id] = x]
    BY <1>3, <2>1
  <2>4. timer \in Seq(HeapTimer) /\ id \in DOMAIN timer
    BY <1>1, <1>2, <1>5 DEF HeapTypes
  <2> QED
    BY <1>2, <2>2, <2>3, <2>4, ReplaceFacts
<1>7. ASSUME NEW i \in T
      PROVE  /\ timer'[i].expire = timer[i].expire /\ timer'[i].gone = timer[i].gone
             /\ timer'[i].ranAt = timer[i].ranAt /\ timer'[i].early = timer[i].early
             /\ i # id => timer'[i].handler = timer[i].handler
             /\ i = id => timer'[i].handler = FALSE
  BY <1>2, <1>3, <1>4, <1>5 DEF HeapTimer, HeapShape
<1>8. Expires(timer') = e
  BY <1>2, <1>6, <1>7 DEF Expires
<1>9. HeapTypes'
  <2>1. deletedTwice' \in BOOLEAN
    BY <1>3
  <2>2. timer' \in Seq(HeapTimer) /\ array' \in Seq(DOMAIN timer')
    BY <1>1, <1>2, <1>3, <1>6 DEF HeapTypes
  <2> QED
    BY <1>1, <1>3, <2>1, <2>2 DEF HeapTypes
<1>10. HeapOrder'
  BY <1>1, <1>2, <1>3, <1>8 DEF HeapOrder
<1>11. HeapFates'
  <2> SUFFICES ASSUME NEW i \in T PROVE TimerFate(i)'
    BY <1>6 DEF HeapFates
  <2>1. TimerFate(i)
    BY <1>1, <1>2 DEF HeapFates
  <2>2. timer'[i].handler => timer[i].handler
    BY <1>7, Zenon
  <2>3. run' = run /\ array' = array /\ cur' = cur
    BY <1>3
  <2>4. Overtaken' = Overtaken
    BY <1>2, <1>6, <1>7 DEF Overtaken
  <2> QED
    BY <1>7, <2>1, <2>2, <2>3, <2>4, Zenon DEF TimerFate
<1>12. TopRuns'
  <2>1. run = "handler" => array[1] \in T
    BY <1>1, <1>2, <1>4 DEF TopRuns, HeapShape
  <2> QED
    BY <1>1, <1>3, <1>7, <2>1 DEF TopRuns
<1>13. HandleTypes(handles', DOMAIN timer') /\ handles'.timers = handles.timers
  BY <1>3, <1>4, <1>6, DropTypes
<1>14. ASSUME ~ deletedTwice'
       PROVE  /\ IsInjective(handles'.stack)
              /\ \A k, m \in InUse(handles') : handles'.timers[k] = handles'.timers[m] => k = m
              /\ \A i \in DOMAIN timer' : ~ timer'[i].gone /\ timer'[i].handler =>
                     \E k \in InUse(handles') : handles'.timers[k] = i
  <2>1. ~ deletedTwice /\ n \notin Range(handles.stack)
    BY <1>3, <1>14 DEF Recycled, Range
  <2>2. HandlesSound(handles) /\ n \in InUse(handles)
    BY <1>1, <1>3, <2>1 DEF HeapHandles, HandleTypes, HandlesSound, InUse
  <2>3. HandlesSound(handles') /\ InUse(handles') = InUse(handles) \ {n}
    BY <1>3, <2>2, DropFacts
  <2>4. IsInjective(handles'.stack)
    BY <2>3 DEF HandlesSound
  <2>5. /\ \A k, m \in InUse(handles) : handles.timers[k] = handles.timers[m] => k = m
        /\ \A i \in DOMAIN timer : ~ timer[i].gone /\ timer[i].handler =>
               \E k \in InUse(handles) : handles.timers[k] = i
    BY <1>1, <2>1 DEF HeapHandles
  <2>6. \A k, m \in InUse(handles') : handles'.timers[k] = handles'.timers[m] => k = m
    BY <1>13, <2>3, <2>5
  <2>7. ASSUME NEW i \in T, ~ timer'[i].gone, timer'[i].handler
        PROVE  \E k \in InUse(handles') : handles'.timers[k] = i
    <3>1. i # id /\ ~ timer[i].gone /\ timer[i].handler
      BY <1>7, <2>7, Zenon
    <3>2. PICK k \in InUse(handles) : handles.timers[k] = i
      BY <1>2, <2>5, <3>1
    <3>3. k # n
      BY <1>2, <3>1, <3>2
    <3> QED
      BY <1>13, <2>3, <3>2, <3>3
  <2> QED
    BY <1>6, <2>4, <2>6, <2>7
<1>15. HeapHandles'
  BY <1>13, <1>14 DEF HeapHandles
<1> QED
  BY <1>9, <1>10, <1>11, <1>12, <1>15 DEF HeapInv

(* A timer that is added while a handler runs and comes before the timer   *)
(* of that handler is on top then.                                         *)
LEMMA HeapAdds ==
    ASSUME HeapInv, NEW delay \in Delays, addTimer(delay)
    PROVE  HeapInv'
<1>1. HeapTypes /\ HeapOrder /\ HeapFates /\ TopRuns /\ HeapHandles
  BY DEF HeapInv
<1>2. PICK id, T, x : /\ id = Len(timer) + 1 /\ T = DOMAIN timer
                      /\ x = [expire |-> now + delay, handler |-> TRUE, ranAt |-> -1, gone |-> FALSE,
                               early |-> Overtakes(now + delay)]
  OBVIOUS
<1>3. /\ timer' = Append(timer, x)
      /\ capacity' = resize(capacity, Len(array))
      /\ array' = add_timer(array, id, Expires(timer'))
      /\ handles' = TakeHandle(handles, id)
      /\ UNCHANGED <<now, run, cur, isStart, deletedTwice>>
      /\ run # "looptop"
  BY <1>2 DEF addTimer, cur_size, Calling
<1>4. HeapShape /\ now \in Nat /\ cur \in Nat /\ delay \in Int /\ capacity \in Nat \ {0}
  BY <1>1, HeapArray, TimeHeapAssumption DEF HeapTypes
<1>5. /\ x \in HeapTimer /\ x.expire = now + delay /\ x.handler = TRUE /\ x.ranAt = -1
      /\ x.gone = FALSE /\ x.early = Overtakes(now + delay)
  <2>1. Overtakes(now + delay) \in BOOLEAN
    BY DEF Overtakes
  <2> QED
    BY <1>2, <1>4, <2>1 DEF HeapTimer
<1>6. /\ timer' \in Seq(HeapTimer) /\ DOMAIN timer' = T \cup {id} /\ id \notin T /\ id \in Nat
      /\ timer'[id] = x /\ \A i \in T : timer'[i] = timer[i]
  BY <1>1, <1>2, <1>3, <1>4, <1>5 DEF HeapTypes, HeapShape
<1>7. PICK e : e = Expires(timer')
  OBVIOUS
<1>8. /\ e[id] = now + delay /\ e[id] \in Int
      /\ \A i \in T : e[i] = timer[i].expire /\ e[i] \in Int
      /\ \A i \in T \cup {id} : e[i] = timer'[i].expire
  <2>1. \A i \in T \cup {id} : e[i] = timer'[i].expire
    BY <1>6, <1>7 DEF Expires
  <2>2. e[id] = now + delay
    BY <1>5, <1>6, <2>1
  <2>3. \A i \in T : e[i] = timer[i].expire
    BY <1>6, <2>1
  <2>4. \A i \in T : timer[i].expire \in Int
    BY <1>2, <1>4 DEF HeapShape
  <2> QED
    BY <1>4, <2>1, <2>2, <2>3, <2>4
<1>9. PICK a : a = array
  OBVIOUS
<1>10. /\ a \in Seq(T \cup {id}) /\ id \notin Range(a) /\ IsInjective(a) /\ HeapFrom(a, e, 1)
       /\ Range(a) \subseteq T
  <2>1. /\ a \in Seq(T) /\ Range(a) \subseteq T /\ IsInjective(a) /\ HeapFrom(a, Expires(timer), 1)
        /\ Len(a) \in Nat /\ \A i \in 1 .. Len(a) : a[i] \in T
    BY <1>1, <1>2, <1>4, <1>9 DEF HeapTypes, HeapShape, HeapOrder
  <2>2. ASSUME NEW i \in 2 .. Len(a), i \div 2 >= 1 PROVE e[a[i \div 2]] <= e[a[i]]
    <3>1. i \in 1 .. Len(a) /\ i \div 2 \in 1 .. Len(a)
      BY <2>1, <2>2
    <3>2. a[i] \in T /\ a[i \div 2] \in T
      BY <2>1, <3>1
    <3>3. Expires(timer)[a[i \div 2]] <= Expires(timer)[a[i]]
      BY <2>1, <2>2 DEF HeapFrom
    <3>4. \A y \in T : Expires(timer)[y] = e[y]
      BY <1>2, <1>4, <1>8 DEF HeapShape
    <3> QED
      BY <3>2, <3>3, <3>4
  <2>3. HeapFrom(a, e, 1)
    BY <2>2 DEF HeapFrom
  <2>4. a \in Seq(T \cup {id})
    BY <2>1
  <2>5. id \notin Range(a)
    BY <1>6, <2>1
  <2> QED
    BY <2>1, <2>3, <2>4, <2>5
<1>11. PICK r : r = add_timer(a, id, e)
  OBVIOUS
<1>12. array' = r
  BY <1>3, <1>7, <1>9, <1>11
<1>13. /\ r \in Seq(T \cup {id}) /\ Len(r) = Len(a) + 1
       /\ IsInjective(r) /\ Range(r) = Range(a) \cup {id}
       /\ HeapFrom(r, e, 1)
       /\ a # <<>> /\ e[a[1]] <= e[id] => r[1] = a[1]
  <2>1. \A y \in T \cup {id} : e[y] \in Int
    BY <1>8
  <2>2. id \in T \cup {id}
    OBVIOUS
  <2> QED
    BY <1>10, <1>11, <2>1, <2>2, AddFacts
<1>14. Len(r) <= capacity' /\ capacity' \in Nat \ {0}
  <2>1. PICK size, cap : size = Len(a) /\ cap = capacity
    OBVIOUS
  <2>2. size \in Nat /\ cap \in Nat \ {0} /\ size <= cap
    BY <1>1, <1>4, <1>9, <2>1 DEF HeapOrder, HeapShape
  <2>3. capacity' = IF size >= cap THEN 2 * cap ELSE cap
    BY <1>3, <1>9, <2>1 DEF resize
  <2>4. size + 1 <= capacity' /\ capacity' \in Nat \ {0}
    BY <2>2, <2>3
  <2> QED
    BY <1>13, <2>1, <2>4
<1>15. HeapTypes'
  BY <1>1, <1>3, <1>6, <1>12, <1>13, <1>14 DEF HeapTypes
<1>16. HeapOrder'
  BY <1>7, <1>12, <1>13, <1>14 DEF HeapOrder
<1>17. ASSUME run = "handler"
       PROVE  /\ array # <<>> /\ array[1] \in T
              /\ ~ x.early => array'[1] = array[1]
              /\ x.early => array'[1] = id /\ e[id] <= cur
  <2>1. array # <<>> /\ timer[array[1]].expire <= cur /\ cur <= now
    BY <1>1, <1>17 DEF TopRuns
  <2>2. array[1] \in T /\ 1 \in 1 .. Len(a)
    BY <1>2, <1>4, <1>9, <2>1 DEF HeapShape
  <2>3. e[a[1]] \in Int /\ e[a[1]] <= cur /\ e[a[1]] = timer[array[1]].expire
    BY <1>8, <1>9, <2>1, <2>2
  <2>4. x.early <=> e[id] < e[a[1]]
    BY <1>5, <1>8, <1>17, <2>1, <2>3 DEF Overtakes, Expire
  <2>5. CASE ~ x.early
    BY <1>8, <1>9, <1>12, <1>13, <2>1, <2>2, <2>3, <2>4, <2>5
  <2>6. CASE x.early
    <3>1. \A y \in T \cup {id} : e[y] \in Int
      BY <1>8
    <3>2. \A i \in 1 .. Len(r) : e[r[1]] <= e[r[i]]
      BY <1>13, <3>1, HeapTop
    <3>3. \A i \in 1 .. Len(a) : e[a[1]] <= e[a[i]]
      BY <1>10, <3>1, HeapTop
    <3>4. Len(a) \in Nat /\ DOMAIN a = 1 .. Len(a) /\ DOMAIN r = 1 .. Len(r) /\ 1 \in 1 .. Len(r)
      BY <1>10, <1>13
    <3>5. PICK i \in 1 .. Len(r) : r[i] = id
      BY <1>13, <3>4 DEF Range
    <3>6. e[r[1]] <= e[id] /\ r[1] \in Range(a) \cup {id}
      BY <1>13, <3>2, <3>4, <3>5 DEF Range
    <3>7. r[1] \notin Range(a)
      <4> SUFFICES ASSUME NEW j \in 1 .. Len(a), r[1] = a[j] PROVE FALSE
        BY <3>4 DEF Range
      <4>1. e[a[1]] <= e[r[1]] /\ e[r[1]] \in Int /\ e[id] \in Int
        BY <1>10, <3>1, <3>3
      <4> QED
        BY <2>3, <2>4, <2>6, <3>6, <4>1
    <3>8. e[id] <= cur
      BY <1>4, <1>8, <2>3, <2>4, <2>6
    <3> QED
      BY <1>12, <2>1, <2>2, <2>6, <3>6, <3>7, <3>8
  <2> QED
    BY <2>5, <2>6
<1>23. (Overtaken => Overtaken') /\ (x.early => Overtaken')
  BY <1>2, <1>6 DEF Overtaken
<1>18. HeapFates'
  <2> SUFFICES ASSUME NEW i \in T \cup {id} PROVE TimerFate(i)'
    BY <1>6 DEF HeapFates
  <2>1. CASE i = id
    <3>1. timer'[i].ranAt = -1 /\ timer'[i].gone = FALSE /\ i \in Range(array') /\ run' # "looptop"
      BY <1>3, <1>5, <1>6, <1>12, <1>13, <2>1
    <3> QED
      BY <3>1, Zenon DEF TimerFate
  <2>2. CASE i # id
    <3>1. TimerFate(i) /\ timer'[i] = timer[i] /\ i \in T
      BY <1>1, <1>2, <1>6, <2>2 DEF HeapFates
    <3>2. i \in Range(array') <=> i \in Range(array)
      BY <1>9, <1>12, <1>13, <2>2
    <3>3. run' = run /\ run # "looptop"
      BY <1>3
    <3>4. run = "handler" => array'[1] = array[1] \/ Overtaken'
      BY <1>17, <1>23
    <3> QED
      BY <1>23, <3>1, <3>2, <3>3, <3>4, Zenon DEF TimerFate
  <2> QED
    BY <2>1, <2>2
<1>19. TopRuns'
  <2>1. run' = run /\ cur' = cur /\ now' = now
    BY <1>3
  <2>2. r # <<>>
    BY <1>4, <1>9, <1>13 DEF HeapShape
  <2>3. ASSUME run = "handler"
        PROVE  /\ timer'[array'[1]].expire <= cur
               /\ timer'[array'[1]].ranAt # -1 \/ timer'[array'[1]].early
    <3>1. CASE ~ x.early
      BY <1>1, <1>6, <1>17, <2>3, <3>1 DEF TopRuns
    <3>2. CASE x.early
      BY <1>5, <1>6, <1>8, <1>17, <2>3, <3>2
    <3> QED
      BY <3>1, <3>2
  <2> QED
    BY <1>1, <1>12, <2>1, <2>2, <2>3 DEF TopRuns
<1>20. HandleTypes(handles', DOMAIN timer')
  BY <1>1, <1>2, <1>3, <1>6, TakeTypes DEF HeapHandles
<1>21. ASSUME ~ deletedTwice
       PROVE  /\ IsInjective(handles'.stack)
              /\ \A k, m \in InUse(handles') : handles'.timers[k] = handles'.timers[m] => k = m
              /\ \A i \in DOMAIN timer' : ~ timer'[i].gone /\ timer'[i].handler =>
                     \E k \in InUse(handles') : handles'.timers[k] = i
  <2>1. HandlesSound(handles)
    BY <1>1, <1>21 DEF HeapHandles, HandleTypes, HandlesSound
  <2>2. /\ \A k, m \in InUse(handles) : handles.timers[k] = handles.timers[m] => k = m
        /\ \A i \in DOMAIN timer : ~ timer[i].gone /\ timer[i].handler =>
               \E k \in InUse(handles) : handles.timers[k] = i
    BY <1>1, <1>21 DEF HeapHandles
  <2>3. \A k \in InUse(handles) : handles.timers[k] \in T
    BY <1>1, <1>2 DEF HeapHandles, HandleTypes, InUse, Range
  <2>4. PICK p : /\ p \notin InUse(handles) /\ InUse(handles') = InUse(handles) \cup {p}
                 /\ HandlesSound(handles') /\ handles'.timers[p] = id
                 /\ \A k \in InUse(handles) : handles'.timers[k] = handles.timers[k]
    <3>1. id \in Nat /\ handles' = TakeHandle(handles, id)
      BY <1>3, <1>6
    <3>2. \E p : /\ p \notin InUse(handles) /\ InUse(TakeHandle(handles, id)) = InUse(handles) \cup {p}
                 /\ HandlesSound(TakeHandle(handles, id)) /\ TakeHandle(handles, id).timers[p] = id
                 /\ \A n \in InUse(handles) : TakeHandle(handles, id).timers[n] = handles.timers[n]
      BY ONLY <2>1, <3>1, TakeFacts, Zenon
    <3> QED
      BY <3>1, <3>2, Zenon
  <2>5. IsInjective(handles'.stack)
    BY <2>4 DEF HandlesSound
  <2>6. \A k, m \in InUse(handles') : handles'.timers[k] = handles'.timers[m] => k = m
    BY <1>6, <2>2, <2>3, <2>4
  <2>7. ASSUME NEW i \in T \cup {id}, ~ timer'[i].gone, timer'[i].handler
        PROVE  \E k \in InUse(handles') : handles'.timers[k] = i
    <3>1. CASE i = id
      BY <2>4, <3>1
    <3>2. CASE i # id
      <4>1. i \in T /\ ~ timer[i].gone /\ timer[i].handler
        BY <1>6, <2>7, <3>2
      <4>2. PICK k \in InUse(handles) : handles.timers[k] = i
        BY <1>2, <2>2, <4>1
      <4> QED
        BY <2>4, <4>2
    <3> QED
      BY <3>1, <3>2
  <2> QED
    BY <1>6, <2>5, <2>6, <2>7
<1>22. HeapHandles'
  BY <1>3, <1>20, <1>21 DEF HeapHandles
<1> QED
  BY <1>15, <1>16, <1>18, <1>19, <1>22 DEF HeapInv

LEMMA HeapMade ==
    ASSUME HeapInv, NEW delays \in [1 .. HeapTimers -> Delays], time_heap(delays)
    PROVE  HeapInv'
<1>1. HeapTypes /\ HeapOrder /\ HeapFates /\ TopRuns /\ HeapHandles
  BY DEF HeapInv
<1>2. PICK N, T, a, e : N = HeapTimers /\ T = 1 .. N /\ a = [i \in 1 .. N |-> i] /\ e = Expires(timer')
  OBVIOUS
<1>3. /\ run = "waiting" /\ timer = <<>>
      /\ timer' = [i \in T |-> [expire |-> now + delays[i], handler |-> TRUE, ranAt |-> -1,
                                gone |-> FALSE, early |-> FALSE]]
      /\ array' = Heapify(a, e)
      /\ capacity' = IF Len(delays) > capacity THEN Len(delays) ELSE capacity
      /\ handles' = [handles EXCEPT !.timers = a]
      /\ UNCHANGED <<now, run, cur, isStart, deletedTwice>>
  BY <1>2 DEF time_heap
<1>4. N \in Nat /\ now \in Nat /\ \A i \in T : delays[i] \in Int /\ i \in Nat
  <2>1. N \in Nat /\ Delays \subseteq Int /\ now \in Nat
    BY <1>1, <1>2, TimeHeapAssumption DEF HeapTypes
  <2>2. \A i \in T : delays[i] \in Delays /\ i \in Nat
    BY <1>2, <2>1
  <2> QED
    BY <2>1, <2>2
<1>5. ASSUME NEW i \in T
      PROVE  /\ timer'[i] \in HeapTimer /\ timer'[i].ranAt = -1
             /\ timer'[i].gone = FALSE /\ timer'[i].expire \in Int
  <2>1. timer'[i] = [expire |-> now + delays[i], handler |-> TRUE, ranAt |-> -1, gone |-> FALSE,
                     early |-> FALSE]
    BY <1>3
  <2>2. now + delays[i] \in Int
    BY <1>4
  <2> QED
    BY <2>1, <2>2 DEF HeapTimer
<1>6. timer' \in Seq(HeapTimer) /\ DOMAIN timer' = T
  <2>1. timer' \in [1 .. N -> HeapTimer]
    BY <1>2, <1>3, <1>5
  <2> QED
    BY <1>2, <1>4, <2>1, ArraySeq
<1>7. \A i \in T : e[i] \in Int
  BY <1>2, <1>5, <1>6 DEF Expires
<1>8. /\ a \in Seq(T) /\ Len(a) = N /\ DOMAIN a = T /\ a \in Seq(Nat)
      /\ IsInjective(a) /\ Range(a) = T /\ \A i \in T : a[i] = i
  <2>1. a \in [1 .. N -> T] /\ a \in [1 .. N -> Nat] /\ \A i \in T : a[i] = i
    BY <1>2, <1>4
  <2>2. a \in Seq(T) /\ Len(a) = N /\ DOMAIN a = 1 .. N
    BY <1>4, <2>1, ArraySeq
  <2>3. a \in Seq(Nat)
    BY <1>4, <2>1, ArraySeq
  <2>4. IsInjective(a) /\ Range(a) = T
    BY <1>2, <2>1, <2>2 DEF IsInjective, Range
  <2> QED
    BY <1>2, <2>1, <2>2, <2>3, <2>4
<1>9. Rearranged(array', a, T) /\ HeapFrom(array', e, 1)
  BY <1>3, <1>7, <1>8, HeapifyFacts
<1>10. array' \in Seq(T) /\ Len(array') = N /\ IsInjective(array') /\ Range(array') = T
  BY <1>8, <1>9 DEF Rearranged
<1>11. N <= capacity' /\ capacity' \in Nat \ {0}
  <2>1. delays \in Seq(Delays) /\ Len(delays) = N
    BY <1>2, <1>4, ArraySeq
  <2>2. capacity \in Nat \ {0}
    BY <1>1 DEF HeapTypes
  <2> QED
    BY <1>3, <1>4, <2>1, <2>2
<1>12. HeapTypes'
  BY <1>1, <1>3, <1>6, <1>10, <1>11 DEF HeapTypes
<1>13. HeapOrder'
  BY <1>2, <1>9, <1>10, <1>11 DEF HeapOrder
<1>14. HeapFates'
  <2> SUFFICES ASSUME NEW i \in T PROVE TimerFate(i)'
    BY <1>6 DEF HeapFates
  <2>1. timer'[i].ranAt = -1 /\ timer'[i].gone = FALSE /\ i \in Range(array') /\ run' # "looptop"
    BY <1>3, <1>5, <1>10
  <2> QED
    BY <2>1, Zenon DEF TimerFate
<1>15. TopRuns'
  BY <1>1, <1>3 DEF TopRuns
<1>16. handles'.timers = a /\ handles'.stack = <<>> /\ handles' \in [timers : Seq(Nat), stack : Seq(Nat)]
  <2>1. /\ handles \in [timers : Seq(Nat), stack : Seq(Nat)]
        /\ Range(handles.timers) \subseteq {} /\ Range(handles.stack) \subseteq DOMAIN handles.timers
    BY <1>1, <1>3 DEF HeapHandles, HandleTypes
  <2>2. DOMAIN handles.timers = {}
    BY <2>1 DEF Range
  <2>3. PICK st : st = handles.stack
    OBVIOUS
  <2>4. st \in Seq(Nat) /\ Range(st) \subseteq {}
    BY <2>1, <2>2, <2>3
  <2>5. st = <<>>
    <3>1. DOMAIN st = {}
      BY <2>4 DEF Range
    <3>2. DOMAIN st = 1 .. Len(st) /\ Len(st) \in Nat
      BY <2>4
    <3>3. Len(st) = 0
      BY <3>1, <3>2
    <3> QED
      BY <2>4, <3>3
  <2> QED
    BY <1>3, <1>8, <2>1, <2>3, <2>5
<1>17. HeapHandles'
  <2>1. Range(handles'.stack) = {} /\ IsInjective(handles'.stack)
    BY <1>16, EmptyFacts
  <2>2. InUse(handles') = T
    BY <1>8, <1>16, <2>1 DEF InUse
  <2>3. HandleTypes(handles', DOMAIN timer')
    BY <1>6, <1>8, <1>16, <2>1 DEF HandleTypes
  <2> QED
    BY <1>6, <1>8, <1>16, <2>1, <2>2, <2>3 DEF HeapHandles
<1> QED
  BY <1>12, <1>13, <1>14, <1>15, <1>17 DEF HeapInv

LEMMA HeapStep == HeapInv /\ [TimeHeapNext]_heapVars => HeapInv'
<1> SUFFICES ASSUME HeapInv, [TimeHeapNext]_heapVars PROVE HeapInv'
  OBVIOUS
<1>1. CASE \E delay \in Delays : addTimer(delay)
  BY <1>1, HeapAdds
<1>2. CASE \E n \in 1 .. HeapTimers : deleteTimer(n)
  BY <1>2, HeapDeletes
<1>3. CASE \E delays \in [1 .. HeapTimers -> Delays] : time_heap(delays)
  BY <1>3, HeapMade
<1>4. CASE start \/ stop \/ RunLoop \/ TickBegins \/ HandlerTakesTime
  BY <1>4, HeapThread
<1>5. CASE TickTop \/ HandlerReturns
  BY <1>5, HeapTicks
<1>6. CASE TickEnds
  BY <1>6, HeapTickEnds
<1>7. CASE UNCHANGED heapVars
  <2>1. UNCHANGED <<array, capacity, timer, now, run, cur, handles, deletedTwice>>
    BY <1>7 DEF heapVars
  <2>2. HeapTypes' /\ TopRuns'
    BY <2>1 DEF HeapInv, HeapTypes, TopRuns
  <2>3. HeapOrder'
    BY <2>1 DEF HeapInv, HeapOrder, HeapFrom, Expires
  <2>4. HeapFates'
    BY <2>1 DEF HeapInv, HeapFates, TimerFate, Overtaken
  <2>5. HeapHandles'
    BY <2>1, HeapHandlesStay DEF HeapInv
  <2> QED
    BY <2>2, <2>3, <2>4, <2>5 DEF HeapInv
<1> QED
  BY <1>1, <1>2, <1>3, <1>4, <1>5, <1>6, <1>7 DEF TimeHeapNext, TimerThread

LEMMA HeapImplies == HeapInv => HeapOnTime
<1> SUFFICES ASSUME HeapInv PROVE HeapOnTime
  OBVIOUS
<1>1. HeapTypes /\ HeapOrder /\ HeapFates /\ TopRuns /\ HeapHandles
  BY DEF HeapInv
<1>2. HeapShape
  BY <1>1, HeapArray
<1>3. ASSUME NEW i \in 2 .. cur_size PROVE Expire(array[i \div 2]) <= Expire(array[i])
  <2>1. i \in 2 .. Len(array) /\ Len(array) \in Nat
    BY <1>2, <1>3 DEF cur_size, HeapShape
  <2>2. i \div 2 >= 1 /\ i \div 2 \in 1 .. Len(array) /\ i \in 1 .. Len(array)
    BY <2>1
  <2>3. Expires(timer)[array[i \div 2]] <= Expires(timer)[array[i]]
    BY <1>1, <2>1, <2>2 DEF HeapOrder, HeapFrom
  <2> QED
    BY <1>2, <2>2, <2>3 DEF HeapShape, Expire
<1>4. cur_size <= capacity /\ IsInjective(array)
  BY <1>1 DEF HeapOrder, cur_size
<1>5. ASSUME NEW id \in DOMAIN timer
      PROVE  /\ timer[id].ranAt # -1 => timer[id].ranAt >= Expire(id)
             /\ timer[id].gone <=> id \notin Range(array)
             /\ timer[id].gone /\ timer[id].ranAt = -1 => ~ timer[id].handler \/ timer[id].early
             /\ ~ timer[id].gone /\ timer[id].ranAt # -1 =>
                    (run = "handler" /\ id = array[1]) \/ Overtaken
             /\ run = "looptop" /\ ~ timer[id].gone => Expire(id) > cur
  BY <1>1, Zenon DEF HeapFates, TimerFate, Expire
<1>6. ASSUME ~ deletedTwice
      PROVE  HandlesNameTimers(handles, {id \in DOMAIN timer : ~ timer[id].gone /\ timer[id].handler})
  <2>1. PICK live : live = {id \in DOMAIN timer : ~ timer[id].gone /\ timer[id].handler}
    OBVIOUS
  <2>2. HandlesSound(handles)
    BY <1>1, <1>6 DEF HeapHandles, HandleTypes, HandlesSound
  <2>3. \A id \in live : id # 0 /\ \E n \in InUse(handles) : handles.timers[n] = id
    BY <1>1, <1>2, <1>6, <2>1 DEF HeapHandles, HeapShape
  <2>4. \A n, m \in InUse(handles) : handles.timers[n] # 0 /\ handles.timers[n] = handles.timers[m] => n = m
    BY <1>1, <1>6 DEF HeapHandles
  <2>5. HandlesNameTimers(handles, live)
    BY <2>2, <2>3, <2>4, HandlesCounted
  <2> QED
    BY <2>1, <2>5
<1> QED
  BY <1>3, <1>4, <1>5, <1>6 DEF HeapOnTime

(* HeapFiresOnTime: whatever timers are added and deleted, with whatever   *)
(* delays, between ticks or by handlers, the heap of Timer never runs a    *)
(* handler early, never one of a deleted timer, leaves no expired timer    *)
(* behind when a tick ends, and names each timer by one handle unless the  *)
(* caller deletes a handle twice; it pops the timer it ran, and an unrun   *)
(* one in its place only when a handler added that above its own timer.    *)
THEOREM HeapFiresOnTime == TimeHeapSpec => []HeapOnTime
BY HeapInitially, HeapStep, HeapImplies, PTL DEF TimeHeapSpec
=============================================================================
