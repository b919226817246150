------------------------------ MODULE ListFacts ------------------------------
(***************************************************************************)
(* Lemmas about lists, counting, sums and numbers that the proofs of       *)
(* several components need: the queues and free lists of this program are  *)
(* lists without duplicates.                                               *)
(***************************************************************************)
EXTENDS Integers, Sequences, FiniteSets, Functions, FiniteSetTheorems, TLAPS

(* Appending an element adds it to the list, and keeps the list free of    *)
(* duplicates when the element is new.                                     *)
LEMMA AppendFacts ==
    ASSUME NEW S, NEW s \in Seq(S), NEW e \in S
    PROVE  /\ Append(s, e) \in Seq(S)
           /\ Len(Append(s, e)) = Len(s) + 1
           /\ Range(Append(s, e)) = Range(s) \cup {e}
           /\ IsInjective(s) /\ e \notin Range(s) => IsInjective(Append(s, e))
  <1> DEFINE t == Append(s, e)
  <1>1. t \in Seq(S) /\ Len(t) = Len(s) + 1 /\ Len(s) \in Nat
    OBVIOUS
  <1>2. DOMAIN t = 1 .. (Len(s) + 1) /\ DOMAIN s = 1 .. Len(s)
    BY <1>1
  <1>3. \A i \in 1 .. Len(s) : t[i] = s[i]
    OBVIOUS
  <1>4. t[Len(s) + 1] = e
    OBVIOUS
  <1>5. Range(t) = Range(s) \cup {e}
    BY <1>1, <1>2, <1>3, <1>4 DEF Range
  <1>6. IsInjective(s) /\ e \notin Range(s) => IsInjective(t)
    BY <1>1, <1>2, <1>3, <1>4 DEF IsInjective, Range
  <1> QED
    BY <1>1, <1>5, <1>6

(* Taking the head away removes exactly that element from the list.        *)
LEMMA TailFacts ==
    ASSUME NEW S, NEW s \in Seq(S), s # <<>>
    PROVE  /\ Tail(s) \in Seq(S)
           /\ Head(s) \in Range(s)
           /\ Head(s) \in S
           /\ Len(Tail(s)) = Len(s) - 1
           /\ Range(s) = Range(Tail(s)) \cup {Head(s)}
           /\ IsInjective(s) => IsInjective(Tail(s)) /\ Head(s) \notin Range(Tail(s))
  <1> DEFINE t == Tail(s)
  <1>1. t \in Seq(S) /\ Len(s) \in Nat /\ Len(s) # 0 /\ Len(t) = Len(s) - 1
    OBVIOUS
  <1>2. DOMAIN s = 1 .. Len(s) /\ DOMAIN t = 1 .. (Len(s) - 1)
    BY <1>1
  <1>3. Head(s) = s[1] /\ s[1] \in S
    BY <1>1
  <1>4. \A i \in 1 .. (Len(s) - 1) : t[i] = s[i + 1]
    BY <1>1
  <1>5. \A i \in 2 .. Len(s) : s[i] = t[i - 1] /\ i - 1 \in 1 .. (Len(s) - 1)
    BY <1>1, <1>4
  <1>6. Range(s) = Range(t) \cup {Head(s)}
    <2>1. ASSUME NEW i \in 1 .. Len(s) PROVE s[i] \in Range(t) \cup {Head(s)}
      <3>1. CASE i = 1
        BY <1>3, <3>1
      <3>2. CASE i # 1
        <4>1. s[i] = t[i - 1] /\ i - 1 \in DOMAIN t
          BY <1>1, <1>2, <1>5, <3>2
        <4> QED
          BY <4>1 DEF Range
      <3> QED
        BY <3>1, <3>2
    <2>2. Range(t) \cup {Head(s)} \subseteq Range(s)
      BY <1>1, <1>2, <1>3, <1>4 DEF Range
    <2> QED
      BY <1>2, <2>1, <2>2 DEF Range
  <1>7. IsInjective(s) => IsInjective(t) /\ Head(s) \notin Range(t)
    BY <1>1, <1>2, <1>3, <1>4 DEF IsInjective, Range
  <1> QED
    BY <1>1, <1>3, <1>6, <1>7

(* A list is empty exactly when its length is zero, and then has no        *)
(* element.                                                                *)
LEMMA EmptyFacts ==
    /\ Len(<<>>) = 0
    /\ Range(<<>>) = {}
    /\ IsInjective(<<>>)
    /\ \A S : \A s \in Seq(S) : Len(s) = 0 <=> s = <<>>
  BY DEF Range, IsInjective

(* Putting an element in front adds it to the list, and keeps the list     *)
(* free of duplicates when the element is new.                             *)
LEMMA PushFacts ==
    ASSUME NEW S, NEW s \in Seq(S), NEW e \in S
    PROVE  /\ <<e>> \o s \in Seq(S)
           /\ Len(<<e>> \o s) = Len(s) + 1
           /\ Range(<<e>> \o s) = Range(s) \cup {e}
           /\ IsInjective(s) /\ e \notin Range(s) => IsInjective(<<e>> \o s)
  <1> DEFINE t == <<e>> \o s
  <1>1. t \in Seq(S) /\ Len(t) = Len(s) + 1 /\ Len(s) \in Nat
    OBVIOUS
  <1>2. DOMAIN t = 1 .. (Len(s) + 1) /\ DOMAIN s = 1 .. Len(s)
    BY <1>1
  <1>3. t[1] = e /\ \A i \in 1 .. Len(s) : t[i + 1] = s[i]
    OBVIOUS
  <1>4. \A i \in 2 .. (Len(s) + 1) : t[i] = s[i - 1] /\ i - 1 \in 1 .. Len(s)
    BY <1>1, <1>3
  <1>5. Range(t) = Range(s) \cup {e}
    <2>1. ASSUME NEW i \in 1 .. (Len(s) + 1) PROVE t[i] \in Range(s) \cup {e}
      <3>1. CASE i = 1
        BY <1>3, <3>1
      <3>2. CASE i # 1
        <4>1. t[i] = s[i - 1] /\ i - 1 \in DOMAIN s
          BY <1>1, <1>2, <1>4, <3>2
        <4> QED
          BY <4>1 DEF Range
      <3> QED
        BY <3>1, <3>2
    <2>2. ASSUME NEW i \in 1 .. Len(s) PROVE s[i] \in Range(t)
      <3>1. i + 1 \in DOMAIN t /\ t[i + 1] = s[i]
        BY <1>1, <1>2, <1>3
      <3> QED
        BY <3>1 DEF Range
    <2>3. e \in Range(t)
      <3>1. 1 \in DOMAIN t
        BY <1>1, <1>2
      <3> QED
        BY <1>3, <3>1 DEF Range
    <2> QED
      BY <1>2, <2>1, <2>2, <2>3 DEF Range
  <1>6. IsInjective(s) /\ e \notin Range(s) => IsInjective(t)
    <2> SUFFICES ASSUME IsInjective(s), e \notin Range(s),
                        NEW i \in 1 .. (Len(s) + 1), NEW j \in 1 .. (Len(s) + 1), t[i] = t[j]
                 PROVE  i = j
      BY <1>2 DEF IsInjective
    <2>1. \A k \in 2 .. (Len(s) + 1) : t[k] = s[k - 1] /\ t[k] # e
      BY <1>2, <1>4 DEF Range
    <2>2. CASE i = 1 \/ j = 1
      BY <1>1, <1>3, <2>1, <2>2
    <2>3. CASE i # 1 /\ j # 1
      <3>1. i - 1 \in DOMAIN s /\ j - 1 \in DOMAIN s /\ s[i - 1] = s[j - 1]
        BY <1>1, <1>2, <1>4, <2>3
      <3>2. i - 1 = j - 1
        BY <3>1 DEF IsInjective
      <3> QED
        BY <1>1, <3>2
    <2> QED
      BY <2>2, <2>3
  <1> QED
    BY <1>1, <1>5, <1>6

-----------------------------------------------------------------------------
(* Counting.                                                               *)

(* In a list without duplicates an element has one position, or none.      *)
LEMMA PositionCount ==
    ASSUME NEW S, NEW s \in Seq(S), IsInjective(s), NEW e
    PROVE  Cardinality({i \in DOMAIN s : s[i] = e}) = IF e \in Range(s) THEN 1 ELSE 0
  <1> DEFINE at == {i \in DOMAIN s : s[i] = e}
  <1>1. CASE e \in Range(s)
    <2>1. PICK i \in DOMAIN s : s[i] = e
      BY <1>1 DEF Range
    <2>2. at = {i}
      BY <2>1 DEF IsInjective
    <2> QED
      BY <1>1, <2>2, FS_Singleton
  <1>2. CASE e \notin Range(s)
    <2>1. at = {}
      BY <1>2 DEF Range
    <2> QED
      BY <1>2, <2>1, FS_EmptySet
  <1> QED
    BY <1>1, <1>2

(* A list without duplicates has as many elements as positions.            *)
LEMMA RangeCount ==
    ASSUME NEW S, NEW s \in Seq(S), IsInjective(s)
    PROVE  IsFiniteSet(Range(s)) /\ Cardinality(Range(s)) = Len(s)
  <1>1. Len(s) \in Nat /\ DOMAIN s = 1 .. Len(s)
    OBVIOUS
  <1>2. s \in Bijection(1 .. Len(s), Range(s))
    <2>1. s \in [1 .. Len(s) -> Range(s)]
      BY <1>1 DEF Range
    <2>2. s \in Surjection(1 .. Len(s), Range(s))
      BY <1>1, <2>1 DEF Range, Surjection
    <2>3. s \in Injection(1 .. Len(s), Range(s))
      BY <1>1, <2>1 DEF IsInjective, Injection
    <2> QED
      BY <2>2, <2>3 DEF Bijection
  <1>3. ExistsBijection(1 .. Len(s), Range(s))
    BY <1>2 DEF ExistsBijection
  <1> QED
    BY <1>1, <1>3, FS_CountingElements, FS_NatBijection

(* A value that no two arguments of f share has one argument, or none.     *)
LEMMA ArgumentCount ==
    ASSUME NEW D, NEW f, NEW e, \A v, w \in D : f[v] = e /\ f[w] = e => v = w
    PROVE  Cardinality({w \in D : f[w] = e}) = IF \E w \in D : f[w] = e THEN 1 ELSE 0
  <1> DEFINE at == {w \in D : f[w] = e}
  <1>1. CASE \E w \in D : f[w] = e
    <2>1. PICK w \in D : f[w] = e
      BY <1>1
    <2>2. at = {w}
      BY <2>1
    <2> QED
      BY <1>1, <2>2, FS_Singleton
  <1>2. CASE ~ \E w \in D : f[w] = e
    <2>1. at = {}
      BY <1>2
    <2> QED
      BY <1>2, <2>1, FS_EmptySet
  <1> QED
    BY <1>1, <1>2

-----------------------------------------------------------------------------
(* The least element of a set of natural numbers, from which a proof by    *)
(* induction is one by the least counterexample.                           *)
LEMMA LeastNat ==
    ASSUME NEW T, T \subseteq Nat, T # {}
    PROVE  \E x \in T : \A y \in T : x <= y
  <1> DEFINE R == {ss \in Nat \X Nat : ss[1] < ss[2]}
  <1>1. IsWellFoundedOn(R, Nat)
    BY NatLessThanWellFounded DEF OpToRel
  <1> HIDE DEF R
  <1>2. PICK x \in T : \A y \in T : ~ (<<y, x>> \in R)
    BY <1>1, WFMin
  <1>3. \A y \in T : ~ (y < x)
    BY <1>2 DEF R
  <1> QED
    BY <1>3

-----------------------------------------------------------------------------
(* Sums over finite sets.  SumFunctionOnSet adds up a set in the order in  *)
(* which CHOOSE takes its elements; that the order does not matter is by   *)
(* the least counterexample on the size of the set.                        *)

Picked(s) == CHOOSE x \in s : TRUE

(* h gives the sum of f over each subset of S.                             *)
Sums(h, f, S) ==
    h = [s \in SUBSET S |-> IF s = {} THEN 0 ELSE f[Picked(s)] + h[s \ {Picked(s)}]]

(* The same for the subsets with at most n elements.                       *)
Small(S, n) == {s \in SUBSET S : Cardinality(s) <= n}

SmallSums(h, f, S, n) ==
    h = [s \in Small(S, n) |-> IF s = {} THEN 0 ELSE f[Picked(s)] + h[s \ {Picked(s)}]]

LEMMA ChosenFacts ==
    ASSUME NEW S, IsFiniteSet(S), NEW s \in SUBSET S, s # {}
    PROVE  /\ Picked(s) \in s /\ s \ {Picked(s)} \in SUBSET S
           /\ Cardinality(s) \in Nat \ {0} /\ Cardinality(s \ {Picked(s)}) = Cardinality(s) - 1
<1>1. Picked(s) \in s
  BY DEF Picked
<1>2. IsFiniteSet(s)
  BY FS_Subset
<1>3. Cardinality(s) \in Nat /\ Cardinality(s) # 0
  BY <1>2, FS_CardinalityType, FS_EmptySet
<1>4. Cardinality(s \ {Picked(s)}) = Cardinality(s) - 1
  BY <1>1, <1>2, FS_RemoveElement
<1> QED
  BY <1>1, <1>3, <1>4

LEMMA SmallSumsExist ==
    ASSUME NEW S, IsFiniteSet(S), NEW f, NEW n \in Nat
    PROVE  \E h : SmallSums(h, f, S, n)
<1> DEFINE bad == {k \in Nat : ~ \E h : SmallSums(h, f, S, k)}
<1>1. SUFFICES ASSUME bad # {} PROVE FALSE
  OBVIOUS
<1>2. PICK k \in bad : \A j \in bad : k <= j
  BY <1>1, LeastNat
<1>3. \A s \in SUBSET S : Cardinality(s) \in Nat /\ (Cardinality(s) = 0 <=> s = {})
  BY FS_Subset, FS_CardinalityType, FS_EmptySet
<1>4. CASE k = 0
  <2> DEFINE h == [s \in Small(S, 0) |-> 0]
  <2>1. \A s \in Small(S, 0) : s = {}
    BY <1>3 DEF Small
  <2>2. SmallSums(h, f, S, 0)
    BY <2>1 DEF SmallSums
  <2> QED
    BY <1>2, <1>4, <2>2
<1>5. CASE k # 0
  <2>1. k - 1 \in Nat /\ k - 1 \notin bad
    BY <1>2, <1>5
  <2>2. PICK g : SmallSums(g, f, S, k - 1)
    BY <2>1
  <2> DEFINE h == [s \in Small(S, k) |-> IF s = {} THEN 0 ELSE f[Picked(s)] + g[s \ {Picked(s)}]]
  <2>3. \A s \in Small(S, k - 1) :
            s \in Small(S, k) /\ g[s] = IF s = {} THEN 0 ELSE f[Picked(s)] + g[s \ {Picked(s)}]
    <3>1. \A s \in Small(S, k - 1) : s \in Small(S, k)
      BY <1>3, <2>1 DEF Small
    <3>2. g = [s \in Small(S, k - 1) |-> IF s = {} THEN 0 ELSE f[Picked(s)] + g[s \ {Picked(s)}]]
      BY <2>2 DEF SmallSums
    <3>3. \A s \in Small(S, k - 1) :
              g[s] = IF s = {} THEN 0 ELSE f[Picked(s)] + g[s \ {Picked(s)}]
      BY <3>2, Zenon
    <3> QED
      BY <3>1, <3>3
  <2>4. \A s \in Small(S, k - 1) : h[s] = g[s]
    BY <2>3
  <2>5. ASSUME NEW s \in Small(S, k), s # {} PROVE s \ {Picked(s)} \in Small(S, k - 1)
    <3>1. s \in SUBSET S /\ Cardinality(s) <= k
      BY DEF Small
    <3>2. /\ s \ {Picked(s)} \in SUBSET S
          /\ Cardinality(s) \in Nat \ {0} /\ Cardinality(s \ {Picked(s)}) = Cardinality(s) - 1
      BY <2>5, <3>1, ChosenFacts
    <3> QED
      BY <2>1, <3>1, <3>2 DEF Small
  <2>6. h = [s \in Small(S, k) |-> IF s = {} THEN 0 ELSE f[Picked(s)] + h[s \ {Picked(s)}]]
    <3>1. ASSUME NEW s \in Small(S, k)
          PROVE  h[s] = IF s = {} THEN 0 ELSE f[Picked(s)] + h[s \ {Picked(s)}]
      BY <2>4, <2>5
    <3> HIDE DEF h
    <3>2. h = [s \in Small(S, k) |-> h[s]]
      BY DEF h
    <3> QED
      BY <3>1, <3>2, Zenon
  <2>7. SmallSums(h, f, S, k)
    BY <2>6 DEF SmallSums
  <2> QED
    BY <1>2, <2>7
<1> QED
  BY <1>4, <1>5

LEMMA SumsExist ==
    ASSUME NEW S, IsFiniteSet(S), NEW f
    PROVE  \E h : Sums(h, f, S)
<1>1. Cardinality(S) \in Nat
  BY FS_CardinalityType
<1>2. Small(S, Cardinality(S)) = SUBSET S
  BY FS_Subset DEF Small
<1>3. PICK h : SmallSums(h, f, S, Cardinality(S))
  BY <1>1, SmallSumsExist
<1> QED
  BY <1>2, <1>3 DEF Sums, SmallSums

(* The sums of f over the subsets of S are those of any g that agrees with *)
(* f there, and the set they were computed for does not matter.            *)
LEMMA SumsAgree ==
    ASSUME NEW S, IsFiniteSet(S), NEW f, NEW g, NEW h, Sums(h, f, S),
           NEW T \in SUBSET S, NEW k, Sums(k, g, T), \A x \in T : f[x] = g[x]
    PROVE  h[T] = k[T]
<1> DEFINE Off(n) == \E s \in SUBSET T : Cardinality(s) = n /\ h[s] # k[s]
           bad == {n \in Nat : Off(n)}
<1>1. IsFiniteSet(T) /\ \A s \in SUBSET T : Cardinality(s) \in Nat
  BY FS_Subset, FS_CardinalityType
<1>2. SUFFICES ASSUME bad # {} PROVE FALSE
  BY <1>1
<1>3. PICK n \in bad : \A j \in bad : n <= j
  BY <1>2, LeastNat
<1>4. PICK s \in SUBSET T : Cardinality(s) = n /\ h[s] # k[s]
  BY <1>3
<1>5. /\ h[s] = IF s = {} THEN 0 ELSE f[Picked(s)] + h[s \ {Picked(s)}]
      /\ k[s] = IF s = {} THEN 0 ELSE g[Picked(s)] + k[s \ {Picked(s)}]
  <2>1. s \in SUBSET S
    OBVIOUS
  <2>2. /\ h = [u \in SUBSET S |-> IF u = {} THEN 0 ELSE f[Picked(u)] + h[u \ {Picked(u)}]]
        /\ k = [u \in SUBSET T |-> IF u = {} THEN 0 ELSE g[Picked(u)] + k[u \ {Picked(u)}]]
    BY DEF Sums
  <2> QED
    BY <2>1, <2>2, Zenon
<1>6. s # {}
  BY <1>4, <1>5
<1>7. /\ Picked(s) \in s /\ s \ {Picked(s)} \in SUBSET T
      /\ n \in Nat \ {0} /\ Cardinality(s \ {Picked(s)}) = n - 1
  BY <1>1, <1>4, <1>6, ChosenFacts
<1>8. h[s \ {Picked(s)}] = k[s \ {Picked(s)}]
  <2>1. n - 1 \in Nat /\ n - 1 \notin bad
    BY <1>3, <1>7
  <2> QED
    BY <1>7, <2>1
<1>9. f[Picked(s)] = g[Picked(s)]
  BY <1>7
<1> QED
  BY <1>4, <1>5, <1>6, <1>8, <1>9

(* Functions that agree on a set have the same sum over it.                *)
LEMMA SumSame ==
    ASSUME NEW S, IsFiniteSet(S), NEW f, NEW g, \A x \in S : f[x] = g[x]
    PROVE  SumFunctionOnSet(f, S) = SumFunctionOnSet(g, S)
<1>1. /\ SumFunctionOnSet(f, S) = (CHOOSE h : Sums(h, f, S))[S]
      /\ SumFunctionOnSet(g, S) = (CHOOSE h : Sums(h, g, S))[S]
  BY DEF SumFunctionOnSet, FoldFunctionOnSet, MapThenFoldSet, Sums, Picked
<1>2. (\E h : Sums(h, f, S)) /\ (\E h : Sums(h, g, S))
  BY SumsExist
<1>3. Sums(CHOOSE h : Sums(h, f, S), f, S) /\ Sums(CHOOSE h : Sums(h, g, S), g, S)
  BY <1>2, Zenon
<1> QED
  BY <1>1, <1>3, SumsAgree

(* The sum of the empty set, and of a set and its chosen element.          *)
LEMMA SumSteps ==
    ASSUME NEW S, IsFiniteSet(S), NEW f
    PROVE  /\ S = {} => SumFunctionOnSet(f, S) = 0
           /\ S # {} => SumFunctionOnSet(f, S) = f[Picked(S)] + SumFunctionOnSet(f, S \ {Picked(S)})
<1>1. ASSUME NEW T PROVE SumFunctionOnSet(f, T) = (CHOOSE h : Sums(h, f, T))[T]
  BY DEF SumFunctionOnSet, FoldFunctionOnSet, MapThenFoldSet, Sums, Picked
<1>2. PICK h : Sums(h, f, S)
  BY SumsExist
<1>3. ASSUME NEW T \in SUBSET S PROVE SumFunctionOnSet(f, T) = h[T]
  <2>1. IsFiniteSet(T)
    BY FS_Subset
  <2>2. \E k : Sums(k, f, T)
    BY <2>1, SumsExist
  <2>3. PICK k : k = CHOOSE j : Sums(j, f, T)
    OBVIOUS
  <2>4. Sums(k, f, T)
    BY <2>2, <2>3, Zenon
  <2>5. h[T] = k[T]
    BY <1>2, <2>4, SumsAgree
  <2> QED
    BY <1>1, <2>3, <2>5
<1>4. h[S] = IF S = {} THEN 0 ELSE f[Picked(S)] + h[S \ {Picked(S)}]
  <2>1. S \in SUBSET S
    OBVIOUS
  <2>2. h = [u \in SUBSET S |-> IF u = {} THEN 0 ELSE f[Picked(u)] + h[u \ {Picked(u)}]]
    BY <1>2 DEF Sums
  <2> QED
    BY <2>1, <2>2, Zenon
<1>5. S \in SUBSET S /\ S \ {Picked(S)} \in SUBSET S
  OBVIOUS
<1>6. SumFunctionOnSet(f, S) = h[S] /\ SumFunctionOnSet(f, S \ {Picked(S)}) = h[S \ {Picked(S)}]
  BY <1>3, <1>5
<1> QED
  BY <1>4, <1>6, Zenon

(* An element adds its value, whichever it is; and sums are numbers.       *)
LEMMA SumElement ==
    ASSUME NEW S, IsFiniteSet(S), NEW f, \A x \in S : f[x] \in Int
    PROVE  /\ SumFunctionOnSet(f, S) \in Int
           /\ \A x \in S : SumFunctionOnSet(f, S) = f[x] + SumFunctionOnSet(f, S \ {x})
<1> DEFINE sum(T) == SumFunctionOnSet(f, T)
           Good(T) == sum(T) \in Int /\ \A x \in T : sum(T) = f[x] + sum(T \ {x})
           bad == {n \in Nat : \E T \in SUBSET S : Cardinality(T) = n /\ ~ Good(T)}
<1>1. \A T \in SUBSET S : IsFiniteSet(T) /\ Cardinality(T) \in Nat
  BY FS_Subset, FS_CardinalityType
<1> HIDE DEF sum
<1>2. SUFFICES ASSUME bad # {} PROVE FALSE
  <2>1. S \in SUBSET S
    OBVIOUS
  <2>2. Good(S)
    BY <1>1, <1>2, <2>1
  <2> QED
    BY <2>2 DEF sum
<1>3. PICK n \in bad : \A j \in bad : n <= j
  BY <1>2, LeastNat
<1>4. PICK T \in SUBSET S : Cardinality(T) = n /\ ~ Good(T)
  BY <1>3
<1>5. ASSUME NEW U \in SUBSET S, Cardinality(U) < n PROVE Good(U)
  BY <1>1, <1>3, <1>5
<1> HIDE DEF bad, Good
<1>6. IsFiniteSet(T) /\ \A U \in SUBSET S : (U = {} => sum(U) = 0)
         /\ (U # {} => sum(U) = f[Picked(U)] + sum(U \ {Picked(U)}))
  BY <1>1, SumSteps DEF sum
<1>7. T # {}
  <2> SUFFICES ASSUME T = {} PROVE FALSE
    OBVIOUS
  <2>1. sum(T) = 0
    BY <1>6
  <2>2. sum(T) \in Int
    BY <2>1
  <2>3. \A x \in T : sum(T) = f[x] + sum(T \ {x})
    OBVIOUS
  <2> QED
    BY ONLY <1>4, <2>2, <2>3, Zenon DEF Good
<1>8. PICK c : c = Picked(T)
  OBVIOUS
<1>9. c \in T /\ T \ {c} \in SUBSET S /\ n \in Nat /\ Cardinality(T \ {c}) = n - 1
  BY <1>4, <1>7, <1>8, ChosenFacts
<1>10. Good(T \ {c}) /\ sum(T) = f[c] + sum(T \ {c}) /\ f[c] \in Int
  <2>1. Cardinality(T \ {c}) < n
    BY <1>9
  <2>2. Good(T \ {c})
    BY <1>5, <1>9, <2>1
  <2> QED
    BY <1>6, <1>7, <1>8, <1>9, <2>2
<1>11. ASSUME NEW x \in T PROVE sum(T) = f[x] + sum(T \ {x})
  <2>1. CASE x = c
    BY <1>10, <2>1
  <2>2. CASE x # c
    <3>1. x \in T \ {c} /\ c \in T \ {x} /\ (T \ {c}) \ {x} = (T \ {x}) \ {c}
      BY <1>9, <2>2
    <3>2. PICK U : U = (T \ {x}) \ {c}
      OBVIOUS
    <3>3. sum(T \ {c}) = f[x] + sum(U)
      BY <1>10, <3>1, <3>2 DEF Good
    <3>4. T \ {x} \in SUBSET S /\ Cardinality(T \ {x}) = n - 1
      BY <1>4, <1>6, FS_RemoveElement
    <3>5. Good(T \ {x})
      <4>1. Cardinality(T \ {x}) < n
        BY <1>9, <3>4
      <4> QED
        BY <1>5, <3>4, <4>1
    <3>6. sum(T \ {x}) = f[c] + sum(U) /\ sum(T \ {x}) \in Int
      BY <3>1, <3>2, <3>5 DEF Good
    <3>7. U \in SUBSET S /\ Cardinality(U) < n
      <4>1. IsFiniteSet(T \ {x})
        BY <1>1, <3>4
      <4>2. PICK V : V = T \ {x}
        OBVIOUS
      <4>3. Cardinality(V \ {c}) = Cardinality(V) - 1
        BY <3>1, <4>1, <4>2, FS_RemoveElement
      <4> QED
        BY <1>9, <3>2, <3>4, <4>2, <4>3
    <3>8. Good(U)
      BY <1>5, <3>7
    <3>9. sum(U) \in Int /\ f[x] \in Int
      BY <3>8 DEF Good
    <3> QED
      BY <1>10, <3>3, <3>6, <3>9
  <2> QED
    BY <2>1, <2>2
<1>12. sum(T) \in Int
  BY <1>10 DEF Good
<1> QED
  BY <1>4, <1>11, <1>12 DEF Good

(* The sum of zeros.                                                       *)
LEMMA SumZero ==
    ASSUME NEW S, IsFiniteSet(S), NEW f, \A x \in S : f[x] = 0
    PROVE  SumFunctionOnSet(f, S) = 0
<1> DEFINE bad == {n \in Nat : \E T \in SUBSET S : Cardinality(T) = n /\ SumFunctionOnSet(f, T) # 0}
<1>1. \A T \in SUBSET S : IsFiniteSet(T) /\ Cardinality(T) \in Nat
  BY FS_Subset, FS_CardinalityType
<1>2. SUFFICES ASSUME bad # {} PROVE FALSE
  <2>1. S \in SUBSET S
    OBVIOUS
  <2> QED
    BY <1>1, <1>2, <2>1
<1>3. PICK n \in bad : \A j \in bad : n <= j
  BY <1>2, LeastNat
<1>4. PICK T \in SUBSET S : Cardinality(T) = n /\ SumFunctionOnSet(f, T) # 0
  BY <1>3
<1>5. T # {} /\ SumFunctionOnSet(f, T) = f[Picked(T)] + SumFunctionOnSet(f, T \ {Picked(T)})
  BY <1>1, <1>4, SumSteps
<1>6. /\ Picked(T) \in T /\ T \ {Picked(T)} \in SUBSET S
      /\ n \in Nat \ {0} /\ Cardinality(T \ {Picked(T)}) = n - 1
  BY <1>4, <1>5, ChosenFacts
<1>7. SumFunctionOnSet(f, T \ {Picked(T)}) = 0
  <2>1. n - 1 \in Nat /\ n - 1 \notin bad
    BY <1>3, <1>6
  <2> QED
    BY <1>6, <2>1
<1> QED
  BY <1>4, <1>5, <1>6, <1>7

(* The sum after one value has changed.                                    *)
LEMMA SumUpdate ==
    ASSUME NEW S, IsFiniteSet(S), NEW f, NEW g, NEW x \in S,
           \A y \in S : f[y] \in Int /\ g[y] \in Int,
           \A y \in S \ {x} : f[y] = g[y]
    PROVE  SumFunctionOnSet(g, S) = SumFunctionOnSet(f, S) - f[x] + g[x]
<1>1. IsFiniteSet(S \ {x})
  BY FS_RemoveElement
<1>2. PICK a, b, c, d : /\ a = SumFunctionOnSet(f, S) /\ b = SumFunctionOnSet(g, S)
                         /\ c = SumFunctionOnSet(f, S \ {x}) /\ d = SumFunctionOnSet(g, S \ {x})
  OBVIOUS
<1>3. a \in Int /\ a = f[x] + c /\ b \in Int /\ b = g[x] + d
  BY <1>2, SumElement
<1>4. c \in Int /\ d \in Int
  <2>1. \A y \in S \ {x} : f[y] \in Int /\ g[y] \in Int
    OBVIOUS
  <2> QED
    BY <1>1, <1>2, <2>1, SumElement
<1>5. c = d
  BY <1>1, <1>2, SumSame
<1> QED
  BY <1>2, <1>3, <1>4, <1>5
=============================================================================
