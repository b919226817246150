---------------------------- MODULE LibraryProofs ----------------------------
(***************************************************************************)
(* Proofs about the libraries: the incremental HTTP parser of HttpRequest, *)
(* for every message of the model's shape, however long, and every way to  *)
(* cut it into pieces; who owns an object on the ring of RingKeeper; and   *)
(* the array that RadixTree is, for every node size and height.            *)
(***************************************************************************)
EXTENDS HttpRequest, RingKeeper, RadixTree, ListFacts, SequenceTheorems

-----------------------------------------------------------------------------
(* Lines of a prefix.  All that the parser is given are prefixes of the    *)
(* message w.                                                              *)

FirstTexts == {"get", "post", "qqpost", "bad"}
HeaderTexts == NamesLength \union {"other", "nocolon"}
Atoms == FirstTexts \union HeaderTexts \union {"cr", "lf", "b"}

LEMMA TextsAreAtoms == HeaderTexts \subseteq Atoms /\ FirstTexts \subseteq Atoms
BY DEF Atoms

LEMMA PrefixFacts ==
    ASSUME NEW w \in Seq(Atoms), NEW n \in 0 .. Len(w)
    PROVE  /\ SubSeq(w, 1, n) \in Seq(Atoms)
           /\ Len(SubSeq(w, 1, n)) = n
           /\ \A i \in 1 .. n : SubSeq(w, 1, n)[i] = w[i]
<1>1. \A i \in 1 .. n : w[i] \in Atoms
  OBVIOUS
<1>2. n \in Int /\ 1 \in Int
  OBVIOUS
<1>3. PICK d : d = SubSeq(w, 1, n)
  OBVIOUS
<1>4. /\ d \in Seq(Atoms) /\ Len(d) = (IF 1 <= n THEN n - 1 + 1 ELSE 0)
      /\ \A i \in 1 .. n - 1 + 1 : d[i] = w[1 + i - 1]
  BY ONLY <1>1, <1>2, <1>3, SubSeqProperties
<1> QED
  BY <1>3, <1>4

(* The distance to the first line feed after p, or 0.                      *)
IsLine(d, p, g) ==
    \/ g = 0 /\ \A i \in p + 1 .. Len(d) : d[i] # "lf"
    \/ /\ g \in Nat \ {0} /\ p + g <= Len(d) /\ d[p + g] = "lf"
       /\ \A i \in p + 1 .. p + g - 1 : d[i] # "lf"

LEMMA GetLine ==
    ASSUME NEW d \in Seq(Atoms), NEW p \in Nat
    PROVE  IsLine(d, p, get_line(d, p)) /\ get_line(d, p) \in Nat
<1>1. PICK at : at = {i \in p + 1 .. Len(d) : d[i] = "lf"}
  OBVIOUS
<1>2. CASE at = {}
  <2>1. get_line(d, p) = 0
    BY <1>1, <1>2 DEF get_line
  <2> QED
    BY <1>1, <1>2, <2>1 DEF IsLine
<1>3. CASE at # {}
  <2>1. at \subseteq Nat
    BY <1>1
  <2>2. \E i \in at : \A j \in at : i <= j
    BY <1>3, <2>1, LeastNat
  <2>3. PICK i : i = CHOOSE k \in at : \A j \in at : k <= j
    OBVIOUS
  <2>4. i \in at /\ \A j \in at : i <= j
    BY <2>2, <2>3
  <2>5. get_line(d, p) = i - p
    BY <1>1, <1>3, <2>3 DEF get_line
  <2>6. i \in p + 1 .. Len(d) /\ d[i] = "lf" /\ Len(d) \in Nat
    BY <1>1, <2>4
  <2>7. i - p \in Nat \ {0} /\ p + (i - p) = i
    BY <2>6
  <2>8. \A j \in p + 1 .. i - 1 : j \in p + 1 .. Len(d) /\ ~ (i <= j)
    BY <2>6
  <2>9. \A j \in p + 1 .. i - 1 : d[j] # "lf"
    BY <1>1, <2>4, <2>8
  <2> QED
    BY <2>5, <2>6, <2>7, <2>9 DEF IsLine
<1> QED
  BY <1>2, <1>3

(* The distance is determined by what it is.                               *)
LEMMA LineUnique ==
    ASSUME NEW d \in Seq(Atoms), NEW p \in Nat, NEW g, IsLine(d, p, g)
    PROVE  get_line(d, p) = g
<1>1. PICK h : h = get_line(d, p)
  OBVIOUS
<1>2. IsLine(d, p, h) /\ h \in Nat /\ g \in Nat /\ Len(d) \in Nat
  <2>1. IsLine(d, p, h) /\ h \in Nat
    BY <1>1, GetLine
  <2>2. g \in Nat
    BY DEF IsLine
  <2> QED
    BY <2>1, <2>2
<1>3. CASE g = 0
  <2>1. h # 0 => p + h \in p + 1 .. Len(d) /\ d[p + h] = "lf"
    BY <1>2 DEF IsLine
  <2>2. \A i \in p + 1 .. Len(d) : d[i] # "lf"
    BY <1>3 DEF IsLine
  <2> QED
    BY <1>1, <1>3, <2>1, <2>2
<1>4. CASE g # 0
  <2>1. p + g \in p + 1 .. Len(d) /\ d[p + g] = "lf" /\ \A i \in p + 1 .. p + g - 1 : d[i] # "lf"
    BY <1>2, <1>4 DEF IsLine
  <2>2. h # 0
    BY <2>1, <1>2 DEF IsLine
  <2>3. p + h \in p + 1 .. Len(d) /\ d[p + h] = "lf" /\ \A i \in p + 1 .. p + h - 1 : d[i] # "lf"
    BY <1>2, <2>2 DEF IsLine
  <2>4. ~ (g < h) /\ ~ (h < g)
    <3>1. g < h => p + g \in p + 1 .. p + h - 1
      BY <1>2, <1>4
    <3>2. h < g => p + h \in p + 1 .. p + g - 1
      BY <1>2, <2>2
    <3> QED
      BY <2>1, <2>3, <3>1, <3>2
  <2> QED
    BY <1>1, <1>2, <2>4
<1> QED
  BY <1>3, <1>4

(* A complete line stays what it is when more arrives.                     *)
LEMMA LineStays ==
    ASSUME NEW w \in Seq(Atoms), NEW m \in 0 .. Len(w), NEW n \in 0 .. m, NEW p \in Nat,
           get_line(SubSeq(w, 1, n), p) # 0
    PROVE  get_line(SubSeq(w, 1, m), p) = get_line(SubSeq(w, 1, n), p)
<1>1. PICK d, e, g : d = SubSeq(w, 1, n) /\ e = SubSeq(w, 1, m) /\ g = get_line(d, p)
  OBVIOUS
<1>2. n \in 0 .. Len(w) /\ n <= m /\ m \in Nat /\ n \in Nat
  OBVIOUS
<1>3. /\ d \in Seq(Atoms) /\ Len(d) = n /\ \A i \in 1 .. n : d[i] = w[i]
      /\ e \in Seq(Atoms) /\ Len(e) = m /\ \A i \in 1 .. m : e[i] = w[i]
  BY <1>1, <1>2, PrefixFacts
<1>4. IsLine(d, p, g) /\ g \in Nat /\ g # 0
  BY <1>1, <1>3, GetLine
<1>5. IsLine(e, p, g)
  BY <1>2, <1>3, <1>4 DEF IsLine
<1> QED
  BY <1>1, <1>3, <1>5, LineUnique
-----------------------------------------------------------------------------
(* The loop over the header lines.                                         *)

LEMMA GreatestNat ==
    ASSUME NEW T, T \subseteq Nat, T # {}, NEW n \in Nat, \A x \in T : x <= n
    PROVE  \E x \in T : \A y \in T : y <= x
<1>1. PICK U : U = {k \in Nat : n - k \in T}
  OBVIOUS
<1>2. U # {}
  <2>1. PICK x \in T : TRUE
    OBVIOUS
  <2>2. n - x \in Nat /\ n - (n - x) = x
    OBVIOUS
  <2> QED
    BY <1>1, <2>1, <2>2
<1>3. PICK k \in U : \A l \in U : k <= l
  <2>1. U \subseteq Nat
    BY <1>1
  <2> QED
    BY <1>2, <2>1, LeastNat
<1>4. n - k \in T /\ k \in Nat
  BY <1>1
<1>5. ASSUME NEW y \in T PROVE y <= n - k
  <2>1. n - y \in Nat /\ n - (n - y) = y
    OBVIOUS
  <2>2. n - y \in U
    BY <1>1, <2>1
  <2>3. k <= n - y /\ y \in Nat
    BY <1>3, <2>2
  <2> QED
    BY <1>4, <2>3
<1> QED
  BY <1>4, <1>5

(* A line is where the loop ends, limit and colons apart.                  *)
Ends(d, p) == get_line(d, p) = 0 \/ EmptyLine(d, p, get_line(d, p))

FirstEnd(d, from, e) ==
    /\ e \in LineStarts(d, from) /\ Ends(d, e)
    /\ \A q \in LineStarts(d, from) : Ends(d, q) => e <= q

(* From a line start of a message with a short head, the limit can only be *)
(* reached at the end of the data.                                         *)
LEMMA LimitAtEnd ==
    ASSUME NEW w \in Seq(Atoms), ShortHead(w), NEW n \in 0 .. Len(w), NEW from \in 1 .. n,
           w[from] = "lf", NEW p \in LineStarts(SubSeq(w, 1, n), from),
           AtLimit(SubSeq(w, 1, n), from, p)
    PROVE  get_line(SubSeq(w, 1, n), p) = 0
<1>1. PICK d, g : d = SubSeq(w, 1, n) /\ g = get_line(d, p)
  OBVIOUS
<1>2. d \in Seq(Atoms) /\ Len(d) = n /\ \A i \in 1 .. n : d[i] = w[i]
  BY <1>1, PrefixFacts
<1>3. PICK F : F = {i \in DOMAIN w : w[i] = "lf"}
  OBVIOUS
<1>4. Len(w) \in Nat /\ DOMAIN w = 1 .. Len(w) /\ n <= Len(w) /\ n \in Nat
  OBVIOUS
<1>5. IsFiniteSet(F) /\ Cardinality(F) \in Nat /\ Cardinality(F) <= C_MAX_HEAD_LINE + 1
  <2>1. IsFiniteSet(1 .. Len(w))
    BY <1>4, FS_Interval
  <2>2. F \in SUBSET (1 .. Len(w))
    BY <1>3, <1>4
  <2>3. IsFiniteSet(F)
    BY <2>1, <2>2, FS_Subset
  <2>4. Cardinality(F) <= C_MAX_HEAD_LINE + 1
    BY <1>3 DEF ShortHead
  <2> QED
    BY <2>3, <2>4, FS_CardinalityType
<1>6. \A q \in LineStarts(d, from) : q \in F /\ q \in from .. n
  BY <1>2, <1>3, <1>4 DEF LineStarts
<1>7. PICK Q : Q = {q \in LineStarts(d, from) : q < p}
  OBVIOUS
<1>8. Q \subseteq F /\ p \in F /\ p \notin Q /\ p \in 1 .. n
  BY <1>1, <1>6, <1>7
<1>9. Cardinality(Q) = C_MAX_HEAD_LINE
  BY <1>1, <1>7 DEF AtLimit
<1>10. IsFiniteSet(Q) /\ Cardinality(Q) \in Nat
  BY <1>5, <1>8, FS_Subset, FS_CardinalityType
<1>11. Cardinality(Q \cup {p}) = Cardinality(Q) + 1
  BY <1>8, <1>10, FS_AddElement
<1>12. Q \cup {p} = F
  <2>1. Q \cup {p} \in SUBSET F
    BY <1>8
  <2>2. Cardinality(Q \cup {p}) <= Cardinality(F)
    BY <1>5, <2>1, FS_Subset
  <2>3. Cardinality(F) = Cardinality(Q \cup {p})
    BY <1>5, <1>9, <1>10, <1>11, <2>2
  <2> QED
    BY ONLY <1>5, <2>1, <2>3, FS_Subset
<1>13. g = 0
  <2> SUFFICES ASSUME g # 0 PROVE FALSE
    OBVIOUS
  <2>1. IsLine(d, p, g) /\ g \in Nat
    <3>1. p \in Nat
      BY <1>8
    <3> QED
      BY <1>1, <1>2, <3>1, GetLine
  <2>2. p + g <= n /\ d[p + g] = "lf"
    BY <1>2, <2>1 DEF IsLine
  <2>3. p + g \in 1 .. n /\ p + g > p
    BY <1>4, <1>8, <2>1, <2>2
  <2>4. p + g \in F
    BY <1>2, <1>3, <1>4, <2>2, <2>3
  <2>5. \A q \in Q : q < p /\ q \in from .. n
    BY <1>6, <1>7
  <2> QED
    BY <1>8, <1>12, <2>3, <2>4, <2>5
<1> QED
  BY <1>1, <1>13

(* The first end exists, and there is only one.                            *)
LEMMA FirstEndExists ==
    ASSUME NEW d \in Seq(Atoms), NEW from \in 0 .. Len(d)
    PROVE  \E e : FirstEnd(d, from, e)
<1>1. PICK T : T = {p \in LineStarts(d, from) : Ends(d, p)}
  OBVIOUS
<1>2. Len(d) \in Nat /\ from \in LineStarts(d, from)
      /\ \A p \in LineStarts(d, from) : p \in Nat /\ p <= Len(d)
  BY DEF LineStarts
<1>3. T # {}
  <2>1. PICK l \in LineStarts(d, from) : \A q \in LineStarts(d, from) : q <= l
    <3>1. LineStarts(d, from) \subseteq Nat /\ LineStarts(d, from) # {}
      BY <1>2
    <3> QED
      BY <1>2, <3>1, GreatestNat
  <2>2. l \in Nat /\ from <= l /\ l <= Len(d)
    BY <1>2, <2>1
  <2>3. \A i \in l + 1 .. Len(d) : d[i] # "lf"
    <3> SUFFICES ASSUME NEW i \in l + 1 .. Len(d), d[i] = "lf" PROVE FALSE
      OBVIOUS
    <3>1. i \in from + 1 .. Len(d)
      BY <1>2, <2>2
    <3>2. i \in LineStarts(d, from)
      BY <3>1 DEF LineStarts
    <3> QED
      BY <2>1, <2>2, <3>2
  <2>4. IsLine(d, l, 0)
    BY <2>3 DEF IsLine
  <2>5. get_line(d, l) = 0
    BY <2>2, <2>4, LineUnique
  <2> QED
    BY <1>1, <2>1, <2>5 DEF Ends
<1>4. PICK e \in T : \A q \in T : e <= q
  <2>1. T \subseteq Nat
    BY <1>1, <1>2
  <2> QED
    BY <1>3, <2>1, LeastNat
<1> QED
  BY <1>1, <1>4 DEF FirstEnd

LEMMA FirstEndUnique ==
    ASSUME NEW d \in Seq(Atoms), NEW from \in 0 .. Len(d), NEW e, NEW f,
           FirstEnd(d, from, e), FirstEnd(d, from, f)
    PROVE  e = f
<1>1. e \in Nat /\ f \in Nat
  BY DEF FirstEnd, LineStarts
<1>2. e <= f /\ f <= e
  BY DEF FirstEnd
<1> QED
  BY <1>1, <1>2

(* The Content-Length lines that start in from .. e - 1, and the length    *)
(* they announce.                                                          *)
NamedIn(w, from, e) == {p \in from .. e - 1 : w[p] = "lf" /\ w[p + 1] \in HeaderLength}

AttrOf(w, from, e, a) ==
    IF NamedIn(w, from, e) = {} THEN a
    ELSE get_name_value(w[LastOf(NamedIn(w, from, e)) + 1])

LEMMA LastOfFacts ==
    ASSUME NEW T, T \subseteq Nat, T # {}, NEW n \in Nat, \A x \in T : x <= n
    PROVE  LastOf(T) \in T /\ \A y \in T : y <= LastOf(T)
<1>1. \E x \in T : \A y \in T : y <= x
  BY GreatestNat
<1> QED
  BY <1>1, Zenon DEF LastOf

(* What infuse does to a message with a short head and colons, from the    *)
(* line feed at from on.                                                   *)
Infused(r, w, n, from, e) ==
    LET d == SubSeq(w, 1, n)
    IN  [r EXCEPT !.parsed = e + get_line(d, e),
                  !.header = EmptyLine(d, e, get_line(d, e)),
                  !.attr   = AttrOf(w, from, e, r.attr)]

LEMMA HeaderFacts ==
    ASSUME NEW w \in Seq(Atoms), ShortHead(w), "nocolon" \notin ToSet(w),
           NEW n \in 0 .. Len(w), NEW from \in 1 .. n, w[from] = "lf", NEW r, r.parsed = from
    PROVE  \E e \in from .. n :
               /\ w[e] = "lf" /\ FirstEnd(SubSeq(w, 1, n), from, e)
               /\ Header_infuse(r, SubSeq(w, 1, n)) = Infused(r, w, n, from, e)
<1>1. PICK d : d = SubSeq(w, 1, n)
  OBVIOUS
<1>2. d \in Seq(Atoms) /\ Len(d) = n /\ (\A i \in 1 .. n : d[i] = w[i]) /\ n \in Nat
      /\ n <= Len(w) /\ Len(w) \in Nat
  BY <1>1, PrefixFacts
<1>3. PICK S : S = LineStarts(d, from)
  OBVIOUS
<1>4. \A q \in S : q \in from .. n /\ q \in Nat /\ w[q] = "lf"
  BY <1>2, <1>3 DEF LineStarts
<1>5. \A i \in from .. n : w[i] = "lf" => i \in S
  BY <1>2, <1>3 DEF LineStarts
<1>6. PICK e : FirstEnd(d, from, e)
  <2>1. from \in 0 .. Len(d)
    BY <1>2
  <2> QED
    BY <1>2, <2>1, FirstEndExists
<1>7. e \in S /\ Ends(d, e) /\ \A q \in S : Ends(d, q) => e <= q
  BY <1>3, <1>6 DEF FirstEnd
<1>8. \A q \in S : LoopEnds(d, from, q) <=> Ends(d, q)
  <2> TAKE q \in S
  <2>1. PICK g : g = get_line(d, q)
    OBVIOUS
  <2>2. AtLimit(d, from, q) => g = 0
    BY <1>1, <1>3, <2>1, LimitAtEnd
  <2>3. IsLine(d, q, g) /\ g \in Nat
    BY <1>2, <1>4, <2>1, GetLine
  <2>4. g # 0 => q + 1 \in 1 .. n
    BY <1>2, <1>4, <2>3 DEF IsLine
  <2>5. g # 0 => d[q + 1] # "nocolon"
    <3>1. \A i \in 1 .. n : w[i] \in ToSet(w)
      BY <1>2 DEF ToSet
    <3> QED
      BY <1>2, <2>4, <3>1
  <2>6. LoopEnds(d, from, q) <=> g = 0 \/ EmptyLine(d, q, g) \/ d[q + 1] = "nocolon" \/ AtLimit(d, from, q)
    BY <2>1, Zenon DEF LoopEnds
  <2>7. Ends(d, q) <=> g = 0 \/ EmptyLine(d, q, g)
    BY <2>1 DEF Ends
  <2> QED
    BY <2>2, <2>5, <2>6, <2>7
<1>9. LoopEnd(d, from) = e
  <2>1. PICK T : T = {p \in S : LoopEnds(d, from, p)}
    OBVIOUS
  <2>2. e \in T /\ (\A q \in T : e <= q) /\ \A q \in T : q \in Nat
    BY <1>4, <1>7, <1>8, <2>1
  <2>3. \A x \in T : (\A q \in T : x <= q) => x = e
    BY <2>2
  <2>4. (CHOOSE p \in T : \A q \in T : p <= q) = e
    BY <2>2, <2>3
  <2> QED
    BY <1>3, <2>1, <2>4, Zenon DEF LoopEnd
<1>10. PICK g : g = get_line(d, e)
  OBVIOUS
<1>11. AtLimit(d, from, e) => g = 0
  BY <1>1, <1>3, <1>7, <1>10, LimitAtEnd
<1>12. g = 0 => ~ EmptyLine(d, e, g)
  BY DEF EmptyLine
<1>13. e \in from .. n /\ w[e] = "lf" /\ e \in Nat
  BY <1>4, <1>7
<1>14. (IF AtLimit(d, from, e) THEN e ELSE e + g) = e + g
  BY <1>11, <1>13
<1>15. (~ AtLimit(d, from, e) /\ EmptyLine(d, e, g)) = EmptyLine(d, e, g)
  BY <1>11, <1>12, Zenon DEF EmptyLine
<1>16. {p \in S : p < e /\ d[p + 1] \in HeaderLength} = NamedIn(w, from, e)
  <2>1. \A p \in from .. e - 1 : p + 1 \in 1 .. n /\ p \in from .. n
    BY <1>2, <1>13
  <2>2. \A p \in S : p < e => p \in from .. e - 1
    BY <1>4, <1>13
  <2>3. \A p \in from .. e - 1 : p < e
    BY <1>13
  <2> QED
    BY <1>2, <1>4, <1>5, <2>1, <2>2, <2>3 DEF NamedIn
<1>17. PICK N : N = NamedIn(w, from, e)
  OBVIOUS
<1>18. N # {} => d[LastOf(N) + 1] = w[LastOf(N) + 1]
  <2>1. N \subseteq Nat /\ \A x \in N : x <= n /\ x + 1 \in 1 .. n
    BY <1>2, <1>13, <1>17 DEF NamedIn
  <2>2. N # {} => LastOf(N) \in N
    BY <1>2, <2>1, LastOfFacts
  <2> QED
    BY <1>2, <2>1, <2>2
<1>19. (IF N = {} THEN r.attr ELSE get_name_value(d[LastOf(N) + 1])) = AttrOf(w, from, e, r.attr)
  BY <1>17, <1>18 DEF AttrOf
<1>20. Header_infuse(r, d) = [r EXCEPT !.parsed = IF AtLimit(d, from, e) THEN e ELSE e + g,
                  !.header = ~ AtLimit(d, from, e) /\ EmptyLine(d, e, g),
                  !.attr   = IF N = {} THEN r.attr ELSE get_name_value(d[LastOf(N) + 1])]
  <2>1. LoopEnd(d, r.parsed) = e
    BY <1>9
  <2>2. LengthLines(d, r.parsed, e) = N
    BY <1>3, <1>16, <1>17 DEF LengthLines
  <2>3. AtLimit(d, r.parsed, e) = AtLimit(d, from, e)
    OBVIOUS
  <2> QED
    BY ONLY <1>10, <2>1, <2>2, <2>3, Zenon DEF Header_infuse
<1>21. Header_infuse(r, d) = Infused(r, w, n, from, e)
  BY <1>1, <1>10, <1>14, <1>15, <1>19, <1>20, Zenon DEF Infused
<1> QED
  BY <1>1, <1>6, <1>13, <1>21

(* The announced length over two pieces is the one over both.              *)
LEMMA AttrSplit ==
    ASSUME NEW w, NEW from \in Nat, NEW m \in Nat, NEW e \in Nat, from <= m, m <= e, NEW a
    PROVE  AttrOf(w, m, e, AttrOf(w, from, m, a)) = AttrOf(w, from, e, a)
<1>1. PICK N1, N2, N : N1 = NamedIn(w, from, m) /\ N2 = NamedIn(w, m, e) /\ N = NamedIn(w, from, e)
  OBVIOUS
<1>2. N = N1 \cup N2
  BY <1>1 DEF NamedIn
<1>3. /\ N1 \subseteq Nat /\ N2 \subseteq Nat /\ N \subseteq Nat
      /\ \A x \in N1 : x < m
      /\ \A x \in N2 : m <= x
      /\ \A x \in N : x <= e
  BY <1>1 DEF NamedIn
<1>4. CASE N2 = {}
  <2>1. N = N1
    BY <1>2, <1>4
  <2> QED
    BY <1>1, <1>4, <2>1, Zenon DEF AttrOf
<1>5. CASE N2 # {}
  <2>1. N # {} /\ N2 \subseteq N
    BY <1>2, <1>5
  <2>2. LastOf(N2) \in N2 /\ \A y \in N2 : y <= LastOf(N2)
    BY <1>2, <1>3, <1>5, LastOfFacts
  <2>3. LastOf(N) \in N /\ \A y \in N : y <= LastOf(N)
    BY <1>3, <2>1, LastOfFacts
  <2>4. LastOf(N) = LastOf(N2)
    <3>1. PICK x, y : x = LastOf(N) /\ y = LastOf(N2)
      OBVIOUS
    <3>2. x \in N /\ y \in N2 /\ y \in N /\ y <= x /\ x \in Nat /\ y \in Nat /\ m <= y
      BY <1>3, <2>1, <2>2, <2>3, <3>1
    <3>3. x \in N2
      BY <1>2, <1>3, <3>2
    <3>4. x <= y
      BY <2>2, <3>1, <3>3
    <3> QED
      BY <3>1, <3>2, <3>4
  <2> QED
    BY <1>1, <1>5, <2>1, <2>4, Zenon DEF AttrOf
<1> QED
  BY <1>4, <1>5

(* A Content-Length line announces a number.                               *)
LEMMA NamedType ==
    \A text \in NamesLength : LengthIn(text) \in Nat
<1> TAKE text \in NamesLength
<1>1. CASE text \in ExactLength
  <2>1. \E n \in 0 .. 9 : LengthLine[n + 1] = text
    <3>1. PICK i \in 1 .. 10 : LengthLine[i] = text
      BY <1>1 DEF ExactLength, ToSet, LengthLine
    <3>2. i - 1 \in 0 .. 9 /\ (i - 1) + 1 = i
      OBVIOUS
    <3> QED
      BY <3>1, <3>2
  <2>2. (CHOOSE n \in 0 .. 9 : LengthLine[n + 1] = text) \in 0 .. 9
    BY <2>1
  <2>3. \A x \in 0 .. 9 : x \in Nat
    OBVIOUS
  <2>4. LengthIn(text) = CHOOSE n \in 0 .. 9 : LengthLine[n + 1] = text
    <3>1. text \notin {"lower1", "tight1"} /\ text # "xlen2"
      BY <1>1 DEF ExactLength, ToSet, LengthLine
    <3> QED
      BY <1>1, <3>1 DEF LengthIn
  <2> QED
    BY <2>2, <2>3, <2>4
<1>2. CASE text \notin ExactLength
  BY <1>2 DEF LengthIn, NamesLength
<1> QED
  BY <1>1, <1>2

LEMMA LengthType ==
    \A text \in HeaderLength : get_name_value(text) \in Nat
<1>1. HeaderLength \subseteq NamesLength
  BY DEF HeaderLength, NamesLength
<1> QED
  BY <1>1, NamedType DEF get_name_value

LEMMA AttrType ==
    ASSUME NEW w, NEW from \in Nat, NEW e \in Nat, NEW a \in Nat
    PROVE  AttrOf(w, from, e, a) \in Nat
<1>1. PICK N : N = NamedIn(w, from, e)
  OBVIOUS
<1>2. N \subseteq Nat /\ (\A x \in N : x <= e) /\ \A x \in N : w[x + 1] \in HeaderLength
  BY <1>1 DEF NamedIn
<1>3. CASE N = {}
  BY <1>1, <1>3 DEF AttrOf
<1>4. CASE N # {}
  <2>1. LastOf(N) \in N
    BY <1>2, <1>4, LastOfFacts
  <2>2. get_name_value(w[LastOf(N) + 1]) \in Nat
    BY <1>2, <2>1, LengthType
  <2> QED
    BY <1>1, <1>4, <2>2 DEF AttrOf
<1> QED
  BY <1>3, <1>4

ReqType ==
    [line : BOOLEAN, header : BOOLEAN, attr : Nat, length : Nat, infused : Nat,
     parsed : Nat, offset : Nat, attached : BOOLEAN, inited : BOOLEAN]

UpdatedTo(h, p, b, a) == h \in ReqType /\ h.parsed = p /\ h.header = b /\ h.attr = a

LEMMA ReqUpdate ==
    ASSUME NEW r \in ReqType, NEW p \in Nat, NEW b \in BOOLEAN, NEW a \in Nat
    PROVE  UpdatedTo([r EXCEPT !.parsed = p, !.header = b, !.attr = a], p, b, a)
<1>0. PICK h : h = [r EXCEPT !.parsed = p, !.header = b, !.attr = a]
  OBVIOUS
<1>1. h = [line |-> r.line, header |-> b, attr |-> a, length |-> r.length, infused |-> r.infused,
           parsed |-> p, offset |-> r.offset, attached |-> r.attached, inited |-> r.inited]
  BY <1>0 DEF ReqType
<1>2. /\ r.line \in BOOLEAN /\ r.length \in Nat /\ r.infused \in Nat
      /\ r.offset \in Nat /\ r.attached \in BOOLEAN /\ r.inited \in BOOLEAN
  BY DEF ReqType
<1>3. h \in ReqType
  BY <1>1, <1>2 DEF ReqType
<1>4. UpdatedTo(h, p, b, a)
  BY <1>1, <1>3 DEF UpdatedTo
<1> QED
  BY <1>0, <1>4, Zenon

(* A header that is complete stays what it is when more arrives, and one   *)
(* that is not is continued to what it would have been in one piece.       *)
Continued(r, h, n, c) ==
    /\ h \in ReqType /\ h.parsed \in r.parsed .. n
    /\ h = [r EXCEPT !.parsed = h.parsed, !.header = h.header, !.attr = h.attr]
    /\ h.header => Header_infuse(r, c) = h
    /\ ~ h.header => Header_infuse(h, c) = Header_infuse(r, c)

LEMMA HeaderChunk ==
    ASSUME NEW w \in Seq(Atoms), ShortHead(w), "nocolon" \notin ToSet(w),
           NEW m \in 0 .. Len(w), NEW n \in 0 .. m, NEW from \in 1 .. n, w[from] = "lf",
           NEW r \in ReqType, r.parsed = from
    PROVE  Continued(r, Header_infuse(r, SubSeq(w, 1, n)), n, SubSeq(w, 1, m))
<1>0. PICK h : h = Header_infuse(r, SubSeq(w, 1, n))
  OBVIOUS
<1>1. PICK d, c : d = SubSeq(w, 1, n) /\ c = SubSeq(w, 1, m)
  OBVIOUS
<1>2. n \in 0 .. Len(w) /\ n \in Nat /\ m \in Nat /\ n <= m /\ from \in 1 .. m
  OBVIOUS
<1>3. /\ d \in Seq(Atoms) /\ Len(d) = n /\ \A i \in 1 .. n : d[i] = w[i]
      /\ c \in Seq(Atoms) /\ Len(c) = m /\ \A i \in 1 .. m : c[i] = w[i]
  BY <1>1, <1>2, PrefixFacts
<1>4. PICK e \in from .. n : w[e] = "lf" /\ FirstEnd(d, from, e) /\ h = Infused(r, w, n, from, e)
  BY <1>0, <1>1, <1>2, HeaderFacts
<1>5. PICK f \in from .. m : w[f] = "lf" /\ FirstEnd(c, from, f)
                           /\ Header_infuse(r, c) = Infused(r, w, m, from, f)
  BY <1>1, <1>2, HeaderFacts
<1>6. PICK g, b : g = get_line(d, e) /\ b = EmptyLine(d, e, g)
  OBVIOUS
<1>7. g \in Nat /\ IsLine(d, e, g) /\ e \in Nat /\ b \in BOOLEAN
  <2>1. e \in Nat
    BY <1>2
  <2>2. g \in Nat /\ IsLine(d, e, g)
    BY <1>3, <1>6, <2>1, GetLine
  <2>3. b \in BOOLEAN
    BY <1>6 DEF EmptyLine
  <2> QED
    BY <2>1, <2>2, <2>3
<1>8. PICK a : a = AttrOf(w, from, e, r.attr)
  OBVIOUS
<1>9. a \in Nat
  <2>1. r.attr \in Nat /\ from \in Nat
    BY <1>2 DEF ReqType
  <2> QED
    BY <1>7, <1>8, <2>1, AttrType
<1>10. h = [r EXCEPT !.parsed = e + g, !.header = b, !.attr = a]
  BY <1>1, <1>4, <1>6, <1>8, Zenon DEF Infused
<1>11. h \in ReqType /\ h.parsed = e + g /\ h.header = b /\ h.attr = a
  <2>1. PICK t \in Nat : t = e + g
    BY <1>7
  <2>2. h = [r EXCEPT !.parsed = t, !.header = b, !.attr = a]
    BY <1>10, <2>1, Zenon
  <2>3. r \in ReqType /\ b \in BOOLEAN
    BY <1>7
  <2>4. UpdatedTo(h, t, b, a)
    <3>1. t \in Nat
      BY <2>1
    <3>2. UpdatedTo([r EXCEPT !.parsed = t, !.header = b, !.attr = a], t, b, a)
      BY ONLY <1>9, <2>3, <3>1, ReqUpdate, Zenon
    <3> QED
      BY ONLY <2>2, <3>2, Zenon
  <2> QED
    BY <2>1, <2>4 DEF UpdatedTo
<1>12. h.parsed \in from .. n
  BY <1>2, <1>3, <1>7, <1>11 DEF IsLine
<1>13. h = [r EXCEPT !.parsed = h.parsed, !.header = h.header, !.attr = h.attr]
  BY <1>10, <1>11, Zenon
<1>14. \A q \in Nat : get_line(d, q) # 0 => get_line(c, q) = get_line(d, q)
  BY <1>1, LineStays
<1>15. \A q \in Nat : get_line(d, q) # 0 => (Ends(c, q) <=> Ends(d, q))
                                         /\ (EmptyLine(c, q, get_line(d, q)) <=> EmptyLine(d, q, get_line(d, q)))
  <2> TAKE q \in Nat
  <2> HAVE get_line(d, q) # 0
  <2>1. PICK l : l = get_line(d, q)
    OBVIOUS
  <2>2. IsLine(d, q, l) /\ l \in Nat /\ l # 0
    BY <1>3, <2>1, GetLine
  <2>3. q + 1 \in 1 .. n /\ q + 1 \in 1 .. m
    BY <1>2, <1>3, <2>2 DEF IsLine
  <2>4. d[q + 1] = c[q + 1]
    BY <1>3, <2>3
  <2>5. EmptyLine(c, q, l) <=> EmptyLine(d, q, l)
    BY <2>4 DEF EmptyLine
  <2> QED
    BY <1>14, <2>1, <2>5 DEF Ends
<1>16. LineStarts(d, from) = {q \in LineStarts(c, from) : q <= n}
  BY <1>2, <1>3 DEF LineStarts
<1>17. \A q \in LineStarts(c, from) : q < e => q \in Nat /\ get_line(d, q) # 0 /\ ~ Ends(c, q)
  <2> TAKE q \in LineStarts(c, from)
  <2> HAVE q < e
  <2>1. q \in Nat /\ q <= n
    BY <1>2, <1>3, <1>7 DEF LineStarts
  <2>2. q \in LineStarts(d, from) /\ ~ (e <= q)
    BY <1>7, <1>16, <2>1
  <2>3. ~ Ends(d, q)
    BY <1>4, <2>2 DEF FirstEnd
  <2>4. get_line(d, q) # 0
    BY <2>3 DEF Ends
  <2> QED
    BY <1>15, <2>1, <2>3, <2>4
<1>18. e \in LineStarts(c, from)
  BY <1>4, <1>16 DEF FirstEnd
<1>19. ASSUME h.header PROVE Header_infuse(r, c) = h
  <2>1. b /\ g # 0
    <3>1. b
      BY <1>11, <1>19
    <3>2. EmptyLine(d, e, g)
      BY <1>6, <3>1
    <3> QED
      BY <3>1, <3>2 DEF EmptyLine
  <2>2. Ends(c, e) /\ get_line(c, e) = g /\ (EmptyLine(c, e, g) <=> EmptyLine(d, e, g))
    <3>1. Ends(d, e)
      BY <1>4 DEF FirstEnd
    <3> QED
      BY <1>6, <1>7, <1>14, <1>15, <2>1, <3>1
  <2>3. FirstEnd(c, from, e)
    <3>1. \A q \in LineStarts(c, from) : q \in Nat
      BY <1>2, <1>3 DEF LineStarts
    <3>2. \A q \in LineStarts(c, from) : Ends(c, q) => e <= q
      BY <1>7, <1>17, <3>1
    <3> QED
      BY <1>18, <2>2, <3>2 DEF FirstEnd
  <2>4. e = f
    <3>1. from \in 0 .. Len(c)
      BY <1>2, <1>3
    <3> QED
      BY <1>3, <1>5, <2>3, <3>1, FirstEndUnique
  <2>5. EmptyLine(c, e, g) = b
    BY <1>6, <2>2, Zenon DEF EmptyLine
  <2>6. Infused(r, w, m, from, f) = [r EXCEPT !.parsed = e + g, !.header = b, !.attr = a]
    BY <1>1, <1>8, <2>2, <2>4, <2>5, Zenon DEF Infused
  <2> QED
    BY <1>5, <1>10, <2>6
<1>20. ASSUME ~ h.header PROVE Header_infuse(h, c) = Header_infuse(r, c)
  <2>1. ~ b
    BY <1>11, <1>20
  <2>2. g = 0
    BY <1>4, <1>6, <2>1, Zenon DEF FirstEnd, Ends
  <2>3. h.parsed = e /\ e \in 1 .. m
    BY <1>2, <1>7, <1>11, <2>2
  <2>4. PICK k \in e .. m : w[k] = "lf" /\ FirstEnd(c, e, k)
                          /\ Header_infuse(h, c) = Infused(h, w, m, e, k)
    BY <1>1, <1>4, <2>3, HeaderFacts
  <2>5. LineStarts(c, e) = {q \in LineStarts(c, from) : e <= q}
    BY <1>2, <1>3, <1>4, <2>3, <1>18 DEF LineStarts
  <2>6. FirstEnd(c, from, k)
    <3>1. k \in LineStarts(c, from) /\ Ends(c, k)
      BY <2>4, <2>5 DEF FirstEnd
    <3>2. ASSUME NEW q \in LineStarts(c, from), Ends(c, q) PROVE k <= q
      <4>1. q \in Nat
        BY <1>2, <1>3 DEF LineStarts
      <4>2. e <= q
        BY <1>7, <1>17, <3>2, <4>1
      <4>3. q \in LineStarts(c, e)
        BY <2>5, <4>2
      <4> QED
        BY <2>4, <3>2, <4>3 DEF FirstEnd
    <3> QED
      BY <3>1, <3>2 DEF FirstEnd
  <2>7. k = f
    <3>1. from \in 0 .. Len(c)
      BY <1>2, <1>3
    <3> QED
      BY <1>3, <1>5, <2>6, <3>1, FirstEndUnique
  <2>8. AttrOf(w, e, k, a) = AttrOf(w, from, k, r.attr)
    <3>1. k \in Nat /\ from \in Nat /\ from <= e /\ e <= k
      BY <1>2, <1>7, <2>4
    <3> QED
      BY <1>7, <1>8, <3>1, AttrSplit
  <2>9. PICK x, y, z : x = k + get_line(c, k) /\ y = EmptyLine(c, k, get_line(c, k)) /\ z = AttrOf(w, e, k, a)
    OBVIOUS
  <2>10. Infused(h, w, m, e, k) = [h EXCEPT !.parsed = x, !.header = y, !.attr = z]
    BY <1>1, <1>11, <2>9, Zenon DEF Infused
  <2>11. Infused(r, w, m, from, f) = [r EXCEPT !.parsed = x, !.header = y, !.attr = z]
    BY <1>1, <2>7, <2>8, <2>9, Zenon DEF Infused
  <2>12. [h EXCEPT !.parsed = x, !.header = y, !.attr = z] = [r EXCEPT !.parsed = x, !.header = y, !.attr = z]
    BY <1>10 DEF ReqType
  <2> QED
    BY <1>5, <2>4, <2>10, <2>11, <2>12
<1>21. Continued(r, h, n, c)
  BY <1>11, <1>12, <1>13, <1>19, <1>20 DEF Continued
<1> QED
  BY <1>0, <1>1, <1>21

-----------------------------------------------------------------------------
(* The body.                                                               *)

SmallerOf(a, b) == IF a <= b THEN a ELSE b

(* A body of this length, filled as far as k atoms of data allow.          *)
Filled(s, base, k) ==
    [line |-> s.line, header |-> s.header, attr |-> s.attr, length |-> s.length,
     infused |-> SmallerOf(k - base, s.length),
     parsed |-> base + SmallerOf(k - base, s.length),
     offset |-> s.offset, attached |-> s.attached,
     inited |-> s.length <= SmallerOf(k - base, s.length)]

LEMMA ReqEta ==
    ASSUME NEW s \in ReqType
    PROVE  s = [line |-> s.line, header |-> s.header, attr |-> s.attr, length |-> s.length,
                infused |-> s.infused, parsed |-> s.parsed, offset |-> s.offset,
                attached |-> s.attached, inited |-> s.inited]
BY DEF ReqType

LEMMA BodyStep ==
    ASSUME NEW s \in ReqType, NEW base \in Nat, NEW data, Len(data) \in Nat,
           s.infused <= s.length, s.parsed = base + s.infused, s.parsed <= Len(data)
    PROVE  Req_inited(Body_input(s, data)) = Filled(s, base, Len(data))
<1>1. PICK k, u : k = Len(data) /\ u = SmallerOf(k - base, s.length)
  OBVIOUS
<1>2. k \in Nat /\ s.length \in Nat /\ s.infused \in Nat /\ s.parsed \in Nat
  BY <1>1 DEF ReqType
<1>3. PICK b : b = Body_input(s, data)
  OBVIOUS
<1>4. u \in Nat /\ (s.length <= s.infused => u = s.infused)
  BY <1>1, <1>2 DEF SmallerOf
<1>5. b = [line |-> s.line, header |-> s.header, attr |-> s.attr, length |-> s.length,
           infused |-> u, parsed |-> base + u, offset |-> s.offset,
           attached |-> s.attached, inited |-> s.inited]
  <2>1. CASE s.length <= s.infused
    <3>1. b = s
      BY <1>3, <2>1 DEF Body_input, BodyFull
    <3>2. u = s.infused /\ base + u = s.parsed
      BY <1>2, <1>4, <2>1
    <3> QED
      BY <3>1, <3>2, ReqEta
  <2>2. CASE ~ (s.length <= s.infused)
    <3>1. PICK x : x = IF k - s.parsed + s.infused <= s.length THEN k - s.parsed ELSE s.length - s.infused
      OBVIOUS
    <3>2. b = [s EXCEPT !.infused = s.infused + x, !.parsed = s.parsed + x]
      BY <1>1, <1>3, <2>2, <3>1, Zenon DEF Body_input, BodyFull, Body_infuse
    <3>3. s.infused + x = u /\ s.parsed + x = base + u
      <4>1. PICK a, l, q : a = s.infused /\ l = s.length /\ q = s.parsed
        OBVIOUS
      <4>2. a \in Nat /\ l \in Nat /\ q \in Nat /\ k \in Nat /\ a < l /\ q = base + a /\ q <= k
        BY <1>1, <1>2, <2>2, <4>1
      <4>3. x = (IF k - q + a <= l THEN k - q ELSE l - a) /\ u = IF k - base <= l THEN k - base ELSE l
        BY <1>1, <3>1, <4>1 DEF SmallerOf
      <4>4. a + x = u /\ q + x = base + u
        BY <4>2, <4>3
      <4> QED
        BY <4>1, <4>4
    <3>4. b = [s EXCEPT !.infused = u, !.parsed = base + u]
      BY <3>2, <3>3, Zenon
    <3> QED
      BY <3>4 DEF ReqType
  <2> QED
    BY <2>1, <2>2
<1>6. Req_inited(b) = [b EXCEPT !.inited = BodyFull(b)]
  BY DEF Req_inited
<1>7. BodyFull(b) = (s.length <= u)
  BY <1>5, Zenon DEF BodyFull
<1>8. Req_inited(b) = [b EXCEPT !.inited = (s.length <= u)]
  BY <1>6, <1>7, Zenon
<1>9. [b EXCEPT !.inited = (s.length <= u)]
       = [line |-> s.line, header |-> s.header, attr |-> s.attr, length |-> s.length,
           infused |-> u, parsed |-> base + u, offset |-> s.offset,
           attached |-> s.attached, inited |-> s.length <= u]
  BY <1>5
<1> QED
  BY <1>1, <1>3, <1>8, <1>9, Zenon DEF Filled

-----------------------------------------------------------------------------
(* input.                                                                  *)

(* The object after a request line of g atoms.                             *)
AfterLine(g) ==
    [line |-> TRUE, header |-> FALSE, attr |-> 0, length |-> Unset, infused |-> 0,
     parsed |-> g, offset |-> 0, attached |-> FALSE, inited |-> FALSE]

Method(text) == text \in {"get", "post", "qqpost"}

LEMMA ReqUpdates ==
    ASSUME NEW s \in ReqType
    PROVE  /\ \A x : [s EXCEPT !.attached = x] =
               [line |-> s.line, header |-> s.header, attr |-> s.attr, length |-> s.length,
                infused |-> s.infused, parsed |-> s.parsed, offset |-> s.offset,
                attached |-> x, inited |-> s.inited]
           /\ \A x \in BOOLEAN, p \in Nat : [s EXCEPT !.line = x, !.parsed = p] =
               [line |-> x, header |-> s.header, attr |-> s.attr, length |-> s.length,
                infused |-> s.infused, parsed |-> p, offset |-> s.offset,
                attached |-> s.attached, inited |-> s.inited]
<1>1. \A x : [s EXCEPT !.attached = x] =
               [line |-> s.line, header |-> s.header, attr |-> s.attr, length |-> s.length,
                infused |-> s.infused, parsed |-> s.parsed, offset |-> s.offset,
                attached |-> x, inited |-> s.inited]
  BY DEF ReqType
<1>2. \A x \in BOOLEAN, p \in Nat : [s EXCEPT !.line = x, !.parsed = p] =
               [line |-> x, header |-> s.header, attr |-> s.attr, length |-> s.length,
                infused |-> s.infused, parsed |-> p, offset |-> s.offset,
                attached |-> s.attached, inited |-> s.inited]
  <2> TAKE x \in BOOLEAN, p \in Nat
  <2>1. PICK h : h = [s EXCEPT !.line = x, !.parsed = p]
    OBVIOUS
  <2>2. h = [line |-> x, header |-> s.header, attr |-> s.attr, length |-> s.length,
             infused |-> s.infused, parsed |-> p, offset |-> s.offset,
             attached |-> s.attached, inited |-> s.inited]
    BY <2>1 DEF ReqType
  <2> QED
    BY <2>1, <2>2
<1> QED
  BY <1>1, <1>2

LEMMA NewReqFacts ==
    /\ CHttpReq \in ReqType
    /\ CHttpReq.line = FALSE /\ CHttpReq.header = FALSE /\ CHttpReq.attr = 0
    /\ CHttpReq.length = Unset /\ CHttpReq.infused = 0 /\ CHttpReq.parsed = 0
    /\ CHttpReq.offset = 0 /\ CHttpReq.attached = FALSE /\ CHttpReq.inited = FALSE
    /\ [CHttpReq EXCEPT !.attached = FALSE] = CHttpReq
<1>1. Unset \in Nat
  BY HttpRequestAssumption DEF Unset
<1>2. CHttpReq \in ReqType
  BY <1>1 DEF CHttpReq, ReqType
<1>3. /\ CHttpReq.line = FALSE /\ CHttpReq.header = FALSE /\ CHttpReq.attr = 0
      /\ CHttpReq.length = Unset /\ CHttpReq.infused = 0 /\ CHttpReq.parsed = 0
      /\ CHttpReq.offset = 0 /\ CHttpReq.attached = FALSE /\ CHttpReq.inited = FALSE
  BY Zenon DEF CHttpReq
<1>4. [CHttpReq EXCEPT !.attached = FALSE] = CHttpReq
  BY <1>2, <1>3, ReqUpdates, Zenon DEF CHttpReq
<1> QED
  BY <1>2, <1>3, <1>4

LEMMA DecodeFacts ==
    ASSUME NEW d \in Seq(Atoms), NEW g, g = get_line(d, 0)
    PROVE  /\ g = 0 => Parsed(d) = [r |-> CHttpReq, ret |-> "ok"]
           /\ g # 0 /\ ~ Method(d[1]) =>
                  Parsed(d) = [r |-> CHttpReq, ret |-> "C_HTTP_ERR_INVALID_REQUEST_LINE"]
           /\ g # 0 /\ Method(d[1]) =>
                  Parsed(d) = [r |-> input_body(Header_infuse(AfterLine(g), d), FALSE, d),
                                    ret |-> "ok"]
<1>1. [CHttpReq EXCEPT !.attached = FALSE] = CHttpReq /\ CHttpReq.line = FALSE /\ CHttpReq.parsed = 0
  BY NewReqFacts
<1>2. Parsed(d) = input_header(RequestLine_infuse(CHttpReq, d), d)
  BY <1>1, Zenon DEF Parsed, input
<1>3. get_line(d, CHttpReq.parsed) = g /\ CHttpReq.parsed + 1 = 1
  BY <1>1
<1>4. CASE g = 0
  <2>1. RequestLine_infuse(CHttpReq, d) = [r |-> CHttpReq, ret |-> "ok"]
    BY <1>3, <1>4 DEF RequestLine_infuse
  <2> QED
    BY <1>1, <1>2, <1>4, <2>1 DEF input_header
<1>5. CASE g # 0 /\ ~ Method(d[1])
  <2>1. RequestLine_infuse(CHttpReq, d) = [r |-> CHttpReq, ret |-> "C_HTTP_ERR_INVALID_REQUEST_LINE"]
    BY <1>3, <1>5 DEF RequestLine_infuse, Method
  <2> QED
    BY <1>1, <1>2, <1>5, <2>1 DEF input_header
<1>6. CASE g # 0 /\ Method(d[1])
  <2>1. g \in Nat
    BY GetLine
  <2>2. [CHttpReq EXCEPT !.line = TRUE, !.parsed = CHttpReq.parsed + g] = AfterLine(g)
    <3>1. CHttpReq.parsed + g = g
      BY <1>1, <2>1
    <3>2. PICK s : s = CHttpReq
      OBVIOUS
    <3>3. /\ s \in ReqType /\ s.header = FALSE /\ s.attr = 0 /\ s.length = Unset /\ s.infused = 0
          /\ s.offset = 0 /\ s.attached = FALSE /\ s.inited = FALSE
      BY <3>2, NewReqFacts
    <3>4. [s EXCEPT !.line = TRUE, !.parsed = g] =
               [line |-> TRUE, header |-> s.header, attr |-> s.attr, length |-> s.length,
                infused |-> s.infused, parsed |-> g, offset |-> s.offset,
                attached |-> s.attached, inited |-> s.inited]
      BY ONLY <2>1, <3>3, ReqUpdates, Zenon
    <3>5. [s EXCEPT !.line = TRUE, !.parsed = g] = AfterLine(g)
      BY ONLY <3>3, <3>4, Zenon DEF AfterLine
    <3> QED
      BY <3>1, <3>2, <3>5, Zenon
  <2>3. RequestLine_infuse(CHttpReq, d) = [r |-> AfterLine(g), ret |-> "ok"]
    BY <1>3, <1>6, <2>2 DEF RequestLine_infuse, Method
  <2>4. PICK l : l = [r |-> AfterLine(g), ret |-> "ok"]
    OBVIOUS
  <2>5. l.ret = "ok" /\ l.r = AfterLine(g) /\ l.r.line /\ l.r.header = FALSE
    BY <2>4 DEF AfterLine
  <2>6. input_header(l, d) = [l EXCEPT !.r = input_body(Header_infuse(AfterLine(g), d), FALSE, d)]
    BY <2>5, Zenon DEF input_header
  <2>7. Parsed(d) = [l EXCEPT !.r = input_body(Header_infuse(AfterLine(g), d), FALSE, d)]
    BY <1>2, <2>3, <2>4, <2>6
  <2> QED
    BY <1>6, <2>4, <2>7
<1> QED
  BY <1>4, <1>5, <1>6

(* Whether the body is in the buffer makes no difference to input.         *)
LEMMA InputMask ==
    ASSUME NEW r \in ReqType, NEW x, NEW d
    PROVE  input([r EXCEPT !.attached = x], d) = input(r, d)
<1>1. [[r EXCEPT !.attached = x] EXCEPT !.attached = FALSE] = [r EXCEPT !.attached = FALSE]
  BY DEF ReqType
<1> QED
  BY <1>1, Zenon DEF input

(* Once the request line is there.                                         *)
InputFrom(r, d) ==
    [r |-> input_body(IF r.header THEN r ELSE Header_infuse(r, d), r.header, d), ret |-> "ok"]

LEMMA InputLater ==
    ASSUME NEW q \in ReqType, q.line, NEW d
    PROVE  input(q, d) = InputFrom([q EXCEPT !.attached = FALSE], d)
<1>0. PICK r : r = [q EXCEPT !.attached = FALSE]
  OBVIOUS
<1>1. r.line
  BY <1>0 DEF ReqType
<1>2. PICK l : l = [r |-> r, ret |-> "ok"]
  OBVIOUS
<1>3. l.ret = "ok" /\ l.r = r
  BY <1>2
<1>4. input(q, d) = input_header(l, d)
  BY <1>0, <1>1, <1>2, Zenon DEF input
<1>5. input_header(l, d) = [l EXCEPT !.r = input_body(IF r.header THEN r ELSE Header_infuse(r, d), r.header, d)]
  BY <1>1, <1>3, Zenon DEF input_header
<1>6. input(q, d) = [r |-> input_body(IF r.header THEN r ELSE Header_infuse(r, d), r.header, d), ret |-> "ok"]
  BY <1>2, <1>4, <1>5
<1> QED
  BY <1>0, <1>6 DEF InputFrom

(* What a call of input returns, up to whether the body is in the buffer.  *)
SameResult(i, j) == i.ret = j.ret /\ i.r = [j.r EXCEPT !.attached = i.r.attached]

LEMMA SameSelf ==
    ASSUME NEW q \in ReqType
    PROVE  q = [q EXCEPT !.attached = q.attached]
<1>1. [q EXCEPT !.attached = q.attached] =
         [line |-> q.line, header |-> q.header, attr |-> q.attr, length |-> q.length,
          infused |-> q.infused, parsed |-> q.parsed, offset |-> q.offset,
          attached |-> q.attached, inited |-> q.inited]
  BY ReqUpdates
<1> QED
  BY <1>1, ReqEta

(* The rest of input after a complete header, in two pieces and in one.    *)
BodyContinued(h, q, p, c) ==
    /\ q \in ReqType /\ p \in ReqType
    /\ q.line = h.line /\ q.header = h.header
    /\ Req_inited(Body_input([q EXCEPT !.attached = FALSE], c)) = [p EXCEPT !.attached = FALSE]

LEMMA BodyChunk ==
    ASSUME NEW h \in ReqType, h.infused = 0, NEW d, NEW c, Len(d) \in Nat, Len(c) \in Nat,
           h.parsed <= Len(d), Len(d) <= Len(c),
           NEW q, q = Req_inited(Body_input(Body_start(h), d)),
           NEW p, p = Req_inited(Body_input(Body_start(h), c))
    PROVE  BodyContinued(h, q, p, c)
<1>1. PICK b, base, n, m : b = Body_start(h) /\ base = h.parsed /\ n = Len(d) /\ m = Len(c)
  OBVIOUS
<1>2. b = [line |-> h.line, header |-> h.header, attr |-> h.attr, length |-> h.attr,
           infused |-> h.infused, parsed |-> h.parsed, offset |-> h.parsed,
           attached |-> TRUE, inited |-> h.inited]
  BY <1>1 DEF Body_start, ReqType
<1>3. /\ h.line \in BOOLEAN /\ h.header \in BOOLEAN /\ h.attr \in Nat /\ h.parsed \in Nat
      /\ h.infused \in Nat /\ h.inited \in BOOLEAN
  BY DEF ReqType
<1>4. b \in ReqType
  BY <1>2, <1>3 DEF ReqType
<1>5. /\ b.infused = 0 /\ b.length = h.attr /\ b.parsed = base /\ b.line = h.line
      /\ b.header = h.header /\ b.attr = h.attr /\ b.offset = base /\ b.attached = TRUE
  <2>1. h.infused = 0 /\ h.parsed = base
    BY <1>1
  <2> QED
    BY ONLY <1>2, <2>1, Zenon
<1>6. base \in Nat /\ n \in Nat /\ m \in Nat /\ base <= n /\ n <= m
  BY <1>1, <1>3
<1>7. b.infused <= b.length /\ b.parsed = base + b.infused /\ b.parsed <= Len(d) /\ b.parsed <= Len(c)
  BY <1>1, <1>3, <1>5, <1>6
<1>8. q = Filled(b, base, n) /\ p = Filled(b, base, m)
  BY <1>1, <1>4, <1>6, <1>7, BodyStep
<1>9. PICK u, v : u = SmallerOf(n - base, h.attr) /\ v = SmallerOf(m - base, h.attr)
  OBVIOUS
<1>10. u \in Nat /\ v \in Nat /\ u <= h.attr /\ base + u <= m
  BY <1>3, <1>6, <1>9 DEF SmallerOf
<1>11. q = [line |-> h.line, header |-> h.header, attr |-> h.attr, length |-> h.attr,
            infused |-> u, parsed |-> base + u, offset |-> base, attached |-> TRUE,
            inited |-> h.attr <= u]
  BY <1>5, <1>8, <1>9, Zenon DEF Filled
<1>12. p = [line |-> h.line, header |-> h.header, attr |-> h.attr, length |-> h.attr,
            infused |-> v, parsed |-> base + v, offset |-> base, attached |-> TRUE,
            inited |-> h.attr <= v]
  BY <1>5, <1>8, <1>9, Zenon DEF Filled
<1>13. q \in ReqType /\ p \in ReqType
  BY <1>3, <1>6, <1>10, <1>11, <1>12 DEF ReqType
<1>14. PICK s : s = [q EXCEPT !.attached = FALSE]
  OBVIOUS
<1>15. s = [line |-> h.line, header |-> h.header, attr |-> h.attr, length |-> h.attr,
            infused |-> u, parsed |-> base + u, offset |-> base, attached |-> FALSE,
            inited |-> h.attr <= u]
  <2>1. s = [line |-> q.line, header |-> q.header, attr |-> q.attr, length |-> q.length,
             infused |-> q.infused, parsed |-> q.parsed, offset |-> q.offset,
             attached |-> FALSE, inited |-> q.inited]
    BY ONLY <1>13, <1>14, ReqUpdates, Zenon
  <2> QED
    BY ONLY <1>11, <2>1, Zenon
<1>16. s \in ReqType
  BY <1>3, <1>6, <1>10, <1>15 DEF ReqType
<1>17. /\ s.infused = u /\ s.length = h.attr /\ s.parsed = base + u /\ s.line = h.line
       /\ s.header = h.header /\ s.attr = h.attr /\ s.offset = base /\ s.attached = FALSE
  BY ONLY <1>15, Zenon
<1>18. s.infused <= s.length /\ s.parsed = base + s.infused /\ s.parsed <= Len(c)
  BY <1>1, <1>10, <1>17
<1>19. Req_inited(Body_input(s, c)) = Filled(s, base, m)
  BY <1>1, <1>6, <1>16, <1>18, BodyStep
<1>20. Filled(s, base, m) = [line |-> h.line, header |-> h.header, attr |-> h.attr, length |-> h.attr,
            infused |-> v, parsed |-> base + v, offset |-> base, attached |-> FALSE,
            inited |-> h.attr <= v]
  BY <1>9, <1>17, Zenon DEF Filled
<1>21. [p EXCEPT !.attached = FALSE] = [line |-> h.line, header |-> h.header, attr |-> h.attr,
            length |-> h.attr, infused |-> v, parsed |-> base + v, offset |-> base,
            attached |-> FALSE, inited |-> h.attr <= v]
  <2>1. [p EXCEPT !.attached = FALSE] =
            [line |-> p.line, header |-> p.header, attr |-> p.attr, length |-> p.length,
             infused |-> p.infused, parsed |-> p.parsed, offset |-> p.offset,
             attached |-> FALSE, inited |-> p.inited]
    BY ONLY <1>13, ReqUpdates, Zenon
  <2> QED
    BY ONLY <1>12, <2>1, Zenon
<1>22. q.line = h.line /\ q.header = h.header
  BY ONLY <1>11, Zenon
<1> QED
  BY <1>13, <1>14, <1>19, <1>20, <1>21, <1>22 DEF BodyContinued

(* The two pieces of a message once its request line is complete.          *)
LineIn(w, g, d, n, c) ==
    /\ g \in 1 .. n /\ w[g] = "lf" /\ get_line(c, 0) = g
    /\ d[1] = w[1] /\ c[1] = w[1]
    /\ AfterLine(g) \in ReqType /\ AfterLine(g).parsed = g /\ AfterLine(g).infused = 0
    /\ AfterLine(g).attached = FALSE /\ AfterLine(g).line = TRUE
    /\ Continued(AfterLine(g), Header_infuse(AfterLine(g), d), n, c)

LEMMA LineThere ==
    ASSUME NEW w \in Seq(Atoms), ShortHead(w), "nocolon" \notin ToSet(w),
           NEW m \in 0 .. Len(w), NEW n \in 1 .. m, get_line(SubSeq(w, 1, n), 0) # 0
    PROVE  LineIn(w, get_line(SubSeq(w, 1, n), 0), SubSeq(w, 1, n), n, SubSeq(w, 1, m))
<1>0. PICK g : g = get_line(SubSeq(w, 1, n), 0)
  OBVIOUS
<1>1. PICK d, c : d = SubSeq(w, 1, n) /\ c = SubSeq(w, 1, m)
  OBVIOUS
<1>2. n \in 0 .. m /\ n \in 0 .. Len(w) /\ n \in Nat /\ m \in Nat /\ n <= m /\ 1 \in 1 .. n /\ 1 \in 1 .. m
  OBVIOUS
<1>3. /\ d \in Seq(Atoms) /\ Len(d) = n /\ \A i \in 1 .. n : d[i] = w[i]
      /\ c \in Seq(Atoms) /\ Len(c) = m /\ \A i \in 1 .. m : c[i] = w[i]
  BY <1>1, <1>2, PrefixFacts
<1>4. g \in Nat /\ IsLine(d, 0, g) /\ g # 0
  BY <1>0, <1>1, <1>3, GetLine
<1>5. g \in 1 .. n /\ w[g] = "lf"
  BY <1>2, <1>3, <1>4 DEF IsLine
<1>6. get_line(c, 0) = g
  BY <1>0, <1>1, <1>2, LineStays
<1>7. PICK l : l = AfterLine(g)
  OBVIOUS
<1>8. Unset \in Nat
  BY HttpRequestAssumption DEF Unset
<1>9. l \in ReqType
  BY <1>4, <1>7, <1>8 DEF AfterLine, ReqType
<1>10. l.parsed = g /\ l.line = TRUE /\ l.infused = 0 /\ l.attached = FALSE
  BY ONLY <1>7, Zenon DEF AfterLine
<1>11. Continued(l, Header_infuse(l, d), n, c)
  BY <1>1, <1>2, <1>5, <1>9, <1>10, HeaderChunk
<1>12. d[1] = w[1] /\ c[1] = w[1]
  BY <1>2, <1>3
<1>13. LineIn(w, g, d, n, c)
  BY <1>5, <1>6, <1>7, <1>9, <1>10, <1>11, <1>12 DEF LineIn
<1> QED
  BY <1>0, <1>1, <1>13

(* What the header leaves alone.                                           *)
LEMMA ContinuedFields ==
    ASSUME NEW r \in ReqType, NEW h, NEW n, NEW c, Continued(r, h, n, c)
    PROVE  h \in ReqType /\ h.line = r.line /\ h.infused = r.infused /\ h.attached = r.attached
BY DEF Continued, ReqType

LEMMA DecodeType ==
    ASSUME NEW w \in Seq(Atoms), ShortHead(w), "nocolon" \notin ToSet(w), NEW n \in 1 .. Len(w)
    PROVE  Parsed(SubSeq(w, 1, n)).r \in ReqType
<1>1. PICK d, g : d = SubSeq(w, 1, n) /\ g = get_line(d, 0)
  OBVIOUS
<1>2. d \in Seq(Atoms) /\ Len(d) = n /\ n \in Nat
  BY <1>1, PrefixFacts
<1>3. /\ g = 0 => Parsed(d) = [r |-> CHttpReq, ret |-> "ok"]
      /\ g # 0 /\ ~ Method(d[1]) =>
             Parsed(d) = [r |-> CHttpReq, ret |-> "C_HTTP_ERR_INVALID_REQUEST_LINE"]
      /\ g # 0 /\ Method(d[1]) =>
             Parsed(d) = [r |-> input_body(Header_infuse(AfterLine(g), d), FALSE, d), ret |-> "ok"]
  BY <1>1, <1>2, DecodeFacts
<1>4. CASE g = 0 \/ ~ Method(d[1])
  BY <1>1, <1>3, <1>4, NewReqFacts
<1>5. CASE g # 0 /\ Method(d[1])
  <2>1. PICK h : h = Header_infuse(AfterLine(g), d)
    OBVIOUS
  <2>2. /\ AfterLine(g) \in ReqType /\ AfterLine(g).infused = 0 /\ AfterLine(g).parsed = g /\ g \in 1 .. n
        /\ Continued(AfterLine(g), h, n, d)
    <3>1. n \in 0 .. Len(w) /\ n \in 1 .. n
      OBVIOUS
    <3> QED
      <4>1. LineIn(w, g, d, n, d)
        BY <1>1, <1>5, <3>1, LineThere
      <4> QED
        BY <2>1, <4>1 DEF LineIn
  <2>3. h \in ReqType /\ h.infused = 0
    BY <2>2, ContinuedFields
  <2>4. h.parsed <= Len(d) /\ Len(d) \in Nat
    BY <1>2, <2>2 DEF Continued
  <2>5. Parsed(d).r = input_body(h, FALSE, d)
    <3>1. Parsed(d) = [r |-> input_body(h, FALSE, d), ret |-> "ok"]
      BY ONLY <1>3, <1>5, <2>1, Zenon
    <3>2. PICK j : j = input_body(h, FALSE, d)
      OBVIOUS
    <3>3. Parsed(d) = [r |-> j, ret |-> "ok"]
      BY ONLY <3>1, <3>2, Zenon
    <3>4. Parsed(d).r = j
      BY ONLY <3>3
    <3> QED
      BY ONLY <3>2, <3>4, Zenon
  <2>6. CASE ~ h.header
    BY <1>1, <2>3, <2>5, <2>6 DEF input_body
  <2>7. CASE h.header
    <3>1. PICK q : q = Req_inited(Body_input(Body_start(h), d))
      OBVIOUS
    <3>2. Len(d) <= Len(d)
      BY <2>4
    <3>3. BodyContinued(h, q, q, d)
      BY <2>3, <2>4, <3>1, <3>2, BodyChunk
    <3>4. input_body(h, FALSE, d) = q
      BY <2>7, <3>1, Zenon DEF input_body
    <3> QED
      BY <1>1, <2>5, <3>3, <3>4 DEF BodyContinued
  <2> QED
    BY <2>6, <2>7
<1> QED
  BY <1>4, <1>5

(* A call of input after the first n atoms of a message, and one call with *)
(* all of them.                                                            *)
LEMMA InputChunk ==
    ASSUME NEW w \in Seq(Atoms), ShortHead(w), "nocolon" \notin ToSet(w),
           NEW m \in 0 .. Len(w), NEW n \in 1 .. m,
           Parsed(SubSeq(w, 1, n)).ret = "ok"
    PROVE  SameResult(input(Parsed(SubSeq(w, 1, n)).r, SubSeq(w, 1, m)),
                      Parsed(SubSeq(w, 1, m)))
<1>1. PICK d, c, q : d = SubSeq(w, 1, n) /\ c = SubSeq(w, 1, m) /\ q = Parsed(d).r
  OBVIOUS
<1>2. n \in 0 .. m /\ n \in 1 .. Len(w) /\ m \in 1 .. Len(w) /\ n \in Nat /\ m \in Nat /\ n <= m
  OBVIOUS
<1>3. d \in Seq(Atoms) /\ Len(d) = n /\ c \in Seq(Atoms) /\ Len(c) = m
  BY <1>1, <1>2, PrefixFacts
<1>4. PICK g : g = get_line(d, 0)
  OBVIOUS
<1>5. /\ g = 0 => Parsed(d) = [r |-> CHttpReq, ret |-> "ok"]
      /\ g # 0 /\ ~ Method(d[1]) =>
             Parsed(d) = [r |-> CHttpReq, ret |-> "C_HTTP_ERR_INVALID_REQUEST_LINE"]
      /\ g # 0 /\ Method(d[1]) =>
             Parsed(d) = [r |-> input_body(Header_infuse(AfterLine(g), d), FALSE, d), ret |-> "ok"]
  BY <1>3, <1>4, DecodeFacts
<1>6. q \in ReqType /\ Parsed(c).r \in ReqType
  BY <1>1, <1>2, DecodeType
<1>7. SameResult(Parsed(c), Parsed(c))
  BY <1>6, SameSelf DEF SameResult
<1>8. CASE g = 0
  <2>1. q = CHttpReq
    BY ONLY <1>1, <1>5, <1>8
  <2>2. input(q, c) = Parsed(c)
    BY <2>1 DEF Parsed
  <2> QED
    BY <1>1, <1>7, <2>2
<1>9. CASE g # 0
  <2>1. /\ g \in 1 .. n /\ get_line(c, 0) = g /\ d[1] = w[1] /\ c[1] = w[1]
        /\ AfterLine(g) \in ReqType /\ AfterLine(g).parsed = g /\ AfterLine(g).infused = 0
        /\ AfterLine(g).attached = FALSE /\ AfterLine(g).line = TRUE
        /\ Continued(AfterLine(g), Header_infuse(AfterLine(g), d), n, c)
    <3>1. LineIn(w, g, d, n, c)
      BY <1>1, <1>4, <1>9, LineThere
    <3> QED
      BY <3>1 DEF LineIn
  <2>2. Method(d[1]) /\ Method(c[1])
    <3>1. Parsed(d).ret = "ok"
      BY <1>1
    <3>2. Method(d[1])
      BY ONLY <1>5, <1>9, <3>1
    <3> QED
      BY <2>1, <3>2
  <2>3. PICK l, h : l = AfterLine(g) /\ h = Header_infuse(l, d)
    OBVIOUS
  <2>4. Parsed(c) = [r |-> input_body(Header_infuse(l, c), FALSE, c), ret |-> "ok"]
    BY <1>3, <1>9, <2>1, <2>2, <2>3, DecodeFacts
  <2>5. q = input_body(h, FALSE, d)
    <3>1. Parsed(d) = [r |-> input_body(h, FALSE, d), ret |-> "ok"]
      BY ONLY <1>5, <1>9, <2>2, <2>3, Zenon
    <3>2. q = Parsed(d).r
      BY <1>1
    <3>3. PICK j : j = input_body(h, FALSE, d)
      OBVIOUS
    <3>4. Parsed(d) = [r |-> j, ret |-> "ok"]
      BY ONLY <3>1, <3>3, Zenon
    <3>5. Parsed(d).r = j
      BY ONLY <3>4
    <3> QED
      BY ONLY <3>2, <3>3, <3>5, Zenon
  <2>6. h \in ReqType /\ h.line = TRUE /\ h.infused = 0 /\ h.attached = FALSE
    BY <2>1, <2>3, ContinuedFields
  <2>7. /\ h.parsed \in g .. n
        /\ h.header => Header_infuse(l, c) = h
        /\ ~ h.header => Header_infuse(h, c) = Header_infuse(l, c)
    BY <2>1, <2>3 DEF Continued
  <2>8. CASE ~ h.header
    <3>1. q = h
      BY <2>5, <2>8 DEF input_body
    <3>2. [q EXCEPT !.attached = FALSE] = q
      BY <2>6, <3>1, SameSelf, Zenon
    <3>3. input(q, c) = InputFrom(q, c)
      BY <2>6, <3>1, <3>2, InputLater
    <3>4. q.header = FALSE
      BY <2>6, <2>8, <3>1 DEF ReqType
    <3>5. InputFrom(q, c) = Parsed(c)
      BY ONLY <2>4, <2>7, <2>8, <3>1, <3>4, Zenon DEF InputFrom
    <3> QED
      BY <1>1, <1>7, <3>3, <3>5
  <2>9. CASE h.header
    <3>1. PICK p : p = Req_inited(Body_input(Body_start(h), c))
      OBVIOUS
    <3>2. q = Req_inited(Body_input(Body_start(h), d))
      BY ONLY <2>5, <2>9, Zenon DEF input_body
    <3>3. Parsed(c) = [r |-> p, ret |-> "ok"]
      BY ONLY <2>4, <2>7, <2>9, <3>1, Zenon DEF input_body
    <3>4. Len(d) \in Nat /\ Len(c) \in Nat /\ Len(d) <= Len(c) /\ h.parsed <= Len(d)
      BY <1>2, <1>3, <2>7
    <3>5. BodyContinued(h, q, p, c)
      BY <2>6, <3>1, <3>2, <3>4, BodyChunk
    <3>6. PICK r : r = [q EXCEPT !.attached = FALSE]
      OBVIOUS
    <3>7. r.header = q.header /\ q.header = h.header /\ q.line = h.line
      BY <1>6, <3>5, <3>6 DEF ReqType, BodyContinued
    <3>8. input(q, c) = InputFrom(r, c)
      BY <1>6, <2>6, <3>6, <3>7, InputLater
    <3>9. InputFrom(r, c) = [r |-> Req_inited(Body_input(r, c)), ret |-> "ok"]
      BY ONLY <2>9, <3>7, Zenon DEF input_body, InputFrom
    <3>10. input(q, c) = [r |-> [p EXCEPT !.attached = FALSE], ret |-> "ok"]
      BY <3>5, <3>6, <3>8, <3>9 DEF BodyContinued
    <3>11. p \in ReqType
      BY <3>5 DEF BodyContinued
    <3>12. [p EXCEPT !.attached = FALSE].attached = FALSE
      BY <3>11 DEF ReqType
    <3>13. SameResult([r |-> [p EXCEPT !.attached = FALSE], ret |-> "ok"], [r |-> p, ret |-> "ok"])
      BY <3>12 DEF SameResult
    <3> QED
      BY <1>1, <3>3, <3>10, <3>13
  <2> QED
    BY <2>8, <2>9
<1> QED
  BY <1>8, <1>9

-----------------------------------------------------------------------------
(* The messages.                                                           *)

(* Lines that end in LF, or in CR LF, then the empty line and the body.    *)
LfLines(w, k) ==
    /\ w[1] \in FirstTexts
    /\ \A i \in 1 .. 2 * k : IF i % 2 = 1 THEN i > 1 => w[i] \in HeaderTexts ELSE w[i] = "lf"

LfShape(w, k) ==
    /\ w \in Seq(Atoms) /\ k \in Nat \ {0} /\ Len(w) >= 2 * k + 1
    /\ LfLines(w, k) /\ w[2 * k + 1] = "lf"
    /\ \A i \in 2 * k + 2 .. Len(w) : w[i] = "b"

MixedShape(w, k) ==
    /\ w \in Seq(Atoms) /\ k \in Nat \ {0} /\ Len(w) >= 2 * k + 2
    /\ LfLines(w, k) /\ w[2 * k + 1] = "cr" /\ w[2 * k + 2] = "lf"
    /\ \A i \in 2 * k + 3 .. Len(w) : w[i] = "b"

CrLfShape(w, k) ==
    /\ w \in Seq(Atoms) /\ k \in Nat \ {0} /\ Len(w) >= 3 * k + 2
    /\ w[1] \in FirstTexts
    /\ \A i \in 1 .. 3 * k : IF i % 3 = 1 THEN i > 1 => w[i] \in HeaderTexts
                              ELSE IF i % 3 = 2 THEN w[i] = "cr" ELSE w[i] = "lf"
    /\ w[3 * k + 1] = "cr" /\ w[3 * k + 2] = "lf"
    /\ \A i \in 3 * k + 3 .. Len(w) : w[i] = "b"

LEMMA OneAtom ==
    ASSUME NEW T, NEW x \in T
    PROVE  <<x>> \in Seq(T) /\ Len(<<x>>) = 1 /\ <<x>>[1] = x
OBVIOUS

LEMMA SeqOfArray ==
    ASSUME NEW T, NEW n \in Nat, NEW f \in [1 .. n -> T]
    PROVE  f \in Seq(T) /\ Len(f) = n
OBVIOUS

Joined(s, T, a, b, c) ==
    /\ s \in Seq(T) /\ Len(s) = Len(a) + Len(b) + Len(c)
    /\ \A i \in 1 .. Len(a) : s[i] = a[i]
    /\ \A i \in 1 .. Len(b) : s[Len(a) + i] = b[i]
    /\ \A i \in 1 .. Len(c) : s[Len(a) + Len(b) + i] = c[i]

LEMMA ThreeParts ==
    ASSUME NEW T, NEW a \in Seq(T), NEW b \in Seq(T), NEW c \in Seq(T)
    PROVE  Joined(a \o b \o c, T, a, b, c)
<1>1. PICK d : d = a \o b
  OBVIOUS
<1>2. Len(a) \in Nat /\ Len(b) \in Nat /\ Len(c) \in Nat
  OBVIOUS
<1>3. /\ d \in Seq(T) /\ Len(d) = Len(a) + Len(b)
      /\ \A i \in 1 .. Len(a) + Len(b) : d[i] = IF i <= Len(a) THEN a[i] ELSE b[i - Len(a)]
  BY <1>1, ConcatProperties
<1>4. PICK e : e = d \o c
  OBVIOUS
<1>5. /\ e \in Seq(T) /\ Len(e) = Len(d) + Len(c)
      /\ \A i \in 1 .. Len(d) + Len(c) : e[i] = IF i <= Len(d) THEN d[i] ELSE c[i - Len(d)]
  <2>1. d \in Seq(T) /\ c \in Seq(T)
    BY <1>3
  <2>2. /\ d \o c \in Seq(T) /\ Len(d \o c) = Len(d) + Len(c)
        /\ \A i \in 1 .. Len(d) + Len(c) : (d \o c)[i] = IF i <= Len(d) THEN d[i] ELSE c[i - Len(d)]
    BY ONLY <2>1, ConcatProperties
  <2> QED
    BY ONLY <1>4, <2>2, Zenon
<1>6. \A i \in 1 .. Len(a) : e[i] = a[i]
  BY <1>2, <1>3, <1>5
<1>7. \A i \in 1 .. Len(b) : e[Len(a) + i] = b[i]
  <2> TAKE i \in 1 .. Len(b)
  <2>1. /\ Len(a) + i \in 1 .. Len(a) + Len(b) /\ ~ (Len(a) + i <= Len(a)) /\ Len(a) + i - Len(a) = i
        /\ Len(a) + i \in 1 .. Len(d) + Len(c) /\ Len(a) + i <= Len(d)
    BY <1>2, <1>3
  <2> QED
    BY <1>3, <1>5, <2>1
<1>8. \A i \in 1 .. Len(c) : e[Len(a) + Len(b) + i] = c[i]
  <2> TAKE i \in 1 .. Len(c)
  <2>1. /\ Len(a) + Len(b) + i \in 1 .. Len(d) + Len(c) /\ ~ (Len(a) + Len(b) + i <= Len(d))
        /\ Len(a) + Len(b) + i - Len(d) = i
    BY <1>2, <1>3
  <2> QED
    BY <1>5, <2>1
<1>9. Len(e) = Len(a) + Len(b) + Len(c)
  BY <1>3, <1>5
<1>10. Joined(e, T, a, b, c)
  BY <1>5, <1>6, <1>7, <1>8, <1>9 DEF Joined
<1> QED
  BY ONLY <1>1, <1>4, <1>10, Zenon

(* The texts of the lines.                                                 *)
LEMMA LinesFacts ==
    ASSUME NEW first \in RequestLines, NEW headers \in HeaderLists
    PROVE  \E k \in Nat \ {0} :
             /\ <<first>> \o headers \in Seq(Atoms) /\ Len(<<first>> \o headers) = k
             /\ (<<first>> \o headers)[1] \in FirstTexts
             /\ \A j \in 2 .. k : (<<first>> \o headers)[j] \in HeaderTexts
<1>1. PICK n \in 0 .. MaxHeaders : headers \in [1 .. n -> HeaderLines]
  BY DEF HeaderLists
<1>2. n \in Nat /\ HeaderLines \subseteq HeaderTexts /\ RequestLines \subseteq FirstTexts
  BY HttpRequestAssumption DEF HeaderTexts, FirstTexts
<1>3. headers \in [1 .. n -> Atoms] /\ \A j \in 1 .. n : headers[j] \in HeaderTexts
  <2>1. \A j \in 1 .. n : headers[j] \in HeaderTexts
    BY <1>1, <1>2
  <2>2. \A j \in 1 .. n : headers[j] \in Atoms
    BY <2>1, TextsAreAtoms
  <2> QED
    BY <1>1, <2>1, <2>2
<1>4. headers \in Seq(Atoms) /\ Len(headers) = n
  BY <1>2, <1>3, SeqOfArray
<1>5. first \in Atoms /\ first \in FirstTexts
  BY <1>2, TextsAreAtoms
<1>6. PICK l : l = <<first>> \o headers
  OBVIOUS
<1>7. <<first>> \in Seq(Atoms) /\ Len(<<first>>) = 1 /\ <<first>>[1] = first
  BY <1>5, OneAtom
<1>8. /\ l \in Seq(Atoms) /\ Len(l) = 1 + n
      /\ \A i \in 1 .. 1 + n : l[i] = IF i <= 1 THEN <<first>>[i] ELSE headers[i - 1]
  BY <1>4, <1>6, <1>7, ConcatProperties
<1>9. l[1] = first /\ \A j \in 2 .. n + 1 : l[j] = headers[j - 1] /\ j - 1 \in 1 .. n
  BY <1>2, <1>7, <1>8
<1>10. n + 1 \in Nat \ {0} /\ Len(l) = n + 1
  BY <1>2, <1>8
<1> QED
  BY <1>3, <1>5, <1>6, <1>8, <1>9, <1>10

(* The lines of a message as one array, by the length of a line.           *)
LineArray(lines, tail, size) ==
    [i \in 1 .. size * Len(lines) |->
        IF i % size = 1 THEN lines[1 + (i - 1) \div size] ELSE tail[(i - 1) % size]]

LEMMA MessageParts ==
    ASSUME NEW first, NEW headers, NEW style, NEW body
    PROVE  Message(first, headers, style, body) =
             LineArray(<<first>> \o headers, LineEnd(style), 1 + Len(LineEnd(style)))
             \o LineEnd(IF style = "mixed" THEN "crlf" ELSE style) \o [i \in 1 .. body |-> "b"]
BY Zenon DEF Message, LineArray

(* The atoms of lines that end in LF, and in CR LF.                        *)
LEMMA LfArray ==
    ASSUME NEW lines \in Seq(Atoms), NEW k \in Nat \ {0}, Len(lines) = k, lines[1] \in FirstTexts,
           \A j \in 2 .. k : lines[j] \in HeaderTexts, NEW a, a = LineArray(lines, <<"lf">>, 2)
    PROVE  /\ a \in Seq(Atoms) /\ Len(a) = 2 * k /\ a[1] \in FirstTexts
           /\ \A i \in 1 .. 2 * k : IF i % 2 = 1 THEN i > 1 => a[i] \in HeaderTexts ELSE a[i] = "lf"
<1>1. a = [i \in 1 .. 2 * k |-> IF i % 2 = 1 THEN lines[1 + (i - 1) \div 2] ELSE <<"lf">>[(i - 1) % 2]]
  BY Zenon DEF LineArray
<1>2. 2 * k \in Nat /\ 1 \in 1 .. 2 * k
  OBVIOUS
<1>3. ASSUME NEW i \in 1 .. 2 * k
      PROVE  /\ a[i] \in Atoms
             /\ IF i % 2 = 1 THEN i > 1 => a[i] \in HeaderTexts ELSE a[i] = "lf"
  <2>1. CASE i % 2 = 1
    <3>1. PICK j : j = 1 + (i - 1) \div 2
      OBVIOUS
    <3>2. j \in 1 .. k /\ (i > 1 => j \in 2 .. k)
      BY <2>1, <3>1
    <3>3. a[i] = lines[j]
      BY <1>1, <2>1, <3>1
    <3> QED
      BY <2>1, <3>2, <3>3
  <2>2. CASE i % 2 # 1
    <3>1. (i - 1) % 2 = 1
      BY <2>2
    <3>2. <<"lf">>[1] = "lf"
      OBVIOUS
    <3>3. a[i] = "lf"
      BY <1>1, <2>2, <3>1, <3>2
    <3> QED
      BY <2>2, <3>3 DEF Atoms
  <2> QED
    BY <2>1, <2>2
<1>4. a \in [1 .. 2 * k -> Atoms]
  BY <1>1, <1>3
<1>5. a \in Seq(Atoms) /\ Len(a) = 2 * k
  BY <1>2, <1>4, SeqOfArray
<1>6. a[1] = lines[1]
  <2>1. 1 % 2 = 1 /\ 1 + (1 - 1) \div 2 = 1
    OBVIOUS
  <2> QED
    BY <1>1, <1>2, <2>1
<1> QED
  BY <1>3, <1>5, <1>6

LEMMA CrLfArray ==
    ASSUME NEW lines \in Seq(Atoms), NEW k \in Nat \ {0}, Len(lines) = k, lines[1] \in FirstTexts,
           \A j \in 2 .. k : lines[j] \in HeaderTexts, NEW a, a = LineArray(lines, <<"cr", "lf">>, 3)
    PROVE  /\ a \in Seq(Atoms) /\ Len(a) = 3 * k /\ a[1] \in FirstTexts
           /\ \A i \in 1 .. 3 * k : IF i % 3 = 1 THEN i > 1 => a[i] \in HeaderTexts
                                     ELSE IF i % 3 = 2 THEN a[i] = "cr" ELSE a[i] = "lf"
<1>1. a = [i \in 1 .. 3 * k |-> IF i % 3 = 1 THEN lines[1 + (i - 1) \div 3] ELSE <<"cr", "lf">>[(i - 1) % 3]]
  BY Zenon DEF LineArray
<1>2. 3 * k \in Nat /\ 1 \in 1 .. 3 * k
  OBVIOUS
<1>3. ASSUME NEW i \in 1 .. 3 * k
      PROVE  /\ a[i] \in Atoms
             /\ IF i % 3 = 1 THEN i > 1 => a[i] \in HeaderTexts
                ELSE IF i % 3 = 2 THEN a[i] = "cr" ELSE a[i] = "lf"
  <2>1. CASE i % 3 = 1
    <3>1. PICK j : j = 1 + (i - 1) \div 3
      OBVIOUS
    <3>2. j \in 1 .. k /\ (i > 1 => j \in 2 .. k)
      BY <2>1, <3>1
    <3>3. a[i] = lines[j]
      BY <1>1, <2>1, <3>1
    <3> QED
      BY <2>1, <3>2, <3>3
  <2>2. CASE i % 3 # 1
    <3>1. (i % 3 = 2 /\ (i - 1) % 3 = 1) \/ (i % 3 = 0 /\ (i - 1) % 3 = 2)
      BY <2>2
    <3>2. <<"cr", "lf">>[1] = "cr" /\ <<"cr", "lf">>[2] = "lf"
      OBVIOUS
    <3>3. (i % 3 = 2 /\ a[i] = "cr") \/ (i % 3 = 0 /\ a[i] = "lf")
      BY <1>1, <2>2, <3>1, <3>2
    <3> QED
      BY <2>2, <3>3 DEF Atoms
  <2> QED
    BY <2>1, <2>2
<1>4. a \in [1 .. 3 * k -> Atoms]
  BY <1>1, <1>3
<1>5. a \in Seq(Atoms) /\ Len(a) = 3 * k
  BY <1>2, <1>4, SeqOfArray
<1>6. a[1] = lines[1]
  <2>1. 1 % 3 = 1 /\ 1 + (1 - 1) \div 3 = 1
    OBVIOUS
  <2> QED
    BY <1>1, <1>2, <2>1
<1> QED
  BY <1>3, <1>5, <1>6

LEMMA MessageShape ==
    ASSUME NEW first \in RequestLines, NEW headers \in HeaderLists,
           NEW style \in {"crlf", "lf", "mixed"}, NEW body \in 0 .. MaxBody,
           NEW w, w = Message(first, headers, style, body)
    PROVE  \E k \in Nat : CrLfShape(w, k) \/ LfShape(w, k) \/ MixedShape(w, k)
<1>1. PICK lines : lines = <<first>> \o headers
  OBVIOUS
<1>2. PICK k \in Nat \ {0} :
        /\ lines \in Seq(Atoms) /\ Len(lines) = k /\ lines[1] \in FirstTexts
        /\ \A j \in 2 .. k : lines[j] \in HeaderTexts
  BY <1>1, LinesFacts
<1>3. PICK b : b = [i \in 1 .. body |-> "b"]
  OBVIOUS
<1>4. b \in Seq(Atoms) /\ Len(b) = body /\ body \in Nat /\ \A i \in 1 .. body : b[i] = "b"
  <2>1. body \in Nat
    BY HttpRequestAssumption
  <2>2. b \in [1 .. body -> Atoms]
    BY <1>3 DEF Atoms
  <2> QED
    BY <1>3, <2>1, <2>2, SeqOfArray
<1>5. /\ <<"lf">> \in Seq(Atoms) /\ Len(<<"lf">>) = 1 /\ <<"lf">>[1] = "lf"
      /\ <<"cr", "lf">> \in Seq(Atoms) /\ Len(<<"cr", "lf">>) = 2
      /\ <<"cr", "lf">>[1] = "cr" /\ <<"cr", "lf">>[2] = "lf"
  BY DEF Atoms
<1>6. PICK e : e = LineEnd(IF style = "mixed" THEN "crlf" ELSE style)
  OBVIOUS
<1>7. CASE style = "crlf"
  <2>1. LineEnd(style) = <<"cr", "lf">> /\ e = <<"cr", "lf">> /\ 1 + Len(LineEnd(style)) = 3
    BY <1>5, <1>6, <1>7 DEF LineEnd
  <2>2. PICK a : a = LineArray(lines, <<"cr", "lf">>, 3)
    OBVIOUS
  <2>3. w = a \o e \o b
    BY <1>1, <1>3, <1>6, <2>1, <2>2, MessageParts
  <2>4. /\ a \in Seq(Atoms) /\ Len(a) = 3 * k /\ a[1] \in FirstTexts
        /\ \A i \in 1 .. 3 * k : IF i % 3 = 1 THEN i > 1 => a[i] \in HeaderTexts
                                  ELSE IF i % 3 = 2 THEN a[i] = "cr" ELSE a[i] = "lf"
    BY <1>2, <2>2, CrLfArray
  <2>5. /\ w \in Seq(Atoms) /\ Len(w) = 3 * k + 2 + body
        /\ \A i \in 1 .. 3 * k : w[i] = a[i]
        /\ \A i \in 1 .. 2 : w[3 * k + i] = e[i]
        /\ \A i \in 1 .. body : w[3 * k + 2 + i] = b[i]
    <3>1. e \in Seq(Atoms) /\ Len(e) = 2
      BY <1>5, <2>1
    <3>2. Joined(w, Atoms, a, e, b)
      BY <1>4, <2>3, <2>4, <3>1, ThreeParts
    <3> QED
      BY <1>4, <2>4, <3>1, <3>2 DEF Joined
  <2>6. w[3 * k + 1] = "cr" /\ w[3 * k + 2] = "lf" /\ w[1] = a[1]
    BY <1>5, <2>1, <2>5
  <2>7. \A i \in 3 * k + 3 .. Len(w) : w[i] = "b"
    <3> TAKE i \in 3 * k + 3 .. Len(w)
    <3>1. i - (3 * k + 2) \in 1 .. body /\ 3 * k + 2 + (i - (3 * k + 2)) = i
      BY <1>4, <2>5
    <3> QED
      BY <1>4, <2>5, <3>1
  <2>8. Len(w) >= 3 * k + 2
    BY <1>4, <2>5
  <2>9. \A i \in 1 .. 3 * k : IF i % 3 = 1 THEN i > 1 => w[i] \in HeaderTexts
                              ELSE IF i % 3 = 2 THEN w[i] = "cr" ELSE w[i] = "lf"
    BY <2>4, <2>5
  <2>10. CrLfShape(w, k)
    BY <1>2, <2>4, <2>5, <2>6, <2>7, <2>8, <2>9 DEF CrLfShape
  <2> QED
    BY <2>10
<1>8. CASE style # "crlf"
  <2>1. LineEnd(style) = <<"lf">> /\ 1 + Len(LineEnd(style)) = 2
    BY <1>5, <1>8 DEF LineEnd
  <2>2. PICK a : a = LineArray(lines, <<"lf">>, 2)
    OBVIOUS
  <2>3. w = a \o e \o b
    BY <1>1, <1>3, <1>6, <2>1, <2>2, MessageParts
  <2>4. /\ a \in Seq(Atoms) /\ Len(a) = 2 * k /\ a[1] \in FirstTexts
        /\ \A i \in 1 .. 2 * k : IF i % 2 = 1 THEN i > 1 => a[i] \in HeaderTexts ELSE a[i] = "lf"
    BY <1>2, <2>2, LfArray
  <2>5. (e = <<"lf">> /\ style = "lf") \/ (e = <<"cr", "lf">> /\ style = "mixed")
    BY <1>6, <1>8 DEF LineEnd
  <2>6. PICK x : x = Len(e)
    OBVIOUS
  <2>7. e \in Seq(Atoms) /\ x \in {1, 2}
    BY <1>5, <2>5, <2>6
  <2>8. /\ w \in Seq(Atoms) /\ Len(w) = 2 * k + x + body
        /\ \A i \in 1 .. 2 * k : w[i] = a[i]
        /\ \A i \in 1 .. x : w[2 * k + i] = e[i]
        /\ \A i \in 1 .. body : w[2 * k + x + i] = b[i]
    <3>1. Joined(w, Atoms, a, e, b)
      BY <1>4, <2>3, <2>4, <2>7, ThreeParts
    <3> QED
      BY <1>4, <2>4, <2>6, <2>7, <3>1 DEF Joined
  <2>9. LfLines(w, k)
    <3>1. w[1] = a[1]
      BY <2>8
    <3> QED
      BY <2>4, <2>8, <3>1 DEF LfLines
  <2>10. CASE style = "lf"
    <3>1. e = <<"lf">> /\ x = 1 /\ e[1] = "lf"
      BY <1>5, <2>5, <2>6, <2>10
    <3>2. w[2 * k + 1] = "lf" /\ Len(w) >= 2 * k + 1
      BY <1>4, <2>8, <3>1
    <3>3. \A i \in 2 * k + 2 .. Len(w) : w[i] = "b"
      <4> TAKE i \in 2 * k + 2 .. Len(w)
      <4>1. i - (2 * k + 1) \in 1 .. body /\ 2 * k + x + (i - (2 * k + 1)) = i
        BY <1>4, <2>8, <3>1
      <4> QED
        BY <1>4, <2>8, <4>1
    <3>4. LfShape(w, k)
      BY <1>2, <2>8, <2>9, <3>2, <3>3 DEF LfShape
    <3> QED
      BY <3>4
  <2>11. CASE style = "mixed"
    <3>1. e = <<"cr", "lf">> /\ x = 2 /\ e[1] = "cr" /\ e[2] = "lf"
      BY <1>5, <2>5, <2>6, <2>11
    <3>2. w[2 * k + 1] = "cr" /\ w[2 * k + 2] = "lf" /\ Len(w) >= 2 * k + 2
      BY <1>4, <2>8, <3>1
    <3>3. \A i \in 2 * k + 3 .. Len(w) : w[i] = "b"
      <4> TAKE i \in 2 * k + 3 .. Len(w)
      <4>1. i - (2 * k + 2) \in 1 .. body /\ 2 * k + x + (i - (2 * k + 2)) = i
        BY <1>4, <2>8, <3>1
      <4> QED
        BY <1>4, <2>8, <4>1
    <3>4. MixedShape(w, k)
      BY <1>2, <2>8, <2>9, <3>2, <3>3 DEF MixedShape
    <3> QED
      BY <3>4
  <2> QED
    BY <1>8, <2>10, <2>11
<1> QED
  BY <1>7, <1>8

-----------------------------------------------------------------------------
(* However a message is cut.                                               *)

Shaped(w) == \E k \in Nat : CrLfShape(w, k) \/ LfShape(w, k) \/ MixedShape(w, k)

(* What has been given to input is a prefix of a message, and the object   *)
(* is new before the first piece.                                          *)
HttpInv ==
    /\ wire = << >> \/ Shaped(wire)
    /\ fed \in 0 .. Len(wire)
    /\ fed = 0 => req = CHttpReq /\ ret = "ok"
    /\ ChunkingIrrelevant

(* The object is what one call with all n atoms would have left.           *)
AsWhole(w, n, r, x) == SameResult([r |-> r, ret |-> x], Parsed(SubSeq(w, 1, n)))

LEMMA AsWholeFacts ==
    ASSUME NEW r, NEW x, NEW j
    PROVE  SameResult([r |-> r, ret |-> x], j) <=> x = j.ret /\ r = [j.r EXCEPT !.attached = r.attached]
BY DEF SameResult

LEMMA ChunkStep ==
    ASSUME NEW w \in Seq(Atoms), ShortHead(w), "nocolon" \notin ToSet(w),
           NEW f \in Nat, NEW n \in Nat \ {0}, f + n <= Len(w), NEW r,
           f = 0 => r = CHttpReq, f > 0 => AsWhole(w, f, r, "ok")
    PROVE  SameResult(input(r, SubSeq(w, 1, f + n)), Parsed(SubSeq(w, 1, f + n)))
<1>1. PICK m : m = f + n
  OBVIOUS
<1>2. m \in 1 .. Len(w) /\ m \in 0 .. Len(w) /\ Len(w) \in Nat
  BY <1>1
<1>3. Parsed(SubSeq(w, 1, m)).r \in ReqType
  BY <1>2, DecodeType
<1>4. CASE f = 0
  <2>1. input(r, SubSeq(w, 1, m)) = Parsed(SubSeq(w, 1, m))
    BY <1>4 DEF Parsed
  <2> QED
    BY <1>1, <1>3, <2>1, SameSelf DEF SameResult
<1>5. CASE f # 0
  <2>1. f \in 1 .. m /\ f \in 1 .. Len(w)
    BY <1>1, <1>2, <1>5
  <2>2. PICK j : j = Parsed(SubSeq(w, 1, f))
    OBVIOUS
  <2>3. j.r \in ReqType
    BY <2>1, <2>2, DecodeType
  <2>4. j.ret = "ok" /\ r = [j.r EXCEPT !.attached = r.attached]
    BY <1>5, <2>2, AsWholeFacts DEF AsWhole
  <2>5. input(r, SubSeq(w, 1, m)) = input(j.r, SubSeq(w, 1, m))
    <3>1. input([j.r EXCEPT !.attached = r.attached], SubSeq(w, 1, m)) = input(j.r, SubSeq(w, 1, m))
      BY <2>3, InputMask
    <3> QED
      BY ONLY <2>4, <3>1, Zenon
  <2>6. SameResult(input(j.r, SubSeq(w, 1, m)), Parsed(SubSeq(w, 1, m)))
    BY <1>2, <2>1, <2>2, <2>4, InputChunk
  <2> QED
    BY <1>1, <2>5, <2>6
<1> QED
  BY <1>4, <1>5

LEMMA ShapedType ==
    ASSUME NEW w, Shaped(w)
    PROVE  w \in Seq(Atoms) /\ Len(w) \in Nat \ {0}
<1>1. PICK k \in Nat : CrLfShape(w, k) \/ LfShape(w, k) \/ MixedShape(w, k)
  BY DEF Shaped
<1>2. CASE CrLfShape(w, k)
  BY <1>2 DEF CrLfShape
<1>3. CASE LfShape(w, k)
  BY <1>3 DEF LfShape
<1>4. CASE MixedShape(w, k)
  BY <1>4 DEF MixedShape
<1> QED
  BY <1>1, <1>2, <1>3, <1>4

LEMMA HttpInvInit == HttpInit => HttpInv
<1> SUFFICES ASSUME HttpInit PROVE HttpInv
  OBVIOUS
<1>1. wire = << >> /\ fed = 0 /\ req = CHttpReq /\ ret = "ok" /\ Len(wire) = 0
  BY DEF HttpInit
<1>2. ChunkingIrrelevant
  BY <1>1 DEF ChunkingIrrelevant
<1> QED
  BY <1>1, <1>2 DEF HttpInv

LEMMA HttpInvNext == HttpInv /\ [HttpNext]_httpVars => HttpInv'
<1> SUFFICES ASSUME HttpInv, [HttpNext]_httpVars PROVE HttpInv'
  OBVIOUS
<1>1. /\ wire = << >> \/ Shaped(wire)
      /\ fed \in 0 .. Len(wire)
      /\ fed = 0 => req = CHttpReq /\ ret = "ok"
      /\ ChunkingIrrelevant
  BY DEF HttpInv
<1>2. CASE UNCHANGED httpVars
  BY <1>1, <1>2 DEF HttpInv, httpVars, ChunkingIrrelevant, Fed
<1>3. CASE Receive
  <2>0. PICK first \in RequestLines, headers \in HeaderLists, style \in {"crlf", "lf", "mixed"},
             body \in 0 .. MaxBody : wire' = Message(first, headers, style, body)
    BY <1>3 DEF Receive
  <2>1. wire = << >> /\ wire' = Message(first, headers, style, body) /\ fed' = fed /\ req' = req /\ ret' = ret
    BY <1>3, <2>0 DEF Receive
  <2>2. fed = 0
    BY <1>1, <2>1
  <2>3. Shaped(wire')
    BY <2>1, MessageShape DEF Shaped
  <2>4. Len(wire') \in Nat
    BY <2>3, ShapedType
  <2>5. ChunkingIrrelevant'
    BY <2>1, <2>2 DEF ChunkingIrrelevant
  <2> QED
    BY <1>1, <2>1, <2>2, <2>3, <2>4, <2>5 DEF HttpInv
<1>4. ASSUME NEW n \in 1 .. Len(wire) - fed, Input(n) PROVE HttpInv'
  <2>1. PICK i : i = input(req, SubSeq(wire, 1, fed + n))
    OBVIOUS
  <2>2. ret = "ok" /\ req' = i.r /\ ret' = i.ret /\ fed' = fed + n /\ wire' = wire
    BY <1>4, <2>1 DEF Input
  <2>3. wire # << >>
    BY <1>1
  <2>4. wire \in Seq(Atoms) /\ Len(wire) \in Nat /\ Shaped(wire)
    BY <1>1, <2>3, ShapedType
  <2>5. fed' \in 0 .. Len(wire) /\ fed' # 0 /\ n \in Nat \ {0} /\ fed \in Nat /\ fed + n <= Len(wire)
    BY <1>1, <2>2, <2>4
  <2>6. ChunkingIrrelevant'
    <3> SUFFICES ASSUME "nocolon" \notin ToSet(wire), ShortHead(wire)
                 PROVE  /\ ret' = Parsed(SubSeq(wire, 1, fed + n)).ret
                        /\ req' = [Parsed(SubSeq(wire, 1, fed + n)).r EXCEPT !.attached = req'.attached]
      BY <2>2 DEF ChunkingIrrelevant, Fed
    <3>1. fed > 0 => AsWhole(wire, fed, req, "ok")
      <4>1. fed > 0 => /\ ret = Parsed(SubSeq(wire, 1, fed)).ret
                       /\ req = [Parsed(SubSeq(wire, 1, fed)).r EXCEPT !.attached = req.attached]
        BY <1>1 DEF ChunkingIrrelevant, Fed
      <4> QED
        BY <2>2, <4>1, AsWholeFacts DEF AsWhole
    <3>2. fed = 0 => req = CHttpReq
      BY <1>1
    <3>3. SameResult(input(req, SubSeq(wire, 1, fed + n)), Parsed(SubSeq(wire, 1, fed + n)))
      BY <2>4, <2>5, <3>1, <3>2, ChunkStep
    <3> QED
      BY <2>1, <2>2, <3>3 DEF SameResult
  <2> QED
    BY <2>2, <2>4, <2>5, <2>6 DEF HttpInv
<1> QED
  BY <1>2, <1>3, <1>4 DEF HttpNext

(* Chunking: HttpRequest.ChunkingIrrelevant for every message of the       *)
(* model's shape, however many lines and bytes it has, and every way to    *)
(* cut it into calls of CHttpReq::input: the object is what one call with  *)
(* all of the bytes would have made of it.                                 *)
THEOREM Chunking == HttpSpec => []ChunkingIrrelevant
<1>1. HttpInv => ChunkingIrrelevant
  BY DEF HttpInv
<1> QED
  BY <1>1, HttpInvInit, HttpInvNext, PTL DEF HttpSpec

-----------------------------------------------------------------------------
(* Where a message ends.                                                   *)

LEMMA NamesApart ==
    /\ \A t \in NamesLength : t \notin FirstTexts \union {"cr", "lf", "b", "other", "nocolon"}
    /\ \A t \in HeaderTexts \union FirstTexts : t \notin {"cr", "lf", "b"}
<1>1. \A t \in ExactLength : t \notin FirstTexts \union {"cr", "lf", "b", "other", "nocolon"}
  BY DEF ExactLength, ToSet, LengthLine, FirstTexts
<1>2. \A t \in NamesLength : t \notin FirstTexts \union {"cr", "lf", "b", "other", "nocolon"}
  BY <1>1 DEF NamesLength, FirstTexts
<1> QED
  BY <1>2 DEF HeaderTexts, FirstTexts

(* A message w whose first line ends at G, whose lines end at E, and whose *)
(* empty line has z atoms.                                                 *)
Framed(w, G, E, z) ==
    /\ w \in Seq(Atoms) /\ G \in Nat /\ E \in Nat /\ z \in {1, 2}
    /\ 2 <= G /\ G <= E /\ E + z <= Len(w)
    /\ w[1] \in FirstTexts /\ w[G] = "lf" /\ w[E] = "lf" /\ w[E + z] = "lf"
    /\ z = 2 => w[E + 1] = "cr"
    /\ \A i \in 1 .. G - 1 : w[i] # "lf"
    /\ \A q \in G .. E - 1 : w[q] = "lf" => q + 2 <= E /\ w[q + 1] # "cr" /\ w[q + 1] # "lf"
    /\ \A i \in E + z + 1 .. Len(w) : w[i] = "b"
    /\ \A i \in 1 .. Len(w) : w[i] \in NamesLength => i - 1 \in G .. E - 1 /\ w[i - 1] = "lf"

LEMMA FrameLf ==
    ASSUME NEW w, NEW k \in Nat, LfShape(w, k)
    PROVE  Framed(w, 2, 2 * k, 1)
<1>1. /\ w \in Seq(Atoms) /\ k \in Nat \ {0} /\ Len(w) >= 2 * k + 1 /\ Len(w) \in Nat
      /\ w[1] \in FirstTexts
      /\ \A i \in 1 .. 2 * k : IF i % 2 = 1 THEN i > 1 => w[i] \in HeaderTexts ELSE w[i] = "lf"
      /\ w[2 * k + 1] = "lf" /\ \A i \in 2 * k + 2 .. Len(w) : w[i] = "b"
  BY DEF LfShape, LfLines
<1>2. w[2] = "lf" /\ w[2 * k] = "lf"
  <2>1. 2 \in 1 .. 2 * k /\ 2 % 2 # 1 /\ 2 * k \in 1 .. 2 * k /\ (2 * k) % 2 # 1
    BY <1>1
  <2> QED
    BY <1>1, <2>1
<1>3. \A i \in 1 .. 2 - 1 : w[i] # "lf"
  BY <1>1, NamesApart
<1>4. ASSUME NEW q \in 2 .. 2 * k - 1, w[q] = "lf"
      PROVE  q + 2 <= 2 * k /\ w[q + 1] # "cr" /\ w[q + 1] # "lf"
  <2>1. q % 2 # 1
    <3> SUFFICES ASSUME q % 2 = 1 PROVE FALSE
      OBVIOUS
    <3>1. w[q] \in HeaderTexts
      BY <1>1
    <3> QED
      BY <1>4, <3>1, NamesApart
  <2>2. q + 1 \in 1 .. 2 * k /\ (q + 1) % 2 = 1 /\ q + 1 > 1 /\ q + 2 <= 2 * k
    BY <1>1, <2>1
  <2>3. w[q + 1] \in HeaderTexts
    BY <1>1, <2>2
  <2> QED
    BY <2>2, <2>3, NamesApart
<1>5. ASSUME NEW i \in 1 .. Len(w), w[i] \in NamesLength
      PROVE  i - 1 \in 2 .. 2 * k - 1 /\ w[i - 1] = "lf"
  <2>1. w[i] # "lf" /\ w[i] # "b" /\ w[i] \notin FirstTexts
    BY <1>5, NamesApart
  <2>2. i # 1 /\ i # 2 * k + 1 /\ ~ (i \in 2 * k + 2 .. Len(w))
    BY <1>1, <2>1
  <2>3. i \in 2 .. 2 * k
    BY <1>1, <2>2
  <2>4. i % 2 = 1
    BY <1>1, <2>1, <2>3
  <2>5. i - 1 \in 1 .. 2 * k /\ (i - 1) % 2 # 1 /\ i - 1 \in 2 .. 2 * k - 1
    BY <1>1, <2>3, <2>4
  <2> QED
    BY <1>1, <2>5
<1> QED
  BY <1>1, <1>2, <1>3, <1>4, <1>5 DEF Framed

LEMMA FrameCrLf ==
    ASSUME NEW w, NEW k \in Nat, CrLfShape(w, k)
    PROVE  Framed(w, 3, 3 * k, 2)
<1>1. /\ w \in Seq(Atoms) /\ k \in Nat \ {0} /\ Len(w) >= 3 * k + 2 /\ Len(w) \in Nat
      /\ w[1] \in FirstTexts
      /\ \A i \in 1 .. 3 * k : IF i % 3 = 1 THEN i > 1 => w[i] \in HeaderTexts
                                ELSE IF i % 3 = 2 THEN w[i] = "cr" ELSE w[i] = "lf"
      /\ w[3 * k + 1] = "cr" /\ w[3 * k + 2] = "lf" /\ \A i \in 3 * k + 3 .. Len(w) : w[i] = "b"
  BY DEF CrLfShape
<1>2. w[3] = "lf" /\ w[3 * k] = "lf" /\ w[2] = "cr"
  <2>1. /\ 3 \in 1 .. 3 * k /\ 3 % 3 # 1 /\ 3 % 3 # 2 /\ 2 \in 1 .. 3 * k /\ 2 % 3 = 2
        /\ 3 * k \in 1 .. 3 * k /\ (3 * k) % 3 # 1 /\ (3 * k) % 3 # 2
    BY <1>1
  <2> QED
    BY <1>1, <2>1
<1>3. \A i \in 1 .. 3 - 1 : w[i] # "lf"
  <2>1. w[1] # "lf"
    BY <1>1, NamesApart
  <2>2. \A i \in 1 .. 3 - 1 : i = 1 \/ i = 2
    OBVIOUS
  <2> QED
    BY <1>2, <2>1, <2>2
<1>4. ASSUME NEW q \in 3 .. 3 * k - 1, w[q] = "lf"
      PROVE  q + 2 <= 3 * k /\ w[q + 1] # "cr" /\ w[q + 1] # "lf"
  <2>1. q % 3 # 1 /\ q % 3 # 2
    <3>1. q \in 1 .. 3 * k /\ q > 1
      BY <1>1
    <3>2. q % 3 = 1 => w[q] \in HeaderTexts
      BY <1>1, <3>1
    <3>3. q % 3 = 2 => w[q] = "cr"
      BY <1>1, <3>1
    <3> QED
      BY <1>4, <3>2, <3>3, NamesApart
  <2>2. q + 1 \in 1 .. 3 * k /\ (q + 1) % 3 = 1 /\ q + 1 > 1 /\ q + 2 <= 3 * k
    BY <1>1, <2>1
  <2>3. w[q + 1] \in HeaderTexts
    BY <1>1, <2>2
  <2> QED
    BY <2>2, <2>3, NamesApart
<1>5. ASSUME NEW i \in 1 .. Len(w), w[i] \in NamesLength
      PROVE  i - 1 \in 3 .. 3 * k - 1 /\ w[i - 1] = "lf"
  <2>1. w[i] # "lf" /\ w[i] # "cr" /\ w[i] # "b" /\ w[i] \notin FirstTexts
    BY <1>5, NamesApart
  <2>2. i # 1 /\ i # 3 * k + 1 /\ i # 3 * k + 2 /\ ~ (i \in 3 * k + 3 .. Len(w))
    BY <1>1, <2>1
  <2>3. i \in 2 .. 3 * k
    BY <1>1, <2>2
  <2>4. i % 3 = 1
    BY <1>1, <2>1, <2>3
  <2>5. i - 1 \in 1 .. 3 * k /\ (i - 1) % 3 # 1 /\ (i - 1) % 3 # 2 /\ i - 1 \in 3 .. 3 * k - 1
    BY <1>1, <2>3, <2>4
  <2> QED
    BY <1>1, <2>5
<1> QED
  BY <1>1, <1>2, <1>3, <1>4, <1>5 DEF Framed

(* The searches for the end of the head.                                   *)
CrLfCrLf == <<"cr", "lf", "cr", "lf">>
LfLf == <<"lf", "lf">>

LEMMA PairAt ==
    ASSUME NEW d \in Seq(Atoms), NEW i \in 1 .. Len(d) - 1
    PROVE  SubSeq(d, i, i + 1) = LfLf <=> d[i] = "lf" /\ d[i + 1] = "lf"
<1>1. PICK s : s = SubSeq(d, i, i + 1)
  OBVIOUS
<1>2. s = [j \in 1 .. 2 |-> d[i + j - 1]]
  BY <1>1
<1>3. s[1] = d[i] /\ s[2] = d[i + 1]
  BY <1>2
<1>4. LfLf[1] = "lf" /\ LfLf[2] = "lf" /\ LfLf \in [1 .. 2 -> {"lf"}]
  BY DEF LfLf
<1>5. d[i] = "lf" /\ d[i + 1] = "lf" => s = LfLf
  <2> SUFFICES ASSUME d[i] = "lf", d[i + 1] = "lf" PROVE s = LfLf
    OBVIOUS
  <2>1. \A j \in 1 .. 2 : j = 1 \/ j = 2
    OBVIOUS
  <2>2. \A j \in 1 .. 2 : s[j] = LfLf[j]
    BY <1>3, <1>4, <2>1
  <2> QED
    BY <1>2, <1>4, <2>2
<1> QED
  BY <1>1, <1>3, <1>4, <1>5

LEMMA QuadAt ==
    ASSUME NEW d \in Seq(Atoms), NEW i \in 1 .. Len(d) - 3
    PROVE  SubSeq(d, i, i + 3) = CrLfCrLf <=>
               d[i] = "cr" /\ d[i + 1] = "lf" /\ d[i + 2] = "cr" /\ d[i + 3] = "lf"
<1>1. PICK s : s = SubSeq(d, i, i + 3)
  OBVIOUS
<1>2. s = [j \in 1 .. 4 |-> d[i + j - 1]]
  BY <1>1
<1>3. s[1] = d[i] /\ s[2] = d[i + 1] /\ s[3] = d[i + 2] /\ s[4] = d[i + 3]
  BY <1>2
<1>4. /\ CrLfCrLf[1] = "cr" /\ CrLfCrLf[2] = "lf" /\ CrLfCrLf[3] = "cr" /\ CrLfCrLf[4] = "lf"
      /\ CrLfCrLf \in [1 .. 4 -> {"cr", "lf"}]
  BY DEF CrLfCrLf
<1>5. d[i] = "cr" /\ d[i + 1] = "lf" /\ d[i + 2] = "cr" /\ d[i + 3] = "lf" => s = CrLfCrLf
  <2> SUFFICES ASSUME d[i] = "cr", d[i + 1] = "lf", d[i + 2] = "cr", d[i + 3] = "lf" PROVE s = CrLfCrLf
    OBVIOUS
  <2>1. \A j \in 1 .. 4 : j = 1 \/ j = 2 \/ j = 3 \/ j = 4
    OBVIOUS
  <2>2. \A j \in 1 .. 4 : s[j] = CrLfCrLf[j]
    BY <1>3, <1>4, <2>1
  <2> QED
    BY <1>2, <1>4, <2>2
<1> QED
  BY <1>1, <1>3, <1>4, <1>5

LEMMA TripleAt ==
    ASSUME NEW d \in Seq(Atoms), NEW i \in 1 .. Len(d) - 2
    PROVE  SubSeq(d, i, i + 2) = <<"lf", "cr", "lf">> <=>
               d[i] = "lf" /\ d[i + 1] = "cr" /\ d[i + 2] = "lf"
<1>1. PICK s, t : s = SubSeq(d, i, i + 2) /\ t = <<"lf", "cr", "lf">>
  OBVIOUS
<1>2. s = [j \in 1 .. 3 |-> d[i + j - 1]]
  BY <1>1
<1>3. s[1] = d[i] /\ s[2] = d[i + 1] /\ s[3] = d[i + 2]
  BY <1>2
<1>4. t[1] = "lf" /\ t[2] = "cr" /\ t[3] = "lf" /\ t \in [1 .. 3 -> {"cr", "lf"}]
  BY <1>1
<1>5. d[i] = "lf" /\ d[i + 1] = "cr" /\ d[i + 2] = "lf" => s = t
  <2> SUFFICES ASSUME d[i] = "lf", d[i + 1] = "cr", d[i + 2] = "lf" PROVE s = t
    OBVIOUS
  <2>1. \A j \in 1 .. 3 : j = 1 \/ j = 2 \/ j = 3
    OBVIOUS
  <2>2. \A j \in 1 .. 3 : s[j] = t[j]
    BY <1>3, <1>4, <2>1
  <2> QED
    BY <1>2, <1>4, <2>2
<1> QED
  BY <1>1, <1>3, <1>4, <1>5

(* The least element of the set that is searched, if it has one.           *)
FoundAt(s, pattern) ==
    {i \in 1 .. Len(s) - Len(pattern) + 1 : SubSeq(s, i, i + Len(pattern) - 1) = pattern}

LEMMA FirstAtFacts ==
    ASSUME NEW s, NEW pattern
    PROVE  /\ FoundAt(s, pattern) = {} => FirstAt(s, 1, pattern) = 0
           /\ \A i : FoundAt(s, pattern) = {i} => FirstAt(s, 1, pattern) = i
<1>1. PICK at : at = FoundAt(s, pattern)
  OBVIOUS
<1>2. FirstAt(s, 1, pattern) = IF at = {} THEN 0 ELSE CHOOSE i \in at : \A j \in at : i <= j
  BY <1>1 DEF FirstAt, FoundAt
<1>3. ASSUME NEW i, at = {i} PROVE FirstAt(s, 1, pattern) = i
  <2>1. at # {} /\ \A j \in at : j = i
    BY <1>3
  <2>2. i \in 1 .. Len(s) - Len(pattern) + 1
    BY <1>1, <1>3 DEF FoundAt
  <2>3. i <= i
    BY <2>2
  <2>4. i \in at /\ \A j \in at : i <= j
    BY <1>3, <2>1, <2>3
  <2>5. PICK x : x = CHOOSE k \in at : \A j \in at : k <= j
    OBVIOUS
  <2>6. x \in at
    BY ONLY <2>4, <2>5
  <2> QED
    BY <1>2, <2>1, <2>5, <2>6
<1> QED
  BY <1>1, <1>2, <1>3

LEMMA NoCrLf ==
    ASSUME NEW w, NEW k \in Nat, LfShape(w, k), NEW n \in 0 .. Len(w)
    PROVE  FirstAt(SubSeq(w, 1, n), 1, CrLfCrLf) = 0
<1>1. /\ w \in Seq(Atoms) /\ k \in Nat \ {0} /\ Len(w) >= 2 * k + 1 /\ Len(w) \in Nat
      /\ w[1] \in FirstTexts
      /\ \A i \in 1 .. 2 * k : IF i % 2 = 1 THEN i > 1 => w[i] \in HeaderTexts ELSE w[i] = "lf"
      /\ w[2 * k + 1] = "lf" /\ \A i \in 2 * k + 2 .. Len(w) : w[i] = "b"
  BY DEF LfShape, LfLines
<1>2. PICK d : d = SubSeq(w, 1, n)
  OBVIOUS
<1>3. d \in Seq(Atoms) /\ Len(d) = n /\ n \in Nat /\ n <= Len(w) /\ \A i \in 1 .. n : d[i] = w[i]
  BY <1>1, <1>2, PrefixFacts
<1>4. \A i \in 1 .. Len(w) : w[i] # "cr"
  <2> TAKE i \in 1 .. Len(w)
  <2>1. i = 1 \/ i \in 2 .. 2 * k \/ i = 2 * k + 1 \/ i \in 2 * k + 2 .. Len(w)
    BY <1>1
  <2>2. i \in 2 .. 2 * k => w[i] \in HeaderTexts \/ w[i] = "lf"
    BY <1>1
  <2> QED
    BY <1>1, <2>1, <2>2, NamesApart
<1>5. \A i \in 1 .. Len(d) - 3 : SubSeq(d, i, i + 3) # CrLfCrLf
  <2> TAKE i \in 1 .. Len(d) - 3
  <2>1. i \in 1 .. n /\ i \in 1 .. Len(w)
    BY <1>1, <1>3
  <2>2. d[i] # "cr"
    BY <1>3, <1>4, <2>1
  <2> QED
    BY <1>3, <2>2, QuadAt
<1>6. Len(CrLfCrLf) = 4
  BY DEF CrLfCrLf
<1>7. FoundAt(d, CrLfCrLf) = {}
  <2>1. \A i \in 1 .. Len(d) - 4 + 1 : i \in 1 .. Len(d) - 3 /\ i + 4 - 1 = i + 3
    BY <1>3
  <2> QED
    BY <1>5, <1>6, <2>1 DEF FoundAt
<1> QED
  BY <1>2, <1>7, FirstAtFacts

LEMMA LfEnd ==
    ASSUME NEW w, NEW k \in Nat, LfShape(w, k), NEW n \in 0 .. Len(w)
    PROVE  FirstAt(SubSeq(w, 1, n), 1, LfLf) = IF 2 * k + 1 <= n THEN 2 * k ELSE 0
<1>1. /\ w \in Seq(Atoms) /\ k \in Nat \ {0} /\ Len(w) >= 2 * k + 1 /\ Len(w) \in Nat
      /\ w[1] \in FirstTexts
      /\ \A i \in 1 .. 2 * k : IF i % 2 = 1 THEN i > 1 => w[i] \in HeaderTexts ELSE w[i] = "lf"
      /\ w[2 * k + 1] = "lf" /\ \A i \in 2 * k + 2 .. Len(w) : w[i] = "b"
  BY DEF LfShape, LfLines
<1>2. PICK d : d = SubSeq(w, 1, n)
  OBVIOUS
<1>3. d \in Seq(Atoms) /\ Len(d) = n /\ n \in Nat /\ n <= Len(w) /\ \A i \in 1 .. n : d[i] = w[i]
  BY <1>1, <1>2, PrefixFacts
<1>4. w[2 * k] = "lf"
  <2>1. 2 * k \in 1 .. 2 * k /\ (2 * k) % 2 # 1
    BY <1>1
  <2> QED
    BY <1>1, <2>1
<1>5. ASSUME NEW i \in 1 .. Len(d) - 1
      PROVE  SubSeq(d, i, i + 1) = LfLf <=> i = 2 * k
  <2>1. i \in 1 .. n /\ i + 1 \in 1 .. n
    BY <1>3
  <2>2. SubSeq(d, i, i + 1) = LfLf <=> w[i] = "lf" /\ w[i + 1] = "lf"
    BY <1>3, <2>1, PairAt
  <2>3. CASE i < 2 * k /\ i % 2 = 1
    <3>1. w[i] \in HeaderTexts \union FirstTexts
      BY <1>1, <2>1, <2>3
    <3> QED
      BY <2>2, <2>3, <3>1, NamesApart
  <2>4. CASE i < 2 * k /\ i % 2 # 1
    <3>1. (i + 1) % 2 = 1 /\ i + 1 \in 1 .. 2 * k /\ i + 1 > 1
      BY <1>1, <2>1, <2>4
    <3>2. w[i + 1] \in HeaderTexts
      BY <1>1, <3>1
    <3> QED
      BY <2>2, <2>4, <3>2, NamesApart
  <2>5. CASE i = 2 * k
    BY <1>1, <1>4, <2>2, <2>5
  <2>6. CASE i > 2 * k
    <3>1. i + 1 \in 2 * k + 2 .. Len(w)
      BY <1>1, <1>3, <2>1, <2>6
    <3>2. w[i + 1] = "b"
      BY <1>1, <3>1
    <3> QED
      BY <2>2, <2>6, <3>2
  <2> QED
    BY <1>1, <2>3, <2>4, <2>5, <2>6
<1>6. Len(LfLf) = 2
  BY DEF LfLf
<1>7. FoundAt(d, LfLf) = {i \in 1 .. Len(d) - 1 : i = 2 * k}
  <2>1. Len(d) - 2 + 1 = Len(d) - 1 /\ \A i \in 1 .. Len(d) - 1 : i + 2 - 1 = i + 1
    BY <1>3
  <2> QED
    BY <1>5, <1>6, <2>1 DEF FoundAt
<1>8. CASE 2 * k + 1 <= n
  <2>1. FoundAt(d, LfLf) = {2 * k}
    BY <1>1, <1>3, <1>7, <1>8
  <2> QED
    BY <1>2, <1>8, <2>1, FirstAtFacts
<1>9. CASE ~ (2 * k + 1 <= n)
  <2>1. FoundAt(d, LfLf) = {}
    BY <1>1, <1>3, <1>7, <1>9
  <2> QED
    BY <1>2, <1>9, <2>1, FirstAtFacts
<1> QED
  BY <1>8, <1>9

LEMMA NoLf ==
    ASSUME NEW w, NEW k \in Nat, CrLfShape(w, k), NEW n \in 0 .. Len(w)
    PROVE  FirstAt(SubSeq(w, 1, n), 1, LfLf) = 0
<1>1. /\ w \in Seq(Atoms) /\ k \in Nat \ {0} /\ Len(w) >= 3 * k + 2 /\ Len(w) \in Nat
      /\ w[1] \in FirstTexts
      /\ \A i \in 1 .. 3 * k : IF i % 3 = 1 THEN i > 1 => w[i] \in HeaderTexts
                                ELSE IF i % 3 = 2 THEN w[i] = "cr" ELSE w[i] = "lf"
      /\ w[3 * k + 1] = "cr" /\ w[3 * k + 2] = "lf" /\ \A i \in 3 * k + 3 .. Len(w) : w[i] = "b"
  BY DEF CrLfShape
<1>2. PICK d : d = SubSeq(w, 1, n)
  OBVIOUS
<1>3. d \in Seq(Atoms) /\ Len(d) = n /\ n \in Nat /\ n <= Len(w) /\ \A i \in 1 .. n : d[i] = w[i]
  BY <1>1, <1>2, PrefixFacts
<1>4. ASSUME NEW i \in 1 .. Len(d) - 1
      PROVE  SubSeq(d, i, i + 1) # LfLf
  <2>1. i \in 1 .. n /\ i + 1 \in 1 .. n
    BY <1>3
  <2>2. SubSeq(d, i, i + 1) = LfLf <=> w[i] = "lf" /\ w[i + 1] = "lf"
    BY <1>3, <2>1, PairAt
  <2>3. CASE i < 3 * k /\ i % 3 = 1
    <3>1. w[i] \in HeaderTexts \union FirstTexts
      BY <1>1, <2>1, <2>3
    <3> QED
      BY <2>2, <3>1, NamesApart
  <2>4. CASE i < 3 * k /\ i % 3 = 2
    <3>1. w[i] = "cr"
      BY <1>1, <2>1, <2>4
    <3> QED
      BY <2>2, <3>1
  <2>5. CASE i < 3 * k /\ i % 3 # 1 /\ i % 3 # 2
    <3>1. (i + 1) % 3 = 1 /\ i + 1 \in 1 .. 3 * k /\ i + 1 > 1
      BY <1>1, <2>1, <2>5
    <3>2. w[i + 1] \in HeaderTexts
      BY <1>1, <3>1
    <3> QED
      BY <2>2, <3>2, NamesApart
  <2>6. CASE i = 3 * k \/ i = 3 * k + 1
    BY <1>1, <2>2, <2>6
  <2>7. CASE i > 3 * k + 1
    <3>1. i + 1 \in 3 * k + 3 .. Len(w)
      BY <1>1, <1>3, <2>1, <2>7
    <3>2. w[i + 1] = "b"
      BY <1>1, <3>1
    <3> QED
      BY <2>2, <3>2
  <2> QED
    BY <1>1, <2>3, <2>4, <2>5, <2>6, <2>7
<1>5. Len(LfLf) = 2
  BY DEF LfLf
<1>6. FoundAt(d, LfLf) = {}
  <2>1. Len(d) - 2 + 1 = Len(d) - 1 /\ \A i \in 1 .. Len(d) - 1 : i + 2 - 1 = i + 1
    BY <1>3
  <2> QED
    BY <1>4, <1>5, <2>1 DEF FoundAt
<1> QED
  BY <1>2, <1>6, FirstAtFacts

LEMMA CrLfEnd ==
    ASSUME NEW w, NEW k \in Nat, CrLfShape(w, k), NEW n \in 0 .. Len(w)
    PROVE  FirstAt(SubSeq(w, 1, n), 1, CrLfCrLf) = IF 3 * k + 2 <= n THEN 3 * k - 1 ELSE 0
<1>1. /\ w \in Seq(Atoms) /\ k \in Nat \ {0} /\ Len(w) >= 3 * k + 2 /\ Len(w) \in Nat
      /\ w[1] \in FirstTexts
      /\ \A i \in 1 .. 3 * k : IF i % 3 = 1 THEN i > 1 => w[i] \in HeaderTexts
                                ELSE IF i % 3 = 2 THEN w[i] = "cr" ELSE w[i] = "lf"
      /\ w[3 * k + 1] = "cr" /\ w[3 * k + 2] = "lf" /\ \A i \in 3 * k + 3 .. Len(w) : w[i] = "b"
  BY DEF CrLfShape
<1>2. PICK d : d = SubSeq(w, 1, n)
  OBVIOUS
<1>3. d \in Seq(Atoms) /\ Len(d) = n /\ n \in Nat /\ n <= Len(w) /\ \A i \in 1 .. n : d[i] = w[i]
  BY <1>1, <1>2, PrefixFacts
<1>4. w[3 * k - 1] = "cr" /\ w[3 * k] = "lf"
  <2>1. /\ 3 * k \in 1 .. 3 * k /\ (3 * k) % 3 # 1 /\ (3 * k) % 3 # 2
        /\ 3 * k - 1 \in 1 .. 3 * k /\ (3 * k - 1) % 3 = 2
    BY <1>1
  <2> QED
    BY <1>1, <2>1
<1>5. ASSUME NEW i \in 1 .. Len(d) - 3
      PROVE  SubSeq(d, i, i + 3) = CrLfCrLf <=> i = 3 * k - 1
  <2>1. i \in 1 .. n /\ i + 1 \in 1 .. n /\ i + 2 \in 1 .. n /\ i + 3 \in 1 .. n
    BY <1>3
  <2>2. SubSeq(d, i, i + 3) = CrLfCrLf <=>
          w[i] = "cr" /\ w[i + 1] = "lf" /\ w[i + 2] = "cr" /\ w[i + 3] = "lf"
    <3>1. d[i] = w[i] /\ d[i + 1] = w[i + 1] /\ d[i + 2] = w[i + 2] /\ d[i + 3] = w[i + 3]
      BY <1>3, <2>1
    <3>2. SubSeq(d, i, i + 3) = CrLfCrLf <=>
            d[i] = "cr" /\ d[i + 1] = "lf" /\ d[i + 2] = "cr" /\ d[i + 3] = "lf"
      BY <1>3, QuadAt
    <3> QED
      BY <3>1, <3>2
  <2>3. CASE i <= 3 * k /\ i % 3 = 1
    <3>1. w[i] \in HeaderTexts \union FirstTexts /\ i # 3 * k - 1
      BY <1>1, <2>1, <2>3
    <3> QED
      BY <2>2, <3>1, NamesApart
  <2>4. CASE i <= 3 * k /\ i % 3 # 1 /\ i % 3 # 2
    <3>1. w[i] = "lf" /\ i # 3 * k - 1
      BY <1>1, <2>1, <2>4
    <3> QED
      BY <2>2, <3>1
  <2>5. CASE i <= 3 * k /\ i % 3 = 2 /\ i # 3 * k - 1
    <3>1. (i + 2) % 3 = 1 /\ i + 2 \in 1 .. 3 * k /\ i + 2 > 1
      <4>1. i \in Nat /\ i >= 1
        BY <2>1
      <4>2. PICK u \in Nat : i = 3 * u + 2
        BY ONLY <2>5, <4>1
      <4>3. u < k - 1
        BY ONLY <2>5, <4>1, <4>2, k \in Nat
      <4>4. i + 2 = 3 * (u + 1) + 1 /\ i + 2 <= 3 * k
        BY ONLY <4>2, <4>3, k \in Nat
      <4>5. (3 * (u + 1) + 1) % 3 = 1
        BY ONLY u \in Nat
      <4> QED
        BY ONLY <4>1, <4>4, <4>5, k \in Nat
    <3>2. w[i + 2] \in HeaderTexts
      BY <1>1, <3>1
    <3> QED
      BY <2>2, <2>5, <3>2, NamesApart
  <2>6. CASE i = 3 * k - 1
    <3>1. i + 1 = 3 * k /\ i + 2 = 3 * k + 1 /\ i + 3 = 3 * k + 2
      BY <1>1, <2>6
    <3> QED
      BY <1>1, <1>4, <2>2, <2>6, <3>1
  <2>7. CASE i > 3 * k
    <3>1. i + 2 \in 3 * k + 3 .. Len(w) /\ i # 3 * k - 1
      BY <1>1, <1>3, <2>1, <2>7
    <3>2. w[i + 2] = "b"
      BY <1>1, <3>1
    <3> QED
      BY <2>2, <3>1, <3>2
  <2> QED
    BY <1>1, <2>3, <2>4, <2>5, <2>6, <2>7
<1>6. Len(CrLfCrLf) = 4
  BY DEF CrLfCrLf
<1>7. FoundAt(d, CrLfCrLf) = {i \in 1 .. Len(d) - 3 : i = 3 * k - 1}
  <2>1. Len(d) - 4 + 1 = Len(d) - 3 /\ \A i \in 1 .. Len(d) - 3 : i + 4 - 1 = i + 3
    BY <1>3
  <2> QED
    BY <1>5, <1>6, <2>1 DEF FoundAt
<1>8. CASE 3 * k + 2 <= n
  <2>1. FoundAt(d, CrLfCrLf) = {3 * k - 1}
    BY <1>1, <1>3, <1>7, <1>8
  <2> QED
    BY <1>2, <1>8, <2>1, FirstAtFacts
<1>9. CASE ~ (3 * k + 2 <= n)
  <2>1. FoundAt(d, CrLfCrLf) = {}
    BY <1>1, <1>3, <1>7, <1>9
  <2> QED
    BY <1>2, <1>9, <2>1, FirstAtFacts
<1> QED
  BY <1>8, <1>9

(* The lines of a prefix d of n atoms.                                     *)
FrameLines(w, G, E, z, d, n) ==
    /\ get_line(d, 0) = IF G <= n THEN G ELSE 0
    /\ \A q \in LineStarts(d, G) : q < E => ~ EmptyLine(d, q, get_line(d, q))
    /\ \A q \in LineStarts(d, G) : q < E /\ E <= n => get_line(d, q) # 0
    /\ E <= n => get_line(d, E) = IF E + z <= n THEN z ELSE 0
    /\ \A q \in LineStarts(d, G) : q > E => E + z <= q /\ E + z <= n

LEMMA FrameLinesHold ==
    ASSUME NEW w, NEW G, NEW E, NEW z, Framed(w, G, E, z), NEW n \in 1 .. Len(w)
    PROVE  FrameLines(w, G, E, z, SubSeq(w, 1, n), n)
<1>1. /\ w \in Seq(Atoms) /\ G \in Nat /\ E \in Nat /\ z \in {1, 2}
      /\ 2 <= G /\ G <= E /\ E + z <= Len(w)
      /\ w[G] = "lf" /\ w[E] = "lf" /\ w[E + z] = "lf"
      /\ z = 2 => w[E + 1] = "cr"
      /\ \A i \in 1 .. G - 1 : w[i] # "lf"
      /\ \A q \in G .. E - 1 : w[q] = "lf" => q + 2 <= E /\ w[q + 1] # "cr" /\ w[q + 1] # "lf"
  BY DEF Framed
<1>2. PICK d : d = SubSeq(w, 1, n)
  OBVIOUS
<1>3. /\ d \in Seq(Atoms) /\ Len(d) = n /\ n \in Nat /\ n <= Len(w) /\ 1 <= n
      /\ Len(w) \in Nat /\ \A i \in 1 .. n : d[i] = w[i]
  <2>1. n \in 0 .. Len(w)
    OBVIOUS
  <2> QED
    BY <1>1, <1>2, <2>1, PrefixFacts
<1>4. get_line(d, 0) = IF G <= n THEN G ELSE 0
  <2>1. CASE G <= n
    <3>1. IsLine(d, 0, G)
      BY <1>1, <1>3, <2>1 DEF IsLine
    <3> QED
      BY <1>3, <2>1, <3>1, LineUnique
  <2>2. CASE ~ (G <= n)
    <3>1. IsLine(d, 0, 0)
      BY <1>1, <1>3, <2>2 DEF IsLine
    <3> QED
      BY <1>3, <2>2, <3>1, LineUnique
  <2> QED
    BY <2>1, <2>2
<1>5. ASSUME G <= n, NEW q \in LineStarts(d, G), q < E
      PROVE  ~ EmptyLine(d, q, get_line(d, q)) /\ (E <= n => get_line(d, q) # 0)
  <2>1. q \in G .. E - 1 /\ q \in 1 .. n /\ w[q] = "lf"
    BY <1>1, <1>3, <1>5 DEF LineStarts
  <2>2. q + 2 <= E /\ w[q + 1] # "cr" /\ w[q + 1] # "lf"
    BY <1>1, <2>1
  <2>3. PICK g : g = get_line(d, q)
    OBVIOUS
  <2>4. g \in Nat /\ IsLine(d, q, g) /\ q \in Nat
    BY <1>3, <2>1, <2>3, GetLine
  <2>5. g # 0 => q + g \in 1 .. n /\ d[q + g] = "lf" /\ q + 1 \in 1 .. n
    BY <1>3, <2>1, <2>4 DEF IsLine
  <2>6. g # 1
    BY <1>3, <2>2, <2>5
  <2>7. ~ (g = 2 /\ d[q + 1] = "cr")
    BY <1>3, <2>2, <2>5
  <2>8. E <= n => g # 0
    <3> SUFFICES ASSUME E <= n, g = 0 PROVE FALSE
      OBVIOUS
    <3>1. E \in q + 1 .. Len(d) /\ E \in 1 .. n
      BY <1>1, <1>3, <2>1
    <3>2. d[E] = "lf"
      BY <1>1, <1>3, <3>1
    <3> QED
      BY <2>4, <3>1, <3>2 DEF IsLine
  <2> QED
    BY <2>3, <2>6, <2>7, <2>8 DEF EmptyLine
<1>6. ASSUME E <= n
      PROVE  get_line(d, E) = IF E + z <= n THEN z ELSE 0
  <2>1. \A i \in E + 1 .. E + z - 1 : w[i] # "lf"
    BY <1>1
  <2>2. CASE E + z <= n
    <3>1. IsLine(d, E, z)
      BY <1>1, <1>3, <2>1, <2>2 DEF IsLine
    <3> QED
      BY <1>1, <1>3, <2>2, <3>1, LineUnique
  <2>3. CASE ~ (E + z <= n)
    <3>1. \A i \in E + 1 .. Len(d) : i \in E + 1 .. E + z - 1 /\ i \in 1 .. n
      BY <1>1, <1>3, <2>3
    <3>2. IsLine(d, E, 0)
      BY <1>3, <2>1, <3>1 DEF IsLine
    <3> QED
      BY <1>1, <1>3, <2>3, <3>2, LineUnique
  <2> QED
    BY <2>2, <2>3
<1>7. ASSUME G <= n, NEW q \in LineStarts(d, G), q > E
      PROVE  E + z <= q /\ E + z <= n
  <2>1. q \in G .. n /\ q \in 1 .. n /\ w[q] = "lf"
    BY <1>1, <1>3, <1>7 DEF LineStarts
  <2>2. q # E + 1 \/ z # 2
    BY <1>1, <2>1
  <2> QED
    BY <1>1, <1>3, <1>7, <2>1, <2>2
<1>8. ASSUME ~ (G <= n) PROVE LineStarts(d, G) = {G} /\ (E <= n) = FALSE
  BY <1>1, <1>3, <1>8 DEF LineStarts
<1>9. CASE G <= n
  BY <1>2, <1>4, <1>5, <1>6, <1>7, <1>9 DEF FrameLines
<1>10. CASE ~ (G <= n)
  <2>1. \A q \in LineStarts(d, G) : q = G /\ ~ (q > E)
    BY <1>1, <1>8, <1>10
  <2>2. get_line(d, G) = 0
    <3>1. IsLine(d, G, 0)
      BY <1>1, <1>3, <1>10 DEF IsLine
    <3> QED
      BY <1>1, <1>3, <3>1, LineUnique
  <2>3. ~ EmptyLine(d, G, 0)
    BY DEF EmptyLine
  <2> QED
    BY <1>2, <1>4, <1>8, <1>10, <2>1, <2>2, <2>3 DEF FrameLines
<1> QED
  BY <1>9, <1>10

LEMMA AfterLineFacts ==
    ASSUME NEW g \in Nat
    PROVE  /\ AfterLine(g) \in ReqType /\ AfterLine(g).line = TRUE /\ AfterLine(g).attr = 0
           /\ AfterLine(g).infused = 0 /\ AfterLine(g).parsed = g /\ AfterLine(g).inited = FALSE
<1>1. Unset \in Nat
  BY HttpRequestAssumption DEF Unset
<1>2. AfterLine(g) \in ReqType
  BY <1>1 DEF AfterLine, ReqType
<1>3. /\ AfterLine(g).line = TRUE /\ AfterLine(g).attr = 0 /\ AfterLine(g).inited = FALSE
      /\ AfterLine(g).infused = 0 /\ AfterLine(g).parsed = g
  BY Zenon DEF AfterLine
<1> QED
  BY <1>2, <1>3

(* What a changed header leaves of the object.                             *)
KeptBy(h, r, p, b, a) ==
    /\ h \in ReqType /\ h.parsed = p /\ h.header = b /\ h.attr = a
    /\ h.line = r.line /\ h.infused = r.infused /\ h.inited = r.inited

LEMMA KeptByHeader ==
    ASSUME NEW r \in ReqType, NEW p \in Nat, NEW b \in BOOLEAN, NEW a \in Nat
    PROVE  KeptBy([r EXCEPT !.parsed = p, !.header = b, !.attr = a], r, p, b, a)
<1>0. PICK h : h = [r EXCEPT !.parsed = p, !.header = b, !.attr = a]
  OBVIOUS
<1>1. UpdatedTo([r EXCEPT !.parsed = p, !.header = b, !.attr = a], p, b, a)
  BY ReqUpdate
<1>2. UpdatedTo(h, p, b, a)
  BY <1>0, <1>1, Zenon
<1>3. h.line = r.line /\ h.infused = r.infused /\ h.inited = r.inited
  BY <1>0 DEF ReqType
<1>4. KeptBy(h, r, p, b, a)
  BY <1>2, <1>3, Zenon DEF UpdatedTo, KeptBy
<1> QED
  BY <1>0, <1>4, Zenon

(* While the head is incomplete the parser is.                             *)
LEMMA FrameShort ==
    ASSUME NEW w, NEW G, NEW E, NEW z, Framed(w, G, E, z), NEW n \in 1 .. Len(w), n < E + z,
           ShortHead(w), "nocolon" \notin ToSet(w), Method(w[1])
    PROVE  Parsed(SubSeq(w, 1, n)).r.inited = FALSE
<1>1. PICK d : d = SubSeq(w, 1, n)
  OBVIOUS
<1>2. /\ w \in Seq(Atoms) /\ G \in Nat /\ E \in Nat /\ z \in {1, 2} /\ 2 <= G /\ G <= E
      /\ w[G] = "lf" /\ n \in Nat /\ n \in 0 .. Len(w)
  BY DEF Framed
<1>3. d \in Seq(Atoms) /\ Len(d) = n /\ \A i \in 1 .. n : d[i] = w[i]
  BY <1>1, <1>2, PrefixFacts
<1>4. FrameLines(w, G, E, z, d, n)
  BY <1>1, FrameLinesHold
<1>5. PICK g : g = get_line(d, 0)
  OBVIOUS
<1>6. /\ g = 0 => Parsed(d) = [r |-> CHttpReq, ret |-> "ok"]
      /\ g # 0 /\ Method(d[1]) =>
             Parsed(d) = [r |-> input_body(Header_infuse(AfterLine(g), d), FALSE, d), ret |-> "ok"]
  BY <1>3, <1>5, DecodeFacts
<1>7. CASE g = 0
  <2>1. Parsed(d).r = CHttpReq
    BY <1>6, <1>7
  <2> QED
    BY <1>1, <2>1, NewReqFacts
<1>8. CASE g # 0
  <2>1. g = G /\ G <= n /\ G \in 1 .. n
    BY <1>2, <1>4, <1>5, <1>8 DEF FrameLines
  <2>2. Method(d[1])
    <3>1. d[1] = w[1]
      BY <1>2, <1>3
    <3> QED
      BY <3>1
  <2>3. PICK l : l = AfterLine(G)
    OBVIOUS
  <2>4. l \in ReqType /\ l.parsed = G /\ l.inited = FALSE /\ l.attr = 0
    BY <1>2, <2>3, AfterLineFacts
  <2>5. PICK e \in G .. n : FirstEnd(d, G, e) /\ Header_infuse(l, d) = Infused(l, w, n, G, e)
    BY <1>1, <1>2, <2>1, <2>4, HeaderFacts
  <2>6. ~ EmptyLine(d, e, get_line(d, e))
    <3>1. e \in LineStarts(d, G)
      BY <2>5 DEF FirstEnd
    <3>2. e < E => ~ EmptyLine(d, e, get_line(d, e))
      BY <1>4, <3>1 DEF FrameLines
    <3>3. ~ (E + z <= n)
      BY <1>2
    <3>4. ~ (e > E)
      BY <1>4, <3>1, <3>3 DEF FrameLines
    <3>5. e = E => get_line(d, e) = 0
      BY <1>2, <1>4, <2>5, <3>3 DEF FrameLines
    <3>6. ~ EmptyLine(d, e, 0)
      BY DEF EmptyLine
    <3> QED
      BY <1>2, <2>5, <3>2, <3>4, <3>5, <3>6
  <2>7. PICK h : h = Header_infuse(l, d)
    OBVIOUS
  <2>8. PICK p, b, a : p = e + get_line(d, e) /\ b = EmptyLine(d, e, get_line(d, e)) /\ a = AttrOf(w, G, e, l.attr)
    OBVIOUS
  <2>9. h = [l EXCEPT !.parsed = p, !.header = b, !.attr = a]
    BY <1>1, <2>5, <2>7, <2>8, Zenon DEF Infused
  <2>10. p \in Nat /\ b = FALSE /\ a \in Nat
    <3>1. e \in Nat /\ get_line(d, e) \in Nat
      BY <1>2, <1>3, <2>5, GetLine
    <3>2. b \in BOOLEAN
      BY <2>8 DEF EmptyLine
    <3> QED
      BY <1>2, <2>4, <2>6, <2>8, <3>1, <3>2, AttrType
  <2>11. h.header = FALSE /\ h.inited = FALSE
    <3>1. b \in BOOLEAN
      BY <2>10
    <3>2. KeptBy([l EXCEPT !.parsed = p, !.header = b, !.attr = a], l, p, b, a)
      BY <2>4, <2>10, <3>1, KeptByHeader
    <3>3. KeptBy(h, l, p, b, a)
      BY ONLY <2>9, <3>2, Zenon
    <3> QED
      BY <2>4, <2>10, <3>3, Zenon DEF KeptBy
  <2>12. input_body(h, FALSE, d) = h
    BY <2>11, Zenon DEF input_body
  <2>13. Parsed(d) = [r |-> h, ret |-> "ok"]
    BY <1>6, <1>8, <2>1, <2>2, <2>3, <2>7, <2>12
  <2> QED
    BY <1>1, <2>11, <2>13
<1> QED
  BY <1>7, <1>8

(* The object once n atoms with a head of H and a length of c are there.   *)
WholeReq(H, c, n) ==
    [line |-> TRUE, header |-> TRUE, attr |-> c, length |-> c,
     infused |-> SmallerOf(n - H, c), parsed |-> H + SmallerOf(n - H, c),
     offset |-> H, attached |-> TRUE, inited |-> c <= SmallerOf(n - H, c)]

LEMMA BodyWhole ==
    ASSUME NEW h \in ReqType, h.line = TRUE, h.header = TRUE, h.infused = 0,
           NEW d, Len(d) \in Nat, h.parsed <= Len(d)
    PROVE  input_body(h, FALSE, d) = WholeReq(h.parsed, h.attr, Len(d))
<1>1. PICK b, base : b = Body_start(h) /\ base = h.parsed
  OBVIOUS
<1>2. b = [line |-> h.line, header |-> h.header, attr |-> h.attr, length |-> h.attr,
           infused |-> h.infused, parsed |-> h.parsed, offset |-> h.parsed,
           attached |-> TRUE, inited |-> h.inited]
  BY <1>1 DEF Body_start, ReqType
<1>3. h.attr \in Nat /\ h.parsed \in Nat /\ h.inited \in BOOLEAN
  BY DEF ReqType
<1>4. b \in ReqType
  BY <1>2, <1>3 DEF ReqType
<1>5. /\ b.infused = 0 /\ b.length = h.attr /\ b.parsed = base /\ b.line = TRUE
      /\ b.header = TRUE /\ b.attr = h.attr /\ b.offset = base /\ b.attached = TRUE
  <2>1. h.infused = 0 /\ h.parsed = base /\ h.line = TRUE /\ h.header = TRUE
    BY <1>1
  <2> QED
    BY ONLY <1>2, <2>1, Zenon
<1>6. base \in Nat /\ b.infused <= b.length /\ b.parsed = base + b.infused /\ b.parsed <= Len(d)
  BY <1>1, <1>3, <1>5
<1>7. Req_inited(Body_input(b, d)) = Filled(b, base, Len(d))
  BY <1>4, <1>6, BodyStep
<1>8. Filled(b, base, Len(d)) = WholeReq(base, h.attr, Len(d))
  BY <1>5, Zenon DEF Filled, WholeReq
<1>9. input_body(h, FALSE, d) = Req_inited(Body_input(b, d))
  BY <1>1, Zenon DEF input_body
<1> QED
  BY <1>1, <1>7, <1>8, <1>9

LEMMA FrameLong ==
    ASSUME NEW w, NEW G, NEW E, NEW z, Framed(w, G, E, z), NEW n \in 1 .. Len(w), E + z <= n,
           ShortHead(w), "nocolon" \notin ToSet(w), Method(w[1])
    PROVE  Parsed(SubSeq(w, 1, n)) = [r |-> WholeReq(E + z, AttrOf(w, G, E, 0), n), ret |-> "ok"]
<1>1. PICK d : d = SubSeq(w, 1, n)
  OBVIOUS
<1>2. /\ w \in Seq(Atoms) /\ G \in Nat /\ E \in Nat /\ z \in {1, 2} /\ 2 <= G /\ G <= E
      /\ w[G] = "lf" /\ w[E] = "lf" /\ (z = 2 => w[E + 1] = "cr") /\ n \in Nat /\ n \in 0 .. Len(w)
  BY DEF Framed
<1>3. d \in Seq(Atoms) /\ Len(d) = n /\ \A i \in 1 .. n : d[i] = w[i]
  BY <1>1, <1>2, PrefixFacts
<1>4. FrameLines(w, G, E, z, d, n)
  BY <1>1, FrameLinesHold
<1>5. get_line(d, 0) = G /\ G # 0 /\ G \in 1 .. n /\ get_line(d, E) = z
  BY <1>2, <1>4 DEF FrameLines
<1>6. Method(d[1])
  <2>1. d[1] = w[1]
    BY <1>2, <1>3
  <2> QED
    BY <2>1
<1>7. Parsed(d) = [r |-> input_body(Header_infuse(AfterLine(G), d), FALSE, d), ret |-> "ok"]
  BY <1>3, <1>5, <1>6, DecodeFacts
<1>8. PICK l : l = AfterLine(G)
  OBVIOUS
<1>9. l \in ReqType /\ l.parsed = G /\ l.inited = FALSE /\ l.attr = 0 /\ l.line = TRUE /\ l.infused = 0
  BY <1>2, <1>8, AfterLineFacts
<1>10. PICK e \in G .. n : FirstEnd(d, G, e) /\ Header_infuse(l, d) = Infused(l, w, n, G, e)
  BY <1>1, <1>2, <1>5, <1>9, HeaderFacts
<1>11. EmptyLine(d, E, z)
  <2>1. E + 1 \in 1 .. n
    BY <1>2
  <2> QED
    BY <1>2, <1>3, <2>1 DEF EmptyLine
<1>12. FirstEnd(d, G, E)
  <2>1. E \in LineStarts(d, G)
    <3>1. E = G \/ E \in G + 1 .. Len(d)
      BY <1>2, <1>3
    <3>2. d[E] = "lf"
      BY <1>2, <1>3
    <3> QED
      BY <3>1, <3>2 DEF LineStarts
  <2>2. Ends(d, E)
    BY <1>5, <1>11 DEF Ends
  <2>3. ASSUME NEW q \in LineStarts(d, G), Ends(d, q) PROVE E <= q
    <3>1. q \in Nat
      BY <1>2, <1>3 DEF LineStarts
    <3>2. E <= n
      BY <1>2
    <3>3. q < E => ~ Ends(d, q)
      BY <1>4, <3>2 DEF FrameLines, Ends
    <3> QED
      BY <1>2, <2>3, <3>1, <3>3
  <2> QED
    BY <2>1, <2>2, <2>3 DEF FirstEnd
<1>13. e = E
  <2>1. G \in 0 .. Len(d)
    BY <1>3, <1>5
  <2> QED
    BY <1>3, <1>10, <1>12, <2>1, FirstEndUnique
<1>14. PICK h, a : h = Header_infuse(l, d) /\ a = AttrOf(w, G, E, 0)
  OBVIOUS
<1>15. h = [l EXCEPT !.parsed = E + z, !.header = TRUE, !.attr = a]
  <2>1. EmptyLine(d, E, z) = TRUE
    BY <1>11 DEF EmptyLine
  <2>2. h = [l EXCEPT !.parsed = E + get_line(d, E), !.header = EmptyLine(d, E, get_line(d, E)),
                      !.attr = AttrOf(w, G, E, l.attr)]
    BY <1>1, <1>10, <1>13, <1>14, Zenon DEF Infused
  <2> QED
    BY ONLY <1>5, <1>9, <1>14, <2>1, <2>2, Zenon
<1>16. E + z \in Nat /\ TRUE \in BOOLEAN /\ a \in Nat
  BY <1>2, <1>14, AttrType
<1>17. /\ h \in ReqType /\ h.parsed = E + z /\ h.header = TRUE /\ h.attr = a
       /\ h.line = TRUE /\ h.infused = 0
  <2>1. PICK b : b = TRUE
    OBVIOUS
  <2>2. h = [l EXCEPT !.parsed = E + z, !.header = b, !.attr = a]
    BY <1>15, <2>1, Zenon
  <2> QED
    <3>1. b \in BOOLEAN
      BY <2>1
    <3>2. KeptBy([l EXCEPT !.parsed = E + z, !.header = b, !.attr = a], l, E + z, b, a)
      BY <1>9, <1>16, <3>1, KeptByHeader
    <3>3. KeptBy(h, l, E + z, b, a)
      BY ONLY <2>2, <3>2, Zenon
    <3> QED
      BY ONLY <1>9, <2>1, <3>3, Zenon DEF KeptBy
<1>18. Len(d) \in Nat /\ h.parsed <= Len(d)
  BY <1>2, <1>3, <1>17
<1>19. input_body(h, FALSE, d) = WholeReq(E + z, a, n)
  BY <1>3, <1>17, <1>18, BodyWhole
<1> QED
  BY <1>1, <1>7, <1>8, <1>14, <1>19

LEMMA FirstOfFacts ==
    ASSUME NEW d \in Seq(Atoms), NEW X
    PROVE  /\ (\A i \in 1 .. Len(d) : d[i] \notin X) => FirstOf(d, X) = 0
           /\ (\E i \in 1 .. Len(d) : d[i] \in X) =>
                  FirstOf(d, X) \in 1 .. Len(d) /\ d[FirstOf(d, X)] \in X
<1>1. PICK at : at = {i \in DOMAIN d : d[i] \in X}
  OBVIOUS
<1>2. FirstOf(d, X) = IF at = {} THEN 0 ELSE CHOOSE i \in at : \A j \in at : i <= j
  BY <1>1 DEF FirstOf
<1>3. DOMAIN d = 1 .. Len(d) /\ Len(d) \in Nat
  OBVIOUS
<1>4. CASE at = {}
  BY <1>1, <1>2, <1>3, <1>4
<1>5. CASE at # {}
  <2>1. at \subseteq Nat
    BY <1>1, <1>3
  <2>2. \E i \in at : \A j \in at : i <= j
    BY <1>5, <2>1, LeastNat
  <2>3. PICK x : x = CHOOSE i \in at : \A j \in at : i <= j
    OBVIOUS
  <2>4. x \in at
    BY ONLY <2>2, <2>3
  <2>5. FirstOf(d, X) = x
    BY <1>2, <1>5, <2>3
  <2> QED
    BY <1>1, <1>3, <1>5, <2>4, <2>5
<1> QED
  BY <1>4, <1>5

LEMMA ContentType ==
    ASSUME NEW d \in Seq(Atoms), NEW X, X \subseteq NamesLength
    PROVE  ContentLength(d, X) \in Nat
<1>1. PICK f : f = FirstOf(d, X)
  OBVIOUS
<1>2. CASE f = 0
  BY <1>1, <1>2 DEF ContentLength
<1>3. CASE f # 0
  <2>1. d[f] \in NamesLength
    BY <1>1, <1>3, FirstOfFacts
  <2>2. LengthIn(d[f]) \in Nat
    BY <2>1, NamedType
  <2> QED
    BY <1>1, <1>3, <2>2 DEF ContentLength
<1> QED
  BY <1>2, <1>3

(* Every search finds the same in a whole head as in the message.          *)
LEMMA SearchHead ==
    ASSUME NEW w, NEW G, NEW E, NEW z, Framed(w, G, E, z),
           NEW n \in 1 .. Len(w), E + z <= n, NEW X, X \subseteq NamesLength
    PROVE  ContentLength(SubSeq(w, 1, n), X) = ContentLength(w, X)
<1>1. PICK d : d = SubSeq(w, 1, n)
  OBVIOUS
<1>2. /\ w \in Seq(Atoms) /\ G \in Nat /\ E \in Nat /\ z \in {1, 2}
      /\ n \in Nat /\ n \in 0 .. Len(w) /\ Len(w) \in Nat /\ n <= Len(w)
      /\ \A i \in 1 .. Len(w) : w[i] \in NamesLength => i - 1 \in G .. E - 1 /\ w[i - 1] = "lf"
  BY DEF Framed
<1>3. d \in Seq(Atoms) /\ Len(d) = n /\ \A i \in 1 .. n : d[i] = w[i]
  BY <1>1, <1>2, PrefixFacts
<1>4. PICK at : at = {i \in DOMAIN w : w[i] \in X}
  OBVIOUS
<1>5. at = {i \in DOMAIN d : d[i] \in X} /\ at \subseteq 1 .. n
  <2>1. DOMAIN w = 1 .. Len(w) /\ DOMAIN d = 1 .. n
    BY <1>2, <1>3
  <2>2. \A i \in at : i \in 1 .. n
    <3> TAKE i \in at
    <3>1. i \in 1 .. Len(w) /\ w[i] \in NamesLength
      BY <1>4, <2>1
    <3>2. i - 1 \in G .. E - 1
      BY <1>2, <3>1
    <3> QED
      BY <1>2, <3>1, <3>2
  <2>3. \A i \in 1 .. n : i \in 1 .. Len(w)
    BY <1>2
  <2> QED
    BY <1>3, <1>4, <2>1, <2>2, <2>3
<1>6. PICK f : f = FirstOf(w, X)
  OBVIOUS
<1>7. FirstOf(d, X) = f
  <2>1. f = IF at = {} THEN 0 ELSE CHOOSE i \in at : \A j \in at : i <= j
    BY <1>4, <1>6 DEF FirstOf
  <2>2. FirstOf(d, X) = IF at = {} THEN 0 ELSE CHOOSE i \in at : \A j \in at : i <= j
    BY <1>5 DEF FirstOf
  <2> QED
    BY ONLY <2>1, <2>2, Zenon
<1>8. f # 0 => d[f] = w[f]
  <2> SUFFICES ASSUME f # 0 PROVE d[f] = w[f]
    OBVIOUS
  <2>1. \E i \in 1 .. Len(d) : d[i] \in X
    BY <1>3, <1>7, FirstOfFacts
  <2>2. f \in 1 .. n
    BY <1>3, <1>7, <2>1, FirstOfFacts
  <2> QED
    BY <1>3, <2>2
<1> QED
  BY <1>1, <1>6, <1>7, <1>8 DEF ContentLength

(* What the parser reads is the last length of the message.                *)
LEMMA DeclaredIs ==
    ASSUME NEW w, NEW G, NEW E, NEW z, Framed(w, G, E, z)
    PROVE  AttrOf(w, G, E, 0) = Declared(w)
<1>1. PICK N, at : N = NamedIn(w, G, E) /\ at = {i \in DOMAIN w : w[i] \in HeaderLength}
  OBVIOUS
<1>2. /\ w \in Seq(Atoms) /\ G \in Nat /\ E \in Nat /\ z \in {1, 2} /\ 2 <= G
      /\ Len(w) \in Nat /\ E + z <= Len(w) /\ DOMAIN w = 1 .. Len(w)
      /\ \A i \in 1 .. Len(w) : w[i] \in NamesLength => i - 1 \in G .. E - 1 /\ w[i - 1] = "lf"
  BY DEF Framed
<1>3. HeaderLength \subseteq NamesLength
  BY DEF HeaderLength, NamesLength
<1>4. N \subseteq Nat /\ (\A x \in N : x <= E) /\ \A x \in N : x + 1 \in at
  <2>1. \A x \in N : x \in G .. E - 1 /\ w[x + 1] \in HeaderLength
    BY <1>1 DEF NamedIn
  <2>2. \A x \in G .. E - 1 : x \in Nat /\ x <= E /\ x + 1 \in 1 .. Len(w)
    BY <1>2
  <2> QED
    BY <1>1, <1>2, <2>1, <2>2
<1>5. at \subseteq Nat /\ (\A i \in at : i <= Len(w)) /\ \A i \in at : i - 1 \in N
  <2>1. \A i \in at : i \in 1 .. Len(w) /\ w[i] \in HeaderLength
    BY <1>1, <1>2
  <2>2. ASSUME NEW i \in at PROVE i - 1 \in N
    <3>1. i \in 1 .. Len(w) /\ w[i] \in NamesLength
      BY <1>3, <2>1
    <3>2. i - 1 \in G .. E - 1 /\ w[i - 1] = "lf" /\ (i - 1) + 1 = i
      BY <1>2, <3>1
    <3> QED
      BY <1>1, <2>1, <3>2 DEF NamedIn
  <2> QED
    BY <1>2, <2>1, <2>2
<1>6. CASE N = {}
  <2>1. at = {}
    BY <1>5, <1>6
  <2> QED
    BY <1>1, <1>6, <2>1 DEF AttrOf, Declared
<1>7. CASE N # {}
  <2>1. at # {}
    BY <1>4, <1>7
  <2>2. PICK x, y : x = LastOf(N) /\ y = LastOf(at)
    OBVIOUS
  <2>3. x \in N /\ \A u \in N : u <= x
    BY <1>2, <1>4, <1>7, <2>2, LastOfFacts
  <2>4. y \in at /\ \A u \in at : u <= y
    BY <1>2, <1>5, <2>1, <2>2, LastOfFacts
  <2>5. x \in Nat /\ y \in Nat /\ x + 1 <= y /\ y - 1 <= x
    BY <1>4, <1>5, <2>3, <2>4
  <2>6. y = x + 1
    BY <2>5
  <2>7. AttrOf(w, G, E, 0) = get_name_value(w[x + 1])
    BY <1>1, <1>7, <2>2 DEF AttrOf
  <2>8. Declared(w) = get_name_value(w[y])
    BY <1>1, <2>1, <2>2 DEF Declared
  <2> QED
    BY <2>6, <2>7, <2>8
<1> QED
  BY <1>6, <1>7

(* Where the line ends are mixed, and where they are not.                  *)
LEMMA MixedMixed ==
    ASSUME NEW w, NEW k \in Nat, MixedShape(w, k)
    PROVE  MixedEnds(w)
<1>1. /\ w \in Seq(Atoms) /\ k \in Nat \ {0} /\ Len(w) >= 2 * k + 2 /\ Len(w) \in Nat
      /\ w[1] \in FirstTexts
      /\ \A i \in 1 .. 2 * k : IF i % 2 = 1 THEN i > 1 => w[i] \in HeaderTexts ELSE w[i] = "lf"
      /\ w[2 * k + 1] = "cr" /\ w[2 * k + 2] = "lf"
  BY DEF MixedShape, LfLines
<1>2. PICK i : i = 2 * k
  OBVIOUS
<1>3. i \in 2 .. Len(w) - 2 /\ i \in 1 .. Len(w) - 2
  BY <1>1, <1>2
<1>4. w[i] = "lf" /\ w[i + 1] = "cr" /\ w[i + 2] = "lf"
  <2>1. 2 * k \in 1 .. 2 * k /\ (2 * k) % 2 # 1
    BY <1>1
  <2> QED
    BY <1>1, <1>2, <2>1
<1>5. w[i - 1] # "cr"
  <2>1. i - 1 \in 1 .. 2 * k /\ (i - 1) % 2 = 1
    BY <1>1, <1>2
  <2>2. w[i - 1] \in HeaderTexts \union FirstTexts
    BY <1>1, <2>1
  <2> QED
    BY <2>2, NamesApart
<1>6. SubSeq(w, i, i + 2) = <<"lf", "cr", "lf">>
  BY <1>1, <1>3, <1>4, TripleAt
<1> QED
  BY <1>3, <1>5, <1>6 DEF MixedEnds

LEMMA LfNotMixed ==
    ASSUME NEW w, NEW k \in Nat, LfShape(w, k)
    PROVE  ~ MixedEnds(w)
<1>1. /\ w \in Seq(Atoms) /\ k \in Nat \ {0} /\ Len(w) >= 2 * k + 1 /\ Len(w) \in Nat
      /\ w[1] \in FirstTexts
      /\ \A i \in 1 .. 2 * k : IF i % 2 = 1 THEN i > 1 => w[i] \in HeaderTexts ELSE w[i] = "lf"
      /\ w[2 * k + 1] = "lf" /\ \A i \in 2 * k + 2 .. Len(w) : w[i] = "b"
  BY DEF LfShape, LfLines
<1> SUFFICES ASSUME NEW i \in 2 .. Len(w) - 2, SubSeq(w, i, i + 2) = <<"lf", "cr", "lf">>
             PROVE  FALSE
  BY DEF MixedEnds
<1>2. i \in 1 .. Len(w) - 2 /\ i + 1 \in 1 .. Len(w)
  BY <1>1
<1>3. w[i + 1] = "cr"
  BY <1>1, <1>2, TripleAt
<1>4. i + 1 \in 2 .. 2 * k \/ i + 1 = 2 * k + 1 \/ i + 1 \in 2 * k + 2 .. Len(w)
  BY <1>1, <1>2
<1>5. i + 1 \in 2 .. 2 * k => w[i + 1] \in HeaderTexts \/ w[i + 1] = "lf"
  BY <1>1
<1> QED
  BY <1>1, <1>3, <1>4, <1>5, NamesApart

LEMMA CrLfNotMixed ==
    ASSUME NEW w, NEW k \in Nat, CrLfShape(w, k)
    PROVE  ~ MixedEnds(w)
<1>1. /\ w \in Seq(Atoms) /\ k \in Nat \ {0} /\ Len(w) >= 3 * k + 2 /\ Len(w) \in Nat
      /\ w[1] \in FirstTexts
      /\ \A i \in 1 .. 3 * k : IF i % 3 = 1 THEN i > 1 => w[i] \in HeaderTexts
                                ELSE IF i % 3 = 2 THEN w[i] = "cr" ELSE w[i] = "lf"
      /\ w[3 * k + 1] = "cr" /\ w[3 * k + 2] = "lf" /\ \A i \in 3 * k + 3 .. Len(w) : w[i] = "b"
  BY DEF CrLfShape
<1> SUFFICES ASSUME NEW i \in 2 .. Len(w) - 2, SubSeq(w, i, i + 2) = <<"lf", "cr", "lf">>,
                    w[i - 1] # "cr"
             PROVE  FALSE
  BY DEF MixedEnds
<1>2. i \in 1 .. Len(w) - 2 /\ i + 1 \in 1 .. Len(w)
  BY <1>1
<1>3. w[i] = "lf" /\ w[i + 1] = "cr"
  BY <1>1, <1>2, TripleAt
<1>4. CASE i <= 3 * k
  <2>1. i \in 1 .. 3 * k /\ i > 1
    BY <1>1, <1>2, <1>4
  <2>2. i % 3 # 1 /\ i % 3 # 2
    <3>1. i % 3 = 1 => w[i] \in HeaderTexts
      BY <1>1, <2>1
    <3>2. i % 3 = 2 => w[i] = "cr"
      BY <1>1, <2>1
    <3> QED
      BY <1>3, <3>1, <3>2, NamesApart
  <2>3. i - 1 \in 1 .. 3 * k /\ (i - 1) % 3 = 2
    BY <2>1, <2>2
  <2> QED
    BY <1>1, <2>3
<1>5. CASE i = 3 * k + 1
  BY <1>1, <1>3, <1>5
<1>6. CASE i > 3 * k + 1
  <2>1. i + 1 \in 3 * k + 3 .. Len(w)
    BY <1>1, <1>2, <1>6
  <2> QED
    BY <1>1, <1>3, <2>1
<1> QED
  BY <1>1, <1>4, <1>5, <1>6

(* Neither end of a head is found in a prefix of a mixed one.              *)
LEMMA MixedEndless ==
    ASSUME NEW w, NEW k \in Nat, MixedShape(w, k), NEW n \in 0 .. Len(w)
    PROVE  /\ FirstAt(SubSeq(w, 1, n), 1, CrLfCrLf) = 0
           /\ FirstAt(SubSeq(w, 1, n), 1, LfLf) = 0
<1>1. /\ w \in Seq(Atoms) /\ k \in Nat \ {0} /\ Len(w) >= 2 * k + 2 /\ Len(w) \in Nat
      /\ w[1] \in FirstTexts
      /\ \A i \in 1 .. 2 * k : IF i % 2 = 1 THEN i > 1 => w[i] \in HeaderTexts ELSE w[i] = "lf"
      /\ w[2 * k + 1] = "cr" /\ w[2 * k + 2] = "lf" /\ \A i \in 2 * k + 3 .. Len(w) : w[i] = "b"
  BY DEF MixedShape, LfLines
<1>2. PICK d : d = SubSeq(w, 1, n)
  OBVIOUS
<1>3. d \in Seq(Atoms) /\ Len(d) = n /\ n \in Nat /\ n <= Len(w) /\ \A i \in 1 .. n : d[i] = w[i]
  BY <1>1, <1>2, PrefixFacts
<1>4. \A i \in 1 .. Len(w) : w[i] = "cr" => i = 2 * k + 1
  <2> TAKE i \in 1 .. Len(w)
  <2>1. i = 1 \/ i \in 2 .. 2 * k \/ i = 2 * k + 1 \/ i = 2 * k + 2 \/ i \in 2 * k + 3 .. Len(w)
    BY <1>1
  <2>2. i \in 2 .. 2 * k => w[i] \in HeaderTexts \/ w[i] = "lf"
    BY <1>1
  <2> QED
    BY <1>1, <2>1, <2>2, NamesApart
<1>5. \A i \in 1 .. Len(d) - 3 : SubSeq(d, i, i + 3) # CrLfCrLf
  <2> TAKE i \in 1 .. Len(d) - 3
  <2>1. /\ i \in 1 .. n /\ i \in 1 .. Len(w) /\ i + 2 \in 1 .. n /\ i + 2 \in 1 .. Len(w)
        /\ ~ (i = 2 * k + 1 /\ i + 2 = 2 * k + 1)
    BY <1>1, <1>3
  <2>2. ~ (d[i] = "cr" /\ d[i + 2] = "cr")
    BY <1>3, <1>4, <2>1
  <2> QED
    BY <1>3, <2>2, QuadAt
<1>6. FoundAt(d, CrLfCrLf) = {}
  <2>1. Len(CrLfCrLf) = 4
    BY DEF CrLfCrLf
  <2>2. \A i \in 1 .. Len(d) - 4 + 1 : i \in 1 .. Len(d) - 3 /\ i + 4 - 1 = i + 3
    BY <1>3
  <2> QED
    BY <1>5, <2>1, <2>2 DEF FoundAt
<1>7. ASSUME NEW i \in 1 .. Len(d) - 1
      PROVE  SubSeq(d, i, i + 1) # LfLf
  <2>1. i \in 1 .. n /\ i + 1 \in 1 .. n
    BY <1>3
  <2>2. SubSeq(d, i, i + 1) = LfLf <=> w[i] = "lf" /\ w[i + 1] = "lf"
    BY <1>3, <2>1, PairAt
  <2>3. CASE i < 2 * k /\ i % 2 = 1
    <3>1. w[i] \in HeaderTexts \union FirstTexts
      BY <1>1, <2>1, <2>3
    <3> QED
      BY <2>2, <2>3, <3>1, NamesApart
  <2>4. CASE i < 2 * k /\ i % 2 # 1
    <3>0. i \in Nat /\ i >= 1 /\ i < 2 * k /\ i % 2 # 1
      BY <2>1, <2>4
    <3>1. (i + 1) % 2 = 1 /\ i + 1 \in 1 .. 2 * k /\ i + 1 > 1
      <4>1. (i + 1) % 2 = 1
        BY ONLY <3>0
      <4> QED
        BY ONLY <3>0, <4>1, k \in Nat
    <3>2. w[i + 1] \in HeaderTexts
      BY <1>1, <3>1
    <3> QED
      BY <2>2, <2>4, <3>2, NamesApart
  <2>5. CASE i = 2 * k \/ i = 2 * k + 1
    BY <1>1, <2>2, <2>5
  <2>6. CASE i > 2 * k + 1
    <3>1. i + 1 \in 2 * k + 3 .. Len(w)
      BY <1>1, <1>3, <2>1, <2>6
    <3>2. w[i + 1] = "b"
      BY <1>1, <3>1
    <3> QED
      BY <2>2, <2>6, <3>2
  <2> QED
    BY <1>1, <2>3, <2>4, <2>5, <2>6
<1>8. FoundAt(d, LfLf) = {}
  <2>1. Len(LfLf) = 2
    BY DEF LfLf
  <2>2. Len(d) - 2 + 1 = Len(d) - 1 /\ \A i \in 1 .. Len(d) - 1 : i + 2 - 1 = i + 1
    BY <1>3
  <2> QED
    BY <1>7, <2>1, <2>2 DEF FoundAt
<1> QED
  BY <1>2, <1>6, <1>8, FirstAtFacts

(* The length of the head that http_complete_func finds.                   *)
HeadLen(d) ==
    IF FirstAt(d, 1, CrLfCrLf) # 0 THEN FirstAt(d, 1, CrLfCrLf) + 3
    ELSE IF FirstAt(d, 1, LfLf) # 0 THEN FirstAt(d, 1, LfLf) + 1 ELSE 0

LEMMA CompleteIs ==
    ASSUME NEW d
    PROVE  http_complete_func(d) =
             IF HeadLen(d) = 0 \/ Len(d) < ContentLength(d, NamesLength) + HeadLen(d) THEN 0
             ELSE ContentLength(d, NamesLength) + HeadLen(d)
BY Zenon DEF http_complete_func, HeadLen, CrLfCrLf, LfLf

HeadsFound(w, H) ==
    \A n \in 0 .. Len(w) : HeadLen(SubSeq(w, 1, n)) = IF H <= n THEN H ELSE 0

LEMMA HeadsLf ==
    ASSUME NEW w, NEW k \in Nat, LfShape(w, k)
    PROVE  HeadsFound(w, 2 * k + 1)
<1>1. k # 0 /\ Len(w) \in Nat
  BY DEF LfShape
<1> SUFFICES ASSUME NEW n \in 0 .. Len(w)
             PROVE  HeadLen(SubSeq(w, 1, n)) = IF 2 * k + 1 <= n THEN 2 * k + 1 ELSE 0
  BY DEF HeadsFound
<1>2. FirstAt(SubSeq(w, 1, n), 1, CrLfCrLf) = 0
  BY NoCrLf
<1>3. FirstAt(SubSeq(w, 1, n), 1, LfLf) = IF 2 * k + 1 <= n THEN 2 * k ELSE 0
  BY LfEnd
<1> QED
  BY <1>1, <1>2, <1>3 DEF HeadLen

LEMMA HeadsCrLf ==
    ASSUME NEW w, NEW k \in Nat, CrLfShape(w, k)
    PROVE  HeadsFound(w, 3 * k + 2)
<1>1. k # 0 /\ Len(w) \in Nat
  BY DEF CrLfShape
<1> SUFFICES ASSUME NEW n \in 0 .. Len(w)
             PROVE  HeadLen(SubSeq(w, 1, n)) = IF 3 * k + 2 <= n THEN 3 * k + 2 ELSE 0
  BY DEF HeadsFound
<1>2. FirstAt(SubSeq(w, 1, n), 1, CrLfCrLf) = IF 3 * k + 2 <= n THEN 3 * k - 1 ELSE 0
  BY CrLfEnd
<1>3. FirstAt(SubSeq(w, 1, n), 1, LfLf) = 0
  BY NoLf
<1> QED
  BY <1>1, <1>2, <1>3 DEF HeadLen

LEMMA MixedNeverCut ==
    ASSUME NEW w, NEW k \in Nat, MixedShape(w, k), NEW n \in 0 .. Len(w)
    PROVE  http_complete_func(SubSeq(w, 1, n)) = 0
<1>1. HeadLen(SubSeq(w, 1, n)) = 0
  BY MixedEndless DEF HeadLen
<1> QED
  BY <1>1, CompleteIs

(* What decode_head and the parser make of the c atoms that are cut out of *)
(* n, x being the atoms of them that only http_complete_func counts.       *)
CutAgrees(w, n, c, x) ==
    /\ c # 0 => decode_head(SubSeq(w, 1, c)) =
                    IF c > MAX_BUFFER_SIZE THEN "ERR_MAX_BUFFER"
                    ELSE IF x < 0 THEN "ERR_HTTP_DECODE" ELSE "ok"
    /\ c # 0 /\ x >= 0 =>
           /\ Parsed(SubSeq(w, 1, c)).r.attached
           /\ Parsed(SubSeq(w, 1, c)).r.parsed = c - x
           /\ Parsed(SubSeq(w, 1, c)).r.offset + Parsed(SubSeq(w, 1, c)).r.length = c - x
    /\ c = 0 /\ Parsed(SubSeq(w, 1, n)).r.inited => x > 0

LEMMA WellFormedFacts ==
    ASSUME NEW w, WellFormed(w), w[1] \in FirstTexts
    PROVE  Method(w[1]) /\ ShortHead(w) /\ "nocolon" \notin ToSet(w)
BY DEF WellFormed, Method, FirstTexts

(* The result of decode_head from that of the parser.                      *)
LEMMA DecodeHeadIs ==
    ASSUME NEW d, NEW v, Parsed(d) = [r |-> v, ret |-> "ok"]
    PROVE  decode_head(d) = IF Len(d) > MAX_BUFFER_SIZE THEN "ERR_MAX_BUFFER"
                            ELSE IF ~ v.inited THEN "ERR_HTTP_DECODE" ELSE "ok"
<1>1. Parsed(d).ret = "ok" /\ Parsed(d).r = v
  OBVIOUS
<1> QED
  BY <1>1, Zenon DEF decode_head

LEMMA FrameComplete ==
    ASSUME NEW w, NEW G, NEW E, NEW z, Framed(w, G, E, z), HeadsFound(w, E + z), WellFormed(w),
           NEW n \in 1 .. Len(w)
    PROVE  /\ http_complete_func(SubSeq(w, 1, n)) =
                  IF E + z + Announced(w) <= n THEN E + z + Announced(w) ELSE 0
           /\ CutAgrees(w, n, http_complete_func(SubSeq(w, 1, n)), Announced(w) - Declared(w))
<1>1. PICK d, H, a, m : d = SubSeq(w, 1, n) /\ H = E + z /\ a = Declared(w) /\ m = Announced(w)
  OBVIOUS
<1>2. /\ w \in Seq(Atoms) /\ G \in Nat /\ E \in Nat /\ z \in {1, 2} /\ w[1] \in FirstTexts
      /\ n \in Nat /\ n \in 0 .. Len(w) /\ Len(w) \in Nat /\ n <= Len(w)
  BY DEF Framed
<1>3. Method(w[1]) /\ ShortHead(w) /\ "nocolon" \notin ToSet(w)
  BY <1>2, WellFormedFacts
<1>4. a = AttrOf(w, G, E, 0)
  BY <1>1, DeclaredIs
<1>5. Len(d) = n /\ H \in Nat \ {0} /\ a \in Nat /\ m \in Nat
  <2>1. m \in Nat
    BY <1>1, <1>2, ContentType DEF Announced
  <2> QED
    BY <1>1, <1>2, <1>4, <2>1, PrefixFacts, AttrType
<1>6. HeadLen(d) = IF H <= n THEN H ELSE 0
  BY <1>1, <1>2 DEF HeadsFound
<1>7. CASE ~ (H <= n)
  <2>1. http_complete_func(d) = 0
    BY <1>6, <1>7, CompleteIs
  <2>2. Parsed(d).r.inited = FALSE
    <3>1. n < E + z
      BY <1>1, <1>2, <1>7
    <3> QED
      BY <1>1, <1>3, <3>1, FrameShort
  <2>3. ~ (H + m <= n)
    BY <1>2, <1>5, <1>7
  <2> QED
    BY <1>1, <2>1, <2>2, <2>3 DEF CutAgrees
<1>8. CASE H <= n
  <2>1. ContentLength(d, NamesLength) = m
    BY <1>1, <1>8, SearchHead DEF Announced
  <2>2. http_complete_func(d) = IF n < m + H THEN 0 ELSE m + H
    BY <1>5, <1>6, <1>8, <2>1, CompleteIs
  <2>3. \A i \in H .. Len(w) : Parsed(SubSeq(w, 1, i)) = [r |-> WholeReq(H, a, i), ret |-> "ok"]
    <3> TAKE i \in H .. Len(w)
    <3>1. i \in 1 .. Len(w) /\ E + z <= i
      BY <1>1, <1>2, <1>5
    <3> QED
      BY <1>1, <1>3, <1>4, <3>1, FrameLong
  <2>4. CASE n < m + H
    <3>1. Parsed(d) = [r |-> WholeReq(H, a, n), ret |-> "ok"]
      BY <1>1, <1>2, <1>5, <1>8, <2>3
    <3>2. a <= SmallerOf(n - H, a) => m - a > 0
      BY <1>2, <1>5, <1>8, <2>4 DEF SmallerOf
    <3>3. WholeReq(H, a, n).inited = (a <= SmallerOf(n - H, a))
      BY Zenon DEF WholeReq
    <3>4. Parsed(d).r = WholeReq(H, a, n)
      <4>1. PICK v : v = WholeReq(H, a, n)
        OBVIOUS
      <4> QED
        BY <3>1, <4>1
    <3>5. Parsed(d).r.inited => m - a > 0
      BY <3>2, <3>3, <3>4
    <3>6. http_complete_func(d) = 0 /\ ~ (H + m <= n)
      BY <1>2, <1>5, <2>2, <2>4
    <3> QED
      BY <1>1, <3>5, <3>6 DEF CutAgrees
  <2>5. CASE ~ (n < m + H)
    <3>1. PICK c, e : c = H + m /\ e = SubSeq(w, 1, c)
      OBVIOUS
    <3>2. c \in Nat /\ c # 0 /\ c \in H .. Len(w) /\ c \in 0 .. Len(w) /\ H + m <= n /\ m + H = c
      BY <1>2, <1>5, <2>5, <3>1
    <3>3. http_complete_func(d) = c
      BY <2>2, <2>5, <3>2
    <3>4. PICK v : v = WholeReq(H, a, c)
      OBVIOUS
    <3>5. Parsed(e) = [r |-> v, ret |-> "ok"]
      BY <2>3, <3>1, <3>2, <3>4
    <3>6. Len(e) = c
      BY <1>2, <3>1, <3>2, PrefixFacts
    <3>7. /\ v.inited = (a <= SmallerOf(c - H, a)) /\ v.attached = TRUE
          /\ v.parsed = H + SmallerOf(c - H, a) /\ v.offset = H /\ v.length = a
      BY <3>4, Zenon DEF WholeReq
    <3>8. (a <= SmallerOf(c - H, a)) <=> ~ (m - a < 0)
      BY <1>5, <3>1 DEF SmallerOf
    <3>9. v.inited <=> ~ (m - a < 0)
      BY ONLY <3>7, <3>8, Zenon
    <3>10. decode_head(e) = IF Len(e) > MAX_BUFFER_SIZE THEN "ERR_MAX_BUFFER"
                            ELSE IF ~ v.inited THEN "ERR_HTTP_DECODE" ELSE "ok"
      BY <3>5, DecodeHeadIs
    <3>11. decode_head(e) = IF c > MAX_BUFFER_SIZE THEN "ERR_MAX_BUFFER"
                            ELSE IF m - a < 0 THEN "ERR_HTTP_DECODE" ELSE "ok"
      BY ONLY <3>6, <3>9, <3>10, Zenon
    <3>12. Parsed(e).r = v
      BY <3>5
    <3>13. m - a >= 0 => v.parsed = c - (m - a) /\ v.offset + v.length = c - (m - a)
      <4> SUFFICES ASSUME m - a >= 0
                   PROVE  v.parsed = c - (m - a) /\ v.offset + v.length = c - (m - a)
        OBVIOUS
      <4>1. SmallerOf(c - H, a) = a
        BY <1>5, <3>1 DEF SmallerOf
      <4>2. H + a = c - (m - a)
        BY <1>5, <3>1
      <4> QED
        BY <3>7, <4>1, <4>2
    <3>14. CutAgrees(w, n, c, m - a)
      BY <3>1, <3>2, <3>7, <3>11, <3>12, <3>13 DEF CutAgrees
    <3> QED
      BY <1>1, <3>1, <3>2, <3>3, <3>14
  <2> QED
    BY <2>4, <2>5
<1> QED
  BY <1>7, <1>8

(* CHttpLengthAnaly on the same prefix.                                    *)
LEMMA LengthExIs ==
    ASSUME NEW d, d # << >>, d[1] \in {"get", "post"}
    PROVE  get_length_ex(d) =
             IF FirstAt(d, 1, CrLfCrLf) = 0
                    \/ Len(d) < FirstAt(d, 1, CrLfCrLf) + 3 + ExactContentLength(d) THEN 0
             ELSE FirstAt(d, 1, CrLfCrLf) + 3 + ExactContentLength(d)
<1>1. d[1] \in {"get", "post", "resp"}
  OBVIOUS
<1> QED
  BY <1>1, Zenon DEF get_length_ex, CrLfCrLf

LEMMA FrameEx ==
    ASSUME NEW w, NEW k \in Nat, CrLfShape(w, k), WellFormed(w), NEW n \in 1 .. Len(w),
           w[1] \in {"get", "post"}, ExactContentLength(w) = Announced(w)
    PROVE  get_length_ex(SubSeq(w, 1, n)) = http_complete_func(SubSeq(w, 1, n))
<1>1. PICK d, H, m, X : /\ d = SubSeq(w, 1, n) /\ H = 3 * k + 2 /\ m = Announced(w)
                        /\ X = ExactLength \union {"xlen2"}
  OBVIOUS
<1>2. /\ w \in Seq(Atoms) /\ Len(w) \in Nat /\ n \in Nat /\ n \in 0 .. Len(w) /\ n <= Len(w)
      /\ k # 0 /\ 3 * k \in Nat
  BY DEF CrLfShape
<1>3. Framed(w, 3, 3 * k, 2) /\ HeadsFound(w, 3 * k + 2)
  BY FrameCrLf, HeadsCrLf
<1>4. http_complete_func(d) = IF H + m <= n THEN H + m ELSE 0
  BY <1>1, <1>3, FrameComplete
<1>5. m \in Nat
  BY <1>1, <1>2, ContentType DEF Announced
<1>6. Len(d) = n /\ d[1] = w[1] /\ d # << >>
  <2>1. Len(d) = n /\ \A i \in 1 .. n : d[i] = w[i]
    BY <1>1, <1>2, PrefixFacts
  <2>2. Len(<< >>) = 0 /\ n # 0
    OBVIOUS
  <2> QED
    BY <2>1, <2>2
<1>7. PICK f : f = FirstAt(d, 1, CrLfCrLf)
  OBVIOUS
<1>8. f = IF H <= n THEN H - 3 ELSE 0
  <2>1. FirstAt(SubSeq(w, 1, n), 1, CrLfCrLf) = IF 3 * k + 2 <= n THEN 3 * k - 1 ELSE 0
    BY <1>2, CrLfEnd
  <2>2. H - 3 = 3 * k - 1
    BY <1>1, <1>2
  <2> QED
    BY <1>1, <1>7, <2>1, <2>2
<1>9. get_length_ex(d) = IF f = 0 \/ n < f + 3 + ExactContentLength(d) THEN 0
                         ELSE f + 3 + ExactContentLength(d)
  BY <1>1, <1>6, <1>7, LengthExIs
<1>10. CASE ~ (H <= n)
  BY <1>1, <1>2, <1>4, <1>5, <1>8, <1>9, <1>10
<1>11. CASE H <= n
  <2>1. X \subseteq NamesLength
    BY <1>1 DEF NamesLength
  <2>2. ContentLength(d, X) = ContentLength(w, X)
    <3>1. 3 * k + 2 <= n
      BY <1>1, <1>11
    <3> QED
      BY <1>1, <1>3, <2>1, <3>1, SearchHead
  <2>3. ExactContentLength(d) = m
    <3>1. ExactContentLength(d) = ExactContentLength(w)
      BY <1>1, <1>6, <2>2 DEF ExactContentLength
    <3> QED
      BY <1>1, <3>1
  <2>4. f # 0 /\ f + 3 = H /\ H \in Nat
    BY <1>1, <1>2, <1>8, <1>11
  <2> QED
    BY <1>1, <1>2, <1>4, <1>5, <1>9, <2>3, <2>4
<1> QED
  BY <1>10, <1>11

LEMMA FramingHolds == HttpInv => FramingAgrees
<1> SUFFICES ASSUME HttpInv, fed > 0, WellFormed(wire) PROVE FramingAgrees
  BY DEF FramingAgrees
<1>1. PICK w, f, c, x : /\ w = wire /\ f = fed /\ c = http_complete_func(SubSeq(w, 1, f))
                        /\ x = Announced(w) - Declared(w)
  OBVIOUS
<1>2. Shaped(w) /\ f \in 1 .. Len(w) /\ WellFormed(w) /\ w \in Seq(Atoms) /\ Len(w) \in Nat
  <2>1. f \in 0 .. Len(w) /\ f # 0 /\ (w = << >> \/ Shaped(w))
    BY <1>1 DEF HttpInv
  <2>2. w # << >>
    BY <2>1
  <2>3. w \in Seq(Atoms) /\ Len(w) \in Nat
    BY <2>1, <2>2, ShapedType
  <2> QED
    BY <1>1, <2>1, <2>2, <2>3
<1>3. PICK k \in Nat : CrLfShape(w, k) \/ LfShape(w, k) \/ MixedShape(w, k)
  BY <1>2 DEF Shaped
<1>4. MixedEnds(w) => c = 0
  <2>1. f \in 0 .. Len(w)
    BY <1>2
  <2> QED
    BY <1>1, <1>3, <2>1, CrLfNotMixed, LfNotMixed, MixedNeverCut
<1>5. CutAgrees(w, f, c, x) \/ (c = 0 /\ MixedEnds(w))
  <2>1. CASE CrLfShape(w, k)
    <3>1. Framed(w, 3, 3 * k, 2) /\ HeadsFound(w, 3 * k + 2)
      BY <2>1, FrameCrLf, HeadsCrLf
    <3> QED
      BY <1>1, <1>2, <3>1, FrameComplete
  <2>2. CASE LfShape(w, k)
    <3>1. Framed(w, 2, 2 * k, 1) /\ HeadsFound(w, 2 * k + 1)
      BY <2>2, FrameLf, HeadsLf
    <3> QED
      BY <1>1, <1>2, <3>1, FrameComplete
  <2>3. CASE MixedShape(w, k)
    BY <1>4, <2>3, MixedMixed
  <2> QED
    BY <1>3, <2>1, <2>2, <2>3
<1>6. ASSUME w[1] \in {"get", "post"}, FirstAt(w, 1, CrLfCrLf) # 0,
             ExactContentLength(w) = Announced(w)
      PROVE  get_length_ex(SubSeq(w, 1, f)) = c
  <2>1. SubSeq(w, 1, Len(w)) = w /\ Len(w) \in 0 .. Len(w)
    BY <1>2
  <2>2. ~ LfShape(w, k)
    BY <1>6, <2>1, NoCrLf
  <2>3. ~ MixedShape(w, k)
    BY <1>6, <2>1, MixedEndless
  <2>4. CrLfShape(w, k)
    BY <1>3, <2>2, <2>3
  <2> QED
    BY <1>1, <1>2, <1>6, <2>4, FrameEx
<1>7. Fed = SubSeq(w, 1, f)
  BY <1>1 DEF Fed
<1>8. PICK p : p = Parsed(SubSeq(w, 1, c)).r
  OBVIOUS
<1>9. /\ c # 0 => decode_head(SubSeq(w, 1, c)) =
                      IF c > MAX_BUFFER_SIZE THEN "ERR_MAX_BUFFER"
                      ELSE IF x < 0 THEN "ERR_HTTP_DECODE" ELSE "ok"
      /\ c # 0 /\ x >= 0 => p.attached /\ p.parsed = c - x /\ p.offset + p.length = c - x
      /\ c = 0 /\ Parsed(SubSeq(w, 1, f)).r.inited => MixedEnds(w) \/ x > 0
  BY <1>5, <1>8, Zenon DEF CutAgrees
<1> QED
  BY <1>1, <1>4, <1>6, <1>7, <1>8, <1>9, Zenon DEF FramingAgrees, CrLfCrLf

(* Framing: HttpRequest.FramingAgrees for every message of the model's     *)
(* shape whose lines the parser understands, however many lines and bytes  *)
(* it has, at every point of its arrival: what http_complete_func cuts out *)
(* of the receive buffer is what ServerHttpCodec::decode_head accepts and  *)
(* CHttpReq takes for one complete request, except where the two read      *)
(* different lengths or the line ends are mixed, and there it says what    *)
(* each of them does; CHttpLengthAnaly cuts the same wherever it reads the *)
(* same length.                                                            *)
THEOREM Framing == HttpSpec => []FramingAgrees
BY HttpInvInit, HttpInvNext, FramingHolds, PTL DEF HttpSpec

-----------------------------------------------------------------------------
(* Consistent hashing: who owns an object.                                 *)

(* s is the first of the points at or after hash, around the ring.         *)
IsSuccessor(points, hash, s) ==
    /\ s \in points
    /\ \/ s >= hash /\ \A x \in points : x >= hash => s <= x
       \/ \A x \in points : x < hash /\ s <= x

(* Successor computes it, wherever there is a point at all.                *)
LEMMA SuccessorFacts ==
    ASSUME NEW points \in SUBSET (1 .. MaxHash), points # {}, NEW hash \in 1 .. MaxHash
    PROVE  IsSuccessor(points, hash, Successor(points, hash))
<1> DEFINE after == {h \in points : h >= hash}
           least(S) == CHOOSE h \in S : \A x \in S : h <= x
<1>0. MaxHash \in Nat
  BY HashRingAssumption
<1>1. ASSUME NEW S \in SUBSET (1 .. MaxHash), S # {}
      PROVE  least(S) \in S /\ \A x \in S : least(S) <= x
  <2>1. \E h \in S : \A x \in S : h <= x
    <3>1. S \subseteq Nat
      BY <1>0
    <3> QED
      BY <1>1, <3>1, LeastNat
  <2> QED
    BY <2>1
<1>2. after \subseteq points /\ after \in SUBSET (1 .. MaxHash)
  OBVIOUS
<1>3. CASE after # {}
  <2>1. Successor(points, hash) = least(after)
    BY <1>3 DEF Successor
  <2>2. PICK s : s = least(after)
    OBVIOUS
  <2>3. s \in after /\ \A x \in after : s <= x
    BY <1>1, <1>2, <1>3, <2>2
  <2> QED
    BY <2>1, <2>2, <2>3 DEF IsSuccessor
<1>4. CASE after = {}
  <2>1. Successor(points, hash) = least(points)
    BY <1>4 DEF Successor
  <2>2. PICK s : s = least(points)
    OBVIOUS
  <2>3. s \in points /\ \A x \in points : s <= x
    BY <1>1, <2>2
  <2>4. \A x \in points : x < hash
    BY <1>0, <1>4
  <2> QED
    BY <2>1, <2>2, <2>3, <2>4 DEF IsSuccessor
<1> QED
  BY <1>3, <1>4

(* There is only one, and it is that of every subset that keeps it.        *)
LEMMA SuccessorKept ==
    ASSUME NEW P \in SUBSET (1 .. MaxHash), NEW Q \in SUBSET P, NEW hash \in 1 .. MaxHash,
           P # {}, Successor(P, hash) \in Q
    PROVE  Successor(Q, hash) = Successor(P, hash)
<1>0. MaxHash \in Nat
  BY HashRingAssumption
<1>1. PICK s : s = Successor(P, hash)
  OBVIOUS
<1>2. PICK t : t = Successor(Q, hash)
  OBVIOUS
<1>3. IsSuccessor(P, hash, s)
  BY <1>1, SuccessorFacts
<1>4. IsSuccessor(Q, hash, t)
  <2>1. Q # {} /\ Q \in SUBSET (1 .. MaxHash)
    OBVIOUS
  <2> QED
    BY <1>2, <2>1, SuccessorFacts
<1>5. s \in Q /\ s \in 1 .. MaxHash /\ t \in 1 .. MaxHash /\ t \in P
  BY <1>1, <1>3, <1>4 DEF IsSuccessor
<1>6. s = t
  BY <1>0, <1>3, <1>4, <1>5 DEF IsSuccessor
<1> QED
  BY <1>1, <1>2, <1>6

(* A ring that another extends by points of n: an object that does not     *)
(* belong to n in the larger ring, or did not in it, has the same owner in *)
(* both.                                                                   *)
Extends(r, q, n) ==
    /\ r \in Rings /\ q \in Rings
    /\ DOMAIN q \subseteq DOMAIN r
    /\ \A h \in DOMAIN q : q[h] = r[h]
    /\ \A h \in DOMAIN r \ DOMAIN q : r[h] = n

LEMMA SameOwner ==
    ASSUME NEW r, NEW q, NEW n, Extends(r, q, n), NEW h \in 1 .. MaxHash, Owner(r, h) # n
    PROVE  Owner(q, h) = Owner(r, h)
<1>1. DOMAIN r \in SUBSET (1 .. MaxHash) /\ DOMAIN q \in SUBSET DOMAIN r
  BY DEF Extends, Rings
<1>2. CASE DOMAIN r = {}
  BY <1>1, <1>2 DEF Owner
<1>3. CASE DOMAIN r # {}
  <2>1. PICK s : s = Successor(DOMAIN r, h)
    OBVIOUS
  <2>2. s \in DOMAIN r
    BY <1>1, <1>3, <2>1, SuccessorFacts DEF IsSuccessor
  <2>3. r[s] # n
    BY <1>3, <2>1 DEF Owner
  <2>4. s \in DOMAIN q
    BY <2>2, <2>3 DEF Extends
  <2>5. Successor(DOMAIN q, h) = s
    BY <1>1, <1>3, <2>1, <2>4, SuccessorKept
  <2>6. q[s] = r[s] /\ DOMAIN q # {}
    BY <2>4 DEF Extends
  <2> QED
    BY <1>3, <2>1, <2>5, <2>6 DEF Owner
<1> QED
  BY <1>2, <1>3

-----------------------------------------------------------------------------
(* RingTyped: points of the ring are hashes, and have nodes.               *)
RingTyped ==
    /\ ring \in Rings
    /\ members \in [ClusterNodes -> MemberStates]

LEMMA RingsAre ==
    ASSUME NEW S \in SUBSET (1 .. MaxHash), NEW r, r \in [S -> ClusterNodes]
    PROVE  r \in Rings
BY DEF Rings

LEMMA PointsAre ==
    ASSUME NEW n \in ClusterNodes, NEW replicas, NEW failed
    PROVE  Points(n, replicas, failed) \in SUBSET (1 .. MaxHash)
BY HashRingAssumption DEF Points

LEMMA Added ==
    ASSUME NEW r \in Rings, NEW n \in ClusterNodes, NEW points \in SUBSET (1 .. MaxHash)
    PROVE  Extends(WithPoints(r, n, points), r, n)
<1>1. PICK S \in SUBSET (1 .. MaxHash) : r \in [S -> ClusterNodes]
  BY DEF Rings
<1>2. PICK q : q = WithPoints(r, n, points)
  OBVIOUS
<1>3. /\ q \in [S \union points -> ClusterNodes]
      /\ \A h \in S : q[h] = r[h]
      /\ \A h \in (S \union points) \ S : q[h] = n
  BY <1>1, <1>2 DEF WithPoints
<1>4. S \union points \in SUBSET (1 .. MaxHash)
  OBVIOUS
<1>5. q \in Rings
  BY <1>3, <1>4, RingsAre
<1> QED
  BY <1>1, <1>2, <1>3, <1>5 DEF Extends

LEMMA Deleted ==
    ASSUME NEW r \in Rings, NEW n \in ClusterNodes, NEW points \in SUBSET (1 .. MaxHash)
    PROVE  Extends(r, WithoutPoints(r, n, points), n)
<1>1. PICK S \in SUBSET (1 .. MaxHash) : r \in [S -> ClusterNodes]
  BY DEF Rings
<1>2. PICK q : q = WithoutPoints(r, n, points)
  OBVIOUS
<1> DEFINE T == {x \in S : ~ (x \in points /\ r[x] = n)}
<1>3. /\ q \in [T -> ClusterNodes]
      /\ \A h \in T : q[h] = r[h]
      /\ \A h \in S \ T : r[h] = n
  BY <1>1, <1>2 DEF WithoutPoints
<1>4. T \in SUBSET (1 .. MaxHash)
  OBVIOUS
<1>5. q \in Rings
  BY <1>3, <1>4, RingsAre
<1>6. DOMAIN q = T /\ DOMAIN r = S /\ T \subseteq S
  BY <1>1, <1>3
<1> QED
  BY <1>2, <1>3, <1>5, <1>6 DEF Extends

LEMMA RingTypedInit == RingInit => RingTyped
<1> SUFFICES ASSUME RingInit PROVE RingTyped
  OBVIOUS
<1>1. EmptyRing \in [{} -> ClusterNodes] /\ {} \in SUBSET (1 .. MaxHash)
  BY DEF EmptyRing
<1>2. ring \in Rings
  BY <1>1, RingsAre DEF RingInit
<1>3. [replicas |-> 0, flag |-> {}] \in MemberStates
  BY HashRingAssumption DEF MemberStates
<1> QED
  BY <1>2, <1>3 DEF RingTyped, RingInit

LEMMA RingTypedNext == RingTyped /\ [RingNext]_ringVars => RingTyped'
<1> SUFFICES ASSUME RingTyped, [RingNext]_ringVars PROVE RingTyped'
  OBVIOUS
<1>0. [replicas |-> 0, flag |-> {}] \in MemberStates /\ EmptyRing \in Rings
  <2>1. EmptyRing \in [{} -> ClusterNodes] /\ {} \in SUBSET (1 .. MaxHash)
    BY DEF EmptyRing
  <2>2. EmptyRing \in Rings
    BY <2>1, RingsAre
  <2>3. [replicas |-> 0, flag |-> {}] \in MemberStates
    BY HashRingAssumption DEF MemberStates
  <2> QED
    BY <2>2, <2>3
<1>1. ASSUME NEW n \in ClusterNodes, NEW r \in ReplicaCounts, SetNode(n, r)
      PROVE  RingTyped'
  <2>1. [replicas |-> r, flag |-> {"INIT"}] \in MemberStates
    BY HashRingAssumption DEF MemberStates
  <2> QED
    BY <1>1, <2>1 DEF SetNode, RingTyped
<1>2. ASSUME NEW n \in ClusterNodes, NEW f, f \in SUBSET {"INIT", "IN"},
             members' = [members EXCEPT ![n].flag = f]
      PROVE  members' \in [ClusterNodes -> MemberStates]
  BY <1>2 DEF RingTyped, MemberStates
<1>3. ASSUME NEW n \in ClusterNodes, NEW failed \in FailedAllocs, AddNode(n, failed)
      PROVE  RingTyped'
  <2>1. ring' \in Rings
    BY <1>3, PointsAre, Added DEF AddNode, RingTyped, Extends
  <2>2. members[n].flag \union {"IN"} \in SUBSET {"INIT", "IN"}
    BY DEF RingTyped, MemberStates
  <2>3. members' \in [ClusterNodes -> MemberStates]
    BY <1>2, <1>3, <2>2 DEF AddNode
  <2> QED
    BY <2>1, <2>3 DEF RingTyped
<1>4. ASSUME NEW n \in ClusterNodes, DelNode(n)
      PROVE  RingTyped'
  <2>1. ring' \in Rings
    BY <1>4, PointsAre, Deleted DEF DelNode, RingTyped, Extends
  <2>2. members[n].flag \ {"IN"} \in SUBSET {"INIT", "IN"}
    BY DEF RingTyped, MemberStates
  <2>3. members' \in [ClusterNodes -> MemberStates]
    BY <1>2, <1>4, <2>2 DEF DelNode
  <2> QED
    BY <2>1, <2>3 DEF RingTyped
<1>5. CASE Fini
  BY <1>0, <1>5 DEF Fini, RingTyped
<1>6. CASE RingLost
  BY <1>0, <1>6 DEF RingLost, RingTyped
<1>7. CASE UNCHANGED ringVars
  BY <1>7 DEF ringVars, RingTyped
<1> QED
  BY <1>1, <1>3, <1>4, <1>5, <1>6, <1>7 DEF RingNext

(* On any ring and with any hash function, deleting a node moves none of   *)
(* the other nodes' objects, and adding one moves objects only to it:      *)
(* conhash_del_node and conhash_add_node as RingKeeper has them.           *)
THEOREM OwnersMoveOnly == RingSpec => OnlyOwnersMove
<1>1. RingTyped => MovesAreNeeded
  <2> SUFFICES ASSUME RingTyped PROVE MovesAreNeeded
    OBVIOUS
  <2>1. ASSUME NEW n \in ClusterNodes, DelNode(n), NEW h \in 1 .. MaxHash, Owner(ring, h) # n
        PROVE  Owner(ring', h) = Owner(ring, h)
    BY <2>1, PointsAre, Deleted, SameOwner DEF DelNode, RingTyped
  <2>2. ASSUME NEW n \in ClusterNodes, NEW failed \in FailedAllocs, AddNode(n, failed),
               NEW h \in 1 .. MaxHash, Owner(ring', h) # n
        PROVE  Owner(ring', h) = Owner(ring, h)
    BY <2>2, PointsAre, Added, SameOwner DEF AddNode, RingTyped
  <2> QED
    BY <2>1, <2>2 DEF MovesAreNeeded, Moved
<1> QED
  BY <1>1, RingTypedInit, RingTypedNext, PTL DEF RingSpec, OnlyOwnersMove

-----------------------------------------------------------------------------
(* The radix tree: powers of MapSize and digits of an index.               *)

(* The powers of b up to the m-th, as a function.                          *)
ArePowers(f, b, m) ==
    f \in [0 .. m -> Nat] /\ f[0] = 1 /\ \A k \in 1 .. m : f[k] = b * f[k - 1]

LEMMA PowersExist ==
    ASSUME NEW b \in Nat
    PROVE  \A n \in Nat : \E f : ArePowers(f, b, n)
<1> DEFINE bad == {m \in Nat : ~ \E f : ArePowers(f, b, m)}
<1>1. SUFFICES ASSUME bad # {} PROVE FALSE
  OBVIOUS
<1>2. PICK m \in bad : \A j \in bad : m <= j
  BY <1>1, LeastNat
<1>3. m # 0
  <2>1. ArePowers([k \in 0 .. 0 |-> 1], b, 0)
    BY DEF ArePowers
  <2> QED
    BY <1>2, <2>1
<1>4. PICK j \in Nat : m = j + 1
  BY <1>2, <1>3
<1>5. j \notin bad
  BY <1>2, <1>4
<1>6. PICK f : ArePowers(f, b, j)
  BY <1>5
<1> DEFINE g == [k \in 0 .. j + 1 |-> IF k = j + 1 THEN b * f[j] ELSE f[k]]
<1>7. b * f[j] \in Nat
  BY <1>6 DEF ArePowers
<1>8. g \in [0 .. j + 1 -> Nat] /\ g[0] = 1
  BY <1>6, <1>7 DEF ArePowers
<1>9. ASSUME NEW k \in 1 .. j + 1 PROVE g[k] = b * g[k - 1]
  <2>1. CASE k = j + 1
    BY <2>1
  <2>2. CASE k \in 1 .. j
    BY <1>6, <2>2 DEF ArePowers
  <2> QED
    BY <2>1, <2>2
<1>10. ArePowers(g, b, j + 1)
  BY <1>8, <1>9 DEF ArePowers
<1> QED
  BY <1>2, <1>4, <1>10

LEMMA LeastUpTo ==
    ASSUME NEW n \in Nat, NEW T \in SUBSET (0 .. n), T # {}
    PROVE  \E x \in T : \A y \in T : x <= y
<1>1. T \subseteq Nat
  OBVIOUS
<1> QED
  BY <1>1, LeastNat

LEMMA PowerFacts ==
    /\ Power[0] = 1
    /\ \A k \in 0 .. MaxPath : Power[k] \in Nat
    /\ \A k \in 1 .. MaxPath : Power[k] = MapSize * Power[k - 1]
<1>0. MapSize \in Nat /\ MaxPath \in Nat
  BY RadixTreeAssumption
<1>1. PICK f \in [0 .. MaxPath -> Nat] : f[0] = 1 /\ \A k \in 1 .. MaxPath : f[k] = MapSize * f[k - 1]
  BY <1>0, PowersExist DEF ArePowers
<1>2. f = [k \in 0 .. MaxPath |-> IF k = 0 THEN 1 ELSE MapSize * f[k - 1]]
  <2>1. \A k \in 0 .. MaxPath : f[k] = IF k = 0 THEN 1 ELSE MapSize * f[k - 1]
    BY <1>0, <1>1
  <2> QED
    BY <1>1, <2>1
<1>3. PowerOf = [k \in 0 .. MaxPath |-> IF k = 0 THEN 1 ELSE MapSize * PowerOf[k - 1]]
  BY <1>2, Zenon DEF PowerOf
<1>4. \A k \in 0 .. MaxPath : PowerOf[k] = IF k = 0 THEN 1 ELSE MapSize * PowerOf[k - 1]
  BY <1>3
<1>5. \A k \in 0 .. MaxPath : PowerOf[k] = f[k]
  <2> DEFINE bad == {k \in 0 .. MaxPath : PowerOf[k] # f[k]}
  <2>1. SUFFICES ASSUME bad # {} PROVE FALSE
    OBVIOUS
  <2>2. PICK k \in bad : \A j \in bad : k <= j
    BY <1>0, <2>1, LeastUpTo
  <2>3. k # 0
    BY <1>0, <1>1, <1>4, <2>2
  <2>4. k \in 1 .. MaxPath /\ k - 1 \in 0 .. MaxPath /\ PowerOf[k - 1] = f[k - 1]
    BY <1>0, <2>2, <2>3
  <2> QED
    BY <1>1, <1>4, <2>2, <2>3, <2>4
<1>6. \A k \in 0 .. MaxPath : Power[k] = f[k]
  BY <1>5 DEF Power
<1> QED
  BY <1>0, <1>1, <1>6

(* Products.                                                               *)
LEMMA ProductUp ==
    ASSUME NEW a \in Nat, NEW b \in Nat, NEW c \in Nat, a <= b
    PROVE  c * a <= c * b
<1>1. PICK e \in Nat : b = a + e
  BY SMT
<1>2. c * b = c * a + c * e /\ c * e \in Nat /\ c * a \in Nat
  BY <1>1
<1> QED
  BY <1>2

LEMMA PowerGrows ==
    /\ \A k \in 0 .. MaxPath : Power[k] >= 1
    /\ \A k \in 0 .. MaxPath : \A j \in 0 .. k : Power[j] <= Power[k]
<1>0. MapSize \in Nat /\ MapSize >= 1 /\ MaxPath \in Nat
  BY RadixTreeAssumption
<1>1. \A k \in 1 .. MaxPath : Power[k - 1] \in Nat /\ Power[k] \in Nat /\ Power[k - 1] <= Power[k]
  <2> TAKE k \in 1 .. MaxPath
  <2>1. Power[k - 1] \in Nat /\ Power[k] = MapSize * Power[k - 1]
    BY <1>0, PowerFacts
  <2>2. Power[k - 1] * 1 <= Power[k - 1] * MapSize
    BY <1>0, <2>1, ProductUp
  <2> QED
    BY <1>0, <2>1, <2>2
<1>2. \A k \in 0 .. MaxPath : \A j \in 0 .. k : Power[j] <= Power[k]
  <2> DEFINE bad == {k \in 0 .. MaxPath : \E j \in 0 .. k : ~ (Power[j] <= Power[k])}
  <2>1. SUFFICES ASSUME bad # {} PROVE FALSE
    OBVIOUS
  <2>2. PICK k \in bad : \A j \in bad : k <= j
    BY <1>0, <2>1, LeastUpTo
  <2>3. PICK j \in 0 .. k : ~ (Power[j] <= Power[k])
    BY <2>2
  <2>4. k \in 0 .. MaxPath /\ j # k
    BY <2>2, <2>3, PowerFacts
  <2>5. k \in 1 .. MaxPath /\ k - 1 \in 0 .. MaxPath /\ j \in 0 .. k - 1
    BY <1>0, <2>3, <2>4
  <2>6. Power[j] <= Power[k - 1]
    BY <2>2, <2>5
  <2>7. Power[j] \in Nat
    BY <1>0, <2>5, PowerFacts
  <2> QED
    BY <1>1, <2>3, <2>5, <2>6, <2>7
<1>3. \A k \in 0 .. MaxPath : Power[k] >= 1
  BY <1>0, <1>2, PowerFacts
<1> QED
  BY <1>2, <1>3

(* Division: quotient and remainder are unique.                            *)
LEMMA Quotient ==
    ASSUME NEW D \in Nat, D >= 1, NEW q \in Nat, NEW r \in 0 .. D - 1
    PROVE  (D * q + r) \div D = q /\ (D * q + r) % D = r
<1>1. PICK x : x = D * q + r
  OBVIOUS
<1>2. x \in Nat
  BY <1>1
<1>3. PICK u \in Nat, v \in Nat : u = x \div D /\ v = x % D
  BY <1>2
<1>4. x = D * u + v /\ v < D
  BY <1>2, <1>3
<1>5. ~ (u < q)
  <2> SUFFICES ASSUME u < q PROVE FALSE
    OBVIOUS
  <2>1. D * (u + 1) <= D * q
    BY ProductUp
  <2>2. D * (u + 1) = D * u + D
    OBVIOUS
  <2> QED
    BY <1>1, <1>4, <2>1, <2>2
<1>6. ~ (q < u)
  <2> SUFFICES ASSUME q < u PROVE FALSE
    OBVIOUS
  <2>1. D * (q + 1) <= D * u
    BY ProductUp
  <2>2. D * (q + 1) = D * q + D
    OBVIOUS
  <2> QED
    BY <1>1, <1>4, <2>1, <2>2
<1>7. u = q
  BY <1>5, <1>6
<1> QED
  BY <1>1, <1>3, <1>4, <1>7

(* Dropping one more digit.                                                *)
LEMMA Dropped ==
    ASSUME NEW i \in Nat, NEW P \in Nat, P >= 1, NEW b \in Nat, b >= 1
    PROVE  i \div (b * P) = (i \div P) \div b
<1>1. PICK q \in Nat, r \in 0 .. P - 1 : q = i \div P /\ i = P * q + r
  BY SMT
<1>2. PICK u \in Nat, v \in 0 .. b - 1 : u = q \div b /\ q = b * u + v
  BY SMT
<1>3. i = P * (b * u + v) + r
  BY <1>1, <1>2
<1>4. P * (b * u + v) = (b * P) * u + P * v
  OBVIOUS
<1>5. P * v <= P * (b - 1) /\ P * (b - 1) = b * P - P
  BY ProductUp
<1>6. P * v + r \in 0 .. b * P - 1 /\ b * P \in Nat /\ b * P >= 1
  BY <1>1, <1>2, <1>5
<1>7. i = (b * P) * u + (P * v + r)
  BY <1>3, <1>4
<1>8. i \div (b * P) = u
  BY <1>6, <1>7, Quotient
<1> QED
  BY <1>1, <1>2, <1>8

(* The digits of i: the number of the node of height l that i belongs to,  *)
(* and its slot there.                                                     *)
LEMMA DigitFacts ==
    ASSUME NEW i \in Nat, NEW l \in 1 .. MaxPath
    PROVE  /\ i \div Power[l] \in Nat /\ i \div Power[l - 1] \in Nat
           /\ SlotOf(i, l) \in Slots
           /\ i \div Power[l] = (i \div Power[l - 1]) \div MapSize
           /\ i \div Power[l - 1] = MapSize * (i \div Power[l]) + SlotOf(i, l)
<1>0. MapSize \in Nat /\ MapSize >= 1 /\ MaxPath \in Nat
  BY RadixTreeAssumption
<1>1. PICK P : P = Power[l - 1]
  OBVIOUS
<1>2. P \in Nat /\ P >= 1 /\ Power[l] = MapSize * P
  BY <1>0, <1>1, PowerFacts, PowerGrows
<1>3. i \div (MapSize * P) = (i \div P) \div MapSize
  BY <1>0, <1>2, Dropped
<1>4. PICK x \in Nat : x = i \div P
  BY <1>2
<1>5. PICK u \in Nat, v \in Nat : u = x \div MapSize /\ v = x % MapSize
  BY <1>0
<1>6. x = MapSize * u + v /\ v \in 0 .. MapSize - 1
  BY <1>0, <1>5
<1>7. SlotOf(i, l) = v
  BY <1>1, <1>4, <1>5 DEF SlotOf
<1> QED
  BY <1>1, <1>2, <1>3, <1>4, <1>5, <1>6, <1>7 DEF Slots

LEMMA DigitUnique ==
    ASSUME NEW b \in Nat, NEW s \in Slots
    PROVE  /\ MapSize * b + s \in Nat
           /\ (MapSize * b + s) \div MapSize = b /\ (MapSize * b + s) % MapSize = s
<1>0. MapSize \in Nat /\ MapSize >= 1
  BY RadixTreeAssumption
<1>1. s \in 0 .. MapSize - 1
  BY DEF Slots
<1>2. MapSize * b \in Nat
  BY <1>0
<1> QED
  BY <1>0, <1>1, <1>2, Quotient

-----------------------------------------------------------------------------
(* What a tree h with the nodes m looks like that holds the items g.       *)

NodeRecords == [count : Nat, slots : [Slots -> SUBSET (Items \union (Nat \X Nat))]]

(* The pointer to the node a, if there is one.                             *)
PointerTo(m, a) == IF a \in DOMAIN m THEN {a} ELSE {}

TreeTypes(h, m, g) ==
    /\ h.height \in 0 .. MaxPath - 1
    /\ h = [height |-> h.height, rnode |-> h.rnode]
    /\ m \in [DOMAIN m -> NodeRecords] /\ DOMAIN m \subseteq (1 .. h.height) \X Nat
    /\ g \in [Indexes -> SUBSET Items]

(* The root is the node of the full height and of the first indexes.       *)
Rooted(h, m) ==
    /\ h.rnode = PointerTo(m, <<h.height, 0>>)
    /\ h.rnode = {} => DOMAIN m = {}

(* Every other node has its parent.                                        *)
Closed(h, m) ==
    \A l \in 1 .. h.height, b \in Nat : <<l, b>> \in DOMAIN m =>
        IF l = h.height THEN b = 0 ELSE <<l + 1, b \div MapSize>> \in DOMAIN m

(* A slot points to the node of its indexes, or holds its item.            *)
SlotsFilled(h, m, g) ==
    \A l \in 1 .. h.height, b \in Nat, s \in Slots : <<l, b>> \in DOMAIN m =>
        IF l > 1 THEN m[<<l, b>>].slots[s] = PointerTo(m, <<l - 1, MapSize * b + s>>)
        ELSE MapSize * b + s \in Indexes => m[<<l, b>>].slots[s] = g[MapSize * b + s]

(* An item has a leaf, in a tree that is high enough.                      *)
Backed(h, m, g) ==
    \A i \in Indexes : g[i] # {} => i <= MaxIndex(h.height) /\ <<1, i \div MapSize>> \in DOMAIN m

InUse(n) == {s \in Slots : n.slots[s] # {}}
Counted(m) == \A a \in DOMAIN m : m[a].count = Cardinality(InUse(m[a]))

TreeShaped(h, m, g) ==
    /\ TreeTypes(h, m, g) /\ Rooted(h, m) /\ Closed(h, m) /\ SlotsFilled(h, m, g)
    /\ Backed(h, m, g) /\ Counted(m)

(* Where the loop is after d steps down a tree of this shape.              *)
Expected(h, m, g, i) ==
    [d \in 0 .. h.height |-> IF d < h.height THEN PointerTo(m, Address(i, h.height - d)) ELSE g[i]]

StepDown(h, m, i, d, p) == IF p = {} THEN {} ELSE m[The(p)].slots[SlotOf(i, h.height - d + 1)]

LEMMA IndexFacts == Indexes \subseteq Nat /\ \A l \in 0 .. MaxPath - 1 : MaxIndex(l) \in Nat
<1>1. MaxPath \in Nat \ {0}
  BY RadixTreeAssumption
<1> QED
  BY <1>1, PowerFacts, PowerGrows DEF Indexes, MaxIndex

LEMMA ExpectedStep ==
    ASSUME NEW h, NEW m, NEW g, TreeShaped(h, m, g), NEW i \in Indexes, NEW d \in 1 .. h.height
    PROVE  StepDown(h, m, i, d, Expected(h, m, g, i)[d - 1]) = Expected(h, m, g, i)[d]
<1>0. MapSize \in Nat /\ MapSize >= 1 /\ MaxPath \in Nat /\ h.height \in 0 .. MaxPath - 1 /\ i \in Nat
  BY RadixTreeAssumption, IndexFacts DEF TreeShaped, TreeTypes
<1>1. PICK l \in 1 .. MaxPath : l = h.height - d + 1
  BY <1>0
<1>2. PICK b, s : b = i \div Power[l] /\ s = SlotOf(i, l)
  OBVIOUS
<1>3. b \in Nat /\ s \in Slots /\ i \div Power[l - 1] = MapSize * b + s /\ l \in 1 .. h.height
  <2>1. b \in Nat /\ s \in Slots /\ i \div Power[l - 1] = MapSize * b + s
    BY ONLY <1>0, <1>1, <1>2, DigitFacts, Zenon
  <2>2. l \in 1 .. h.height
    BY <1>0, <1>1
  <2> QED
    BY <2>1, <2>2
<1>4. Expected(h, m, g, i)[d - 1] = PointerTo(m, <<l, b>>)
  <2>1. d - 1 \in 0 .. h.height /\ d - 1 < h.height /\ h.height - (d - 1) = l
    BY <1>0, <1>1
  <2>2. Address(i, l) = <<l, b>>
    BY <1>2 DEF Address
  <2> QED
    BY <2>1, <2>2 DEF Expected
<1>5. Expected(h, m, g, i)[d] = IF l > 1 THEN PointerTo(m, <<l - 1, MapSize * b + s>>) ELSE g[i]
  <2>1. d \in 0 .. h.height /\ h.height - d = l - 1 /\ (d < h.height <=> l > 1)
    BY <1>0, <1>1
  <2>2. Address(i, l - 1) = <<l - 1, MapSize * b + s>>
    BY <1>3 DEF Address
  <2> QED
    BY <2>1, <2>2 DEF Expected
<1>6. l = 1 => i = MapSize * b + s /\ b = i \div MapSize
  BY <1>0, <1>2, <1>3, PowerFacts
<1>7. CASE <<l, b>> \in DOMAIN m
  <2>1. The(PointerTo(m, <<l, b>>)) = <<l, b>> /\ PointerTo(m, <<l, b>>) # {}
    BY <1>7 DEF The, PointerTo
  <2>2. StepDown(h, m, i, d, PointerTo(m, <<l, b>>)) = m[<<l, b>>].slots[s]
    BY <1>1, <1>2, <2>1 DEF StepDown
  <2>3. SlotsFilled(h, m, g)
    BY DEF TreeShaped
  <2>4. CASE l > 1
    BY <1>3, <1>4, <1>5, <1>7, <2>2, <2>3, <2>4 DEF SlotsFilled
  <2>5. CASE l = 1
    <3>1. MapSize * b + s \in Indexes /\ ~ (l > 1)
      BY <1>6, <2>5
    <3>2. m[<<l, b>>].slots[s] = g[MapSize * b + s]
      BY ONLY <1>3, <1>7, <2>3, <3>1, Zenon DEF SlotsFilled
    <3> QED
      BY <1>4, <1>5, <1>6, <2>2, <2>5, <3>2
  <2> QED
    BY <1>1, <2>4, <2>5
<1>8. CASE <<l, b>> \notin DOMAIN m
  <2>1. StepDown(h, m, i, d, PointerTo(m, <<l, b>>)) = {}
    BY <1>8 DEF StepDown, PointerTo
  <2>2. CASE l > 1
    <3>1. PICK c \in Nat : c = MapSize * b + s
      BY <1>3, DigitUnique
    <3>2. c \div MapSize = b /\ l - 1 \in 1 .. h.height /\ l - 1 # h.height /\ l - 1 + 1 = l
      BY <1>0, <1>3, <2>2, <3>1, DigitUnique
    <3>3. <<l - 1, c>> \notin DOMAIN m
      BY <1>8, <3>2 DEF TreeShaped, Closed
    <3> QED
      BY <1>4, <1>5, <2>1, <2>2, <3>1, <3>3 DEF PointerTo
  <2>3. CASE l = 1
    <3>1. g[i] = {}
      BY <1>6, <1>8, <2>3 DEF TreeShaped, Backed
    <3> QED
      BY <1>4, <1>5, <2>1, <2>3, <3>1
  <2> QED
    BY <1>1, <2>2, <2>3
<1> QED
  BY <1>7, <1>8

(* The loop goes where it is expected to.                                  *)
IsPath(p, h, m, i) ==
    p = [d \in 0 .. h.height |->
            LET above == p[d - 1]
            IN  IF d = 0 THEN h.rnode
                ELSE IF above = {} THEN {}
                ELSE m[The(above)].slots[SlotOf(i, h.height - d + 1)]]

LEMMA PathIs ==
    ASSUME NEW h, NEW m, NEW g, TreeShaped(h, m, g), h.height >= 1, NEW i \in Indexes, i <= MaxIndex(h.height)
    PROVE  Path(h, m, i) = Expected(h, m, g, i)
<1>0. MaxPath \in Nat /\ h.height \in 0 .. MaxPath - 1 /\ i \in Nat
  BY RadixTreeAssumption, IndexFacts DEF TreeShaped, TreeTypes
<1>1. PICK e : e = Expected(h, m, g, i)
  OBVIOUS
<1>2. e[0] = h.rnode
  <2>1. PICK P : P = Power[h.height]
    OBVIOUS
  <2>2. P \in Nat /\ i < P
    BY <1>0, <2>1, PowerFacts DEF MaxIndex
  <2>3. i \div P = 0
    BY <1>0, <2>2
  <2>4. Address(i, h.height - 0) = <<h.height, 0>>
    BY <1>0, <2>1, <2>3 DEF Address
  <2>5. 0 \in 0 .. h.height /\ 0 < h.height
    BY <1>0
  <2> QED
    BY <1>1, <2>4, <2>5 DEF Expected, TreeShaped, Rooted
<1>3. \A d \in 1 .. h.height : e[d] = StepDown(h, m, i, d, e[d - 1])
  BY <1>1, ExpectedStep
<1>4. e = [d \in 0 .. h.height |-> IF d = 0 THEN h.rnode ELSE StepDown(h, m, i, d, e[d - 1])]
  <2>1. \A d \in 0 .. h.height : e[d] = IF d = 0 THEN h.rnode ELSE StepDown(h, m, i, d, e[d - 1])
    BY <1>0, <1>2, <1>3
  <2>2. e = [d \in 0 .. h.height |-> e[d]]
    BY <1>1 DEF Expected
  <2> QED
    BY <2>1, <2>2
<1>5. IsPath(e, h, m, i)
  BY ONLY <1>4, Zenon DEF IsPath, StepDown
<1>6. PICK p : p = CHOOSE x : IsPath(x, h, m, i)
  OBVIOUS
<1>7. IsPath(p, h, m, i)
  BY <1>5, <1>6, Zenon
<1>8. \A d \in 0 .. h.height : p[d] = IF d = 0 THEN h.rnode ELSE StepDown(h, m, i, d, p[d - 1])
  BY ONLY <1>7, Zenon DEF IsPath, StepDown
<1>9. \A d \in 0 .. h.height : p[d] = e[d]
  <2> DEFINE bad == {d \in 0 .. h.height : p[d] # e[d]}
  <2>1. SUFFICES ASSUME bad # {} PROVE FALSE
    OBVIOUS
  <2>2. PICK d \in bad : \A j \in bad : d <= j
    <3>1. h.height \in Nat /\ bad \in SUBSET (0 .. h.height)
      BY <1>0
    <3> HIDE DEF bad
    <3> QED
      BY <2>1, <3>1, LeastUpTo
  <2>3. d # 0
    BY <1>0, <1>2, <1>8, <2>2
  <2>4. d \in 1 .. h.height /\ d - 1 \in 0 .. h.height /\ p[d - 1] = e[d - 1]
    BY <1>0, <2>2, <2>3
  <2> QED
    BY <1>3, <1>8, <2>2, <2>3, <2>4
<1>10. Path(h, m, i) = [d \in 0 .. h.height |-> p[d]]
  <2>1. Path(h, m, i) = [d \in 0 .. h.height |-> (CHOOSE x : IsPath(x, h, m, i))[d]]
    BY ONLY Zenon DEF Path, IsPath
  <2> QED
    BY ONLY <1>6, <2>1, Zenon
<1>11. e = [d \in 0 .. h.height |-> e[d]]
  BY <1>1 DEF Expected
<1> QED
  BY <1>1, <1>9, <1>10, <1>11

-----------------------------------------------------------------------------
(* New roots: h and m become h2 and m2 of height T.                        *)
Taller(h, m, h2, m2, T) ==
    /\ h.height >= 1 /\ <<h.height, 0>> \in DOMAIN m
    /\ T \in h.height .. MaxPath - 1
    /\ h2 = [height |-> T, rnode |-> {<<T, 0>>}]
    /\ DOMAIN m2 = DOMAIN m \union {<<k, 0>> : k \in h.height + 1 .. T}
    /\ m2 = [a \in DOMAIN m2 |-> m2[a]]
    /\ \A a \in DOMAIN m : m2[a] = m[a]
    /\ \A k \in h.height + 1 .. T :
           m2[<<k, 0>>] = [count |-> 1, slots |-> [s \in Slots |-> IF s # 0 THEN {} ELSE {<<k - 1, 0>>}]]

LEMMA TallerShaped ==
    ASSUME NEW h, NEW m, NEW g, TreeShaped(h, m, g), NEW h2, NEW m2, NEW T, Taller(h, m, h2, m2, T)
    PROVE  TreeShaped(h2, m2, g)
<1>0. /\ MapSize \in Nat /\ MapSize >= 1 /\ MaxPath \in Nat
      /\ h.height \in 1 .. MaxPath - 1 /\ T \in h.height .. MaxPath - 1 /\ h2.height = T
  BY RadixTreeAssumption DEF TreeShaped, TreeTypes, Taller
<1>1. /\ \A a \in DOMAIN m : m[a] \in NodeRecords /\ a \in (1 .. h.height) \X Nat
      /\ g \in [Indexes -> SUBSET Items]
  BY DEF TreeShaped, TreeTypes
<1>2. \A l, b : <<l, b>> \in DOMAIN m2 <=> <<l, b>> \in DOMAIN m \/ (l \in h.height + 1 .. T /\ b = 0)
  BY DEF Taller
<1>3. \A l, b : <<l, b>> \in DOMAIN m => l \in 1 .. h.height /\ b \in Nat
  BY <1>1
<1>4. \A b : <<h.height, b>> \in DOMAIN m => b = 0
  BY <1>0, <1>3 DEF TreeShaped, Closed
<1>5. 0 \in Slots /\ Slots \subseteq Nat
  BY <1>0 DEF Slots
<1> DEFINE root(k) == [count |-> 1, slots |-> [s \in Slots |-> IF s # 0 THEN {} ELSE {<<k - 1, 0>>}]]
<1>6. \A k \in h.height + 1 .. T : m2[<<k, 0>>] = root(k)
  BY DEF Taller
<1>7. ASSUME NEW k \in h.height + 1 .. T
      PROVE  /\ root(k) \in NodeRecords
             /\ \A s \in Slots : root(k).slots[s] = IF s # 0 THEN {} ELSE {<<k - 1, 0>>}
             /\ root(k).count = 1
  <2>1. <<k - 1, 0>> \in Nat \X Nat
    BY <1>0
  <2> QED
    BY <2>1 DEF NodeRecords
<1> HIDE DEF root
<1>8. TreeTypes(h2, m2, g)
  <2>1. \A a \in DOMAIN m2 : m2[a] \in NodeRecords /\ a \in (1 .. T) \X Nat
    <3> TAKE a \in DOMAIN m2
    <3>1. CASE a \in DOMAIN m
      BY <1>0, <1>1, <3>1 DEF Taller
    <3>2. CASE a \notin DOMAIN m
      <4>1. PICK k \in h.height + 1 .. T : a = <<k, 0>>
        BY <3>2 DEF Taller
      <4>2. m2[a] \in NodeRecords
        BY <1>6, <1>7, <4>1
      <4>3. k \in 1 .. T /\ 0 \in Nat
        BY <1>0
      <4> QED
        BY <4>1, <4>2, <4>3
    <3> QED
      BY <3>1, <3>2
  <2>2. m2 = [a \in DOMAIN m2 |-> m2[a]] /\ h2 = [height |-> T, rnode |-> {<<T, 0>>}]
    BY DEF Taller
  <2>3. m2 \in [DOMAIN m2 -> NodeRecords]
    BY <2>1, <2>2
  <2> QED
    BY <1>0, <1>1, <2>1, <2>2, <2>3 DEF TreeTypes
<1>9. Rooted(h2, m2)
  <2>1. <<T, 0>> \in DOMAIN m2
    <3>1. T = h.height \/ T \in h.height + 1 .. T
      BY <1>0
    <3> QED
      BY <1>2, <3>1 DEF Taller
  <2> QED
    BY <1>0, <2>1 DEF Rooted, PointerTo, Taller
<1>10. Closed(h2, m2)
  <2> SUFFICES ASSUME NEW l \in 1 .. T, NEW b \in Nat, <<l, b>> \in DOMAIN m2
               PROVE  IF l = T THEN b = 0 ELSE <<l + 1, b \div MapSize>> \in DOMAIN m2
    BY <1>0 DEF Closed
  <2>1. CASE l \in h.height + 1 .. T
    <3>1. b = 0
      BY <1>2, <1>3, <2>1, <1>0
    <3>2. 0 \div MapSize = 0
      BY <1>0
    <3>3. l # T => l + 1 \in h.height + 1 .. T
      BY <1>0, <2>1
    <3> QED
      BY <1>2, <3>1, <3>2, <3>3
  <2>2. CASE l \in 1 .. h.height
    <3>1. <<l, b>> \in DOMAIN m
      BY <1>0, <1>2, <2>2
    <3>2. CASE l = h.height
      <4>1. b = 0 /\ 0 \div MapSize = 0
        BY <1>0, <1>4, <3>1, <3>2
      <4>2. l # T => l + 1 \in h.height + 1 .. T
        BY <1>0, <3>2
      <4> QED
        BY <1>2, <4>1, <4>2
    <3>3. CASE l # h.height
      <4>1. <<l + 1, b \div MapSize>> \in DOMAIN m
        BY <2>2, <3>1, <3>3 DEF TreeShaped, Closed
      <4>2. l # T
        BY <1>0, <2>2, <3>3
      <4> QED
        BY <1>2, <4>1, <4>2
    <3> QED
      BY <3>2, <3>3
  <2> QED
    BY <1>0, <2>1, <2>2
<1>11. SlotsFilled(h2, m2, g)
  <2> SUFFICES ASSUME NEW l \in 1 .. T, NEW b \in Nat, NEW s \in Slots, <<l, b>> \in DOMAIN m2
               PROVE  IF l > 1 THEN m2[<<l, b>>].slots[s] = PointerTo(m2, <<l - 1, MapSize * b + s>>)
                      ELSE MapSize * b + s \in Indexes => m2[<<l, b>>].slots[s] = g[MapSize * b + s]
    BY <1>0 DEF SlotsFilled
  <2>1. CASE l \in 1 .. h.height
    <3>1. <<l, b>> \in DOMAIN m
      BY <1>0, <1>2, <2>1
    <3>2. m2[<<l, b>>] = m[<<l, b>>]
      BY <3>1 DEF Taller
    <3>3. PICK c : c = MapSize * b + s
      OBVIOUS
    <3>4. l - 1 \notin h.height + 1 .. T
      BY <1>0, <2>1
    <3>5. PointerTo(m2, <<l - 1, c>>) = PointerTo(m, <<l - 1, c>>)
      BY <1>2, <3>4 DEF PointerTo
    <3> QED
      BY <2>1, <3>1, <3>2, <3>3, <3>5 DEF TreeShaped, SlotsFilled
  <2>2. CASE l \in h.height + 1 .. T
    <3>1. b = 0 /\ l > 1
      BY <1>0, <1>2, <1>3, <2>2
    <3>2. MapSize * b + s = s /\ s \in Nat
      BY <1>0, <1>5, <3>1
    <3>3. <<l - 1, s>> \in DOMAIN m2 <=> s = 0
      <4>1. l - 1 = h.height \/ l - 1 \in h.height + 1 .. T
        BY <1>0, <2>2
      <4>2. CASE l - 1 = h.height
        <5>1. l - 1 \notin h.height + 1 .. T
          BY <1>0, <4>2
        <5> QED
          BY <1>2, <1>4, <4>2, <5>1 DEF Taller
      <4>3. CASE l - 1 \in h.height + 1 .. T
        <5>1. l - 1 \notin 1 .. h.height
          BY <1>0, <4>3
        <5> QED
          BY <1>2, <1>3, <4>3, <5>1
      <4> QED
        BY <4>1, <4>2, <4>3
    <3>4. m2[<<l, b>>].slots[s] = IF s # 0 THEN {} ELSE {<<l - 1, 0>>}
      BY <1>6, <1>7, <2>2, <3>1
    <3> QED
      BY <3>1, <3>2, <3>3, <3>4 DEF PointerTo
  <2> QED
    BY <1>0, <2>1, <2>2
<1>12. Backed(h2, m2, g)
  <2> SUFFICES ASSUME NEW i \in Indexes, g[i] # {}
               PROVE  i <= MaxIndex(T) /\ <<1, i \div MapSize>> \in DOMAIN m2
    BY <1>0 DEF Backed
  <2>1. i <= MaxIndex(h.height) /\ <<1, i \div MapSize>> \in DOMAIN m
    BY DEF TreeShaped, Backed
  <2>2. Power[h.height] <= Power[T] /\ Power[T] \in Nat /\ Power[h.height] \in Nat /\ i \in Nat
    BY <1>0, PowerGrows, PowerFacts, IndexFacts
  <2> QED
    BY <1>2, <2>1, <2>2 DEF MaxIndex
<1>13. Counted(m2)
  <2> SUFFICES ASSUME NEW a \in DOMAIN m2 PROVE m2[a].count = Cardinality(InUse(m2[a]))
    BY DEF Counted
  <2>1. CASE a \in DOMAIN m
    BY <2>1 DEF Taller, TreeShaped, Counted
  <2>2. CASE a \notin DOMAIN m
    <3>1. PICK k \in h.height + 1 .. T : a = <<k, 0>>
      BY <2>2 DEF Taller
    <3>2. m2[a] = root(k)
      BY <1>6, <3>1
    <3>3. InUse(root(k)) = {0}
      BY <1>5, <1>7 DEF InUse
    <3>4. Cardinality({0}) = 1
      BY FS_Singleton
    <3> QED
      BY <1>7, <3>2, <3>3, <3>4
  <2> QED
    BY <2>1, <2>2
<1> QED
  BY <1>8, <1>9, <1>10, <1>11, <1>12, <1>13 DEF TreeShaped

(* radix_tree_extend keeps the shape, also where it runs out of memory.    *)
LEMMA ExtendShaped ==
    ASSUME NEW h, NEW m, NEW g, TreeShaped(h, m, g), NEW index \in Nat, Fits(h, index) # {},
           NEW allocs \in Nat, NEW e, e = radix_tree_extend(h, m, index, allocs)
    PROVE  TreeShaped(e.head, e.nodes, g) /\ e.head.height >= 1 /\ e.allocs \in Int
<1>0. MaxPath \in Nat /\ h.height \in 0 .. MaxPath - 1 /\ h = [height |-> h.height, rnode |-> h.rnode]
  BY RadixTreeAssumption DEF TreeShaped, TreeTypes
<1>1. PICK height : height = FirstFit(h, index)
  OBVIOUS
<1>2. height \in h.height + 1 .. MaxPath - 1
  <2>1. Fits(h, index) \subseteq h.height + 1 .. MaxPath - 1
    BY DEF Fits
  <2>2. Fits(h, index) \subseteq Nat
    BY <1>0, <2>1
  <2>3. \E k \in Fits(h, index) : \A l \in Fits(h, index) : k <= l
    BY <2>2, LeastNat
  <2>4. height \in Fits(h, index)
    BY ONLY <1>1, <2>3, Zenon DEF FirstFit
  <2> QED
    BY <2>1, <2>4
<1>3. CASE h.rnode = {}
  <2>1. e = [head |-> [h EXCEPT !.height = height], nodes |-> m, allocs |-> allocs]
    BY ONLY <1>1, <1>3, e = radix_tree_extend(h, m, index, allocs), Zenon DEF radix_tree_extend
  <2>2. [h EXCEPT !.height = height] = [height |-> height, rnode |-> {}]
    <3>1. PICK a : a = h.height
      OBVIOUS
    <3>2. h = [height |-> a, rnode |-> {}]
      BY ONLY <1>0, <1>3, <3>1, Zenon
    <3> QED
      BY ONLY <3>2
  <2>3. e.head = [height |-> height, rnode |-> {}] /\ e.nodes = m /\ e.allocs = allocs
    BY <2>1, <2>2
  <2>4. DOMAIN m = {} /\ m \in [DOMAIN m -> NodeRecords] /\ g \in [Indexes -> SUBSET Items]
    BY <1>3 DEF TreeShaped, Rooted, TreeTypes
  <2>5. \A i \in Indexes : g[i] = {}
    BY <2>4 DEF TreeShaped, Backed
  <2>6. PICK h2 : h2 = e.head
    OBVIOUS
  <2>7. h2.height = height /\ h2.rnode = {} /\ h2 = [height |-> height, rnode |-> {}]
    BY <2>3, <2>6
  <2>8. TreeTypes(h2, m, g)
    BY <1>0, <1>2, <2>4, <2>7 DEF TreeTypes
  <2>9. Rooted(h2, m) /\ Closed(h2, m) /\ SlotsFilled(h2, m, g) /\ Backed(h2, m, g) /\ Counted(m)
    BY <2>4, <2>5, <2>7 DEF Rooted, Closed, SlotsFilled, Backed, Counted, PointerTo
  <2> QED
    BY <1>0, <1>2, <2>3, <2>6, <2>7, <2>8, <2>9 DEF TreeShaped
<1>4. CASE h.rnode # {}
  <2>1. <<h.height, 0>> \in DOMAIN m /\ h.rnode = {<<h.height, 0>>} /\ h.height >= 1
    <3>1. <<h.height, 0>> \in DOMAIN m /\ h.rnode = {<<h.height, 0>>}
      BY <1>4 DEF TreeShaped, Rooted, PointerTo
    <3>2. <<h.height, 0>> \in (1 .. h.height) \X Nat
      BY <3>1 DEF TreeShaped, TreeTypes
    <3> QED
      BY <1>0, <3>1, <3>2
  <2>2. PICK top : top = IF height <= h.height + allocs THEN height ELSE h.height + allocs
    OBVIOUS
  <2>3. top \in h.height .. MaxPath - 1
    BY <1>0, <1>2, <2>2
  <2>4. \A k \in 0 .. MaxPath - 1 : Address(0, k) = <<k, 0>>
    <3> TAKE k \in 0 .. MaxPath - 1
    <3>1. Power[k] \in Nat /\ Power[k] >= 1
      BY <1>0, PowerFacts, PowerGrows
    <3>2. 0 \div Power[k] = 0
      BY <3>1
    <3> QED
      BY <3>2 DEF Address
  <2>5. PICK roots : roots = {Address(0, k) : k \in h.height + 1 .. top}
    OBVIOUS
  <2>6. roots = {<<k, 0>> : k \in h.height + 1 .. top}
    BY <1>0, <2>3, <2>4, <2>5
  <2>7. e = Grow(h, m, top, allocs)
    BY ONLY <1>1, <1>4, <2>2, e = radix_tree_extend(h, m, index, allocs), Zenon
       DEF radix_tree_extend
  <2>8. \A k \in h.height + 1 .. top :
           NewRoot(h, k) = [count |-> 1, slots |-> [s \in Slots |-> IF s # 0 THEN {} ELSE {<<k - 1, 0>>}]]
    <3> TAKE k \in h.height + 1 .. top
    <3>1. k - 1 \in 0 .. MaxPath - 1 /\ (k = h.height + 1 => k - 1 = h.height)
      BY <1>0, <2>3
    <3>2. (IF k = h.height + 1 THEN h.rnode ELSE {Address(0, k - 1)}) = {<<k - 1, 0>>}
      BY <2>1, <2>4, <3>1
    <3> QED
      BY <3>2, Zenon DEF NewRoot
  <2>9. e.nodes = [a \in DOMAIN m \union roots |-> IF a \in roots THEN NewRoot(h, a[1]) ELSE m[a]]
        /\ e.allocs = allocs - (top - h.height)
        /\ e.head = [height |-> top, rnode |-> {<<top, 0>>}]
    <3>1. (IF top = h.height THEN h.rnode ELSE {Address(0, top)}) = {<<top, 0>>}
      BY <1>0, <2>1, <2>3, <2>4
    <3>2. e = [head |-> [height |-> top, rnode |-> {<<top, 0>>}],
               nodes |-> [a \in DOMAIN m \union roots |-> IF a \in roots THEN NewRoot(h, a[1]) ELSE m[a]],
               allocs |-> allocs - (top - h.height)]
      BY ONLY <2>5, <2>7, <3>1, Zenon DEF Grow
    <3> QED
      BY ONLY <3>2, Zenon
  <2>10. PICK m2 : m2 = e.nodes
    OBVIOUS
  <2>11. DOMAIN m2 = DOMAIN m \union roots /\ m2 = [a \in DOMAIN m2 |-> m2[a]]
    BY <2>9, <2>10
  <2>12. ASSUME NEW a \in DOMAIN m PROVE m2[a] = m[a]
    <3>1. a \in (1 .. h.height) \X Nat
      BY DEF TreeShaped, TreeTypes
    <3>2. a \notin roots
      BY <1>0, <2>6, <3>1
    <3> QED
      BY <2>9, <2>10, <3>2
  <2>13. ASSUME NEW k \in h.height + 1 .. top PROVE m2[<<k, 0>>] = NewRoot(h, k)
    <3>1. <<k, 0>> \in roots /\ <<k, 0>>[1] = k
      BY <2>6
    <3> QED
      BY <2>9, <2>10, <3>1
  <2>14. Taller(h, m, e.head, m2, top)
    BY <2>1, <2>3, <2>6, <2>8, <2>9, <2>11, <2>12, <2>13 DEF Taller
  <2>15. TreeShaped(e.head, m2, g)
    BY <2>14, TallerShaped
  <2> QED
    BY <1>0, <2>1, <2>3, <2>9, <2>10, <2>15
<1> QED
  BY <1>3, <1>4

-----------------------------------------------------------------------------
(* Insertion: one slot of every node on the way down may change.           *)

(* n2 is n with u in its slot s, and counts it where the slot was empty.   *)
Relinked(n2, n, s, u) ==
    n2 = [n EXCEPT !.slots[s] = u, !.count = IF n.slots[s] = {} /\ u # {} THEN @ + 1 ELSE @]

CountedNode(n) == n \in NodeRecords /\ n.count = Cardinality(InUse(n))
OneSlotSet(n2, n, s, u) == \A t \in Slots : n2.slots[t] = IF t = s THEN u ELSE n.slots[t]
SlotHolds(n, m, g, l, b, s) ==
    /\ l > 1 => n.slots[s] = PointerTo(m, <<l - 1, MapSize * b + s>>)
    /\ l = 1 /\ MapSize * b + s \in Indexes => n.slots[s] = g[MapSize * b + s]

LEMMA RelinkedNode ==
    ASSUME NEW n, CountedNode(n), NEW s \in Slots,
           NEW u \in SUBSET (Items \union (Nat \X Nat)), n.slots[s] # {} => u # {},
           NEW n2, Relinked(n2, n, s, u)
    PROVE  CountedNode(n2) /\ OneSlotSet(n2, n, s, u)
<1>0. n.count = Cardinality(InUse(n))
  BY DEF CountedNode
<1>1. n.count \in Nat /\ n.slots \in [Slots -> SUBSET (Items \union (Nat \X Nat))]
      /\ n = [count |-> n.count, slots |-> n.slots]
  BY DEF NodeRecords, CountedNode
<1>2. /\ n2.slots = [n.slots EXCEPT ![s] = u]
      /\ n2.count = IF n.slots[s] = {} /\ u # {} THEN n.count + 1 ELSE n.count
      /\ n2 = [count |-> n2.count, slots |-> n2.slots]
  BY <1>1 DEF Relinked
<1>3. \A t \in Slots : n2.slots[t] = IF t = s THEN u ELSE n.slots[t]
  BY <1>1, <1>2
<1>4. n2.count \in Nat /\ n2.slots \in [Slots -> SUBSET (Items \union (Nat \X Nat))]
  BY <1>1, <1>2
<1>5. n2 \in NodeRecords
  BY <1>2, <1>4 DEF NodeRecords
<1>6. IsFiniteSet(InUse(n))
  <2>1. MapSize \in Nat
    BY RadixTreeAssumption
  <2>2. IsFiniteSet(Slots)
    BY <2>1, FS_Interval DEF Slots
  <2> QED
    BY <2>2, FS_Subset DEF InUse
<1>7. CASE n.slots[s] = {} /\ u # {}
  <2>1. InUse(n2) = InUse(n) \union {s} /\ s \notin InUse(n)
    BY <1>3, <1>7 DEF InUse
  <2>2. Cardinality(InUse(n) \union {s}) = Cardinality(InUse(n)) + 1
    BY <1>6, <2>1, FS_AddElement
  <2> QED
    BY <1>0, <1>2, <1>3, <1>5, <1>7, <2>1, <2>2 DEF CountedNode, OneSlotSet
<1>8. CASE ~ (n.slots[s] = {} /\ u # {})
  <2>1. InUse(n2) = InUse(n)
    BY <1>3, <1>8 DEF InUse
  <2> QED
    BY <1>0, <1>2, <1>3, <1>5, <1>8, <2>1 DEF CountedNode, OneSlotSet
<1> QED
  BY <1>7, <1>8

(* The node a, or the new one that will be there.                          *)
NodeAt(m, a) == IF a \in DOMAIN m THEN m[a] ELSE radix_tree_node_alloc

LEMMA NewNode ==
    /\ radix_tree_node_alloc \in NodeRecords
    /\ radix_tree_node_alloc.count = Cardinality(InUse(radix_tree_node_alloc))
    /\ \A s \in Slots : radix_tree_node_alloc.slots[s] = {}
<1>1. \A s \in Slots : radix_tree_node_alloc.slots[s] = {}
  BY DEF radix_tree_node_alloc
<1>2. InUse(radix_tree_node_alloc) = {}
  BY <1>1 DEF InUse
<1>3. Cardinality({}) = 0
  BY FS_EmptySet
<1>4. radix_tree_node_alloc.count = 0
  BY DEF radix_tree_node_alloc
<1>5. radix_tree_node_alloc \in NodeRecords
  BY DEF radix_tree_node_alloc, NodeRecords
<1> QED
  BY <1>1, <1>2, <1>3, <1>4, <1>5

(* What is in a slot, of a node that is there or of one that is not.       *)
LEMMA NodeAtFilled ==
    ASSUME NEW h, NEW m, NEW g, TreeShaped(h, m, g), NEW l \in 1 .. h.height, NEW b \in Nat, NEW s \in Slots
    PROVE  CountedNode(NodeAt(m, <<l, b>>)) /\ SlotHolds(NodeAt(m, <<l, b>>), m, g, l, b, s)
<1>0. MapSize \in Nat /\ MaxPath \in Nat /\ h.height \in 0 .. MaxPath - 1
  BY RadixTreeAssumption DEF TreeShaped, TreeTypes
<1>1. PICK c \in Nat : c = MapSize * b + s /\ c \div MapSize = b
  BY DigitUnique
<1>2. CASE <<l, b>> \in DOMAIN m
  <2>1. NodeAt(m, <<l, b>>) = m[<<l, b>>]
    BY <1>2 DEF NodeAt
  <2>2. m[<<l, b>>] \in NodeRecords /\ m[<<l, b>>].count = Cardinality(InUse(m[<<l, b>>]))
    BY <1>2 DEF TreeShaped, TreeTypes, Counted
  <2>3. SlotsFilled(h, m, g)
    BY DEF TreeShaped
  <2>4. IF l > 1 THEN m[<<l, b>>].slots[s] = PointerTo(m, <<l - 1, MapSize * b + s>>)
        ELSE MapSize * b + s \in Indexes => m[<<l, b>>].slots[s] = g[MapSize * b + s]
    BY ONLY <1>2, <2>3, l \in 1 .. h.height, b \in Nat, s \in Slots, Zenon DEF SlotsFilled
  <2>5. l = 1 => ~ (l > 1)
    OBVIOUS
  <2> QED
    BY ONLY <2>1, <2>2, <2>4, <2>5, Zenon DEF CountedNode, SlotHolds
<1>3. CASE <<l, b>> \notin DOMAIN m
  <2>1. NodeAt(m, <<l, b>>) = radix_tree_node_alloc
    BY <1>3 DEF NodeAt
  <2>2. l > 1 => <<l - 1, c>> \notin DOMAIN m
    <3> SUFFICES ASSUME l > 1 PROVE <<l - 1, c>> \notin DOMAIN m
      OBVIOUS
    <3>1. l - 1 \in 1 .. h.height /\ l - 1 # h.height /\ l - 1 + 1 = l
      BY <1>0
    <3> QED
      BY <1>1, <1>3, <3>1 DEF TreeShaped, Closed
  <2>3. l = 1 /\ c \in Indexes => g[c] = {}
    BY <1>1, <1>3 DEF TreeShaped, Backed
  <2> QED
    BY <1>1, <2>1, <2>2, <2>3, NewNode DEF PointerTo, CountedNode, SlotHolds
<1> QED
  BY <1>2, <1>3

(* The nodes m and the items g have become m2 and g2 by an insertion at i: *)
(* the new nodes are on the way to i, with nothing missing above them, the *)
(* nodes on the way are linked to what is now below them, and the others   *)
(* are as they were.                                                       *)
Grafted(h, m, g, m2, g2, i) ==
    /\ DOMAIN m \subseteq DOMAIN m2 /\ m2 = [a \in DOMAIN m2 |-> m2[a]]
    /\ \A a \in DOMAIN m2 \ DOMAIN m : \E l \in 1 .. h.height : a = Address(i, l)
    /\ \A l \in 1 .. h.height - 1 : Address(i, l) \in DOMAIN m2 => Address(i, l + 1) \in DOMAIN m2
    /\ \A a \in DOMAIN m2 : (\A l \in 1 .. h.height : a # Address(i, l)) => m2[a] = m[a]
    /\ \A l \in 1 .. h.height : Address(i, l) \in DOMAIN m2 =>
           Relinked(m2[Address(i, l)], NodeAt(m, Address(i, l)), SlotOf(i, l),
                    IF l > 1 THEN PointerTo(m2, Address(i, l - 1)) ELSE g2[i])
    /\ g2 \in [Indexes -> SUBSET Items] /\ \A j \in Indexes : j # i => g2[j] = g[j]
    /\ g[i] # {} => g2[i] # {}
    /\ g2[i] # {} => Address(i, 1) \in DOMAIN m2

LEMMA AddressFacts ==
    ASSUME NEW i \in Nat, NEW l \in 1 .. MaxPath
    PROVE  /\ Address(i, l) = <<l, i \div Power[l]>> /\ i \div Power[l] \in Nat /\ SlotOf(i, l) \in Slots
           /\ Address(i, l - 1) = <<l - 1, MapSize * (i \div Power[l]) + SlotOf(i, l)>>
           /\ (i \div Power[l - 1]) \div MapSize = i \div Power[l]
           /\ l = 1 => /\ i = MapSize * (i \div Power[l]) + SlotOf(i, l)
                       /\ Address(i, l) = <<1, i \div MapSize>>
<1>1. /\ i \div Power[l] \in Nat /\ i \div Power[l - 1] \in Nat /\ SlotOf(i, l) \in Slots
      /\ i \div Power[l] = (i \div Power[l - 1]) \div MapSize
      /\ i \div Power[l - 1] = MapSize * (i \div Power[l]) + SlotOf(i, l)
  BY DigitFacts
<1>2. Address(i, l) = <<l, i \div Power[l]>> /\ Address(i, l - 1) = <<l - 1, i \div Power[l - 1]>>
  BY DEF Address
<1>3. l = 1 => i \div Power[l - 1] = i
  BY PowerFacts
<1> QED
  BY <1>1, <1>2, <1>3

(* A node below one that is not on the way to i is not on the way either.  *)
LEMMA OffTheWay ==
    ASSUME NEW i \in Nat, NEW l \in 2 .. MaxPath, NEW b \in Nat, NEW s \in Slots,
           <<l - 1, MapSize * b + s>> = Address(i, l - 1)
    PROVE  <<l, b>> = Address(i, l) /\ s = SlotOf(i, l)
<1>1. MaxPath \in Nat
  BY RadixTreeAssumption
<1>2. PICK c \in Nat : c = MapSize * b + s /\ c \div MapSize = b /\ c % MapSize = s
  BY DigitUnique
<1>3. l \in 1 .. MaxPath
  BY <1>1
<1>4. c = i \div Power[l - 1]
  BY <1>2 DEF Address
<1>5. Address(i, l) = <<l, i \div Power[l]>> /\ (i \div Power[l - 1]) \div MapSize = i \div Power[l]
  BY ONLY <1>3, i \in Nat, AddressFacts, Zenon
<1>6. SlotOf(i, l) = c % MapSize
  BY <1>4 DEF SlotOf
<1> QED
  BY <1>2, <1>4, <1>5, <1>6

LEMMA GraftShaped ==
    ASSUME NEW h, NEW m, NEW g, TreeShaped(h, m, g), h.height >= 1, NEW i \in Indexes,
           i <= MaxIndex(h.height), NEW m2, NEW g2, Grafted(h, m, g, m2, g2, i), NEW h2,
           h2 = [height |-> h.height, rnode |-> PointerTo(m2, Address(i, h.height))]
    PROVE  TreeShaped(h2, m2, g2)
<1>0. /\ MapSize \in Nat /\ MapSize >= 1 /\ MaxPath \in Nat /\ i \in Nat
      /\ h.height \in 1 .. MaxPath - 1 /\ h2.height = h.height
  BY RadixTreeAssumption, IndexFacts DEF TreeShaped, TreeTypes
<1>1. /\ \A a \in DOMAIN m : m[a] \in NodeRecords /\ a \in (1 .. h.height) \X Nat
      /\ g \in [Indexes -> SUBSET Items] /\ g2 \in [Indexes -> SUBSET Items]
  BY DEF TreeShaped, TreeTypes, Grafted
<1>2. \A l \in 1 .. h.height : l \in 1 .. MaxPath
  BY <1>0
<1>3. Address(i, h.height) = <<h.height, 0>>
  <2>1. PICK P : P = Power[h.height]
    OBVIOUS
  <2>2. P \in Nat /\ i < P
    BY <1>0, <2>1, PowerFacts DEF MaxIndex
  <2>3. i \div P = 0
    BY <1>0, <2>2
  <2> QED
    BY <2>1, <2>3 DEF Address
<1>4. \A l, b : <<l, b>> \in DOMAIN m2 => l \in 1 .. h.height /\ b \in Nat
  <2> SUFFICES ASSUME NEW l, NEW b, <<l, b>> \in DOMAIN m2 PROVE l \in 1 .. h.height /\ b \in Nat
    OBVIOUS
  <2>1. CASE <<l, b>> \in DOMAIN m
    BY <1>1, <2>1
  <2>2. CASE <<l, b>> \notin DOMAIN m
    <3>1. PICK k \in 1 .. h.height : <<l, b>> = Address(i, k)
      BY <2>2 DEF Grafted
    <3>2. Address(i, k) = <<k, i \div Power[k]>> /\ i \div Power[k] \in Nat
      BY ONLY <1>0, <1>2, <3>1, AddressFacts, Zenon
    <3> QED
      BY <3>1, <3>2
  <2> QED
    BY <2>1, <2>2
<1>5. \A a \in DOMAIN m2 : \E l \in 1 .. h.height, b \in Nat : a = <<l, b>>
  <2> TAKE a \in DOMAIN m2
  <2>1. CASE a \in DOMAIN m
    BY <1>1, <2>1
  <2>2. CASE a \notin DOMAIN m
    <3>1. PICK k \in 1 .. h.height : a = Address(i, k)
      BY <2>2 DEF Grafted
    <3>2. Address(i, k) = <<k, i \div Power[k]>> /\ i \div Power[k] \in Nat
      BY ONLY <1>0, <1>2, <3>1, AddressFacts, Zenon
    <3> QED
      BY <3>1, <3>2
  <2> QED
    BY <2>1, <2>2
<1>6. \A l, b : <<l, b>> \in DOMAIN m2 /\ <<l, b>> \notin DOMAIN m => <<l, b>> = Address(i, l)
  <2> SUFFICES ASSUME NEW l, NEW b, <<l, b>> \in DOMAIN m2, <<l, b>> \notin DOMAIN m
               PROVE  <<l, b>> = Address(i, l)
    OBVIOUS
  <2>1. PICK k \in 1 .. h.height : <<l, b>> = Address(i, k)
    BY DEF Grafted
  <2>2. k = l
    BY <2>1 DEF Address
  <2> QED
    BY <2>1, <2>2
<1>7. ASSUME NEW l \in 1 .. h.height, NEW b \in Nat, <<l, b>> \in DOMAIN m2
      PROVE  /\ m2[<<l, b>>] \in NodeRecords /\ m2[<<l, b>>].count = Cardinality(InUse(m2[<<l, b>>]))
             /\ \A s \in Slots :
                    IF l > 1 THEN m2[<<l, b>>].slots[s] = PointerTo(m2, <<l - 1, MapSize * b + s>>)
                    ELSE MapSize * b + s \in Indexes => m2[<<l, b>>].slots[s] = g2[MapSize * b + s]
  <2>0. l \in 1 .. MaxPath
    BY <1>2
  <2>1. /\ Address(i, l) = <<l, i \div Power[l]>> /\ i \div Power[l] \in Nat /\ SlotOf(i, l) \in Slots
        /\ Address(i, l - 1) = <<l - 1, MapSize * (i \div Power[l]) + SlotOf(i, l)>>
        /\ l = 1 => i = MapSize * (i \div Power[l]) + SlotOf(i, l)
    BY ONLY <1>0, <2>0, AddressFacts, Zenon
  <2>2. PICK n : n = NodeAt(m, <<l, b>>)
    OBVIOUS
  <2>3. /\ n \in NodeRecords /\ n.count = Cardinality(InUse(n))
        /\ \A s \in Slots :
               /\ l > 1 => n.slots[s] = PointerTo(m, <<l - 1, MapSize * b + s>>)
               /\ l = 1 /\ MapSize * b + s \in Indexes => n.slots[s] = g[MapSize * b + s]
    <3>1. SlotOf(i, l) \in Slots
      BY <2>1
    <3>2. \A s \in Slots : CountedNode(n) /\ SlotHolds(n, m, g, l, b, s)
      BY ONLY <2>2, TreeShaped(h, m, g), l \in 1 .. h.height, b \in Nat, NodeAtFilled, Zenon
    <3> QED
      BY ONLY <3>1, <3>2, Zenon DEF CountedNode, SlotHolds
  <2>4. ASSUME NEW s \in Slots, ~ (<<l, b>> = Address(i, l) /\ s = SlotOf(i, l))
        PROVE  /\ l > 1 => PointerTo(m2, <<l - 1, MapSize * b + s>>) = PointerTo(m, <<l - 1, MapSize * b + s>>)
               /\ l = 1 /\ MapSize * b + s \in Indexes => g2[MapSize * b + s] = g[MapSize * b + s]
    <3>1. PICK c \in Nat : c = MapSize * b + s /\ c \div MapSize = b /\ c % MapSize = s
      BY DigitUnique
    <3>2. CASE l > 1
      <4>1. l \in 2 .. MaxPath
        BY <1>0, <2>0, <3>2
      <4>2. <<l - 1, c>> # Address(i, l - 1)
        BY ONLY <1>0, <2>4, <3>1, <4>1, OffTheWay, Zenon
      <4>3. <<l - 1, c>> \in DOMAIN m2 <=> <<l - 1, c>> \in DOMAIN m
        BY <1>6, <4>2 DEF Grafted
      <4> QED
        BY <3>1, <3>2, <4>3 DEF PointerTo
    <3>3. CASE l = 1
      <4>1. c # i
        <5>1. /\ i \div Power[1] = i \div MapSize /\ SlotOf(i, 1) = i % MapSize
          <6>1. Power[0] = 1 /\ Power[1] = MapSize * Power[0]
            BY <1>0, PowerFacts
          <6>2. Power[1] = MapSize /\ Power[1 - 1] = 1 /\ i \div 1 = i
            BY <1>0, <6>1
          <6> QED
            BY <6>2 DEF SlotOf
        <5> QED
          BY <2>1, <2>4, <3>1, <3>3, <5>1
      <4> QED
        BY <3>1, <3>3, <4>1 DEF Grafted
    <3> QED
      BY <2>0, <3>2, <3>3
  <2>5. CASE <<l, b>> = Address(i, l)
    <3>1. b = i \div Power[l]
      BY <2>1, <2>5
    <3>2. PICK u : u = IF l > 1 THEN PointerTo(m2, Address(i, l - 1)) ELSE g2[i]
      OBVIOUS
    <3>3. Relinked(m2[<<l, b>>], n, SlotOf(i, l), u)
      <4>1. PICK a : a = Address(i, l)
        OBVIOUS
      <4>2. a \in DOMAIN m2
        BY <1>7, <2>5, <4>1
      <4>3. Relinked(m2[a], NodeAt(m, a), SlotOf(i, l), u)
        BY ONLY Grafted(h, m, g, m2, g2, i), l \in 1 .. h.height, <3>2, <4>1, <4>2, Zenon DEF Grafted
      <4> QED
        BY ONLY <2>2, <2>5, <4>1, <4>3, Zenon
    <3>4. u \in SUBSET (Items \union (Nat \X Nat))
      <4>1. CASE l > 1
        <5>1. MapSize * b + SlotOf(i, l) \in Nat /\ l - 1 \in Nat
          BY <2>0, <2>1, DigitUnique
        <5>2. Address(i, l - 1) \in Nat \X Nat
          BY <2>1, <3>1, <5>1
        <5> QED
          BY <3>2, <4>1, <5>2 DEF PointerTo
      <4>2. CASE ~ (l > 1)
        BY <1>1, <3>2, <4>2
      <4> QED
        BY <4>1, <4>2
    <3>5. n.slots[SlotOf(i, l)] # {} => u # {}
      <4>1. CASE l > 1
        <5>1. n.slots[SlotOf(i, l)] = PointerTo(m, Address(i, l - 1))
          BY <2>1, <2>3, <3>1, <4>1
        <5>2. DOMAIN m \subseteq DOMAIN m2
          BY DEF Grafted
        <5> QED
          BY <3>2, <4>1, <5>1, <5>2 DEF PointerTo
      <4>2. CASE l = 1
        <5>1. n.slots[SlotOf(i, l)] = g[i]
          BY <2>1, <2>3, <3>1, <4>2
        <5> QED
          BY <3>2, <4>2, <5>1 DEF Grafted
      <4> QED
        BY <2>0, <4>1, <4>2
    <3>6. /\ m2[<<l, b>>] \in NodeRecords /\ m2[<<l, b>>].count = Cardinality(InUse(m2[<<l, b>>]))
          /\ \A t \in Slots : m2[<<l, b>>].slots[t] = IF t = SlotOf(i, l) THEN u ELSE n.slots[t]
      <4>1. PICK n2, t : n2 = m2[<<l, b>>] /\ t = SlotOf(i, l)
        OBVIOUS
      <4>2. t \in Slots /\ Relinked(n2, n, t, u) /\ (n.slots[t] # {} => u # {})
        BY <2>1, <3>3, <3>5, <4>1
      <4>3. CountedNode(n)
        BY <2>3 DEF CountedNode
      <4>4. CountedNode(n2) /\ OneSlotSet(n2, n, t, u)
        BY ONLY <3>4, <4>2, <4>3, RelinkedNode, Zenon
      <4> QED
        BY ONLY <4>1, <4>4, Zenon DEF CountedNode, OneSlotSet
    <3>7. ASSUME NEW s \in Slots
          PROVE  IF l > 1 THEN m2[<<l, b>>].slots[s] = PointerTo(m2, <<l - 1, MapSize * b + s>>)
                 ELSE MapSize * b + s \in Indexes => m2[<<l, b>>].slots[s] = g2[MapSize * b + s]
      <4>1. CASE s = SlotOf(i, l)
        BY <2>0, <2>1, <3>1, <3>2, <3>6, <4>1
      <4>2. CASE s # SlotOf(i, l)
        BY <2>0, <2>3, <2>4, <3>6, <4>2
      <4> QED
        BY <4>1, <4>2
    <3> QED
      BY <3>6, <3>7
  <2>6. CASE <<l, b>> # Address(i, l)
    <3>1. \A k \in 1 .. h.height : <<l, b>> # Address(i, k)
      BY <2>6 DEF Address
    <3>2. m2[<<l, b>>] = m[<<l, b>>] /\ <<l, b>> \in DOMAIN m
      BY <1>6, <1>7, <2>6, <3>1 DEF Grafted
    <3>3. m2[<<l, b>>] = n
      BY <2>2, <3>2 DEF NodeAt
    <3> QED
      BY <2>0, <2>3, <2>4, <2>6, <3>3
  <2> QED
    BY <2>5, <2>6
<1>8. TreeTypes(h2, m2, g2)
  <2>1. \A a \in DOMAIN m2 : m2[a] \in NodeRecords /\ a \in (1 .. h.height) \X Nat
    BY <1>5, <1>7
  <2>2. m2 = [a \in DOMAIN m2 |-> m2[a]]
    BY DEF Grafted
  <2>3. m2 \in [DOMAIN m2 -> NodeRecords]
    BY <2>1, <2>2
  <2>4. h2 = [height |-> h2.height, rnode |-> h2.rnode] /\ h.height \in 0 .. MaxPath - 1
    BY <1>0
  <2>5. DOMAIN m2 \subseteq (1 .. h2.height) \X Nat
    BY <1>0, <2>1
  <2> QED
    BY <1>0, <1>1, <2>3, <2>4, <2>5 DEF TreeTypes
<1>9. Rooted(h2, m2)
  <2>1. h2.rnode = PointerTo(m2, <<h2.height, 0>>)
    BY <1>0, <1>3
  <2>2. h2.rnode = {} => DOMAIN m2 = {}
    <3> SUFFICES ASSUME h2.rnode = {}, DOMAIN m2 # {} PROVE FALSE
      OBVIOUS
    <3>1. Address(i, h.height) \notin DOMAIN m2
      BY <1>3, <1>0, <2>1 DEF PointerTo
    <3>2. DOMAIN m = {}
      BY <1>3, <3>1 DEF Grafted, TreeShaped, Rooted, PointerTo
    <3> DEFINE up == {k \in 0 .. h.height : \E l \in 1 .. h.height : k = h.height - l /\ Address(i, l) \in DOMAIN m2}
    <3>3. up # {}
      <4>1. PICK a \in DOMAIN m2 : TRUE
        OBVIOUS
      <4>2. PICK l \in 1 .. h.height : a = Address(i, l)
        BY <3>2, <4>1 DEF Grafted
      <4>3. h.height - l \in 0 .. h.height
        BY <1>0
      <4> QED
        BY <4>1, <4>2, <4>3
    <3>4. PICK k \in up : \A j \in up : k <= j
      <4>1. h.height \in Nat /\ up \in SUBSET (0 .. h.height)
        BY <1>0
      <4> HIDE DEF up
      <4> QED
        BY <3>3, <4>1, LeastUpTo
    <3>5. PICK l \in 1 .. h.height : k = h.height - l /\ Address(i, l) \in DOMAIN m2
      BY <3>4
    <3>6. l # h.height
      BY <3>1, <3>5
    <3>7. l \in 1 .. h.height - 1 /\ l + 1 \in 1 .. h.height /\ h.height - (l + 1) \in 0 .. h.height
      BY <1>0, <3>5, <3>6
    <3>8. Address(i, l + 1) \in DOMAIN m2
      BY <3>5, <3>7 DEF Grafted
    <3>9. h.height - (l + 1) \in up
      BY <3>7, <3>8
    <3> HIDE DEF up
    <3>10. k <= h.height - (l + 1)
      BY <3>4, <3>9
    <3> QED
      BY <1>0, <3>5, <3>10
  <2> QED
    BY <2>1, <2>2 DEF Rooted
<1>10. Closed(h2, m2)
  <2> SUFFICES ASSUME NEW l \in 1 .. h.height, NEW b \in Nat, <<l, b>> \in DOMAIN m2
               PROVE  IF l = h.height THEN b = 0 ELSE <<l + 1, b \div MapSize>> \in DOMAIN m2
    BY <1>0 DEF Closed
  <2>1. CASE <<l, b>> \in DOMAIN m
    <3>1. IF l = h.height THEN b = 0 ELSE <<l + 1, b \div MapSize>> \in DOMAIN m
      BY <2>1 DEF TreeShaped, Closed
    <3> QED
      BY <3>1 DEF Grafted
  <2>2. CASE <<l, b>> \notin DOMAIN m
    <3>1. <<l, b>> = Address(i, l)
      BY <1>6, <2>2
    <3>2. b = i \div Power[l]
      BY <3>1 DEF Address
    <3>3. CASE l = h.height
      BY <1>3, <3>1, <3>3
    <3>4. CASE l # h.height
      <4>1. l \in 1 .. h.height - 1 /\ l + 1 \in 1 .. MaxPath /\ l + 1 - 1 = l
        BY <1>0, <3>4
      <4>2. Address(i, l + 1) \in DOMAIN m2
        BY <3>1, <4>1 DEF Grafted
      <4>3. Address(i, l + 1) = <<l + 1, i \div Power[l + 1]>>
            /\ (i \div Power[l + 1 - 1]) \div MapSize = i \div Power[l + 1]
        <5>1. PICK k : k = l + 1
          OBVIOUS
        <5>2. k \in 1 .. MaxPath
          BY <4>1, <5>1
        <5>3. Address(i, k) = <<k, i \div Power[k]>> /\ (i \div Power[k - 1]) \div MapSize = i \div Power[k]
          BY ONLY <1>0, <5>2, AddressFacts, Zenon
        <5> QED
          BY <5>1, <5>3
      <4> QED
        BY <3>2, <3>4, <4>1, <4>2, <4>3
    <3> QED
      BY <3>3, <3>4
  <2> QED
    BY <2>1, <2>2
<1>11. SlotsFilled(h2, m2, g2)
  BY <1>0, <1>7 DEF SlotsFilled
<1>12. Backed(h2, m2, g2)
  <2> SUFFICES ASSUME NEW j \in Indexes, g2[j] # {}
               PROVE  j <= MaxIndex(h.height) /\ <<1, j \div MapSize>> \in DOMAIN m2
    BY <1>0 DEF Backed
  <2>1. CASE j = i
    <3>1. Address(i, 1) \in DOMAIN m2
      BY <2>1 DEF Grafted
    <3>2. 1 \in 1 .. MaxPath
      BY <1>0
    <3>3. Address(i, 1) = <<1, i \div MapSize>>
      BY ONLY <1>0, <3>2, AddressFacts, Zenon
    <3> QED
      BY <2>1, <3>1, <3>3
  <2>2. CASE j # i
    <3>1. g[j] # {}
      BY <2>2 DEF Grafted
    <3> QED
      BY <3>1 DEF TreeShaped, Backed, Grafted
  <2> QED
    BY <2>1, <2>2
<1>13. Counted(m2)
  BY <1>5, <1>7 DEF Counted
<1> QED
  BY <1>8, <1>9, <1>10, <1>11, <1>12, <1>13 DEF TreeShaped

(* Nodes are made from the top down.                                       *)
LEMMA MadeFromTop ==
    ASSUME NEW H \in Nat, NEW missing \in SUBSET (0 .. H), NEW allocs \in Int,
           NEW d \in Made(missing, allocs), NEW c \in missing, c <= d
    PROVE  c \in Made(missing, allocs)
<1> DEFINE above(x) == {y \in missing : y < x}
<1>0. d \in 0 .. H /\ c \in 0 .. H
  BY DEF Made
<1>1. above(c) \subseteq above(d)
  <2>1. ASSUME NEW y \in missing, y < c PROVE y < d
    <3>1. y \in 0 .. H
      OBVIOUS
    <3> QED
      BY <1>0, <2>1, <3>1
  <2> QED
    BY <2>1
<1>2. IsFiniteSet(above(d))
  <2>1. IsFiniteSet(0 .. H)
    BY FS_Interval
  <2>2. above(d) \subseteq 0 .. H
    OBVIOUS
  <2> HIDE DEF above
  <2> QED
    BY <2>1, <2>2, FS_Subset
<1>3. Cardinality(above(d)) < allocs
  BY DEF Made
<1>4. Cardinality(above(c)) <= Cardinality(above(d)) /\ Cardinality(above(c)) \in Nat /\ Cardinality(above(d)) \in Nat
  <2> HIDE DEF above
  <2> QED
    BY <1>1, <1>2, FS_Subset, FS_CardinalityType
<1>5. Cardinality(above(c)) < allocs
  BY <1>3, <1>4
<1> QED
  BY <1>5 DEF Made

(* What radix_tree_insert computes on its way down.                        *)
IsInsertion(h, m, g, i, item, allocs, p, made, stored, q, m2, g2) ==
    /\ p = Path(h, m, i) /\ made = Made(Missing(h, p), allocs)
    /\ stored = (made = Missing(h, p) /\ ~ Occupied(p[h.height]))
    /\ q = NewPath(h, p, made, stored, i, item)
    /\ m2 = InsertBelow(h, m, p, q, made, i)
    /\ g2 = IF stored THEN [g EXCEPT ![i] = {item}] ELSE g

LEMMA InsertGrafts ==
    ASSUME NEW h, NEW m, NEW g, TreeShaped(h, m, g), h.height >= 1, NEW i \in Indexes,
           i <= MaxIndex(h.height), NEW item \in Items, NEW allocs \in Int,
           NEW p, NEW made, NEW stored, NEW q, NEW m2, NEW g2,
           IsInsertion(h, m, g, i, item, allocs, p, made, stored, q, m2, g2)
    PROVE  Grafted(h, m, g, m2, g2, i) /\ q[0] = PointerTo(m2, Address(i, h.height))
<1>a. /\ p = Path(h, m, i) /\ made = Made(Missing(h, p), allocs)
      /\ stored = (made = Missing(h, p) /\ ~ Occupied(p[h.height]))
      /\ q = NewPath(h, p, made, stored, i, item)
      /\ m2 = InsertBelow(h, m, p, q, made, i)
      /\ g2 = IF stored THEN [g EXCEPT ![i] = {item}] ELSE g
  BY Zenon DEF IsInsertion
<1>0. MaxPath \in Nat /\ i \in Nat /\ h.height \in 1 .. MaxPath - 1
  BY RadixTreeAssumption, IndexFacts DEF TreeShaped, TreeTypes
<1>1. PICK H \in 1 .. MaxPath - 1 : H = h.height
  BY <1>0
<1>2. p = Expected(h, m, g, i)
  BY <1>a, PathIs
<1>3. \A l \in 1 .. H : p[H - l] = PointerTo(m, Address(i, l))
  <2> TAKE l \in 1 .. H
  <2>1. H - l \in 0 .. H /\ H - l < H /\ H - (H - l) = l
    BY <1>0, <1>1
  <2> QED
    BY <1>1, <1>2, <2>1 DEF Expected
<1>4. p[H] = g[i]
  <2>1. H \in 0 .. H /\ ~ (H < H)
    BY <1>0, <1>1
  <2> QED
    BY <1>1, <1>2, <2>1 DEF Expected
<1>5. PICK missing : missing = Missing(h, p)
  OBVIOUS
<1>6. missing \in SUBSET (0 .. H - 1) /\ \A l \in 1 .. H : H - l \in missing <=> Address(i, l) \notin DOMAIN m
  <2>1. missing = {d \in 0 .. H - 1 : p[d] = {}}
    BY <1>1, <1>5 DEF Missing
  <2>2. ASSUME NEW l \in 1 .. H PROVE H - l \in missing <=> Address(i, l) \notin DOMAIN m
    <3>1. H - l \in 0 .. H - 1
      BY <1>0, <1>1
    <3>2. p[H - l] = {} <=> Address(i, l) \notin DOMAIN m
      BY <1>3 DEF PointerTo
    <3> QED
      BY <2>1, <3>1, <3>2
  <2> QED
    BY <2>1, <2>2
<1>7. made \subseteq missing /\ \A d \in made, c \in missing : c <= d => c \in made
  <2>1. made = Made(missing, allocs)
    BY <1>a, <1>5
  <2>2. H - 1 \in Nat
    BY <1>0, <1>1
  <2>3. \A d \in Made(missing, allocs), c \in missing : c <= d => c \in Made(missing, allocs)
    BY ONLY <1>6, <2>2, allocs \in Int, MadeFromTop, Zenon
  <2>4. made \subseteq missing
    BY <2>1 DEF Made
  <2> QED
    BY <2>1, <2>3, <2>4
<1>8. \A k, l : Address(i, k) = Address(i, l) => k = l
  BY DEF Address
<1>9. PICK new : new = {Address(i, H - d) : d \in made}
  OBVIOUS
<1>10. ASSUME NEW l \in 1 .. H PROVE Address(i, l) \in new <=> H - l \in made
  <2>1. H - (H - l) = l
    BY <1>0, <1>1
  <2>2. ASSUME Address(i, l) \in new PROVE H - l \in made
    <3>1. PICK d \in made : Address(i, l) = Address(i, H - d)
      BY <1>9, <2>2
    <3>2. l = H - d /\ d \in 0 .. H - 1
      BY <1>6, <1>7, <1>8, <3>1
    <3>3. d = H - l
      BY <1>0, <1>1, <3>2
    <3> QED
      BY <3>1, <3>3
  <2> QED
    BY <1>9, <2>1, <2>2
<1>11. DOMAIN m2 = DOMAIN m \union new /\ m2 = [a \in DOMAIN m2 |-> m2[a]]
  BY <1>a, <1>1, <1>9 DEF InsertBelow
<1>12. ASSUME NEW l \in 1 .. H PROVE q[H - l] = PointerTo(m2, Address(i, l))
  <2>1. H - l \in 0 .. H /\ H - l # H /\ H - (H - l) = l
    BY <1>0, <1>1
  <2>2. q[H - l] = IF H - l \in made THEN {Address(i, l)} ELSE p[H - l]
    BY <1>a, <1>1, <2>1 DEF NewPath
  <2> QED
    BY <1>3, <1>10, <1>11, <2>2 DEF PointerTo
<1>13. /\ g2 \in [Indexes -> SUBSET Items] /\ (\A j \in Indexes : j # i => g2[j] = g[j])
       /\ g2[i] = IF stored THEN {item} ELSE g[i]
       /\ stored <=> made = missing /\ g[i] = {}
  <2>1. g \in [Indexes -> SUBSET Items]
    BY DEF TreeShaped, TreeTypes
  <2>2. stored <=> made = missing /\ g[i] = {}
    BY <1>a, <1>1, <1>4, <1>5 DEF Occupied
  <2> QED
    BY <1>a, <2>1, <2>2
<1>14. q[H] = g2[i]
  <2>1. H \in 0 .. H /\ H \notin made
    BY <1>0, <1>1, <1>6, <1>7
  <2>2. q[H] = IF stored THEN {item} ELSE p[H]
    BY <1>a, <1>1, <2>1 DEF NewPath
  <2> QED
    BY <1>4, <1>13, <2>2
<1> DEFINE at(a) == {d \in 0 .. H - 1 : q[d] = {a}}
<1>15. \A a \in DOMAIN m2 :
          m2[a] = IF at(a) = {} THEN NodeAt(m, a) ELSE Linked(NodeAt(m, a), h, p, q, i, The(at(a)))
  <2>1. m2 = [a \in DOMAIN m \union new |->
                IF at(a) = {} THEN NodeAt(m, a) ELSE Linked(NodeAt(m, a), h, p, q, i, The(at(a)))]
    BY ONLY <1>a, <1>1, <1>9, Zenon DEF InsertBelow, NodeAt
  <2> HIDE DEF at
  <2> QED
    BY <1>11, <2>1
<1>16. ASSUME NEW d \in 0 .. H - 1 PROVE \E l \in 1 .. H : d = H - l
  BY <1>0, <1>1
<1>17. ASSUME NEW a \in DOMAIN m2, \A l \in 1 .. H : a # Address(i, l) PROVE m2[a] = m[a]
  <2>1. at(a) = {}
    <3> SUFFICES ASSUME NEW d \in 0 .. H - 1, q[d] = {a} PROVE FALSE
      OBVIOUS
    <3>1. PICK l \in 1 .. H : d = H - l
      BY <1>16
    <3>2. {a} = PointerTo(m2, Address(i, l))
      BY <1>12, <3>1
    <3> QED
      BY <1>17, <3>2 DEF PointerTo
  <2>2. a \in DOMAIN m
    <3> SUFFICES ASSUME a \in new PROVE FALSE
      BY <1>11
    <3>1. PICK d \in made : a = Address(i, H - d)
      BY <1>9
    <3>2. H - d \in 1 .. H
      BY <1>0, <1>1, <1>6, <1>7
    <3> QED
      BY <1>17, <3>1, <3>2
  <2> QED
    BY <1>15, <2>1, <2>2 DEF NodeAt
<1>18. ASSUME NEW l \in 1 .. H, Address(i, l) \in DOMAIN m2
       PROVE  Relinked(m2[Address(i, l)], NodeAt(m, Address(i, l)), SlotOf(i, l),
                       IF l > 1 THEN PointerTo(m2, Address(i, l - 1)) ELSE g2[i])
  <2>1. PICK a, n : a = Address(i, l) /\ n = NodeAt(m, a)
    OBVIOUS
  <2>2. at(a) = {H - l}
    <3>1. H - l \in 0 .. H - 1
      BY <1>0, <1>1
    <3>2. q[H - l] = {a}
      BY <1>12, <1>18, <2>1 DEF PointerTo
    <3>3. ASSUME NEW d \in 0 .. H - 1, q[d] = {a} PROVE d = H - l
      <4>1. PICK k \in 1 .. H : d = H - k
        BY <1>16
      <4>2. {a} = PointerTo(m2, Address(i, k))
        BY <1>12, <3>3, <4>1
      <4>3. Address(i, k) = Address(i, l)
        BY <2>1, <4>2 DEF PointerTo
      <4> QED
        BY <1>8, <4>1, <4>3
    <3> QED
      BY <3>1, <3>2, <3>3
  <2>3. The(at(a)) = H - l /\ at(a) # {}
    BY <2>2 DEF The
  <2>4. m2[a] = Linked(n, h, p, q, i, H - l)
    <3>1. a \in DOMAIN m2
      BY <1>18, <2>1
    <3>2. m2[a] = Linked(n, h, p, q, i, The(at(a)))
      BY ONLY <1>15, <2>1, <2>3, <3>1, Zenon
    <3> QED
      BY ONLY <2>3, <3>2, Zenon
  <2>5. PICK e, s, u : e = H - l + 1 /\ s = SlotOf(i, l) /\ u = q[e]
    OBVIOUS
  <2>6. h.height - (H - l) = l /\ H - l + 1 = e
    BY <1>0, <1>1, <2>5
  <2>7. m2[a] = [n EXCEPT !.slots[s] = u, !.count = IF p[e] = {} /\ u # {} THEN @ + 1 ELSE @]
    BY ONLY <2>4, <2>5, <2>6, Zenon DEF Linked
  <2>8. u = IF l > 1 THEN PointerTo(m2, Address(i, l - 1)) ELSE g2[i]
    <3>1. CASE l > 1
      <4>1. l - 1 \in 1 .. H /\ H - (l - 1) = e
        BY <1>0, <1>1, <2>5, <3>1
      <4> QED
        BY <1>12, <2>5, <3>1, <4>1
    <3>2. CASE ~ (l > 1)
      <4>1. e = H
        BY <1>0, <1>1, <2>5, <3>2
      <4> QED
        BY <1>14, <2>5, <3>2, <4>1
    <3> QED
      BY <3>1, <3>2
  <2>9. n.slots[s] = p[e]
    <3>0. l \in 1 .. MaxPath /\ l \in 1 .. h.height
      BY <1>0, <1>1
    <3>1. PICK b : b = i \div Power[l]
      OBVIOUS
    <3>2. /\ Address(i, l) = <<l, b>> /\ b \in Nat /\ s \in Slots
          /\ Address(i, l - 1) = <<l - 1, MapSize * b + s>>
          /\ l = 1 => i = MapSize * b + s
      BY ONLY <1>0, <2>5, <3>0, <3>1, AddressFacts, Zenon
    <3>3. n = NodeAt(m, <<l, b>>)
      BY <2>1, <3>2
    <3>4. SlotHolds(n, m, g, l, b, s)
      BY ONLY <3>0, <3>2, <3>3, TreeShaped(h, m, g), NodeAtFilled, Zenon
    <3>5. CASE l > 1
      <4>1. l - 1 \in 1 .. H /\ H - (l - 1) = e
        BY <1>0, <1>1, <2>5, <3>5
      <4>2. p[e] = PointerTo(m, Address(i, l - 1))
        BY <1>3, <4>1
      <4> QED
        BY <3>2, <3>4, <3>5, <4>2 DEF SlotHolds
    <3>6. CASE l = 1
      <4>1. e = H
        BY <1>0, <1>1, <2>5, <3>6
      <4>2. MapSize * b + s = i
        BY <3>2, <3>6
      <4> QED
        BY <1>4, <3>4, <3>6, <4>1, <4>2 DEF SlotHolds
    <3> QED
      BY <3>0, <3>5, <3>6
  <2>10. m2[a] = [n EXCEPT !.slots[s] = u, !.count = IF n.slots[s] = {} /\ u # {} THEN @ + 1 ELSE @]
    BY ONLY <2>7, <2>9, Zenon
  <2>11. Relinked(m2[a], n, s, u)
    BY ONLY <2>10, Zenon DEF Relinked
  <2> QED
    BY ONLY <2>1, <2>5, <2>8, <2>11, Zenon
<1> HIDE DEF at
<1>19. ASSUME NEW a \in DOMAIN m2 \ DOMAIN m PROVE \E l \in 1 .. H : a = Address(i, l)
  <2>1. PICK d \in made : a = Address(i, H - d)
    BY <1>9, <1>11
  <2>2. H - d \in 1 .. H
    BY <1>0, <1>1, <1>6, <1>7
  <2> QED
    BY <2>1, <2>2
<1>20. ASSUME NEW l \in 1 .. H - 1, Address(i, l) \in DOMAIN m2 PROVE Address(i, l + 1) \in DOMAIN m2
  <2>1. l \in 1 .. H /\ l + 1 \in 1 .. H /\ H - (l + 1) <= H - l
    BY <1>0, <1>1
  <2>2. PICK k \in 1 .. H : k = l + 1
    BY <2>1
  <2> SUFFICES ASSUME Address(i, k) \notin DOMAIN m PROVE Address(i, k) \in DOMAIN m2
    BY <1>11, <2>2
  <2>3. H - k \in missing
    BY <1>6
  <2>4. CASE Address(i, l) \in DOMAIN m
    <3>0. l \in 1 .. MaxPath /\ k \in 1 .. MaxPath /\ l \in 1 .. h.height /\ l # h.height /\ k - 1 = l
      BY <1>0, <1>1, <2>2
    <3>1. Address(i, l) = <<l, i \div Power[l]>> /\ i \div Power[l] \in Nat
      BY ONLY <1>0, <3>0, AddressFacts, Zenon
    <3>2. Address(i, k) = <<k, i \div Power[k]>> /\ (i \div Power[k - 1]) \div MapSize = i \div Power[k]
      BY ONLY <1>0, <3>0, AddressFacts, Zenon
    <3>3. <<l + 1, (i \div Power[l]) \div MapSize>> \in DOMAIN m
      BY <2>4, <3>0, <3>1 DEF TreeShaped, Closed
    <3>4. Address(i, k) \in DOMAIN m
      BY <2>2, <3>0, <3>2, <3>3
    <3> QED
      BY <3>4
  <2>5. CASE Address(i, l) \notin DOMAIN m
    <3>1. H - l \in made
      BY <1>10, <1>11, <1>20, <2>1, <2>5
    <3>2. H - k <= H - l
      BY <2>1, <2>2
    <3>3. H - k \in made
      BY <1>7, <2>3, <3>1, <3>2
    <3> QED
      BY <1>10, <1>11, <3>3
  <2> QED
    BY <2>4, <2>5
<1>21. g2[i] # {} => Address(i, 1) \in DOMAIN m2
  <2>1. 1 \in 1 .. H /\ 1 \in 1 .. MaxPath
    BY <1>0, <1>1
  <2>2. CASE stored
    <3>1. Address(i, 1) \notin DOMAIN m => H - 1 \in made
      BY <1>6, <1>13, <2>1, <2>2
    <3> QED
      BY <1>10, <1>11, <2>1, <3>1
  <2>3. CASE ~ stored
    <3>1. Address(i, 1) = <<1, i \div MapSize>>
      BY ONLY <1>0, <2>1, AddressFacts, Zenon
    <3>2. g[i] # {} => <<1, i \div MapSize>> \in DOMAIN m
      BY DEF TreeShaped, Backed
    <3> QED
      BY <1>11, <1>13, <2>3, <3>1, <3>2
  <2> QED
    BY <2>2, <2>3
<1>22. Grafted(h, m, g, m2, g2, i)
  <2>1. g[i] # {} => g2[i] # {}
    BY <1>13
  <2> QED
    BY ONLY <1>1, <1>11, <1>13, <1>17, <1>18, <1>19, <1>20, <1>21, <2>1, Zenon DEF Grafted
<1>23. q[0] = PointerTo(m2, Address(i, h.height))
  <2>1. H \in 1 .. H /\ H - H = 0
    BY <1>0, <1>1
  <2> QED
    BY <1>1, <1>12, <2>1
<1> QED
  BY <1>22, <1>23

-----------------------------------------------------------------------------
(* The inductive invariant: the tree has the shape that the items stored   *)
(* in it ask for.                                                          *)
RadixInv == damage \in {"none", "index out of range", "delete"} /\ TreeShaped(head, nodes, held)

LEMMA RadixInvInit == RadixInit => RadixInv
<1> SUFFICES ASSUME RadixInit PROVE RadixInv
  OBVIOUS
<1>0. MaxPath \in Nat \ {0, 1}
  BY RadixTreeAssumption
<1>1. /\ head = [height |-> 0, rnode |-> {}] /\ nodes = [a \in {} |-> radix_tree_node_alloc]
      /\ held = [i \in Indexes |-> {}] /\ damage = "none"
  BY DEF RadixInit
<1>2. DOMAIN nodes = {} /\ nodes \in [{} -> NodeRecords] /\ \A i \in Indexes : held[i] = {}
  BY <1>1
<1>3. TreeTypes(head, nodes, held)
  BY <1>0, <1>1, <1>2 DEF TreeTypes
<1>4. Rooted(head, nodes) /\ Closed(head, nodes) /\ SlotsFilled(head, nodes, held)
      /\ Backed(head, nodes, held) /\ Counted(nodes)
  BY <1>1, <1>2 DEF Rooted, Closed, SlotsFilled, Backed, Counted, PointerTo
<1> QED
  BY <1>1, <1>3, <1>4 DEF RadixInv, TreeShaped

(* An insertion of whatever index, wherever memory runs out.               *)
LEMMA InsertShaped ==
    ASSUME RadixInv, NEW index \in Nat, NEW item \in Items, NEW allocs \in Nat,
           radix_tree_insert(index, item, allocs)
    PROVE  RadixInv'
<1>0. MaxPath \in Nat \ {0, 1} /\ head.height \in 0 .. MaxPath - 1 /\ TreeShaped(head, nodes, held)
  BY RadixTreeAssumption DEF RadixInv, TreeShaped, TreeTypes
<1>1. CASE NeedsExtend(head, index) /\ Fits(head, index) = {}
  <2>1. damage' = "index out of range" /\ UNCHANGED <<head, nodes, held>>
    BY <1>1 DEF radix_tree_insert
  <2> QED
    BY <2>1 DEF RadixInv
<1>2. CASE ~ (NeedsExtend(head, index) /\ Fits(head, index) = {})
  <2>1. PICK e : e = IF NeedsExtend(head, index) THEN radix_tree_extend(head, nodes, index, allocs)
                     ELSE [head |-> head, nodes |-> nodes, allocs |-> allocs]
    OBVIOUS
  <2>2. PICK h, m, g : h = e.head /\ m = e.nodes /\ g = held
    OBVIOUS
  <2>3. TreeShaped(h, m, g) /\ h.height >= 1 /\ e.allocs \in Int
    <3>1. CASE NeedsExtend(head, index)
      <4>1. PICK h0, m0 : h0 = head /\ m0 = nodes
        OBVIOUS
      <4>2. e = radix_tree_extend(h0, m0, index, allocs) /\ Fits(h0, index) # {} /\ TreeShaped(h0, m0, g)
        BY <1>0, <1>2, <2>1, <2>2, <3>1, <4>1
      <4>3. TreeShaped(e.head, e.nodes, g) /\ e.head.height >= 1 /\ e.allocs \in Int
        BY <4>2, ExtendShaped
      <4> QED
        BY <2>2, <4>3
    <3>2. CASE ~ NeedsExtend(head, index)
      <4>1. e.head = head /\ e.nodes = nodes /\ e.allocs = allocs
        BY <2>1, <3>2
      <4>2. head.height # 0
        <5>1. MaxIndex(0) = 0
          BY PowerFacts DEF MaxIndex
        <5> QED
          BY <3>2, <5>1 DEF NeedsExtend
      <4> QED
        BY <1>0, <2>2, <4>1, <4>2
    <3> QED
      BY <3>1, <3>2
  <2>4. PICK p : p = Path(h, m, index)
    OBVIOUS
  <2>5. PICK made : made = Made(Missing(h, p), e.allocs)
    OBVIOUS
  <2>6. PICK stored : stored = (made = Missing(h, p) /\ ~ Occupied(p[h.height]))
    OBVIOUS
  <2>7. PICK q : q = NewPath(h, p, made, stored, index, item)
    OBVIOUS
  <2>8. /\ head' = IF index <= MaxIndex(h.height) THEN [h EXCEPT !.rnode = q[0]] ELSE h
        /\ nodes' = IF index <= MaxIndex(h.height) THEN InsertBelow(h, m, p, q, made, index) ELSE m
        /\ held' = IF index <= MaxIndex(h.height) /\ stored THEN [g EXCEPT ![index] = {item}] ELSE g
        /\ damage' = damage
    BY ONLY radix_tree_insert(index, item, allocs), <1>2, <2>1, <2>2, <2>4, <2>5, <2>6, <2>7, Zenon
       DEF radix_tree_insert
  <2>9. CASE index <= MaxIndex(h.height)
    <3>1. h.height \in 0 .. MaxPath - 1 /\ h = [height |-> h.height, rnode |-> h.rnode]
      BY <2>3 DEF TreeShaped, TreeTypes
    <3>2. index \in Indexes
      <4>1. MaxPath - 1 \in 0 .. MaxPath /\ h.height \in 0 .. MaxPath
        BY <1>0, <3>1
      <4>2. Power[h.height] <= Power[MaxPath - 1] /\ Power[h.height] \in Nat /\ Power[MaxPath - 1] \in Nat
        BY <3>1, <4>1, PowerGrows, PowerFacts
      <4> QED
        BY <2>9, <4>2 DEF Indexes, MaxIndex
    <3>3. PICK m2, g2 : /\ m2 = InsertBelow(h, m, p, q, made, index)
                        /\ g2 = IF stored THEN [g EXCEPT ![index] = {item}] ELSE g
      OBVIOUS
    <3>4. Grafted(h, m, g, m2, g2, index) /\ q[0] = PointerTo(m2, Address(index, h.height))
      <4>1. PICK n \in Int : n = e.allocs
        BY <2>3
      <4>2. IsInsertion(h, m, g, index, item, n, p, made, stored, q, m2, g2)
        BY ONLY <2>4, <2>5, <2>6, <2>7, <3>3, <4>1, Zenon DEF IsInsertion
      <4>3. TreeShaped(h, m, g) /\ h.height >= 1 /\ n \in Int /\ item \in Items
        BY <2>3
      <4> QED
        BY ONLY <2>9, <3>2, <4>2, <4>3, InsertGrafts
    <3>5. PICK h2 : h2 = [height |-> h.height, rnode |-> PointerTo(m2, Address(index, h.height))]
      OBVIOUS
    <3>6. TreeShaped(h2, m2, g2)
      BY ONLY <2>3, <2>9, <3>2, <3>4, <3>5, GraftShaped, Zenon
    <3>7. head' = h2
      BY <2>8, <2>9, <3>1, <3>4, <3>5
    <3>8. nodes' = m2 /\ held' = g2
      BY ONLY <2>8, <2>9, <3>3, Zenon
    <3> QED
      BY <2>8, <3>6, <3>7, <3>8 DEF RadixInv
  <2>10. CASE ~ (index <= MaxIndex(h.height))
    <3>1. head' = h /\ nodes' = m /\ held' = g /\ damage' = damage
      BY ONLY <2>8, <2>10, Zenon
    <3> QED
      BY <2>3, <3>1 DEF RadixInv
  <2> QED
    BY <2>9, <2>10
<1> QED
  BY <1>1, <1>2

LEMMA RadixInvNext == RadixInv /\ [RadixNext]_radixVars => RadixInv'
<1> SUFFICES ASSUME RadixInv, [RadixNext]_radixVars PROVE RadixInv'
  OBVIOUS
<1>0. MaxPath \in Nat \ {0, 1} /\ MaxIndex(MaxPath - 1) \in Nat /\ MaxAllocs \in Int
  BY RadixTreeAssumption, IndexFacts DEF MaxAllocs
<1>1. CASE UNCHANGED radixVars
  BY <1>1 DEF radixVars, RadixInv
<1>2. ASSUME NEW index \in Indexes \union {MaxIndex(MaxPath - 1) + 1}, NEW item \in Items,
             NEW allocs \in 0 .. MaxAllocs, radix_tree_insert(index, item, allocs)
      PROVE  RadixInv'
  <2>1. index \in Nat /\ allocs \in Nat
    BY <1>0, IndexFacts
  <2> QED
    BY <1>2, <2>1, InsertShaped
<1>3. ASSUME NEW index \in Indexes, radix_tree_delete(index) PROVE RadixInv'
  BY <1>3 DEF radix_tree_delete, RadixInv
<1> QED
  BY <1>1, <1>2, <1>3 DEF RadixNext

LEMMA RadixInvArray == RadixInv => RadixArray
<1> SUFFICES ASSUME RadixInv PROVE RadixArray
  OBVIOUS
<1>1. PICK h, m, g : h = head /\ m = nodes /\ g = held
  OBVIOUS
<1>2. TreeShaped(h, m, g) /\ h.height \in 0 .. MaxPath - 1 /\ MaxPath \in Nat
  BY <1>1, RadixTreeAssumption DEF RadixInv, TreeShaped, TreeTypes
<1>3. ASSUME NEW i \in Indexes PROVE radix_tree_lookup(h, m, i) = g[i]
  <2>0. i \in Nat /\ MaxIndex(h.height) \in Nat
    BY <1>2, IndexFacts
  <2>1. CASE i > MaxIndex(h.height)
    <3>1. ~ (i <= MaxIndex(h.height))
      BY <2>0, <2>1
    <3>2. g[i] = {}
      BY <1>2, <3>1 DEF TreeShaped, Backed
    <3> QED
      BY <2>1, <3>2 DEF radix_tree_lookup
  <2>2. CASE i <= MaxIndex(h.height) /\ h.height >= 1
    <3>1. Path(h, m, i) = Expected(h, m, g, i)
      BY <1>2, <2>2, PathIs
    <3>2. h.height \in 0 .. h.height /\ ~ (h.height < h.height)
      BY <1>2
    <3>3. Expected(h, m, g, i)[h.height] = g[i]
      BY <3>2 DEF Expected
    <3>4. ~ (i > MaxIndex(h.height))
      BY <2>0, <2>2
    <3> QED
      BY <3>1, <3>3, <3>4 DEF radix_tree_lookup
  <2>3. CASE i <= MaxIndex(h.height) /\ h.height = 0
    <3>1. DOMAIN m = {}
      <4>1. DOMAIN m \subseteq (1 .. 0) \X Nat
        BY <1>2, <2>3 DEF TreeShaped, TreeTypes
      <4>2. 1 .. 0 = {}
        OBVIOUS
      <4>3. \A a \in (1 .. 0) \X Nat : a[1] \in 1 .. 0
        OBVIOUS
      <4> QED
        BY ONLY <4>1, <4>2, <4>3, Zenon
    <3>2. h.rnode = {} /\ g[i] = {}
      BY <1>2, <3>1 DEF TreeShaped, Rooted, PointerTo, Backed
    <3>3. Path(h, m, i)[0] = {}
      <4>1. PICK x : x = [d \in 0 .. 0 |-> {}]
        OBVIOUS
      <4>2. \A d \in 0 .. 0 : d = 0
        OBVIOUS
      <4>3. IsPath(x, h, m, i)
        BY ONLY <2>3, <3>2, <4>1, <4>2, Zenon DEF IsPath
      <4>4. PICK y : y = CHOOSE z : IsPath(z, h, m, i)
        OBVIOUS
      <4>5. IsPath(y, h, m, i)
        BY ONLY <4>3, <4>4, Zenon
      <4>6. 0 \in 0 .. h.height
        BY <2>3
      <4>7. y[0] = {}
        BY ONLY <3>2, <4>5, <4>6, Zenon DEF IsPath
      <4>8. Path(h, m, i) = [d \in 0 .. h.height |-> (CHOOSE z : IsPath(z, h, m, i))[d]]
        BY ONLY Zenon DEF Path, IsPath
      <4> QED
        BY ONLY <4>4, <4>6, <4>7, <4>8, Zenon
    <3>4. ~ (i > MaxIndex(h.height))
      BY <2>0, <2>3
    <3> QED
      BY <2>3, <3>2, <3>3, <3>4 DEF radix_tree_lookup
  <2> QED
    BY <1>2, <2>0, <2>1, <2>2, <2>3
<1>4. CountsRight
  BY <1>1, <1>2 DEF TreeShaped, Counted, InUse, CountsRight
<1> QED
  BY <1>1, <1>3, <1>4 DEF RadixArray, RadixInv

(* RadixIsArray: whatever the order of the insertions and wherever memory  *)
(* runs out in one of them, radix_tree_lookup finds at every index what    *)
(* radix_tree_insert stored there and nothing else, and every node counts  *)
(* its slots in use, until an index too large or radix_tree_delete damages *)
(* the tree.                                                               *)
THEOREM RadixIsArray == RadixSpec => []RadixArray
<1>1. RadixSpec => []RadixInv
  BY RadixInvInit, RadixInvNext, PTL DEF RadixSpec
<1> QED
  BY <1>1, RadixInvArray, PTL
=============================================================================
