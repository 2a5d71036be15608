----------------------- MODULE Representation_proofs -----------------------
(***************************************************************************)
(* Proofs about Representation: types, that the headers a client gets say  *)
(* exactly how its bytes are encoded, that caches are told when the choice *)
(* depended on Accept-Encoding, that the choice is the best there is, and  *)
(* that 406 is answered only where nothing is acceptable.                  *)
(***************************************************************************)
EXTENDS Representation, ChainLemmas

(***************************************************************************)
(* What the folds of Negotiation compute.                                  *)
(***************************************************************************)

\* The thousandths that the digits of a weight stand for.
LEMMA DigitSum ==
    ASSUME NEW d \in Seq(Int), Len(d) <= 3
    PROVE  Thousandths(d)
           = (IF Len(d) >= 1 THEN 100 * d[1] ELSE 0) + (IF Len(d) >= 2 THEN 10 * d[2] ELSE 0)
             + (IF Len(d) >= 3 THEN d[3] ELSE 0)
<1> DEFINE n == Len(d)
<1>0. n \in 0..3 /\ DOMAIN d = 1..n /\ \A i \in 1..n : d[i] \in Int
  <2>1. n \in Nat /\ n <= 3
    OBVIOUS
  <2>2. DOMAIN d = 1..n /\ \A i \in 1..n : d[i] \in Int
    OBVIOUS
  <2> QED
    BY <2>1, <2>2
<1> HIDE DEF n
<1> DEFINE D == DOMAIN d
           v == [i \in D |-> d[i] * <<100, 10, 1>>[i]]
           B(h) == [s \in SUBSET D |-> IF s = {} THEN 0
                                       ELSE LET x == CHOOSE x \in s : TRUE
                                            IN  d[x] * <<100, 10, 1>>[x] + h[s \ {x}]]
           F == CHOOSE h : h = B(h)
           pick == [s \in SUBSET D |-> CHOOSE x \in s : TRUE]
           g == [p \in D \X Int |-> v[p[1]] + p[2]]
           zero == 0
<1>1. Thousandths(d) = F[D]
  BY DEF Thousandths, MapThenSumSet, MapThenFoldSet
<1>2. /\ \A i \in D : v[i] \in Int
      /\ n >= 1 => v[1] = 100 * d[1]
      /\ n >= 2 => v[2] = 10 * d[2]
      /\ n >= 3 => v[3] = d[3]
  <2>1. /\ \A i \in D : i \in {1, 2, 3} /\ d[i] \in Int
        /\ (n >= 1 => 1 \in D) /\ (n >= 2 => 2 \in D) /\ (n >= 3 => 3 \in D)
    BY <1>0
  <2>2. /\ 1 \in D => v[1] = d[1] * 100
        /\ 2 \in D => v[2] = d[2] * 10
        /\ 3 \in D => v[3] = d[3] * 1
    OBVIOUS
  <2> HIDE DEF v, D
  <2> QED
    BY <2>1, <2>2
<1>3. IsFiniteSet(D)
  BY <1>0, FS_Interval
<1>4. Picks(pick, D) /\ \A s \in SUBSET D : s # {} => pick[s] \in s
  BY DEF Picks
<1>5. \A x \in D, a \in Int : g[<<x, a>>] = v[x] + a /\ g[<<x, a>>] \in Int
  BY <1>2
<1>6. PICK h \in [SUBSET D -> Int] : \A s \in SUBSET D :
         h[s] = IF s = {} THEN 0 ELSE g[<<pick[s], h[s \ {pick[s]}]>>]
  <2>1. zero \in Int /\ Closed(g, D, Int)
    BY <1>5 DEF Closed
  <2> HIDE DEF g, pick, D, zero
  <2>2. \E h \in [SUBSET D -> Int] : FoldsTo(h, zero, pick, g, D)
    BY <1>3, <1>4, <2>1, FoldExists
  <2> QED
    BY <2>2 DEF zero, FoldsTo
<1>7. \A s \in SUBSET D : s # {} =>
         /\ pick[s] \in D /\ s \ {pick[s]} \in SUBSET D
         /\ g[<<pick[s], h[s \ {pick[s]}]>>] = d[pick[s]] * <<100, 10, 1>>[pick[s]] + h[s \ {pick[s]}]
  <2> TAKE s \in SUBSET D
  <2> SUFFICES ASSUME s # {}
               PROVE  /\ pick[s] \in D /\ s \ {pick[s]} \in SUBSET D
                      /\ g[<<pick[s], h[s \ {pick[s]}]>>]
                         = d[pick[s]] * <<100, 10, 1>>[pick[s]] + h[s \ {pick[s]}]
    OBVIOUS
  <2>1. pick[s] \in D /\ s \ {pick[s]} \in SUBSET D
    BY <1>4
  <2>2. h[s \ {pick[s]}] \in Int
    BY <1>6, <2>1
  <2>3. v[pick[s]] = d[pick[s]] * <<100, 10, 1>>[pick[s]]
    BY <2>1
  <2> HIDE DEF v, g, pick, D
  <2> QED
    BY <1>5, <2>1, <2>2, <2>3
<1>8. h = B(h)
  <2>1. \A s \in SUBSET D : s # {} => pick[s] = CHOOSE x \in s : TRUE
    OBVIOUS
  <2> HIDE DEF v, g, pick, D
  <2>2. \A s \in SUBSET D : h[s] = IF s = {} THEN 0
                                    ELSE d[pick[s]] * <<100, 10, 1>>[pick[s]] + h[s \ {pick[s]}]
    BY <1>6, <1>7
  <2>3. \A s \in SUBSET D : h[s] = IF s = {} THEN 0
                                    ELSE LET x == CHOOSE x \in s : TRUE
                                         IN  d[x] * <<100, 10, 1>>[x] + h[s \ {x}]
    BY <2>1, <2>2
  <2> QED
    BY <1>6, <2>3
<1>9. F = B(F)
  <2>1. \E e : e = B(e)
    BY <1>8
  <2> HIDE DEF B
  <2> QED
    BY <2>1
<1> HIDE DEF F
<1>10. /\ \A s \in SUBSET D : s = {} => F[s] = 0
       /\ \A s \in SUBSET D : s # {} => \E x \in s, r \in SUBSET D : r = s \ {x} /\ F[s] = v[x] + F[r]
  <2>1. \A s \in SUBSET D : s = {} => F[s] = 0
    BY <1>9
  <2>2. \A s \in SUBSET D : s # {} => F[s] = v[pick[s]] + F[s \ {pick[s]}]
    BY <1>4, <1>9
  <2> HIDE DEF v, D, pick
  <2>3. ASSUME NEW s \in SUBSET D, s # {}
        PROVE  \E x \in s, r \in SUBSET D : r = s \ {x} /\ F[s] = v[x] + F[r]
    <3>1. pick[s] \in s /\ s \ {pick[s]} \in SUBSET D /\ F[s] = v[pick[s]] + F[s \ {pick[s]}]
      BY <1>4, <2>2, <2>3
    <3> QED
      BY <3>1, Zenon
  <2> QED
    BY <2>1, <2>3
<1> HIDE DEF v, g, pick, B
<1>11. ASSUME NEW s \in SUBSET D, NEW i \in D, s = {i} PROVE F[s] = v[i]
  <2>1. PICK x \in s, r \in SUBSET D : r = s \ {x} /\ F[s] = v[x] + F[r]
    BY <1>10, <1>11
  <2>2. x = i /\ r = {}
    BY <1>11, <2>1
  <2>3. F[r] = 0
    BY <1>10, <2>2
  <2> HIDE DEF D
  <2> QED
    BY <1>2, <2>1, <2>2, <2>3
<1>12. ASSUME NEW s \in SUBSET D, NEW i \in D, NEW j \in D, i # j, s = {i, j}
       PROVE  F[s] = v[i] + v[j]
  <2>1. PICK x \in s, r \in SUBSET D : r = s \ {x} /\ F[s] = v[x] + F[r]
    BY <1>10, <1>12
  <2>2. (x = i \/ x = j) /\ (x = i => r = {j}) /\ (x = j => r = {i})
    BY <1>12, <2>1
  <2>3. (x = i => F[r] = v[j]) /\ (x = j => F[r] = v[i])
    BY <1>11, <2>2
  <2> HIDE DEF D
  <2> QED
    BY <1>2, <2>1, <2>2, <2>3
<1>13. n = 3 => F[D] = v[1] + v[2] + v[3]
  <2> SUFFICES ASSUME n = 3 PROVE F[D] = v[1] + v[2] + v[3]
    OBVIOUS
  <2>1. D = {1, 2, 3}
    BY <1>0
  <2>2. PICK x \in D, r \in SUBSET D : r = D \ {x} /\ F[D] = v[x] + F[r]
    BY <1>10, <2>1
  <2>3. (x = 1 => r = {2, 3}) /\ (x = 2 => r = {1, 3}) /\ (x = 3 => r = {1, 2})
    BY <2>1, <2>2
  <2>4. /\ x = 1 => F[r] = v[2] + v[3]
        /\ x = 2 => F[r] = v[1] + v[3]
        /\ x = 3 => F[r] = v[1] + v[2]
    BY <1>12, <2>1, <2>3
  <2>5. x \in {1, 2, 3} /\ v[1] \in Int /\ v[2] \in Int /\ v[3] \in Int
    BY <1>2, <2>1
  <2> HIDE DEF D
  <2> QED
    BY <2>2, <2>4, <2>5
<1>14. n = 0 => D = {}
  BY <1>0
<1>15. n = 1 => D = {1}
  BY <1>0
<1>16. n = 2 => D = {1, 2}
  BY <1>0
<1> HIDE DEF D
<1>17. F[D] = (IF n >= 1 THEN v[1] ELSE 0) + (IF n >= 2 THEN v[2] ELSE 0)
               + (IF n >= 3 THEN v[3] ELSE 0)
  <2>1. CASE n = 0
    BY <1>10, <1>14, <2>1
  <2>2. CASE n = 1
    BY <1>2, <1>11, <1>15, <2>2
  <2>3. CASE n = 2
    <3>1. 1 \in D /\ 2 \in D /\ D = {1, 2}
      BY <1>16, <2>3
    <3>2. F[D] = v[1] + v[2]
      BY <1>12, <3>1
    <3> QED
      BY <1>2, <2>3, <3>1, <3>2
  <2>4. CASE n = 3
    BY <1>2, <1>13, <2>4
  <2> QED
    BY <1>0, <2>1, <2>2, <2>3, <2>4
<1> QED
  BY <1>1, <1>2, <1>17 DEF n

\* parse_quality of a weight (negotiation.rs): the number of thousandths it writes when it is
\* well formed, nothing otherwise.
LEMMA ParseQualityFacts ==
    ASSUME NEW w \in Weight
    PROVE  /\ ParseQuality(w) = IF WellFormedWeight(w) THEN WeightOf(w) ELSE None
           /\ WellFormedWeight(w) => WeightOf(w) \in QualityValue
<1> DEFINE d == w.fraction
           n == Len(d)
           a == IF n >= 1 THEN 100 * d[1] ELSE 0
           b == IF n >= 2 THEN 10 * d[2] ELSE 0
           c == IF n >= 3 THEN d[3] ELSE 0
<1>1. d \in Seq(0..10) /\ n \in Nat /\ DOMAIN d = 1..n /\ w.whole \in {"0", "1", "other"}
      /\ \A i \in 1..n : d[i] \in 0..10
  BY DEF Weight
<1>d. d = w.fraction
  OBVIOUS
<1>n. n = Len(d)
  OBVIOUS
<1> HIDE DEF d, n
<1>2. ASSUME n <= 3
      PROVE  WeightOf(w) = (IF w.whole = "1" THEN 1000 ELSE 0) + (a + b + c)
  <2>1. d \in Seq(Int) /\ Len(d) <= 3
    BY <1>1, <1>2, <1>n
  <2>2. Thousandths(d) = a + b + c
    BY <1>n, <2>1, DigitSum
  <2> QED
    BY <1>d, <2>2 DEF WeightOf
<1>3. WellFormedWeight(w) <=> /\ n <= 3 /\ \A i \in 1..n : d[i] \in 0..9
                              /\ w.whole = "0" \/ (w.whole = "1" /\ \A i \in 1..n : d[i] = 0)
  BY <1>1, <1>d, <1>n DEF WellFormedWeight, ToSet
<1>4. 100 * Digit(w, 1) = a /\ 10 * Digit(w, 2) = b /\ Digit(w, 3) = c
  BY <1>1, <1>d, <1>n DEF Digit
<1>5. (n > 3 \/ \E i \in 1..n : d[i] > 9) <=> ~(n <= 3 /\ \A i \in 1..n : d[i] \in 0..9)
  BY <1>1
<1>6. ParseQuality(w) = IF n > 3 \/ \E i \in 1..n : d[i] > 9 THEN None
                        ELSE IF w.whole = "0" THEN a + b + c
                        ELSE IF w.whole = "1" /\ \A i \in 1..n : d[i] = 0 THEN QualityMax
                        ELSE None
  BY <1>1, <1>d, <1>n, <1>4 DEF ParseQuality
<1>7. ASSUME \A i \in 1..n : d[i] \in 0..9 PROVE a + b + c \in 0..999
  <2>1. (n >= 1 => d[1] \in 0..9) /\ (n >= 2 => d[2] \in 0..9) /\ (n >= 3 => d[3] \in 0..9)
    BY <1>1, <1>7
  <2>2. a \in 0..900 /\ b \in 0..90 /\ c \in 0..9
    BY <2>1
  <2> HIDE DEF a, b, c
  <2> QED
    BY <2>2
<1>8. ASSUME \A i \in 1..n : d[i] = 0 PROVE a + b + c = 0
  BY <1>1, <1>8
<1> HIDE DEF a, b, c
<1>9. CASE WellFormedWeight(w) /\ w.whole = "0"
  BY <1>2, <1>3, <1>5, <1>6, <1>7, <1>9 DEF QualityValue, QualityMax
<1>10. CASE WellFormedWeight(w) /\ w.whole # "0"
  BY <1>2, <1>3, <1>5, <1>6, <1>8, <1>10 DEF QualityValue, QualityMax
<1>11. CASE ~WellFormedWeight(w)
  BY <1>1, <1>3, <1>5, <1>6, <1>11
<1> QED
  BY <1>9, <1>10, <1>11

\* The values of ItemQuality along the parameters of an item.
LEMMA ItemQualitySteps ==
    ASSUME NEW item, item \in ListItem
    PROVE  \E f \in [0..Len(item.params) -> QualityValue \cup {None}] :
              /\ f[0] = QualityMax /\ f[Len(item.params)] = ItemQuality(item)
              /\ \A i \in 1..Len(item.params) : f[i] = ParameterQuality(f[i - 1], item.params[i])
<1> DEFINE p == item.params
           n == Len(p)
           A == QualityValue \cup {None}
           B(h) == [s \in SUBSET DOMAIN p |->
                      IF s = {} THEN QualityMax ELSE ParameterQuality(h[s \ {Max(s)}], p[Max(s)])]
           F == CHOOSE h : h = B(h)
           g == [x \in (1..n) \X A |-> ParameterQuality(x[2], p[x[1]])]
<1>1. p \in Seq(Parameter) /\ n \in Nat /\ DOMAIN p = 1..n /\ \A i \in 1..n : p[i] \in Parameter
  BY DEF ListItem
<1>2. ItemQuality(item) = F[DOMAIN p]
  BY DEF ItemQuality, FoldLeft, MapThenFoldSet
<1>3. ASSUME NEW i \in 1..n, NEW a \in A
      PROVE  g[<<i, a>>] = ParameterQuality(a, p[i]) /\ g[<<i, a>>] \in A
  <2>1. g[<<i, a>>] = ParameterQuality(a, p[i])
    OBVIOUS
  <2>2. p[i].kind = "q" => ParseQuality(p[i].weight) \in A
    <3>1. p[i] \in Parameter
      BY <1>1
    <3>2. p[i].kind = "q" => p[i].weight \in Weight
      BY <3>1 DEF Parameter
    <3> QED
      BY <3>2, ParseQualityFacts
  <2>3. ParameterQuality(a, p[i]) \in A
    BY <2>2 DEF ParameterQuality
  <2> QED
    BY <2>1, <2>3
<1>4. QualityMax \in A /\ Closed(g, 1..n, A)
  <2>1. QualityMax \in A
    BY DEF QualityMax, QualityValue
  <2> HIDE DEF A, g, p, n
  <2> QED
    BY <1>3, <2>1 DEF Closed
<1> HIDE DEF A, g, p, n
<1>5. PICK h \in [SUBSET (1..n) -> A] : FoldsLeft(h, QualityMax, g, n, A)
  BY <1>1, <1>4, FoldLeftExists
<1>6. \E e : e = B(e)
  <2>1. \A s \in SUBSET (1..n) :
           h[s] = IF s = {} THEN QualityMax ELSE ParameterQuality(h[s \ {Max(s)}], p[Max(s)])
    BY <1>3, <1>5 DEF FoldsLeft
  <2>2. h = B(h)
    BY <1>1, <1>5, <2>1
  <2> QED
    BY <2>2
<1>7. F = B(F)
  <2> HIDE DEF B
  <2> QED
    BY <1>6
<1> HIDE DEF F
<1>8. Folding(F, QualityMax, g, n, A)
  <2>1. \A s \in SUBSET (1..n) : F[s] = IF s = {} THEN QualityMax
                                        ELSE ParameterQuality(F[s \ {Max(s)}], p[Max(s)])
    BY <1>1, <1>7
  <2>2. ASSUME NEW s \in SUBSET (1..n), s # {}, F[s \ {Max(s)}] \in A
        PROVE  F[s] = g[<<Max(s), F[s \ {Max(s)}]>>]
    <3>1. Max(s) \in 1..n
      BY <1>5, <2>2 DEF FoldsLeft
    <3> QED
      BY <1>3, <2>1, <2>2, <3>1
  <2> QED
    BY <2>1, <2>2 DEF Folding
<1>9. PICK f \in [0..n -> A] : /\ f[0] = QualityMax /\ f[n] = F[1..n]
                               /\ \A i \in 1..n : f[i] = g[<<i, f[i - 1]>>]
  BY <1>1, <1>4, <1>8, FoldSteps
<1>10. \A i \in 1..n : f[i] = ParameterQuality(f[i - 1], p[i])
  <2> TAKE i \in 1..n
  <2>1. f[i - 1] \in A
    BY <1>1
  <2> QED
    BY <1>3, <1>9, <2>1
<1> QED
  BY <1>1, <1>2, <1>9, <1>10 DEF A, p, n

\* The largest number of a set is unique.
LEMMA MaxIs ==
    ASSUME NEW S, S \subseteq Int, NEW k \in S, \A i \in S : i <= k
    PROVE  Max(S) = k
<1>1. \A x \in S : (\A y \in S : x >= y) <=> x = k
  <2> TAKE x \in S
  <2>1. x \in Int /\ k \in Int /\ x <= k
    OBVIOUS
  <2>2. (\A y \in S : x >= y) => x >= k
    OBVIOUS
  <2>3. \A y \in S : k >= y
    OBVIOUS
  <2> QED
    BY <2>1, <2>2, <2>3
<1>2. Max(S) = CHOOSE x \in S : x = k
  BY <1>1 DEF Max
<1> QED
  BY <1>2

\* The weight of an item: the last one, or 1 if there is none, unless a parameter cannot
\* be read.
LEMMA ItemQualityFacts ==
    ASSUME NEW item, item \in ListItem
    PROVE  /\ ItemQuality(item) = IF WellFormedItem(item) THEN LastWeight(item) ELSE None
           /\ ItemQuality(item) \in QualityValue \cup {None}
           /\ WellFormedItem(item) => LastWeight(item) \in QualityValue
<1> DEFINE p == item.params
           n == Len(p)
           A == QualityValue \cup {None}
           Readable1(i) == p[i].kind # "bare" /\ (p[i].kind = "q" => WellFormedWeight(p[i].weight))
           Q(m) == {i \in 1..m : p[i].kind = "q"}
<1>1. p \in Seq(Parameter) /\ n \in Nat /\ DOMAIN p = 1..n /\ \A i \in 1..n : p[i] \in Parameter
  BY DEF ListItem
<1>2. PICK f \in [0..n -> A] : /\ f[0] = QualityMax /\ f[n] = ItemQuality(item)
                               /\ \A i \in 1..n : f[i] = ParameterQuality(f[i - 1], p[i])
  BY ItemQualitySteps
<1>3. ASSUME NEW i \in 1..n, p[i].kind = "q"
      PROVE  ParseQuality(p[i].weight) = IF WellFormedWeight(p[i].weight)
                                         THEN WeightOf(p[i].weight) ELSE None
             /\ (WellFormedWeight(p[i].weight) => WeightOf(p[i].weight) \in QualityValue)
  <2>1. p[i] \in Parameter
    BY <1>1
  <2>2. p[i].weight \in Weight
    BY <1>3, <2>1 DEF Parameter
  <2> QED
    BY <2>2, ParseQualityFacts
<1>4. None \notin QualityValue /\ QualityMax \in QualityValue
  BY DEF None, QualityValue, QualityMax
<1> DEFINE Unread(m) == (\E i \in 1..m : ~Readable1(i)) /\ f[m] = None
           Plain(m) == (\A i \in 1..m : Readable1(i)) /\ Q(m) = {} /\ f[m] = QualityMax
           Weighed(m) == /\ \A i \in 1..m : Readable1(i)
                         /\ \E k \in Q(m) : (\A i \in Q(m) : i <= k) /\ f[m] = WeightOf(p[k].weight)
                         /\ f[m] \in QualityValue
           T == {m \in 0..n : Unread(m) \/ Plain(m) \/ Weighed(m)}
<1>5. 0 \in T
  BY <1>1, <1>2
<1>6. ASSUME NEW m \in 1..n, m - 1 \in T PROVE m \in T
  <2>1. /\ m \in 0..n /\ 1..m = 1..(m - 1) \cup {m} /\ m \notin 1..(m - 1) /\ m - 1 \in Nat /\ m \in Nat
    BY <1>1
  <2>2. f[m] = ParameterQuality(f[m - 1], p[m])
    BY <1>2
  <2>3. Unread(m - 1) \/ Plain(m - 1) \/ Weighed(m - 1)
    BY <1>6
  <2>4. Q(m) = Q(m - 1) \cup (IF p[m].kind = "q" THEN {m} ELSE {})
    BY <2>1
  <2>5. CASE Unread(m - 1)
    <3>1. f[m] = None
      BY <2>2, <2>5 DEF ParameterQuality
    <3>2. \E i \in 1..m : ~Readable1(i)
      BY <2>1, <2>5
    <3> QED
      BY <2>1, <3>1, <3>2
  <2>6. ASSUME Plain(m - 1) \/ Weighed(m - 1), ~Readable1(m) PROVE m \in T
    <3>1. f[m - 1] # None
      BY <1>4, <2>6
    <3>2. CASE p[m].kind = "bare"
      <4>1. f[m] = None
        BY <2>2, <3>2 DEF ParameterQuality
      <4> QED
        BY <2>1, <2>6, <4>1
    <3>3. CASE p[m].kind = "q" /\ ~WellFormedWeight(p[m].weight)
      <4>1. f[m] = None
        BY <1>3, <2>2, <3>1, <3>3 DEF ParameterQuality
      <4> QED
        BY <2>1, <2>6, <4>1
    <3> QED
      BY <2>6, <3>2, <3>3
  <2>7. ASSUME Plain(m - 1) \/ Weighed(m - 1), Readable1(m), p[m].kind = "q" PROVE m \in T
    <3>1. f[m] = WeightOf(p[m].weight) /\ f[m] \in QualityValue
      <4>1. f[m - 1] # None
        BY <1>4, <2>7
      <4>2. f[m] = ParseQuality(p[m].weight)
        BY <2>2, <2>7, <4>1 DEF ParameterQuality
      <4>3. WellFormedWeight(p[m].weight)
        BY <2>7
      <4>4. /\ ParseQuality(p[m].weight) = IF WellFormedWeight(p[m].weight)
                                           THEN WeightOf(p[m].weight) ELSE None
            /\ WellFormedWeight(p[m].weight) => WeightOf(p[m].weight) \in QualityValue
        BY <1>3, <2>7
      <4> QED
        BY <4>2, <4>3, <4>4
    <3>2. \A i \in 1..m : Readable1(i)
      BY <2>1, <2>7
    <3>3. m \in Q(m) /\ \A i \in Q(m) : i <= m
      BY <2>1, <2>7
    <3> HIDE DEF Q, Readable1
    <3> QED
      BY <2>1, <3>1, <3>2, <3>3
  <2>8. ASSUME Plain(m - 1) \/ Weighed(m - 1), Readable1(m), p[m].kind # "q" PROVE m \in T
    <3>1. f[m] = f[m - 1]
      BY <1>4, <2>2, <2>8 DEF ParameterQuality
    <3>2. \A i \in 1..m : Readable1(i)
      BY <2>1, <2>8
    <3>3. Q(m) = Q(m - 1)
      BY <2>4, <2>8
    <3> HIDE DEF Q, Readable1
    <3> QED
      BY <2>1, <2>8, <3>1, <3>2, <3>3
  <2> QED
    BY <2>3, <2>5, <2>6, <2>7, <2>8
<1>7. n \in T
  <2> HIDE DEF T, n
  <2> QED
    BY <1>1, <1>5, <1>6, UpTo
<1>8. Unread(n) \/ Plain(n) \/ Weighed(n)
  BY <1>7
<1>9. WellFormedItem(item) <=> \A i \in 1..n : Readable1(i)
  BY <1>1 DEF WellFormedItem
<1>10. LastWeight(item) = IF Q(n) = {} THEN 1000 ELSE WeightOf(p[Max(Q(n))].weight)
  BY <1>1 DEF LastWeight
<1>11. CASE Unread(n)
  BY <1>2, <1>9, <1>11
<1>12. CASE Plain(n)
  BY <1>2, <1>4, <1>9, <1>10, <1>12 DEF QualityMax
<1>13. CASE Weighed(n)
  <2>1. PICK k \in Q(n) : (\A i \in Q(n) : i <= k) /\ f[n] = WeightOf(p[k].weight)
    BY <1>13
  <2>2. Q(n) \subseteq Int
    OBVIOUS
  <2> HIDE DEF Q
  <2>3. Max(Q(n)) = k
    BY <2>1, <2>2, MaxIs
  <2>4. LastWeight(item) = f[n]
    BY <1>10, <2>1, <2>3
  <2> QED
    BY <1>2, <1>9, <1>13, <2>4
<1> QED
  BY <1>8, <1>11, <1>12, <1>13

\* What the parser has read so far.
Parsed == [quality : [Coding -> QualityValue \cup {None}], wildcard : QualityValue \cup {None},
           field_present : BOOLEAN]
Rated == Coding \cup {"*"}
Read(parsed, t) == IF t = "*" THEN parsed.wildcard ELSE parsed.quality[t]

\* An item says one thing about one token.
LEMMA ParseItemFacts ==
    ASSUME NEW parsed \in Parsed, NEW item, item \in ListItem
    PROVE  /\ ParseItem(parsed, item) \in Parsed
           /\ ParseItem(parsed, item).field_present = parsed.field_present
           /\ \A t \in Rated :
                 Read(ParseItem(parsed, item), t) =
                    IF item.token = t /\ WellFormedItem(item)
                    THEN Larger(Read(parsed, t), LastWeight(item)) ELSE Read(parsed, t)
<1> DEFINE q == ItemQuality(item)
<1>1. /\ q = IF WellFormedItem(item) THEN LastWeight(item) ELSE None
      /\ q \in QualityValue \cup {None}
      /\ WellFormedItem(item) => LastWeight(item) \in QualityValue
  BY ItemQualityFacts
<1>2. /\ parsed.quality \in [Coding -> QualityValue \cup {None}]
      /\ parsed.wildcard \in QualityValue \cup {None} /\ parsed.field_present \in BOOLEAN
  BY DEF Parsed
<1>3. \A a, b \in QualityValue \cup {None} : Larger(a, b) \in QualityValue \cup {None}
  BY DEF Larger
<1>4. "*" \notin Coding /\ None \notin QualityValue
  BY DEF Coding, None, QualityValue, QualityMax
<1>5. ParseItem(parsed, item) =
        IF q = None THEN parsed
        ELSE IF item.token = "*" THEN [parsed EXCEPT !.wildcard = Larger(parsed.wildcard, q)]
        ELSE IF item.token \in Coding
        THEN [parsed EXCEPT !.quality[item.token] = Larger(parsed.quality[item.token], q)]
        ELSE parsed
  BY DEF ParseItem
<1> HIDE DEF q
<1>6. CASE q = None \/ item.token \notin Rated
  <2>1. ParseItem(parsed, item) = parsed
    BY <1>5, <1>6 DEF Rated
  <2>2. ~(WellFormedItem(item) /\ item.token \in Rated)
    BY <1>1, <1>4, <1>6
  <2> QED
    BY <2>1, <2>2
<1>7. CASE q # None /\ item.token = "*"
  <2>1. WellFormedItem(item) /\ q = LastWeight(item)
    BY <1>1, <1>7
  <2>2. ParseItem(parsed, item) = [parsed EXCEPT !.wildcard = Larger(parsed.wildcard, q)]
    BY <1>5, <1>7
  <2> DEFINE e == [parsed EXCEPT !.wildcard = Larger(parsed.wildcard, q)]
  <2>3. /\ e \in Parsed /\ e.field_present = parsed.field_present
        /\ e.wildcard = Larger(parsed.wildcard, q) /\ e.quality = parsed.quality
    BY <1>1, <1>2, <1>3 DEF Parsed
  <2> HIDE DEF e
  <2> QED
    BY <1>7, <2>1, <2>2, <2>3 DEF Read, Rated, e
<1>8. CASE q # None /\ item.token \in Coding
  <2>1. WellFormedItem(item) /\ q = LastWeight(item)
    BY <1>1, <1>8
  <2> DEFINE e == [parsed EXCEPT !.quality[item.token] = Larger(parsed.quality[item.token], q)]
  <2>2. ParseItem(parsed, item) = e
    BY <1>4, <1>5, <1>8
  <2>3. Larger(parsed.quality[item.token], q) \in QualityValue \cup {None}
    BY <1>1, <1>2, <1>3, <1>8
  <2>4. /\ e \in Parsed /\ e.field_present = parsed.field_present /\ e.wildcard = parsed.wildcard
        /\ \A t \in Coding : e.quality[t] = IF item.token = t THEN Larger(parsed.quality[t], q)
                                            ELSE parsed.quality[t]
    BY <1>2, <1>8, <2>3 DEF Parsed
  <2> HIDE DEF e
  <2> QED
    BY <1>4, <1>8, <2>1, <2>2, <2>4 DEF Read, Rated
<1> QED
  BY <1>6, <1>7, <1>8 DEF Rated

\* The values of Parse along the items of a field.
LEMMA ParseSteps ==
    ASSUME NEW items, items \in Seq(ListItem)
    PROVE  \E f \in [0..Len(items) -> Parsed] :
              /\ f[0] = [Absent EXCEPT !.field_present = TRUE] /\ f[Len(items)] = Parse(items)
              /\ \A i \in 1..Len(items) : f[i] = ParseItem(f[i - 1], items[i])
<1> DEFINE n == Len(items)
           base == [Absent EXCEPT !.field_present = TRUE]
           B(h) == [s \in SUBSET DOMAIN items |->
                      IF s = {} THEN base ELSE ParseItem(h[s \ {Max(s)}], items[Max(s)])]
           F == CHOOSE h : h = B(h)
           g == [x \in (1..n) \X Parsed |-> ParseItem(x[2], items[x[1]])]
<1>1. n \in Nat /\ DOMAIN items = 1..n /\ \A i \in 1..n : items[i] \in ListItem
  OBVIOUS
<1>2. Parse(items) = F[DOMAIN items]
  BY DEF Parse, FoldLeft, MapThenFoldSet
<1>3. ASSUME NEW i \in 1..n, NEW a \in Parsed
      PROVE  g[<<i, a>>] = ParseItem(a, items[i]) /\ g[<<i, a>>] \in Parsed
  <2>1. g[<<i, a>>] = ParseItem(a, items[i])
    OBVIOUS
  <2>2. items[i] \in ListItem
    BY <1>1
  <2> QED
    BY <2>1, <2>2, ParseItemFacts
<1>4. base \in Parsed /\ Closed(g, 1..n, Parsed)
  <2>1. base \in Parsed
    BY DEF Absent, Parsed
  <2> HIDE DEF g, n
  <2> QED
    BY <1>3, <2>1 DEF Closed
<1> HIDE DEF g, n, base
<1>5. PICK h \in [SUBSET (1..n) -> Parsed] : FoldsLeft(h, base, g, n, Parsed)
  BY <1>1, <1>4, FoldLeftExists
<1>6. \E e : e = B(e)
  <2>1. \A s \in SUBSET (1..n) :
           h[s] = IF s = {} THEN base ELSE ParseItem(h[s \ {Max(s)}], items[Max(s)])
    BY <1>3, <1>5 DEF FoldsLeft
  <2>2. h = B(h)
    BY <1>1, <1>5, <2>1
  <2> QED
    BY <2>2
<1>7. F = B(F)
  <2> HIDE DEF B
  <2> QED
    BY <1>6
<1> HIDE DEF F
<1>8. Folding(F, base, g, n, Parsed)
  <2>1. \A s \in SUBSET (1..n) : F[s] = IF s = {} THEN base
                                        ELSE ParseItem(F[s \ {Max(s)}], items[Max(s)])
    BY <1>1, <1>7
  <2>2. ASSUME NEW s \in SUBSET (1..n), s # {}, F[s \ {Max(s)}] \in Parsed
        PROVE  F[s] = g[<<Max(s), F[s \ {Max(s)}]>>]
    <3>1. Max(s) \in 1..n
      BY <1>5, <2>2 DEF FoldsLeft
    <3> QED
      BY <1>3, <2>1, <2>2, <3>1
  <2> QED
    BY <2>1, <2>2 DEF Folding
<1>9. PICK f \in [0..n -> Parsed] : /\ f[0] = base /\ f[n] = F[1..n]
                                    /\ \A i \in 1..n : f[i] = g[<<i, f[i - 1]>>]
  BY <1>1, <1>4, <1>8, FoldSteps
<1>10. \A i \in 1..n : f[i] = ParseItem(f[i - 1], items[i])
  <2> TAKE i \in 1..n
  <2>1. f[i - 1] \in Parsed
    BY <1>1
  <2> QED
    BY <1>3, <1>9, <2>1
<1> QED
  BY <1>1, <1>2, <1>9, <1>10 DEF n, base

\* Parsing keeps, for each token, the largest weight of the items that name it and can
\* be read.
LEMMA ParseFacts ==
    ASSUME NEW items, items \in Seq(ListItem), NEW t \in Rated
    PROVE  LET named == {i \in DOMAIN items : items[i].token = t /\ WellFormedItem(items[i])}
           IN  /\ Parse(items) \in Parsed /\ Parse(items).field_present
               /\ named = {} => Read(Parse(items), t) = None
               /\ named # {} => \E k \in named :
                     /\ Read(Parse(items), t) = LastWeight(items[k])
                     /\ \A i \in named : LastWeight(items[i]) <= LastWeight(items[k])
<1> DEFINE n == Len(items)
           Names(i) == items[i].token = t /\ WellFormedItem(items[i])
           w(i) == LastWeight(items[i])
<1>1. n \in Nat /\ DOMAIN items = 1..n /\ \A i \in 1..n : items[i] \in ListItem
  OBVIOUS
<1>2. PICK f \in [0..n -> Parsed] :
         /\ f[0] = [Absent EXCEPT !.field_present = TRUE] /\ f[n] = Parse(items)
         /\ \A i \in 1..n : f[i] = ParseItem(f[i - 1], items[i])
  BY ParseSteps
<1> DEFINE Unnamed(m) == (\A i \in 1..m : ~Names(i)) /\ Read(f[m], t) = None
           Best(m) == \E k \in 1..m : /\ Names(k) /\ Read(f[m], t) = w(k)
                                      /\ \A i \in 1..m : Names(i) => w(i) <= w(k)
           T == {m \in 0..n : f[m].field_present /\ (Unnamed(m) \/ Best(m))}
<1>3. 0 \in T
  <2>1. Read(f[0], t) = None /\ f[0].field_present
    BY <1>2 DEF Read, Rated, Absent
  <2> QED
    BY <1>1, <2>1
<1>4. ASSUME NEW i \in 1..n, Names(i) PROVE w(i) \in QualityValue
  <2>1. items[i] \in ListItem
    BY <1>1
  <2> QED
    BY <1>4, <2>1, ItemQualityFacts
<1>q. None = -1 /\ \A x \in QualityValue : x \in Int /\ x >= 0
  BY DEF None, QualityValue, QualityMax
<1>5. ASSUME NEW m \in 1..n, m - 1 \in T PROVE m \in T
  <2>1. /\ m \in 0..n /\ 1..m = 1..(m - 1) \cup {m} /\ m \notin 1..(m - 1) /\ m \in 1..m
        /\ 1..m \subseteq 1..n /\ m - 1 \in 0..n
    BY <1>1
  <2>2. f[m] = ParseItem(f[m - 1], items[m]) /\ f[m - 1] \in Parsed /\ items[m] \in ListItem
    BY <1>1, <1>2, <2>1
  <2>3. /\ f[m].field_present
        /\ Read(f[m], t) = IF Names(m) THEN Larger(Read(f[m - 1], t), w(m)) ELSE Read(f[m - 1], t)
    <3>1. f[m - 1].field_present
      BY <1>5
    <3> QED
      BY <2>2, <3>1, ParseItemFacts
  <2>4. Unnamed(m - 1) \/ Best(m - 1)
    BY <1>5
  <2>5. CASE ~Names(m)
    <3>1. Read(f[m], t) = Read(f[m - 1], t)
      BY <2>3, <2>5
    <3> HIDE DEF Names, w
    <3> QED
      BY <2>1, <2>3, <2>4, <2>5, <3>1
  <2>6. CASE Names(m) /\ Unnamed(m - 1)
    <3>1. w(m) \in QualityValue
      BY <1>4, <2>6
    <3>2. Read(f[m], t) = w(m)
      <4>1. Read(f[m - 1], t) = -1 /\ w(m) \in Int /\ w(m) >= 0
        BY <1>q, <2>6, <3>1
      <4>2. Read(f[m], t) = Larger(-1, w(m))
        BY <2>3, <2>6, <4>1
      <4> HIDE DEF w
      <4> QED
        BY <4>1, <4>2 DEF Larger
    <3> HIDE DEF Names, w
    <3>3. w(m) <= w(m)
      BY <1>q, <3>1
    <3> QED
      BY <2>1, <2>3, <2>6, <3>2, <3>3
  <2>7. CASE Names(m) /\ Best(m - 1)
    <3>1. PICK k \in 1..(m - 1) : /\ Names(k) /\ Read(f[m - 1], t) = w(k)
                                  /\ \A i \in 1..(m - 1) : Names(i) => w(i) <= w(k)
      BY <2>7
    <3>2. /\ w(k) \in QualityValue /\ w(m) \in QualityValue /\ k \in 1..m
          /\ \A i \in 1..m : Names(i) => w(i) \in QualityValue
      BY <1>4, <2>1, <2>7, <3>1
    <3>3. Read(f[m], t) = IF w(k) >= w(m) THEN w(k) ELSE w(m)
      BY <2>3, <2>7, <3>1 DEF Larger
    <3> HIDE DEF Names, w
    <3>4. CASE w(k) >= w(m)
      <4>1. \A i \in 1..m : Names(i) => w(i) <= w(k)
        <5>1. \A i \in 1..m : i = m \/ i \in 1..(m - 1)
          BY <2>1
        <5> QED
          BY <3>1, <3>4, <5>1
      <4>2. Read(f[m], t) = w(k)
        BY <3>3, <3>4
      <4> QED
        BY <2>1, <2>3, <3>1, <3>2, <4>1, <4>2
    <3>5. CASE ~(w(k) >= w(m))
      <4>1. \A i \in 1..m : Names(i) => w(i) <= w(m)
        <5>1. \A i \in 1..m : i = m \/ i \in 1..(m - 1)
          BY <2>1
        <5>2. w(m) \in Int /\ w(k) \in Int /\ \A i \in 1..m : Names(i) => w(i) \in Int
          BY <1>q, <3>2
        <5> QED
          BY <3>1, <3>5, <5>1, <5>2
      <4>2. Read(f[m], t) = w(m)
        BY <3>3, <3>5
      <4> QED
        BY <2>1, <2>3, <2>7, <4>1, <4>2
    <3> QED
      BY <3>4, <3>5
  <2> QED
    BY <2>4, <2>5, <2>6, <2>7
<1>6. n \in T
  <2> HIDE DEF T, n
  <2> QED
    BY <1>1, <1>3, <1>5, UpTo
<1>7. f[n].field_present /\ (Unnamed(n) \/ Best(n)) /\ f[n] \in Parsed
  BY <1>1, <1>6
<1> DEFINE named == {i \in DOMAIN items : items[i].token = t /\ WellFormedItem(items[i])}
<1>8. \A i : i \in named <=> i \in 1..n /\ Names(i)
  BY <1>1
<1> HIDE DEF named
<1>9. /\ named = {} => Read(f[n], t) = None
      /\ named # {} => \E k \in named : /\ Read(f[n], t) = w(k)
                                        /\ \A i \in named : w(i) <= w(k)
  <2> HIDE DEF w, Names
  <2> QED
    BY <1>7, <1>8
<1> QED
  BY <1>2, <1>7, <1>9 DEF named

\* Quality is the weight a client gives a coding.
LEMMA QualityIsWeight ==
    ASSUME header \in Headers, NEW c \in Coding
    PROVE  Quality(accept, c) = ClientWeight(c) /\ ClientWeight(c) \in QualityValue
<1>1. header \in Seq(ListItem) /\ c \in Rated /\ c # "*" /\ "*" \in Rated
  BY NegotiationAssumption DEF Rated, Coding
<1> DEFINE named(t) == {i \in DOMAIN header : header[i].token = t /\ WellFormedItem(header[i])}
<1>2. ASSUME NEW t \in Rated
      PROVE  /\ WeightsFor(t) # {} => Max(WeightsFor(t)) \in QualityValue
             /\ header # <<>> =>
                  Read(accept, t) = IF WeightsFor(t) = {} THEN None ELSE Max(WeightsFor(t))
             /\ header = <<>> => WeightsFor(t) = {}
  <2>1. WeightsFor(t) = {LastWeight(header[i]) : i \in named(t)}
    BY DEF WeightsFor
  <2>2. header # <<>> => accept = Parse(header)
    BY DEF accept, AcceptEncoding
  <2>3. \A i \in named(t) : LastWeight(header[i]) \in QualityValue
    <3> TAKE i \in named(t)
    <3>1. header[i] \in ListItem /\ WellFormedItem(header[i])
      BY <1>1
    <3> QED
      BY <3>1, ItemQualityFacts
  <2>4. /\ named(t) = {} => Read(Parse(header), t) = None
        /\ named(t) # {} => \E k \in named(t) :
              /\ Read(Parse(header), t) = LastWeight(header[k])
              /\ \A i \in named(t) : LastWeight(header[i]) <= LastWeight(header[k])
    BY <1>1, ParseFacts
  <2>5. header = <<>> => named(t) = {}
    BY <1>1
  <2> HIDE DEF named
  <2>6. CASE named(t) = {}
    BY <2>1, <2>2, <2>4, <2>6
  <2>7. CASE named(t) # {}
    <3>1. PICK k \in named(t) : /\ Read(Parse(header), t) = LastWeight(header[k])
                                /\ \A i \in named(t) : LastWeight(header[i]) <= LastWeight(header[k])
      BY <2>4, <2>7
    <3>2. LastWeight(header[k]) \in WeightsFor(t)
      BY <2>1
    <3>3. WeightsFor(t) \subseteq Int
      BY <2>1, <2>3 DEF QualityValue, QualityMax
    <3>4. \A w \in WeightsFor(t) : w <= LastWeight(header[k])
      BY <2>1, <3>1
    <3>5. Max(WeightsFor(t)) = LastWeight(header[k])
      BY <3>2, <3>3, <3>4, MaxIs
    <3> QED
      BY <2>2, <2>3, <2>5, <2>7, <3>1, <3>2, <3>5
  <2> QED
    BY <2>6, <2>7
<1> HIDE DEF named
<1>3. None = -1 /\ QualityMax = 1000 /\ \A x \in QualityValue : x \in Int /\ x >= 0
  BY DEF None, QualityValue, QualityMax
<1>4. 0 \in QualityValue /\ 1000 \in QualityValue
  BY DEF QualityValue, QualityMax
<1>5. CASE header = <<>>
  <2>1. WeightsFor(c) = {} /\ WeightsFor("*") = {}
    BY <1>1, <1>2, <1>5
  <2>2. ClientWeight(c) = IF c = "identity" THEN 1000 ELSE 0
    BY <2>1 DEF ClientWeight
  <2>3. accept.quality[c] = None /\ accept.wildcard = None /\ ~accept.field_present
    BY <1>5 DEF accept, AcceptEncoding, Absent
  <2>4. Quality(accept, c) = IF c = "identity" THEN 1000 ELSE 0
    BY <1>3, <2>3 DEF Quality
  <2> QED
    BY <1>4, <2>2, <2>4
<1>6. CASE header # <<>>
  <2>1. /\ accept.quality[c] = IF WeightsFor(c) = {} THEN None ELSE Max(WeightsFor(c))
        /\ accept.wildcard = IF WeightsFor("*") = {} THEN None ELSE Max(WeightsFor("*"))
    BY <1>1, <1>2, <1>6 DEF Read
  <2>2. accept.field_present
    BY <1>1, <1>6, ParseFacts DEF accept, AcceptEncoding
  <2>3. /\ WeightsFor(c) # {} => Max(WeightsFor(c)) \in QualityValue
        /\ WeightsFor("*") # {} => Max(WeightsFor("*")) \in QualityValue
    BY <1>1, <1>2
  <2>4. None \notin QualityValue
    BY <1>3
  <2>5. CASE WeightsFor(c) # {}
    BY <2>1, <2>3, <2>4, <2>5 DEF Quality, ClientWeight
  <2>6. CASE WeightsFor(c) = {} /\ c = "identity"
    BY <1>3, <1>4, <2>1, <2>3, <2>6 DEF Quality, ClientWeight
  <2>7. CASE WeightsFor(c) = {} /\ c # "identity"
    BY <1>3, <1>4, <2>1, <2>2, <2>3, <2>4, <2>7 DEF Quality, ClientWeight
  <2> QED
    BY <2>5, <2>6, <2>7
<1> QED
  BY <1>5, <1>6

\* The values of Only along a list of codings.
OnlyAlong(f, s, codings) ==
    /\ f \in [0..Len(s) -> Seq(Coding)]
    /\ f[0] = <<>> /\ f[Len(s)] = Only(s, codings)
    /\ \A i \in 1..Len(s) : f[i] = IF s[i] \in codings THEN Append(f[i - 1], s[i]) ELSE f[i - 1]

\* There are such lists.
LEMMA OnlySteps ==
    ASSUME NEW s, s \in Seq(Coding), NEW codings
    PROVE  \E f : OnlyAlong(f, s, codings)
<1> DEFINE n == Len(s)
           A == Seq(Coding)
           B(h) == [u \in SUBSET DOMAIN s |->
                      IF u = {} THEN <<>>
                      ELSE IF s[Max(u)] \in codings THEN Append(h[u \ {Max(u)}], s[Max(u)])
                                                    ELSE h[u \ {Max(u)}]]
           F == CHOOSE h : h = B(h)
           g == [x \in (1..n) \X A |-> IF s[x[1]] \in codings THEN Append(x[2], s[x[1]]) ELSE x[2]]
           base == <<>>
<1>1. n \in Nat /\ DOMAIN s = 1..n /\ \A i \in 1..n : s[i] \in Coding
  OBVIOUS
<1>2. Only(s, codings) = F[DOMAIN s]
  BY DEF Only, FoldLeft, MapThenFoldSet
<1>3. ASSUME NEW i \in 1..n, NEW a \in A
      PROVE  /\ g[<<i, a>>] = IF s[i] \in codings THEN Append(a, s[i]) ELSE a
             /\ g[<<i, a>>] \in A
  <2>1. g[<<i, a>>] = IF s[i] \in codings THEN Append(a, s[i]) ELSE a
    OBVIOUS
  <2> HIDE DEF g
  <2> QED
    BY <1>1, <2>1
<1>4. base \in A /\ Closed(g, 1..n, A)
  <2>1. base \in A
    OBVIOUS
  <2> HIDE DEF g, n, A
  <2> QED
    BY <1>3, <2>1 DEF Closed
<1>b. base = <<>>
  OBVIOUS
<1> HIDE DEF g, n, A, base
<1>5. PICK h \in [SUBSET (1..n) -> A] : FoldsLeft(h, base, g, n, A)
  BY <1>1, <1>4, FoldLeftExists
<1>6. \E e : e = B(e)
  <2>1. \A u \in SUBSET (1..n) :
           h[u] = IF u = {} THEN <<>>
                  ELSE IF s[Max(u)] \in codings THEN Append(h[u \ {Max(u)}], s[Max(u)])
                                                ELSE h[u \ {Max(u)}]
    BY <1>b, <1>3, <1>5 DEF FoldsLeft
  <2>2. h = B(h)
    BY <1>1, <1>5, <2>1
  <2> QED
    BY <2>2
<1>7. F = B(F)
  <2> HIDE DEF B
  <2> QED
    BY <1>6
<1> HIDE DEF F
<1>8. Folding(F, base, g, n, A)
  <2>1. \A u \in SUBSET (1..n) :
           F[u] = IF u = {} THEN <<>>
                  ELSE IF s[Max(u)] \in codings THEN Append(F[u \ {Max(u)}], s[Max(u)])
                                                ELSE F[u \ {Max(u)}]
    BY <1>1, <1>7
  <2>2. ASSUME NEW u \in SUBSET (1..n), u # {}, F[u \ {Max(u)}] \in A
        PROVE  F[u] = g[<<Max(u), F[u \ {Max(u)}]>>]
    <3>1. Max(u) \in 1..n
      BY <1>5, <2>2 DEF FoldsLeft
    <3> QED
      BY <1>3, <2>1, <2>2, <3>1
  <2> QED
    BY <1>b, <2>1, <2>2 DEF Folding
<1>9. PICK f \in [0..n -> A] : /\ f[0] = base /\ f[n] = F[1..n]
                               /\ \A i \in 1..n : f[i] = g[<<i, f[i - 1]>>]
  BY <1>1, <1>4, <1>8, FoldSteps
<1>10. \A i \in 1..n : f[i] = IF s[i] \in codings THEN Append(f[i - 1], s[i]) ELSE f[i - 1]
  <2> TAKE i \in 1..n
  <2>1. f[i - 1] \in A
    BY <1>1
  <2> QED
    BY <1>3, <1>9, <2>1
<1> QED
  BY <1>1, <1>2, <1>9, <1>10, <1>b DEF n, A, OnlyAlong

\* Only keeps the order of what it keeps.
LEMMA OnlyFacts ==
    ASSUME NEW s, s \in Seq(Coding), NEW codings
    PROVE  LET u == Only(s, codings)
           IN  /\ u \in Seq(Coding)
               /\ \A i \in DOMAIN u : u[i] \in codings
               /\ \A i \in DOMAIN s : s[i] \in codings => \E k \in DOMAIN u : u[k] = s[i]
               /\ \A i, j \in DOMAIN u : i < j =>
                     \E a, b \in DOMAIN s : a < b /\ s[a] = u[i] /\ s[b] = u[j]
               /\ \A i \in DOMAIN u : \E a \in DOMAIN s : s[a] = u[i]
<1> DEFINE n == Len(s)
<1>1. n \in Nat /\ DOMAIN s = 1..n /\ \A i \in 1..n : s[i] \in Coding
  OBVIOUS
<1>2. PICK f \in [0..n -> Seq(Coding)] :
         /\ f[0] = <<>> /\ f[n] = Only(s, codings)
         /\ \A i \in 1..n : f[i] = IF s[i] \in codings THEN Append(f[i - 1], s[i]) ELSE f[i - 1]
  <2>1. \E f : OnlyAlong(f, s, codings)
    BY OnlySteps
  <2> QED
    BY <2>1 DEF OnlyAlong
<1> DEFINE Kept(u) == \A i \in DOMAIN u : u[i] \in codings
           All(u, m) == \A i \in 1..m : s[i] \in codings => \E k \in DOMAIN u : u[k] = s[i]
           Order(u, m) == \A i, j \in DOMAIN u : i < j =>
                             \E a, b \in 1..m : a < b /\ s[a] = u[i] /\ s[b] = u[j]
           From(u, m) == \A i \in DOMAIN u : \E a \in 1..m : s[a] = u[i]
           T == {m \in 0..n : Kept(f[m]) /\ All(f[m], m) /\ Order(f[m], m) /\ From(f[m], m)}
<1> HIDE DEF n
<1>3. 0 \in T
  <2>1. DOMAIN f[0] = {}
    BY <1>2
  <2> QED
    BY <1>1, <2>1
<1>4. ASSUME NEW m \in 1..n, m - 1 \in T PROVE m \in T
  <2>1. /\ m \in 0..n /\ m - 1 \in 0..n /\ m \in 1..m /\ \A i \in 1..m : i = m \/ i \in 1..(m - 1)
        /\ \A i \in 1..(m - 1) : i \in 1..m /\ i < m
    BY <1>1
  <2> DEFINE u == f[m - 1]
             v == f[m]
  <2>2. u \in Seq(Coding) /\ Kept(u) /\ All(u, m - 1) /\ Order(u, m - 1) /\ From(u, m - 1)
    BY <1>4, <2>1
  <2>3. v = IF s[m] \in codings THEN Append(u, s[m]) ELSE u
    BY <1>2
  <2> SUFFICES Kept(v) /\ All(v, m) /\ Order(v, m) /\ From(v, m)
    BY <2>1
  <2> HIDE DEF u, v, T
  <2>4. CASE s[m] \notin codings
    <3>1. v = u
      BY <2>3, <2>4
    <3>2. Kept(v)
      BY <2>2, <3>1
    <3>3. All(v, m)
      BY <2>1, <2>2, <2>4, <3>1
    <3>4. Order(v, m) /\ From(v, m)
      BY <2>1, <2>2, <3>1
    <3> QED
      BY <3>2, <3>3, <3>4
  <2>5. CASE s[m] \in codings
    <3>1. /\ Len(u) \in Nat /\ DOMAIN u = 1..Len(u) /\ DOMAIN v = 1..(Len(u) + 1)
          /\ v[Len(u) + 1] = s[m] /\ \A i \in 1..Len(u) : v[i] = u[i]
      BY <1>1, <2>2, <2>3, <2>5
    <3>2. /\ \A i \in DOMAIN v : i = Len(u) + 1 \/ i \in DOMAIN u
          /\ \A i \in DOMAIN u : i \in DOMAIN v /\ i < Len(u) + 1 /\ v[i] = u[i]
          /\ Len(u) + 1 \in DOMAIN v
      BY <3>1
    <3>3. Kept(v)
      BY <2>2, <2>5, <3>1, <3>2
    <3>4. All(v, m)
      <4> SUFFICES ASSUME NEW i \in 1..m, s[i] \in codings PROVE \E k \in DOMAIN v : v[k] = s[i]
        OBVIOUS
      <4>1. CASE i = m
        BY <3>1, <3>2, <4>1
      <4>2. CASE i \in 1..(m - 1)
        <5>1. PICK k \in DOMAIN u : u[k] = s[i]
          BY <2>2, <4>2
        <5> QED
          BY <3>2, <5>1
      <4> QED
        BY <2>1, <4>1, <4>2
    <3>5. From(v, m)
      BY <2>1, <2>2, <3>1, <3>2
    <3>6. Order(v, m)
      <4> SUFFICES ASSUME NEW i \in DOMAIN v, NEW j \in DOMAIN v, i < j
                   PROVE  \E a, b \in 1..m : a < b /\ s[a] = v[i] /\ s[b] = v[j]
        OBVIOUS
      <4>1. i \in DOMAIN u
        BY <3>1, <3>2
      <4>2. CASE j \in DOMAIN u
        BY <2>1, <2>2, <3>2, <4>1, <4>2
      <4>3. CASE j = Len(u) + 1
        <5>1. PICK a \in 1..(m - 1) : s[a] = u[i]
          BY <2>2, <4>1
        <5> QED
          BY <2>1, <3>1, <3>2, <4>1, <4>3, <5>1
      <4> QED
        BY <3>2, <4>2, <4>3
    <3> QED
      BY <3>3, <3>4, <3>5, <3>6
  <2> QED
    BY <2>4, <2>5
<1>5. n \in T
  <2> HIDE DEF T
  <2> QED
    BY <1>1, <1>3, <1>4, UpTo
<1> DEFINE u == Only(s, codings)
<1>6. u \in Seq(Coding) /\ Kept(u) /\ All(u, n) /\ Order(u, n) /\ From(u, n)
  BY <1>1, <1>2, <1>5
<1> HIDE DEF u
<1>7. /\ u \in Seq(Coding)
      /\ \A i \in DOMAIN u : u[i] \in codings
      /\ \A i \in DOMAIN s : s[i] \in codings => \E k \in DOMAIN u : u[k] = s[i]
      /\ \A i, j \in DOMAIN u : i < j =>
            \E a, b \in DOMAIN s : a < b /\ s[a] = u[i] /\ s[b] = u[j]
      /\ \A i \in DOMAIN u : \E a \in DOMAIN s : s[a] = u[i]
  <2>1. \A i : i \in DOMAIN s <=> i \in 1..n
    BY <1>1
  <2>2. Kept(u) /\ u \in Seq(Coding)
    BY <1>6
  <2>3. \A i \in DOMAIN s : s[i] \in codings => \E k \in DOMAIN u : u[k] = s[i]
    BY <1>6, <2>1
  <2>4. ASSUME NEW i \in DOMAIN u, NEW j \in DOMAIN u, i < j
        PROVE  \E a, b \in DOMAIN s : a < b /\ s[a] = u[i] /\ s[b] = u[j]
    <3>1. PICK a \in 1..n, b \in 1..n : a < b /\ s[a] = u[i] /\ s[b] = u[j]
      BY <1>6, <2>4
    <3> QED
      BY <2>1, <3>1
  <2>5. \A i \in DOMAIN u : \E a \in DOMAIN s : s[a] = u[i]
    BY <1>6, <2>1
  <2> QED
    BY <2>2, <2>3, <2>4, <2>5
<1> QED
  BY <1>7 DEF u

\* The choice among codings that are all available.
Chosen(a, u) == FoldLeft(LAMBDA selected, c : Better(a, selected, c), "NotAcceptable", u)
Selectable == Coding \cup {"NotAcceptable"}

\* Its values along the codings.
ChosenAlong(f, a, u) ==
    /\ f \in [0..Len(u) -> Selectable]
    /\ f[0] = "NotAcceptable" /\ f[Len(u)] = Chosen(a, u)
    /\ \A i \in 1..Len(u) : f[i] = Better(a, f[i - 1], u[i])

\* There are such choices.
LEMMA BetterSteps ==
    ASSUME NEW a, NEW u, u \in Seq(Coding)
    PROVE  \E f : ChosenAlong(f, a, u)
<1> DEFINE n == Len(u)
           B(h) == [t \in SUBSET DOMAIN u |->
                      IF t = {} THEN "NotAcceptable" ELSE Better(a, h[t \ {Max(t)}], u[Max(t)])]
           F == CHOOSE h : h = B(h)
           g == [x \in (1..n) \X Selectable |-> Better(a, x[2], u[x[1]])]
           base == "NotAcceptable"
<1>1. n \in Nat /\ DOMAIN u = 1..n /\ \A i \in 1..n : u[i] \in Coding
  OBVIOUS
<1>2. Chosen(a, u) = F[DOMAIN u]
  BY DEF Chosen, FoldLeft, MapThenFoldSet
<1>3. ASSUME NEW i \in 1..n, NEW e \in Selectable
      PROVE  g[<<i, e>>] = Better(a, e, u[i]) /\ g[<<i, e>>] \in Selectable
  <2>1. g[<<i, e>>] = Better(a, e, u[i])
    OBVIOUS
  <2> HIDE DEF g
  <2>2. Better(a, e, u[i]) \in Selectable
    BY <1>1 DEF Better, Selectable
  <2> QED
    BY <2>1, <2>2
<1>4. base \in Selectable /\ Closed(g, 1..n, Selectable)
  <2>1. base \in Selectable
    BY DEF Selectable
  <2> HIDE DEF g, n
  <2> QED
    BY <1>3, <2>1 DEF Closed
<1>b. base = "NotAcceptable"
  OBVIOUS
<1> HIDE DEF g, n, base
<1>5. PICK h \in [SUBSET (1..n) -> Selectable] : FoldsLeft(h, base, g, n, Selectable)
  BY <1>1, <1>4, FoldLeftExists
<1>6. \E e : e = B(e)
  <2>1. \A t \in SUBSET (1..n) :
           h[t] = IF t = {} THEN "NotAcceptable" ELSE Better(a, h[t \ {Max(t)}], u[Max(t)])
    BY <1>b, <1>3, <1>5 DEF FoldsLeft
  <2>2. h = B(h)
    BY <1>1, <1>5, <2>1
  <2> QED
    BY <2>2
<1>7. F = B(F)
  <2> HIDE DEF B
  <2> QED
    BY <1>6
<1> HIDE DEF F
<1>8. Folding(F, base, g, n, Selectable)
  <2>1. \A t \in SUBSET (1..n) :
           F[t] = IF t = {} THEN "NotAcceptable" ELSE Better(a, F[t \ {Max(t)}], u[Max(t)])
    BY <1>1, <1>7
  <2>2. ASSUME NEW t \in SUBSET (1..n), t # {}, F[t \ {Max(t)}] \in Selectable
        PROVE  F[t] = g[<<Max(t), F[t \ {Max(t)}]>>]
    <3>1. Max(t) \in 1..n
      BY <1>5, <2>2 DEF FoldsLeft
    <3> QED
      BY <1>3, <2>1, <2>2, <3>1
  <2> QED
    BY <1>b, <2>1, <2>2 DEF Folding
<1>9. PICK f \in [0..n -> Selectable] : /\ f[0] = base /\ f[n] = F[1..n]
                               /\ \A i \in 1..n : f[i] = g[<<i, f[i - 1]>>]
  BY <1>1, <1>4, <1>8, FoldSteps
<1>10. \A i \in 1..n : f[i] = Better(a, f[i - 1], u[i])
  <2> TAKE i \in 1..n
  <2>1. f[i - 1] \in Selectable
    BY <1>1
  <2> QED
    BY <1>3, <1>9, <2>1
<1> QED
  BY <1>1, <1>2, <1>9, <1>10, <1>b DEF n, ChosenAlong

\* The choice is the first of the best, if any is acceptable.
LEMMA ChosenFacts ==
    ASSUME NEW a, \A c \in Coding : Quality(a, c) \in QualityValue, NEW u, u \in Seq(Coding)
    PROVE  \/ Chosen(a, u) = "NotAcceptable" /\ \A i \in DOMAIN u : Quality(a, u[i]) = 0
           \/ \E k \in DOMAIN u :
                 /\ Chosen(a, u) = u[k] /\ Quality(a, u[k]) > 0
                 /\ \A i \in DOMAIN u : /\ Quality(a, u[i]) <= Quality(a, u[k])
                                        /\ i < k => Quality(a, u[i]) < Quality(a, u[k])
<1> DEFINE n == Len(u)
           q(i) == Quality(a, u[i])
<1>1. n \in Nat /\ DOMAIN u = 1..n /\ \A i \in 1..n : u[i] \in Coding
  OBVIOUS
<1>2. \A i \in 1..n : q(i) \in Int /\ q(i) >= 0
  <2>1. \A w \in QualityValue : w \in Int /\ w >= 0
    BY DEF QualityValue, QualityMax
  <2>2. \A i \in 1..n : Quality(a, u[i]) \in QualityValue
    BY <1>1
  <2> QED
    BY <2>1, <2>2
<1>3. PICK f : ChosenAlong(f, a, u)
  BY BetterSteps
<1>4. /\ f[0] = "NotAcceptable" /\ f[n] = Chosen(a, u)
      /\ \A i \in 1..n : f[i] = Better(a, f[i - 1], u[i])
  BY <1>3 DEF ChosenAlong
<1>5. \A i \in 1..n : u[i] # "NotAcceptable"
  BY <1>1 DEF Coding
<1> DEFINE None1(m) == f[m] = "NotAcceptable" /\ \A i \in 1..m : q(i) = 0
           Best(m, k) == /\ f[m] = u[k] /\ q(k) > 0
                         /\ \A i \in 1..m : q(i) <= q(k) /\ (i < k => q(i) < q(k))
           T == {m \in 0..n : None1(m) \/ \E k \in 1..m : Best(m, k)}
<1> HIDE DEF n
<1>6. 0 \in T
  BY <1>1, <1>4
<1>7. ASSUME NEW m \in 1..n, m - 1 \in T PROVE m \in T
  <2>1. /\ m \in 0..n /\ m - 1 \in 0..n /\ m \in 1..m /\ \A i \in 1..m : i = m \/ i \in 1..(m - 1)
        /\ \A i \in 1..(m - 1) : i \in 1..m /\ i < m /\ i \in 1..n
        /\ \A i \in 1..m : i \in 1..n
    BY <1>1
  <2>2. None1(m - 1) \/ \E k \in 1..(m - 1) : Best(m - 1, k)
    BY <1>7
  <2>3. f[m] = Better(a, f[m - 1], u[m]) /\ q(m) \in Int /\ q(m) >= 0
    BY <1>2, <1>4
  <2> SUFFICES None1(m) \/ \E k \in 1..m : Best(m, k)
    BY <2>1
  <2>4. CASE None1(m - 1)
    <3>1. f[m] = IF q(m) > 0 THEN u[m] ELSE "NotAcceptable"
      BY <2>3, <2>4 DEF Better
    <3> HIDE DEF q, T
    <3>2. CASE q(m) > 0
      <4>1. \A i \in 1..m : q(i) <= q(m) /\ (i < m => q(i) < q(m))
        BY <2>1, <2>3, <2>4, <3>2
      <4> QED
        BY <2>1, <3>1, <3>2, <4>1
    <3>3. CASE ~(q(m) > 0)
      <4>1. q(m) = 0
        BY <2>3, <3>3
      <4> QED
        BY <2>1, <2>4, <3>1, <3>3, <4>1
    <3> QED
      BY <3>2, <3>3
  <2>5. ASSUME NEW k \in 1..(m - 1), Best(m - 1, k) PROVE \E j \in 1..m : Best(m, j)
    <3>1. /\ f[m] = IF q(m) <= q(k) THEN u[k] ELSE IF q(m) > 0 THEN u[m] ELSE u[k]
      BY <1>5, <2>1, <2>3, <2>5 DEF Better
    <3>2. q(k) \in Int /\ k \in 1..m
      BY <1>2, <2>1, <2>5
    <3> HIDE DEF q, T
    <3>3. CASE q(m) <= q(k)
      <4>1. \A i \in 1..m : q(i) <= q(k) /\ (i < k => q(i) < q(k))
        <5> TAKE i \in 1..m
        <5>1. CASE i = m
          BY <2>1, <3>3, <5>1
        <5>2. CASE i \in 1..(m - 1)
          BY <2>5, <5>2
        <5> QED
          BY <2>1, <5>1, <5>2
      <4>2. f[m] = u[k] /\ q(k) > 0
        BY <2>5, <3>1, <3>3
      <4> QED
        BY <3>2, <4>1, <4>2
    <3>4. CASE ~(q(m) <= q(k))
      <4>1. q(m) > 0 /\ f[m] = u[m]
        BY <2>3, <2>5, <3>1, <3>2, <3>4
      <4>2. \A i \in 1..m : q(i) <= q(m) /\ (i < m => q(i) < q(m))
        <5> TAKE i \in 1..m
        <5>1. CASE i = m
          BY <2>3, <5>1
        <5>2. CASE i \in 1..(m - 1)
          <6>1. q(i) <= q(k) /\ q(i) \in Int
            BY <1>2, <2>1, <2>5, <5>2
          <6> QED
            BY <2>3, <3>2, <3>4, <6>1
        <5> QED
          BY <2>1, <5>1, <5>2
      <4> QED
        BY <2>1, <4>1, <4>2
    <3> QED
      BY <3>3, <3>4
  <2> QED
    BY <2>2, <2>4, <2>5
<1>8. n \in T
  <2> HIDE DEF T
  <2> QED
    BY <1>1, <1>6, <1>7, UpTo
<1>9. None1(n) \/ \E k \in 1..n : Best(n, k)
  BY <1>8
<1>10. \A i : i \in DOMAIN u <=> i \in 1..n
  BY <1>1
<1>11. CASE None1(n)
  BY <1>4, <1>10, <1>11
<1>12. ASSUME NEW k \in 1..n, Best(n, k)
       PROVE  /\ k \in DOMAIN u /\ Chosen(a, u) = u[k] /\ q(k) > 0
              /\ \A i \in DOMAIN u : q(i) <= q(k) /\ (i < k => q(i) < q(k))
  <2> HIDE DEF q
  <2> QED
    BY <1>4, <1>10, <1>12
<1> QED
  BY <1>9, <1>11, <1>12

\* A list of codings without the repetitions.
Extended(t, c) == IF c \in ToSet(t) THEN t ELSE Append(t, c)
Deduplicated(s) == FoldLeft(LAMBDA t, c : IF c \in ToSet(t) THEN t ELSE Append(t, c), <<>>, s)

\* Its values along the list.
DeduplicatedAlong(f, s) ==
    /\ f \in [0..Len(s) -> Seq(Coding)]
    /\ f[0] = <<>> /\ f[Len(s)] = Deduplicated(s)
    /\ \A i \in 1..Len(s) : f[i] = Extended(f[i - 1], s[i])

\* There are such lists.
LEMMA DeduplicateSteps ==
    ASSUME NEW s, s \in Seq(Coding)
    PROVE  \E f : DeduplicatedAlong(f, s)
<1> DEFINE n == Len(s)
           A == Seq(Coding)
           B(h) == [t \in SUBSET DOMAIN s |->
                      IF t = {} THEN <<>> ELSE Extended(h[t \ {Max(t)}], s[Max(t)])]
           F == CHOOSE h : h = B(h)
           g == [x \in (1..n) \X A |-> Extended(x[2], s[x[1]])]
           base == <<>>
<1>1. n \in Nat /\ DOMAIN s = 1..n /\ \A i \in 1..n : s[i] \in Coding
  OBVIOUS
<1>2. Deduplicated(s) = F[DOMAIN s]
  BY DEF Deduplicated, Extended, FoldLeft, MapThenFoldSet
<1>3. ASSUME NEW i \in 1..n, NEW e \in A
      PROVE  g[<<i, e>>] = Extended(e, s[i]) /\ g[<<i, e>>] \in A
  <2>1. g[<<i, e>>] = Extended(e, s[i])
    OBVIOUS
  <2> HIDE DEF g
  <2>2. Extended(e, s[i]) \in A
    BY <1>1 DEF Extended
  <2> QED
    BY <2>1, <2>2
<1>4. base \in A /\ Closed(g, 1..n, A)
  <2>1. base \in A
    OBVIOUS
  <2> HIDE DEF g, n, A
  <2> QED
    BY <1>3, <2>1 DEF Closed
<1>b. base = <<>>
  OBVIOUS
<1> HIDE DEF g, n, A, base
<1>5. PICK h \in [SUBSET (1..n) -> A] : FoldsLeft(h, base, g, n, A)
  BY <1>1, <1>4, FoldLeftExists
<1>6. \E e : e = B(e)
  <2>1. \A t \in SUBSET (1..n) :
           h[t] = IF t = {} THEN <<>> ELSE Extended(h[t \ {Max(t)}], s[Max(t)])
    BY <1>b, <1>3, <1>5 DEF FoldsLeft
  <2>2. h = B(h)
    BY <1>1, <1>5, <2>1
  <2> QED
    BY <2>2
<1>7. F = B(F)
  <2> HIDE DEF B
  <2> QED
    BY <1>6
<1> HIDE DEF F
<1>8. Folding(F, base, g, n, A)
  <2>1. \A t \in SUBSET (1..n) :
           F[t] = IF t = {} THEN <<>> ELSE Extended(F[t \ {Max(t)}], s[Max(t)])
    BY <1>1, <1>7
  <2>2. ASSUME NEW t \in SUBSET (1..n), t # {}, F[t \ {Max(t)}] \in A
        PROVE  F[t] = g[<<Max(t), F[t \ {Max(t)}]>>]
    <3>1. Max(t) \in 1..n
      BY <1>5, <2>2 DEF FoldsLeft
    <3> QED
      BY <1>3, <2>1, <2>2, <3>1
  <2> QED
    BY <1>b, <2>1, <2>2 DEF Folding
<1>9. PICK f \in [0..n -> A] : /\ f[0] = base /\ f[n] = F[1..n]
                               /\ \A i \in 1..n : f[i] = g[<<i, f[i - 1]>>]
  BY <1>1, <1>4, <1>8, FoldSteps
<1>10. \A i \in 1..n : f[i] = Extended(f[i - 1], s[i])
  <2> TAKE i \in 1..n
  <2>1. f[i - 1] \in A
    BY <1>1
  <2> QED
    BY <1>3, <1>9, <2>1
<1> QED
  BY <1>1, <1>2, <1>9, <1>10, <1>b DEF n, A, DeduplicatedAlong

\* Deduplicating keeps one of each element.
LEMMA DeduplicatedFacts ==
    ASSUME NEW s, s \in Seq(Coding)
    PROVE  LET u == Deduplicated(s)
           IN  /\ u \in Seq(Coding) /\ IsInjective(u)
               /\ \A i \in DOMAIN u : \E a \in DOMAIN s : u[i] = s[a]
               /\ \A a \in DOMAIN s : \E i \in DOMAIN u : u[i] = s[a]
<1> DEFINE n == Len(s)
<1>1. n \in Nat /\ DOMAIN s = 1..n /\ \A i \in 1..n : s[i] \in Coding
  OBVIOUS
<1>2. PICK f : DeduplicatedAlong(f, s)
  BY DeduplicateSteps
<1>3. /\ f \in [0..n -> Seq(Coding)] /\ f[0] = <<>> /\ f[n] = Deduplicated(s)
      /\ \A i \in 1..n : f[i] = IF s[i] \in ToSet(f[i - 1]) THEN f[i - 1] ELSE Append(f[i - 1], s[i])
  BY <1>2 DEF DeduplicatedAlong, Extended
<1> DEFINE From(u, m) == \A i \in DOMAIN u : \E a \in 1..m : u[i] = s[a]
           All(u, m) == \A a \in 1..m : \E i \in DOMAIN u : u[i] = s[a]
           T == {m \in 0..n : IsInjective(f[m]) /\ From(f[m], m) /\ All(f[m], m)}
<1> HIDE DEF n
<1>4. 0 \in T
  <2>1. DOMAIN f[0] = {}
    BY <1>3
  <2> QED
    BY <1>1, <2>1 DEF IsInjective
<1>5. ASSUME NEW m \in 1..n, m - 1 \in T PROVE m \in T
  <2>1. /\ m \in 0..n /\ m - 1 \in 0..n /\ m \in 1..m /\ \A i \in 1..m : i = m \/ i \in 1..(m - 1)
        /\ \A i \in 1..(m - 1) : i \in 1..m
    BY <1>1
  <2> DEFINE u == f[m - 1]
             v == f[m]
  <2>2. u \in Seq(Coding) /\ IsInjective(u) /\ From(u, m - 1) /\ All(u, m - 1)
    BY <1>3, <1>5, <2>1
  <2>3. v = IF s[m] \in ToSet(u) THEN u ELSE Append(u, s[m])
    BY <1>3
  <2> SUFFICES IsInjective(v) /\ From(v, m) /\ All(v, m)
    BY <2>1
  <2> HIDE DEF u, v, T
  <2>4. s[m] \in ToSet(u) <=> \E i \in DOMAIN u : u[i] = s[m]
    BY DEF ToSet
  <2>5. CASE s[m] \in ToSet(u)
    BY <2>1, <2>2, <2>3, <2>4, <2>5
  <2>6. CASE s[m] \notin ToSet(u)
    <3>1. /\ Len(u) \in Nat /\ DOMAIN u = 1..Len(u) /\ DOMAIN v = 1..(Len(u) + 1)
          /\ v[Len(u) + 1] = s[m] /\ \A i \in 1..Len(u) : v[i] = u[i]
      BY <1>1, <2>2, <2>3, <2>6
    <3>2. /\ \A i \in DOMAIN v : i = Len(u) + 1 \/ i \in DOMAIN u
          /\ \A i \in DOMAIN u : i \in DOMAIN v /\ v[i] = u[i]
          /\ Len(u) + 1 \in DOMAIN v
      BY <3>1
    <3>3. IsInjective(v)
      BY <2>2, <2>4, <2>6, <3>1, <3>2 DEF IsInjective
    <3>4. From(v, m)
      <4> TAKE i \in DOMAIN v
      <4>1. CASE i = Len(u) + 1
        BY <2>1, <3>1, <4>1
      <4>2. CASE i \in DOMAIN u
        <5>1. PICK a \in 1..(m - 1) : u[i] = s[a]
          BY <2>2, <4>2
        <5> QED
          BY <2>1, <3>2, <4>2, <5>1
      <4> QED
        BY <3>2, <4>1, <4>2
    <3>5. All(v, m)
      <4> TAKE a \in 1..m
      <4>1. CASE a = m
        BY <3>1, <3>2, <4>1
      <4>2. CASE a \in 1..(m - 1)
        <5>1. PICK i \in DOMAIN u : u[i] = s[a]
          BY <2>2, <4>2
        <5> QED
          BY <3>2, <5>1
      <4> QED
        BY <2>1, <4>1, <4>2
    <3> QED
      BY <3>3, <3>4, <3>5
  <2> QED
    BY <2>5, <2>6
<1>6. n \in T
  <2> HIDE DEF T
  <2> QED
    BY <1>1, <1>4, <1>5, UpTo
<1> DEFINE u == Deduplicated(s)
<1>7. u \in Seq(Coding) /\ IsInjective(u) /\ From(u, n) /\ All(u, n)
  BY <1>1, <1>3, <1>6
<1> HIDE DEF u
<1>8. \A i : i \in DOMAIN s <=> i \in 1..n
  BY <1>1
<1>9. \A i \in DOMAIN u : \E a \in DOMAIN s : u[i] = s[a]
  BY <1>7, <1>8
<1>10. \A a \in DOMAIN s : \E i \in DOMAIN u : u[i] = s[a]
  BY <1>7, <1>8
<1> QED
  BY <1>7, <1>9, <1>10 DEF u

\* A server's order lists every coding once.
IsOrder(p) ==
    /\ p \in Seq(Coding) /\ IsInjective(p)
    /\ \A c \in Coding : \E i \in DOMAIN p : p[i] = c

\* resolve_priority (negotiation.rs) makes an order of all codings of whatever the
\* configuration lists.
LEMMA ResolvePriorityFacts ==
    ASSUME NEW profile, NEW explicit, explicit \in Seq(ContentCoding)
    PROVE  IsOrder(ResolvePriority(profile, explicit))
<1> DEFINE d == DefaultPriority(profile)
           s == explicit \o d
           u == Deduplicated(s)
           p == Append(u, "identity")
<1>1. ResolvePriority(profile, explicit) = p
  BY DEF ResolvePriority, Deduplicated
<1>2. /\ d \in Seq(ContentCoding) /\ Len(d) = 4
      /\ \A c \in ContentCoding : \E i \in 1..4 : d[i] = c
  <2>1. CASE profile = "fast"
    BY <2>1 DEF DefaultPriority, ContentCoding, Coding
  <2>2. CASE profile # "fast"
    BY <2>2 DEF DefaultPriority, ContentCoding, Coding
  <2> QED
    BY <2>1, <2>2
<1> HIDE DEF d
<1>3. /\ s \in Seq(ContentCoding) /\ Len(s) = Len(explicit) + 4
      /\ \A i \in 1..4 : s[Len(explicit) + i] = d[i]
  <2>1. s \in Seq(ContentCoding) /\ Len(s) = Len(explicit) + 4
    <3>1. s \in Seq(ContentCoding) /\ Len(s) = Len(explicit) + Len(d)
      <4> HIDE DEF ContentCoding
      <4> QED
        BY <1>2, ConcatProperties DEF s
    <3> QED
      BY <1>2, <3>1
  <2>2. ASSUME NEW i \in 1..4 PROVE s[Len(explicit) + i] = d[i]
    <3>1. Len(explicit) \in Nat /\ Len(explicit) + i \in 1..(Len(explicit) + Len(d))
          /\ ~(Len(explicit) + i <= Len(explicit)) /\ Len(explicit) + i - Len(explicit) = i
      BY <1>2
    <3> QED
      BY <3>1
  <2> QED
    BY <2>1, <2>2
<1> HIDE DEF s
<1>4. \A a \in DOMAIN s : s[a] \in ContentCoding
  BY <1>3
<1>5. \A c \in ContentCoding : \E a \in DOMAIN s : s[a] = c
  <2> TAKE c \in ContentCoding
  <2>1. PICK i \in 1..4 : d[i] = c
    BY <1>2
  <2>2. Len(explicit) + i \in DOMAIN s
    BY <1>3
  <2> QED
    BY <1>3, <2>1, <2>2
<1>6. s \in Seq(Coding)
  BY <1>3 DEF ContentCoding
<1>7. /\ u \in Seq(Coding) /\ IsInjective(u)
      /\ \A i \in DOMAIN u : \E a \in DOMAIN s : u[i] = s[a]
      /\ \A a \in DOMAIN s : \E i \in DOMAIN u : u[i] = s[a]
  BY <1>6, DeduplicatedFacts
<1> HIDE DEF u
<1>8. \A i \in DOMAIN u : u[i] \in ContentCoding
  BY <1>4, <1>7
<1>9. \A c \in ContentCoding : \E i \in DOMAIN u : u[i] = c
  <2> TAKE c \in ContentCoding
  <2>1. PICK a \in DOMAIN s : s[a] = c
    BY <1>5
  <2> QED
    BY <1>7, <2>1
<1>10. /\ Len(u) \in Nat /\ DOMAIN u = 1..Len(u) /\ DOMAIN p = 1..(Len(u) + 1)
       /\ p[Len(u) + 1] = "identity" /\ \A i \in 1..Len(u) : p[i] = u[i]
       /\ p \in Seq(Coding)
  BY <1>7 DEF Coding
<1> HIDE DEF p
<1>11. /\ \A i \in DOMAIN p : i = Len(u) + 1 \/ i \in DOMAIN u
       /\ \A i \in DOMAIN u : i \in DOMAIN p /\ p[i] = u[i]
       /\ Len(u) + 1 \in DOMAIN p
  BY <1>10
<1>12. "identity" \notin ContentCoding /\ \A c \in Coding : c = "identity" \/ c \in ContentCoding
  BY DEF ContentCoding
<1>13. IsInjective(p)
  BY <1>7, <1>8, <1>10, <1>11, <1>12 DEF IsInjective
<1>14. \A c \in Coding : \E i \in DOMAIN p : p[i] = c
  <2> TAKE c \in Coding
  <2>1. CASE c = "identity"
    BY <1>10, <1>11, <2>1
  <2>2. CASE c \in ContentCoding
    <3>1. PICK i \in DOMAIN u : u[i] = c
      BY <1>9, <2>2
    <3> QED
      BY <1>11, <3>1
  <2> QED
    BY <1>12, <2>1, <2>2
<1> QED
  BY <1>1, <1>10, <1>13, <1>14 DEF IsOrder

\* A set of positions that holds whatever is before one of its own is an initial segment.
LEMMA InitialSegment ==
    ASSUME NEW n \in Nat, NEW G, G \subseteq 1..n,
           \A i \in G, j \in 1..n : j <= i => j \in G
    PROVE  Cardinality(G) \in 0..n /\ \A i \in 1..n : i \in G <=> i <= Cardinality(G)
<1> DEFINE T == {i \in 0..n : i + 1 \notin G}
<1>1. T \subseteq Nat /\ n \in T
  BY n + 1 \notin 1..n
<1>2. PICK k \in T : \A i \in T : k <= i
  <2> HIDE DEF T
  <2> QED
    BY <1>1, LeastNat
<1>3. k \in 0..n /\ k + 1 \notin G
  BY <1>2
<1>4. ASSUME NEW i \in 1..n, i <= k PROVE i \in G
  <2>1. i - 1 \in 0..n /\ ~(k <= i - 1) /\ (i - 1) + 1 = i
    BY <1>3, <1>4
  <2>2. i - 1 \notin T
    BY <1>2, <2>1
  <2> QED
    BY <2>1, <2>2
<1>5. ASSUME NEW i \in G PROVE i <= k
  <2> SUFFICES ASSUME ~(i <= k) PROVE FALSE
    OBVIOUS
  <2>1. i \in 1..n /\ k + 1 \in 1..n /\ k + 1 <= i
    BY <1>3
  <2>2. k + 1 \in G
    BY <1>5, <2>1
  <2> QED
    BY <1>3, <2>2
<1>6. \A i : i \in G <=> i \in 1..k
  <2>1. ASSUME NEW i \in G PROVE i \in 1..k
    <3>1. i \in 1..n /\ i <= k
      BY <1>5
    <3> QED
      BY <1>3, <3>1
  <2>2. ASSUME NEW i \in 1..k PROVE i \in G
    <3>1. i \in 1..n /\ i <= k
      BY <1>3
    <3> QED
      BY <1>4, <3>1
  <2> QED
    BY <2>1, <2>2
<1>7. G = 1..k
  BY <1>6
<1>8. Cardinality(1..k) = k
  BY <1>3, FS_Interval
<1> QED
  BY <1>3, <1>6, <1>7, <1>8

\* An element in the middle of a sequence.
Inserted(v, s, k, e) ==
    /\ Len(v) = Len(s) + 1
    /\ \A i \in 1..k : v[i] = s[i]
    /\ v[k + 1] = e
    /\ \A i \in (k + 2)..(Len(s) + 1) : v[i] = s[i - 1]

\* What InsertAt of the library does to a sequence.
LEMMA InsertAtFacts ==
    ASSUME NEW S, NEW s \in Seq(S), NEW k \in 0..Len(s), NEW e \in S
    PROVE  InsertAt(s, 1 + k, e) \in Seq(S) /\ Inserted(InsertAt(s, 1 + k, e), s, k, e)
<1> DEFINE n == Len(s)
           a == SubSeq(s, 1, k)
           m == <<e>>
           b == SubSeq(s, k + 1, n)
           am == a \o m
           v == am \o b
<1>1. n \in Nat /\ k \in Nat /\ k <= n /\ \A i \in 1..n : s[i] \in S
  OBVIOUS
<1>2. InsertAt(s, 1 + k, e) = v
  <2>1. (1 + k) - 1 = k /\ 1 + k = k + 1
    BY <1>1
  <2> QED
    BY <2>1 DEF InsertAt
<1>3. a \in Seq(S) /\ Len(a) = k /\ \A i \in 1..k : a[i] = s[i]
  BY <1>1, SubSeqProperties
<1>4. b \in Seq(S) /\ Len(b) = n - k /\ \A i \in 1..(n - k) : b[i] = s[k + i]
  <2>1. \A i \in (k + 1)..n : s[i] \in S
    BY <1>1
  <2>2. /\ b \in Seq(S) /\ Len(b) = (IF k + 1 <= n THEN n - (k + 1) + 1 ELSE 0)
        /\ \A i \in 1..(n - (k + 1) + 1) : b[i] = s[(k + 1) + i - 1]
    BY <1>1, <2>1, SubSeqProperties
  <2>3. Len(b) = n - k
    BY <1>1, <2>2
  <2>4. ASSUME NEW i \in 1..(n - k) PROVE b[i] = s[k + i]
    <3>1. i \in 1..(n - (k + 1) + 1) /\ (k + 1) + i - 1 = k + i
      BY <1>1
    <3> QED
      BY <2>2, <3>1
  <2> QED
    BY <2>2, <2>3, <2>4
<1> HIDE DEF a, b
<1>5. m \in Seq(S) /\ Len(m) = 1 /\ m[1] = e
  OBVIOUS
<1> HIDE DEF m
<1>6. /\ am \in Seq(S) /\ Len(am) = k + 1
      /\ \A i \in 1..(k + 1) : am[i] = IF i <= k THEN a[i] ELSE m[i - k]
  BY <1>3, <1>5, ConcatProperties
<1> HIDE DEF am
<1>7. /\ v \in Seq(S) /\ Len(v) = (k + 1) + (n - k)
      /\ \A i \in 1..((k + 1) + (n - k)) :
            v[i] = IF i <= k + 1 THEN am[i] ELSE b[i - (k + 1)]
  <2>1. /\ v \in Seq(S) /\ Len(v) = Len(am) + Len(b)
        /\ \A i \in 1..(Len(am) + Len(b)) : v[i] = IF i <= Len(am) THEN am[i] ELSE b[i - Len(am)]
    BY <1>4, <1>6, ConcatProperties
  <2> HIDE DEF v
  <2> QED
    BY <1>4, <1>6, <2>1
<1> HIDE DEF v
<1>8. Len(v) = n + 1 /\ \A i \in 1..(n + 1) : i \in 1..((k + 1) + (n - k))
  BY <1>1, <1>7
<1>9. ASSUME NEW i \in 1..k PROVE v[i] = s[i]
  <2>1. i \in 1..(n + 1) /\ i <= k + 1 /\ i <= k /\ i \in 1..(k + 1)
    BY <1>1
  <2> QED
    BY <1>3, <1>6, <1>7, <1>8, <2>1
<1>10. v[k + 1] = e
  <2>1. k + 1 \in 1..(n + 1) /\ ~(k + 1 <= k) /\ k + 1 \in 1..(k + 1) /\ k + 1 <= k + 1
        /\ (k + 1) - k = 1
    BY <1>1
  <2>2. am[k + 1] = m[1]
    BY <1>6, <2>1
  <2> QED
    BY <1>5, <1>7, <1>8, <2>1, <2>2
<1>11. ASSUME NEW i \in (k + 2)..(n + 1) PROVE v[i] = s[i - 1]
  <2>1. i \in 1..(n + 1) /\ ~(i <= k + 1) /\ i - (k + 1) \in 1..(n - k)
        /\ k + (i - (k + 1)) = i - 1
    BY <1>1
  <2>2. v[i] = b[i - (k + 1)]
    BY <1>7, <1>8, <2>1
  <2> QED
    BY <1>4, <2>1, <2>2
<1> QED
  BY <1>2, <1>7, <1>8, <1>9, <1>10, <1>11 DEF n, Inserted

\* A place behind every candidate at least as good, among candidates in order of quality.
LEMMA InsertFacts ==
    ASSUME NEW a, \A c \in Coding : Quality(a, c) \in QualityValue,
           NEW s \in Seq(Coding), NEW c \in Coding,
           \A i, j \in DOMAIN s : i < j => Quality(a, s[i]) >= Quality(a, s[j])
    PROVE  LET v == InsertByQuality(a, s, c)
           IN  \E k \in 0..Len(s) :
                 /\ v \in Seq(Coding) /\ Len(v) = Len(s) + 1
                 /\ \A i \in 1..k : v[i] = s[i] /\ Quality(a, s[i]) >= Quality(a, c)
                 /\ v[k + 1] = c
                 /\ \A i \in (k + 2)..(Len(s) + 1) :
                       v[i] = s[i - 1] /\ Quality(a, s[i - 1]) < Quality(a, c)
<1> DEFINE n == Len(s)
           q(i) == Quality(a, s[i])
           G == {i \in DOMAIN s : q(i) >= Quality(a, c)}
           k == Cardinality(G)
           v == InsertAt(s, 1 + k, c)
<1>0. \A w \in QualityValue : w \in Int
  BY DEF QualityValue, QualityMax
<1>1. n \in Nat /\ (\A i : i \in DOMAIN s <=> i \in 1..n) /\ \A i \in 1..n : s[i] \in Coding
  OBVIOUS
<1>2. Quality(a, c) \in Int /\ \A i \in 1..n : q(i) \in Int
  BY <1>0, <1>1
<1>3. G \subseteq 1..n /\ \A i \in G, j \in 1..n : j <= i => j \in G
  <2>1. G \subseteq 1..n
    BY <1>1
  <2>2. ASSUME NEW i \in G, NEW j \in 1..n, j <= i PROVE j \in G
    <3>1. i \in 1..n /\ q(i) >= Quality(a, c)
      BY <1>1
    <3>2. CASE i = j
      BY <3>2
    <3>3. CASE i # j
      <4>1. j < i /\ i \in DOMAIN s /\ j \in DOMAIN s
        BY <1>1, <2>2, <3>1, <3>3
      <4>2. q(j) >= q(i)
        BY <4>1
      <4>3. q(j) >= Quality(a, c)
        <5> HIDE DEF q
        <5> QED
          BY <1>2, <3>1, <4>2
      <4> QED
        BY <4>1, <4>3
    <3> QED
      BY <3>2, <3>3
  <2> QED
    BY <2>1, <2>2
<1>4. InsertByQuality(a, s, c) = v
  BY DEF InsertByQuality
<1> HIDE DEF n, G, k
<1>5. k \in 0..n /\ \A i \in 1..n : i \in G <=> i <= k
  BY <1>1, <1>3, InitialSegment DEF k
<1>6. /\ v \in Seq(Coding) /\ Len(v) = n + 1
      /\ \A i \in 1..k : v[i] = s[i]
      /\ v[k + 1] = c
      /\ \A i \in (k + 2)..(n + 1) : v[i] = s[i - 1]
  <2>1. k \in 0..Len(s)
    BY <1>5 DEF n
  <2>2. /\ v \in Seq(Coding) /\ Len(v) = Len(s) + 1
        /\ \A i \in 1..k : v[i] = s[i]
        /\ v[k + 1] = c
        /\ \A i \in (k + 2)..(Len(s) + 1) : v[i] = s[i - 1]
    <3>1. v \in Seq(Coding) /\ Inserted(v, s, k, c)
      BY <2>1, InsertAtFacts
    <3> QED
      BY <3>1 DEF Inserted
  <2> HIDE DEF v
  <2> QED
    BY <2>2 DEF n
<1> HIDE DEF v
<1>7. ASSUME NEW i \in 1..k PROVE q(i) >= Quality(a, c)
  <2>1. i \in 1..n /\ i <= k
    BY <1>1, <1>5
  <2> QED
    BY <1>5, <2>1 DEF G
<1>8. ASSUME NEW i \in (k + 2)..(n + 1) PROVE q(i - 1) < Quality(a, c)
  <2>1. i - 1 \in 1..n /\ ~(i - 1 <= k) /\ i - 1 \in DOMAIN s
    BY <1>1, <1>5
  <2>2. ~(q(i - 1) >= Quality(a, c))
    BY <1>5, <2>1 DEF G
  <2>3. q(i - 1) \in Int
    BY <1>2, <2>1
  <2> HIDE DEF q
  <2> QED
    BY <1>2, <2>2, <2>3
<1> QED
  BY <1>4, <1>5, <1>6, <1>7, <1>8 DEF n

\* Inserting a coding by quality gives codings.
LEMMA InsertType ==
    ASSUME NEW a, NEW s \in Seq(Coding), NEW c \in Coding
    PROVE  InsertByQuality(a, s, c) \in Seq(Coding)
<1> DEFINE G == {i \in DOMAIN s : Quality(a, s[i]) >= Quality(a, c)}
           n == Len(s)
<1>1. n \in Nat /\ G \subseteq 1..n /\ 1 \in Int /\ n \in Int
  OBVIOUS
<1> HIDE DEF G, n
<1>2. IsFiniteSet(1..n) /\ Cardinality(1..n) = n
  <2>1. Cardinality(1..n) = IF 1 > n THEN 0 ELSE n - 1 + 1
    BY <1>1, FS_Interval
  <2> QED
    BY <1>1, <2>1, FS_Interval
<1>3. Cardinality(G) \in Nat /\ Cardinality(G) <= n
  BY <1>1, <1>2, FS_Subset, FS_CardinalityType
<1>4. Cardinality(G) \in 0..Len(s)
  BY <1>1, <1>3 DEF n
<1>5. InsertAt(s, 1 + Cardinality(G), c) \in Seq(Coding)
  BY <1>4, InsertAtFacts
<1> QED
  BY <1>5 DEF G, InsertByQuality

\* Candidates in order of quality.
Sorted(a, u) == FoldLeft(LAMBDA s, c : InsertByQuality(a, s, c), <<>>, u)

\* Its values along the candidates.
SortedAlong(f, a, u) ==
    /\ f \in [0..Len(u) -> Seq(Coding)]
    /\ f[0] = <<>> /\ f[Len(u)] = Sorted(a, u)
    /\ \A i \in 1..Len(u) : f[i] = InsertByQuality(a, f[i - 1], u[i])

\* There are such lists.
LEMMA SortSteps ==
    ASSUME NEW a, NEW u, u \in Seq(Coding)
    PROVE  \E f : SortedAlong(f, a, u)
<1> DEFINE n == Len(u)
           A == Seq(Coding)
           B(h) == [t \in SUBSET DOMAIN u |->
                      IF t = {} THEN <<>> ELSE InsertByQuality(a, h[t \ {Max(t)}], u[Max(t)])]
           F == CHOOSE h : h = B(h)
           g == [x \in (1..n) \X A |-> InsertByQuality(a, x[2], u[x[1]])]
           base == <<>>
<1>1. n \in Nat /\ DOMAIN u = 1..n /\ \A i \in 1..n : u[i] \in Coding
  OBVIOUS
<1>2. Sorted(a, u) = F[DOMAIN u]
  BY DEF Sorted, FoldLeft, MapThenFoldSet
<1>3. ASSUME NEW i \in 1..n, NEW e \in A
      PROVE  g[<<i, e>>] = InsertByQuality(a, e, u[i]) /\ g[<<i, e>>] \in A
  <2>1. g[<<i, e>>] = InsertByQuality(a, e, u[i])
    OBVIOUS
  <2> HIDE DEF g
  <2>2. InsertByQuality(a, e, u[i]) \in A
    BY <1>1, InsertType DEF A
  <2> QED
    BY <2>1, <2>2
<1>4. base \in A /\ Closed(g, 1..n, A)
  <2>1. base \in A
    OBVIOUS
  <2> HIDE DEF g, n, A
  <2> QED
    BY <1>3, <2>1 DEF Closed
<1>b. base = <<>>
  OBVIOUS
<1> HIDE DEF g, n, A, base
<1>5. PICK h \in [SUBSET (1..n) -> A] : FoldsLeft(h, base, g, n, A)
  BY <1>1, <1>4, FoldLeftExists
<1>6. \E e : e = B(e)
  <2>1. \A t \in SUBSET (1..n) :
           h[t] = IF t = {} THEN <<>> ELSE InsertByQuality(a, h[t \ {Max(t)}], u[Max(t)])
    BY <1>b, <1>3, <1>5 DEF FoldsLeft
  <2>2. h = B(h)
    BY <1>1, <1>5, <2>1
  <2> QED
    BY <2>2
<1>7. F = B(F)
  <2> HIDE DEF B
  <2> QED
    BY <1>6
<1> HIDE DEF F
<1>8. Folding(F, base, g, n, A)
  <2>1. \A t \in SUBSET (1..n) :
           F[t] = IF t = {} THEN <<>> ELSE InsertByQuality(a, F[t \ {Max(t)}], u[Max(t)])
    BY <1>1, <1>7
  <2>2. ASSUME NEW t \in SUBSET (1..n), t # {}, F[t \ {Max(t)}] \in A
        PROVE  F[t] = g[<<Max(t), F[t \ {Max(t)}]>>]
    <3>1. Max(t) \in 1..n
      BY <1>5, <2>2 DEF FoldsLeft
    <3> QED
      BY <1>3, <2>1, <2>2, <3>1
  <2> QED
    BY <1>b, <2>1, <2>2 DEF Folding
<1>9. PICK f \in [0..n -> A] : /\ f[0] = base /\ f[n] = F[1..n]
                               /\ \A i \in 1..n : f[i] = g[<<i, f[i - 1]>>]
  BY <1>1, <1>4, <1>8, FoldSteps
<1>10. \A i \in 1..n : f[i] = InsertByQuality(a, f[i - 1], u[i])
  <2> TAKE i \in 1..n
  <2>1. f[i - 1] \in A
    BY <1>1
  <2> QED
    BY <1>3, <1>9, <2>1
<1> QED
  BY <1>1, <1>2, <1>9, <1>10, <1>b DEF n, A, SortedAlong

\* Before says that the sort has to keep c before d.
Before(a, u, m, c, d) ==
    \/ Quality(a, c) > Quality(a, d)
    \/ /\ Quality(a, c) = Quality(a, d)
       /\ \E i, j \in 1..m : i < j /\ u[i] = c /\ u[j] = d

\* s lists the first m elements of u, better ones first, equal ones in their order in u.
SortedUpTo(a, u, m, s) ==
    /\ \A i \in DOMAIN s : \E b \in 1..m : s[i] = u[b]
    /\ \A b \in 1..m : \E i \in DOMAIN s : s[i] = u[b]
    /\ \A i, j \in DOMAIN s : i < j => Before(a, u, m, s[i], s[j])

\* Sorting by quality keeps the elements and orders them by quality, then by their first
\* place in the list.
LEMMA SortedFacts ==
    ASSUME NEW a, \A c \in Coding : Quality(a, c) \in QualityValue, NEW u, u \in Seq(Coding)
    PROVE  Sorted(a, u) \in Seq(Coding) /\ SortedUpTo(a, u, Len(u), Sorted(a, u))
<1> DEFINE n == Len(u)
<1>0. \A w \in QualityValue : w \in Int
  BY DEF QualityValue, QualityMax
<1>1. n \in Nat /\ \A i \in 1..n : u[i] \in Coding
  OBVIOUS
<1>2. PICK f : SortedAlong(f, a, u)
  BY SortSteps
<1>3. /\ f \in [0..n -> Seq(Coding)] /\ f[0] = <<>> /\ f[n] = Sorted(a, u)
      /\ \A i \in 1..n : f[i] = InsertByQuality(a, f[i - 1], u[i])
  BY <1>2 DEF SortedAlong
<1> DEFINE T == {m \in 0..n : SortedUpTo(a, u, m, f[m])}
<1> HIDE DEF n
<1>4. 0 \in T
  <2>1. DOMAIN f[0] = {}
    BY <1>3
  <2> QED
    BY <1>1, <2>1 DEF SortedUpTo
<1>5. ASSUME NEW m \in 1..n, m - 1 \in T PROVE m \in T
  <2>1. /\ m \in 0..n /\ m - 1 \in 0..n /\ m \in 1..m /\ \A i \in 1..m : i = m \/ i \in 1..(m - 1)
        /\ \A i \in 1..(m - 1) : i \in 1..m /\ i < m
    BY <1>1
  <2> DEFINE s == f[m - 1]
             v == f[m]
             c == u[m]
  <2>2. s \in Seq(Coding) /\ SortedUpTo(a, u, m - 1, s) /\ c \in Coding
    BY <1>1, <1>3, <1>5, <2>1
  <2>3. v = InsertByQuality(a, s, c)
    BY <1>3
  <2> SUFFICES SortedUpTo(a, u, m, v)
    BY <2>1
  <2> HIDE DEF s, v, c, T
  <2>4. ASSUME NEW i \in DOMAIN s, NEW j \in DOMAIN s, i < j
        PROVE  Quality(a, s[i]) >= Quality(a, s[j]) /\ Before(a, u, m, s[i], s[j])
    <3>1. Before(a, u, m - 1, s[i], s[j])
      BY <2>2, <2>4 DEF SortedUpTo
    <3>2. s[i] \in Coding /\ s[j] \in Coding
      BY <2>2
    <3>3. Quality(a, s[i]) \in Int /\ Quality(a, s[j]) \in Int
      BY <1>0, <3>2
    <3>4. CASE Quality(a, s[i]) > Quality(a, s[j])
      BY <3>3, <3>4 DEF Before
    <3>5. CASE Quality(a, s[i]) = Quality(a, s[j]) /\ \E b, d \in 1..(m - 1) : b < d /\ u[b] = s[i] /\ u[d] = s[j]
      BY <2>1, <3>3, <3>5 DEF Before
    <3> QED
      BY <3>1, <3>4, <3>5 DEF Before
  <2>5. PICK k \in 0..Len(s) :
            /\ v \in Seq(Coding) /\ Len(v) = Len(s) + 1
            /\ \A i \in 1..k : v[i] = s[i] /\ Quality(a, s[i]) >= Quality(a, c)
            /\ v[k + 1] = c
            /\ \A i \in (k + 2)..(Len(s) + 1) :
                  v[i] = s[i - 1] /\ Quality(a, s[i - 1]) < Quality(a, c)
    <3> DEFINE w == InsertByQuality(a, s, c)
    <3>1. \A i, j \in DOMAIN s : i < j => Quality(a, s[i]) >= Quality(a, s[j])
      BY <2>4
    <3>2. \E h \in 0..Len(s) :
             /\ w \in Seq(Coding) /\ Len(w) = Len(s) + 1
             /\ \A i \in 1..h : w[i] = s[i] /\ Quality(a, s[i]) >= Quality(a, c)
             /\ w[h + 1] = c
             /\ \A i \in (h + 2)..(Len(s) + 1) :
                   w[i] = s[i - 1] /\ Quality(a, s[i - 1]) < Quality(a, c)
      BY <2>2, <3>1, InsertFacts
    <3> QED
      BY <2>3, <3>2
  <2> DEFINE l == Len(s)
  <2>6. /\ l \in Nat /\ k \in 0..l
        /\ (\A i : i \in DOMAIN s <=> i \in 1..l) /\ (\A i : i \in DOMAIN v <=> i \in 1..(l + 1))
        /\ \A i \in (k + 2)..(l + 1) : v[i] = s[i - 1] /\ Quality(a, s[i - 1]) < Quality(a, c)
    <3>1. l \in Nat /\ k \in 0..l
      BY <2>2
    <3>2. \A i : i \in DOMAIN s <=> i \in 1..l
      BY <2>2
    <3>3. \A i : i \in DOMAIN v <=> i \in 1..(l + 1)
      BY <2>2, <2>5
    <3> QED
      BY <2>5, <3>1, <3>2, <3>3
  <2> HIDE DEF l
  <2>7. /\ \A i \in DOMAIN v : i \in 1..k \/ i = k + 1 \/ i \in (k + 2)..(l + 1)
        /\ \A i \in 1..k : i \in DOMAIN s /\ i \in DOMAIN v
        /\ k + 1 \in DOMAIN v
        /\ \A i \in (k + 2)..(l + 1) : i - 1 \in DOMAIN s
        /\ \A i \in DOMAIN s : \/ i \in 1..k
                               \/ ((i + 1) \in (k + 2)..(l + 1) /\ (i + 1) - 1 = i /\ i + 1 \in DOMAIN v)
    <3>1. /\ \A i \in 1..(l + 1) : i \in 1..k \/ i = k + 1 \/ i \in (k + 2)..(l + 1)
          /\ \A i \in 1..k : i \in 1..l /\ i \in 1..(l + 1)
          /\ k + 1 \in 1..(l + 1)
          /\ \A i \in (k + 2)..(l + 1) : i - 1 \in 1..l
          /\ \A i \in 1..l : \/ i \in 1..k
                             \/ ((i + 1) \in (k + 2)..(l + 1) /\ (i + 1) - 1 = i /\ i + 1 \in 1..(l + 1))
      BY <2>6
    <3> QED
      BY <2>6, <3>1
  <2>8. ASSUME NEW i \in DOMAIN s PROVE \E b \in 1..(m - 1) : s[i] = u[b]
    BY <2>2 DEF SortedUpTo
  <2>9. ASSUME NEW i \in DOMAIN s PROVE \E j \in DOMAIN v : v[j] = s[i]
    <3>1. CASE i \in 1..k
      BY <2>5, <2>7, <3>1
    <3>2. CASE i + 1 \in (k + 2)..(l + 1) /\ (i + 1) - 1 = i /\ i + 1 \in DOMAIN v
      BY <2>6, <3>2
    <3> QED
      BY <2>7, <3>1, <3>2
  <2>10. \A i \in DOMAIN v : \E b \in 1..m : v[i] = u[b]
    <3> TAKE i \in DOMAIN v
    <3>1. CASE i \in 1..k
      <4>1. PICK b \in 1..(m - 1) : s[i] = u[b]
        BY <2>7, <2>8, <3>1
      <4> QED
        BY <2>1, <2>5, <3>1, <4>1
    <3>2. CASE i = k + 1
      BY <2>1, <2>5, <3>2 DEF c
    <3>3. CASE i \in (k + 2)..(l + 1)
      <4>1. PICK b \in 1..(m - 1) : s[i - 1] = u[b]
        BY <2>7, <2>8, <3>3
      <4> QED
        BY <2>1, <2>6, <3>3, <4>1
    <3> QED
      BY <2>7, <3>1, <3>2, <3>3
  <2>11. \A b \in 1..m : \E i \in DOMAIN v : v[i] = u[b]
    <3> TAKE b \in 1..m
    <3>1. CASE b = m
      BY <2>5, <2>7, <3>1 DEF c
    <3>2. CASE b \in 1..(m - 1)
      <4>1. PICK i \in DOMAIN s : s[i] = u[b]
        BY <2>2, <3>2 DEF SortedUpTo
      <4> QED
        BY <2>9, <4>1
    <3> QED
      BY <2>1, <3>1, <3>2
  <2>12. ASSUME NEW i \in DOMAIN v, NEW j \in DOMAIN v, i < j
         PROVE  Before(a, u, m, v[i], v[j])
    <3>1. CASE i \in 1..k /\ j \in 1..k
      BY <2>4, <2>5, <2>7, <2>12, <3>1
    <3>2. CASE i \in 1..k /\ j = k + 1
      <4>1. v[i] = s[i] /\ v[j] = c /\ Quality(a, s[i]) >= Quality(a, c) /\ i \in DOMAIN s
        BY <2>5, <2>7, <3>2
      <4>2. PICK b \in 1..(m - 1) : s[i] = u[b]
        BY <2>8, <4>1
      <4>3. \E x, y \in 1..m : x < y /\ u[x] = v[i] /\ u[y] = v[j]
        BY <2>1, <4>1, <4>2 DEF c
      <4>4. Quality(a, v[i]) \in Int /\ Quality(a, v[j]) \in Int
        BY <1>0, <2>2, <4>1
      <4>5. Quality(a, v[i]) >= Quality(a, v[j])
        BY <4>1
      <4> QED
        BY <4>3, <4>4, <4>5 DEF Before
    <3>3. CASE i \in 1..k /\ j \in (k + 2)..(l + 1)
      <4>1. /\ v[i] = s[i] /\ v[j] = s[j - 1] /\ i \in DOMAIN s /\ j - 1 \in DOMAIN s /\ i < j - 1
        BY <2>5, <2>6, <2>7, <3>3
      <4> QED
        BY <2>4, <4>1
    <3>4. CASE i = k + 1 /\ j \in (k + 2)..(l + 1)
      <4>1. v[i] = c /\ v[j] = s[j - 1] /\ Quality(a, s[j - 1]) < Quality(a, c) /\ j - 1 \in DOMAIN s
        BY <2>5, <2>6, <2>7, <3>4
      <4>2. Quality(a, c) \in Int /\ Quality(a, s[j - 1]) \in Int
        BY <1>0, <2>2, <4>1
      <4> QED
        BY <4>1, <4>2 DEF Before
    <3>5. CASE i \in (k + 2)..(l + 1) /\ j \in (k + 2)..(l + 1)
      <4>1. /\ v[i] = s[i - 1] /\ v[j] = s[j - 1] /\ i - 1 \in DOMAIN s /\ j - 1 \in DOMAIN s
            /\ i - 1 < j - 1
        <5>1. v[i] = s[i - 1] /\ v[j] = s[j - 1]
          BY <2>6, <3>5
        <5>2. i - 1 \in DOMAIN s /\ j - 1 \in DOMAIN s
          BY <2>7, <3>5
        <5>3. i \in Int /\ j \in Int
          BY <2>6, <3>5
        <5> QED
          BY <2>12, <5>1, <5>2, <5>3
      <4> QED
        BY <2>4, <4>1
    <3> QED
      BY <2>6, <2>7, <2>12, <3>1, <3>2, <3>3, <3>4, <3>5
  <2> QED
    BY <2>10, <2>11, <2>12 DEF SortedUpTo
<1>6. n \in T
  <2> HIDE DEF T
  <2> QED
    BY <1>1, <1>4, <1>5, UpTo
<1>7. SortedUpTo(a, u, n, Sorted(a, u)) /\ Sorted(a, u) \in Seq(Coding)
  BY <1>1, <1>3, <1>6
<1> QED
  BY <1>7 DEF n

\* c stands before d in a server's order.
FirstIn(p, c, d) == \E i, j \in DOMAIN p : i < j /\ p[i] = c /\ p[j] = d

\* The client's preference, with the server's order among equals.
Ahead(a, p, c, d) ==
    \/ Quality(a, c) > Quality(a, d)
    \/ Quality(a, c) = Quality(a, d) /\ FirstIn(p, c, d)

\* Negotiation takes the one available coding no other is ahead of, unless all are refused.
LEMMA NegotiateFacts ==
    ASSUME NEW a, \A c \in Coding : Quality(a, c) \in QualityValue,
           NEW p, IsOrder(p), NEW available, available \subseteq Coding
    PROVE  LET selected == NegotiateAvailable(a, p, available)
           IN  \/ selected = "NotAcceptable" /\ \A c \in available : Quality(a, c) = 0
               \/ /\ selected \in available /\ Quality(a, selected) > 0
                  /\ \A d \in available : d # selected => Ahead(a, p, selected, d)
<1> DEFINE u == Only(p, available)
<1>1. /\ p \in Seq(Coding) /\ IsInjective(p) /\ \A c \in Coding : \E i \in DOMAIN p : p[i] = c
  BY DEF IsOrder
<1>2. /\ u \in Seq(Coding)
      /\ \A i \in DOMAIN u : u[i] \in available
      /\ \A i \in DOMAIN p : p[i] \in available => \E k \in DOMAIN u : u[k] = p[i]
      /\ \A i, j \in DOMAIN u : i < j =>
            \E x, y \in DOMAIN p : x < y /\ p[x] = u[i] /\ p[y] = u[j]
  BY <1>1, OnlyFacts
<1>3. NegotiateAvailable(a, p, available) = Chosen(a, u)
  BY DEF NegotiateAvailable, Chosen
<1> HIDE DEF u
<1>4. \A c \in available : \E k \in DOMAIN u : u[k] = c
  <2> TAKE c \in available
  <2>1. PICK i \in DOMAIN p : p[i] = c
    BY <1>1
  <2> QED
    BY <1>2, <2>1
<1>5. \/ Chosen(a, u) = "NotAcceptable" /\ \A i \in DOMAIN u : Quality(a, u[i]) = 0
      \/ \E k \in DOMAIN u :
            /\ Chosen(a, u) = u[k] /\ Quality(a, u[k]) > 0
            /\ \A i \in DOMAIN u : /\ Quality(a, u[i]) <= Quality(a, u[k])
                                   /\ i < k => Quality(a, u[i]) < Quality(a, u[k])
  BY <1>2, ChosenFacts
<1>6. \A w \in QualityValue : w \in Int
  BY DEF QualityValue, QualityMax
<1>7. CASE Chosen(a, u) = "NotAcceptable" /\ \A i \in DOMAIN u : Quality(a, u[i]) = 0
  <2>1. \A c \in available : Quality(a, c) = 0
    BY <1>4, <1>7
  <2> QED
    BY <1>3, <1>7, <2>1
<1>8. ASSUME NEW k \in DOMAIN u,
             Chosen(a, u) = u[k], Quality(a, u[k]) > 0,
             \A i \in DOMAIN u : /\ Quality(a, u[i]) <= Quality(a, u[k])
                                 /\ i < k => Quality(a, u[i]) < Quality(a, u[k])
      PROVE  /\ Chosen(a, u) \in available /\ Quality(a, Chosen(a, u)) > 0
             /\ \A d \in available : d # Chosen(a, u) => Ahead(a, p, Chosen(a, u), d)
  <2> DEFINE s == Chosen(a, u)
  <2> HIDE DEF s
  <2>1. ASSUME NEW d \in available, d # u[k] PROVE Ahead(a, p, u[k], d)
    <3>1. PICK i \in DOMAIN u : u[i] = d
      BY <1>4
    <3>2. Quality(a, u[i]) \in Int /\ Quality(a, u[k]) \in Int
      <4>1. u[i] \in Coding /\ u[k] \in Coding
        BY <1>2
      <4> QED
        BY <1>6, <4>1
    <3>3. i \in Int /\ k \in Int /\ i # k
      BY <1>2, <2>1, <3>1
    <3>4. CASE i < k
      <4>1. Quality(a, u[i]) < Quality(a, u[k])
        BY <1>8, <3>4
      <4> QED
        BY <3>1, <3>2, <4>1 DEF Ahead
    <3>5. CASE k < i
      <4>1. FirstIn(p, u[k], u[i])
        BY <1>2, <3>5 DEF FirstIn
      <4>2. Quality(a, u[i]) <= Quality(a, u[k])
        BY <1>8
      <4> QED
        BY <3>1, <3>2, <4>1, <4>2 DEF Ahead
    <3> QED
      BY <3>3, <3>4, <3>5
  <2> QED
    BY <1>2, <1>8, <2>1
<1> QED
  BY <1>3, <1>5, <1>7, <1>8

\* The handler probes every sidecar there may be once, better ones first where it negotiates.
LEMMA StaticCandidatesFacts ==
    ASSUME NEW a, \A c \in Coding : Quality(a, c) \in QualityValue,
           NEW p, IsOrder(p), NEW mode
    PROVE  LET s == StaticCandidates(mode, a, p)
           IN  /\ s \in Seq(SidecarCoding) /\ IsInjective(s) /\ ToSet(s) = SidecarCoding
               /\ mode = "on" => \A i, j \in DOMAIN s : i < j => Ahead(a, p, s[i], s[j])
<1> DEFINE u == Only(p, SidecarCoding)
           n == Len(u)
           s == Sorted(a, u)
<1>0. SidecarCoding \subseteq Coding
  BY DEF SidecarCoding, Coding
<1>1. /\ p \in Seq(Coding) /\ IsInjective(p) /\ \A c \in Coding : \E i \in DOMAIN p : p[i] = c
  BY DEF IsOrder
<1>2. /\ u \in Seq(Coding)
      /\ \A i \in DOMAIN u : u[i] \in SidecarCoding
      /\ \A i \in DOMAIN p : p[i] \in SidecarCoding => \E k \in DOMAIN u : u[k] = p[i]
      /\ \A i, j \in DOMAIN u : i < j =>
            \E x, y \in DOMAIN p : x < y /\ p[x] = u[i] /\ p[y] = u[j]
  BY <1>1, OnlyFacts
<1>3. StaticCandidates(mode, a, p) = IF mode = "on" THEN s ELSE u
  BY DEF StaticCandidates, Sorted
<1> HIDE DEF u, s
<1>4. \A c \in SidecarCoding : \E k \in DOMAIN u : u[k] = c
  <2> TAKE c \in SidecarCoding
  <2>1. PICK i \in DOMAIN p : p[i] = c
    BY <1>0, <1>1
  <2> QED
    BY <1>2, <2>1
<1>5. n \in Nat /\ \A i : i \in DOMAIN u <=> i \in 1..n
  BY <1>2
<1> HIDE DEF n
<1>6. ASSUME NEW i \in DOMAIN u, NEW j \in DOMAIN u, i < j
      PROVE  FirstIn(p, u[i], u[j]) /\ u[i] # u[j]
  <2>1. PICK x \in DOMAIN p, y \in DOMAIN p : x < y /\ p[x] = u[i] /\ p[y] = u[j]
    BY <1>2, <1>6
  <2>2. x \in Int /\ y \in Int
    BY <1>1
  <2>3. p[x] # p[y]
    BY <1>1, <2>1, <2>2 DEF IsInjective
  <2> QED
    BY <2>1, <2>3 DEF FirstIn
<1>7. CASE mode # "on"
  <2>1. IsInjective(u)
    BY <1>5, <1>6 DEF IsInjective
  <2>2. u \in Seq(SidecarCoding)
    BY <1>2
  <2>3. ToSet(u) = SidecarCoding
    BY <1>2, <1>4 DEF ToSet
  <2> QED
    BY <1>3, <1>7, <2>1, <2>2, <2>3
<1>8. CASE mode = "on"
  <2>1. s \in Seq(Coding) /\ SortedUpTo(a, u, n, s)
    BY <1>2, SortedFacts DEF s, n
  <2>2. /\ \A i \in DOMAIN s : \E b \in 1..n : s[i] = u[b]
        /\ \A b \in 1..n : \E i \in DOMAIN s : s[i] = u[b]
        /\ \A i, j \in DOMAIN s : i < j => Before(a, u, n, s[i], s[j])
    BY <2>1 DEF SortedUpTo
  <2>3. \A i \in DOMAIN s : s[i] \in SidecarCoding
    BY <1>2, <1>5, <2>2
  <2>4. \A c \in SidecarCoding : \E i \in DOMAIN s : s[i] = c
    <3> TAKE c \in SidecarCoding
    <3>1. PICK k \in DOMAIN u : u[k] = c
      BY <1>4
    <3> QED
      BY <1>5, <2>2, <3>1
  <2>5. s \in Seq(SidecarCoding)
    BY <2>1, <2>3
  <2>6. ToSet(s) = SidecarCoding
    BY <2>3, <2>4 DEF ToSet
  <2>7. ASSUME NEW i \in DOMAIN s, NEW j \in DOMAIN s, i < j
        PROVE  Ahead(a, p, s[i], s[j]) /\ s[i] # s[j]
    <3>1. Before(a, u, n, s[i], s[j])
      BY <2>2, <2>7
    <3>2. Quality(a, s[i]) \in Int /\ Quality(a, s[j]) \in Int
      <4>1. \A w \in QualityValue : w \in Int
        BY DEF QualityValue, QualityMax
      <4> QED
        BY <1>0, <2>3, <4>1
    <3>3. CASE Quality(a, s[i]) > Quality(a, s[j])
      BY <3>2, <3>3 DEF Ahead
    <3>4. ASSUME Quality(a, s[i]) = Quality(a, s[j]),
                 NEW x \in 1..n, NEW y \in 1..n, x < y, u[x] = s[i], u[y] = s[j]
          PROVE  Ahead(a, p, s[i], s[j]) /\ s[i] # s[j]
      <4>1. FirstIn(p, u[x], u[y]) /\ u[x] # u[y]
        BY <1>5, <1>6, <3>4
      <4> QED
        BY <3>4, <4>1 DEF Ahead
    <3> QED
      BY <3>1, <3>3, <3>4 DEF Before
  <2>8. IsInjective(s)
    <3>1. \A i, j \in DOMAIN s : i # j => i < j \/ j < i
      BY <2>1
    <3> QED
      BY <2>7, <3>1 DEF IsInjective
  <2> QED
    BY <1>3, <1>8, <2>5, <2>6, <2>7, <2>8
<1> QED
  BY <1>7, <1>8

-----------------------------------------------------------------------------
\* The variables hold what they should: TypeOK, with the shape of the records.
Shape ==
    /\ config \in [Request -> Configs]
    /\ header \in Headers
    /\ pc \in [Request -> Line]
    /\ candidates \in [Request -> Seq(SidecarCoding)]
    /\ found \in [Request -> SUBSET SidecarCoding]
    /\ missing \in [Request -> SUBSET SidecarCoding]
    /\ sidecar \in [Request -> SidecarCoding \cup {Nothing}]
    /\ refused \in [Request -> {"static", "runtime", Nothing}]
    /\ response \in [Request -> Header]
    /\ body \in [Request -> Seq(ContentCoding)]
    /\ context \in [Request -> ContentCoding \cup {Nothing}]
    /\ builtin \in BOOLEAN
    /\ included \in BOOLEAN

\* A list of one coding.
LEMMA OneCoding ==
    ASSUME NEW S, NEW c \in S
    PROVE  Append(<<>>, c) = <<c>> /\ Len(<<c>>) = 1 /\ <<c>> # <<>>
<1>1. Len(<<c>>) = 1
  OBVIOUS
<1>2. <<c>> # <<>>
  OBVIOUS
<1>3. Append(<<>>, c) = <<c>>
  OBVIOUS
<1> QED
  BY <1>1, <1>2, <1>3

\* Nothing added to a list of codings.
LEMMA EmptyJoin ==
    ASSUME NEW S, NEW s \in Seq(S)
    PROVE  <<>> \o s = s /\ s \o <<>> = s
<1>1. <<>> \o s = s
  OBVIOUS
<1>2. s \o <<>> = s
  OBVIOUS
<1> QED
  BY <1>1, <1>2

\* The codings of a body, of a context on top of it and of NGINX's gzip on top of that.
Composed(b, k, g) ==
    b \o ((IF k = Nothing THEN <<>> ELSE <<k>>) \o (IF g THEN <<"gzip">> ELSE <<>>))

\* Which codings the bytes have.
LEMMA ComposedFacts ==
    ASSUME NEW b \in Seq(ContentCoding), NEW k \in ContentCoding \cup {Nothing}, NEW g \in BOOLEAN
    PROVE  /\ k = Nothing /\ ~g => Composed(b, k, g) = b
           /\ k = Nothing /\ g /\ b = <<>> => Composed(b, k, g) = <<"gzip">>
           /\ k # Nothing /\ ~g /\ b = <<>> => Composed(b, k, g) = <<k>>
<1>1. "gzip" \in ContentCoding
  BY DEF ContentCoding, Coding
<1>2. <<>> \in Seq(ContentCoding) /\ <<"gzip">> \in Seq(ContentCoding)
  BY <1>1
<1>3. k # Nothing => <<k>> \in Seq(ContentCoding)
  OBVIOUS
<1>4. CASE k = Nothing /\ ~g
  <2>1. Composed(b, k, g) = b \o (<<>> \o <<>>)
    BY <1>4 DEF Composed
  <2> QED
    BY <1>2, <1>4, <2>1, EmptyJoin
<1>5. CASE k = Nothing /\ g
  <2>1. Composed(b, k, g) = b \o (<<>> \o <<"gzip">>)
    BY <1>5 DEF Composed
  <2> QED
    BY <1>2, <1>5, <2>1, EmptyJoin
<1>6. CASE k # Nothing /\ ~g
  <2>1. Composed(b, k, g) = b \o (<<k>> \o <<>>)
    BY <1>6 DEF Composed
  <2> QED
    BY <1>3, <1>6, <2>1, EmptyJoin
<1>7. CASE k # Nothing /\ g
  BY <1>7
<1> QED
  BY <1>4, <1>5, <1>6, <1>7

\* A location's order, and the codings a client has weighed.
LEMMA OrderFacts ==
    ASSUME Shape, NEW r \in Request
    PROVE  /\ config[r] \in Configs /\ header \in Headers
           /\ DOMAIN config[r].codecs \subseteq ContentCoding
           /\ IsOrder(config[r].priority)
           /\ \A c \in Coding : Quality(accept, c) = ClientWeight(c)
           /\ \A c \in Coding : Quality(accept, c) \in QualityValue
<1>1. config[r] \in Configs /\ header \in Headers
  BY DEF Shape
<1>2. DOMAIN config[r].codecs \subseteq ContentCoding
  BY <1>1, NegotiationAssumption
<1>3. PICK profile \in {"custom", "fast", "balanced"}, explicit \in PriorityPrefix \cup {<<>>} :
         config[r].priority = ResolvePriority(profile, explicit)
  BY <1>1, NegotiationAssumption
<1>4. RuntimeCoding = ContentCoding
  BY DEF RuntimeCoding, ContentCoding, Coding
<1>5. explicit \in Seq(ContentCoding)
  <2>1. CASE explicit = <<>>
    BY <2>1
  <2>2. CASE explicit \in PriorityPrefix
    <3>1. PICK n \in 1..4 : explicit \in [1..n -> ContentCoding]
      BY <1>4, <2>2 DEF PriorityPrefix
    <3> QED
      BY <3>1
  <2> QED
    BY <1>3, <2>1, <2>2
<1>6. IsOrder(config[r].priority)
  BY <1>3, <1>5, ResolvePriorityFacts
<1> QED
  BY <1>1, <1>2, <1>6, QualityIsWeight

\* What the location negotiates.
LEMMA NegotiatedFacts ==
    ASSUME Shape, NEW r \in Request
    PROVE  \/ /\ Negotiated(r) = "NotAcceptable"
              /\ \A c \in DOMAIN config[r].codecs \cup {"identity"} : Quality(accept, c) = 0
           \/ /\ Negotiated(r) \in DOMAIN config[r].codecs \cup {"identity"}
              /\ Quality(accept, Negotiated(r)) > 0
              /\ \A d \in DOMAIN config[r].codecs \cup {"identity"} :
                    d # Negotiated(r) => Ahead(accept, config[r].priority, Negotiated(r), d)
<1> DEFINE available == {c \in Coding : Available(r, c)}
           p == config[r].priority
<1>1. /\ DOMAIN config[r].codecs \subseteq ContentCoding /\ IsOrder(p)
      /\ \A c \in Coding : Quality(accept, c) \in QualityValue
  BY OrderFacts
<1>2. \A c : c \in available <=> c \in DOMAIN config[r].codecs \cup {"identity"}
  BY <1>1 DEF Available, ContentCoding, Coding
<1>3. available \subseteq Coding /\ Negotiated(r) = NegotiateAvailable(accept, p, available)
  BY DEF Negotiated
<1> HIDE DEF available, p
<1>4. \/ Negotiated(r) = "NotAcceptable" /\ \A c \in available : Quality(accept, c) = 0
      \/ /\ Negotiated(r) \in available /\ Quality(accept, Negotiated(r)) > 0
         /\ \A d \in available : d # Negotiated(r) => Ahead(accept, p, Negotiated(r), d)
  BY <1>1, <1>3, NegotiateFacts
<1> QED
  BY <1>2, <1>4 DEF p

\* A location as the header filter sees it.
LEMMA LocationFacts ==
    ASSUME Shape, NEW r \in Request
    PROVE  /\ config[r] \in Configs
           /\ config[r].vary \in BOOLEAN /\ config[r].enabled \in BOOLEAN /\ config[r].builtin_gzip \in BOOLEAN
           /\ DOMAIN config[r].codecs \subseteq ContentCoding
           /\ Negotiated(r) \in DOMAIN config[r].codecs \cup {"identity", "NotAcceptable"}
           /\ StaticCandidates(config[r].static_mode, accept, config[r].priority) \in Seq(SidecarCoding)
           /\ IsInjective(StaticCandidates(config[r].static_mode, accept, config[r].priority))
<1>1. /\ config[r] \in Configs /\ DOMAIN config[r].codecs \subseteq ContentCoding
      /\ IsOrder(config[r].priority)
      /\ \A c \in Coding : Quality(accept, c) \in QualityValue
  BY OrderFacts
<1>2. {config[r].enabled, config[r].vary, config[r].builtin_gzip} \subseteq BOOLEAN
  BY <1>1, NegotiationAssumption
<1>3. /\ StaticCandidates(config[r].static_mode, accept, config[r].priority) \in Seq(SidecarCoding)
      /\ IsInjective(StaticCandidates(config[r].static_mode, accept, config[r].priority))
  BY <1>1, StaticCandidatesFacts
<1>4. Negotiated(r) \in DOMAIN config[r].codecs \cup {"identity", "NotAcceptable"}
  BY NegotiatedFacts
<1> QED
  BY <1>1, <1>2, <1>3, <1>4


\* Headers with another status.
LEMMA HeaderFacts ==
    ASSUME NEW h \in Header
    PROVE  /\ h.status \in {0, 200, 404, 406, 500} /\ h.encodings \in Seq(ContentCoding)
           /\ h.recorded \in BOOLEAN /\ h.vary \in BOOLEAN /\ h.cleared \in BOOLEAN
           /\ \A s \in {0, 200, 404, 406, 500} :
                /\ [h EXCEPT !.status = s] \in Header
                /\ [h EXCEPT !.status = s].status = s
                /\ [h EXCEPT !.status = s].encodings = h.encodings
                /\ [h EXCEPT !.status = s].recorded = h.recorded
                /\ [h EXCEPT !.status = s].vary = h.vary
                /\ [h EXCEPT !.status = s].cleared = h.cleared
BY DEF Header

\* Where the header filter encodes, the location compresses and NGINX's gzip is off.
LEMMA EncodesFacts ==
    ASSUME Shape, NEW r \in Request, Encodes(r)
    PROVE  /\ r = "main"
           /\ config[r].enabled /\ ~config[r].builtin_gzip
           /\ response[r].status = 200 /\ ~response[r].recorded
           /\ Negotiated(r) \in DOMAIN config[r].codecs /\ Negotiated(r) \in ContentCoding
           /\ Negotiated(r) # Nothing
<1>1. /\ Considers(r) /\ Negotiated(r) \notin {"identity", "NotAcceptable"}
  BY DEF Encodes
<1>2. /\ config[r].enabled /\ ~(config[r].enabled /\ config[r].builtin_gzip)
      /\ r = "main" /\ response[r].status = 200 /\ ~response[r].recorded
  BY <1>1 DEF Considers, Disabled, Eligible
<1>3. /\ Negotiated(r) \in DOMAIN config[r].codecs /\ Negotiated(r) \in ContentCoding
  BY <1>1, LocationFacts
<1>4. Nothing \notin ContentCoding
  BY DEF Nothing, ContentCoding, Coding
<1> QED
  BY <1>2, <1>3, <1>4

\* What the next header filters make of the headers.
LEMMA DownstreamFacts ==
    ASSUME Shape, NEW r \in Request, NEW h \in Header, Downstream(r, h)
    PROVE  /\ pc' \in [Request -> Line]
           /\ \A q \in Request \ {r} : pc'[q] = pc[q] /\ response'[q] = response[q]
           /\ pc'[r] \in {IF r = "main" THEN "body" ELSE "done", "closed"}
           /\ response' \in [Request -> Header]
           /\ builtin' = (builtin \/ BuiltinGzips(r, h))
           /\ IF BuiltinGzips(r, h)
              THEN response'[r].encodings = Append(h.encodings, "gzip") /\ response'[r].recorded
              ELSE response'[r].encodings = h.encodings /\ response'[r].recorded = h.recorded
           /\ response'[r].status = h.status /\ response'[r].vary = h.vary /\ response'[r].cleared = h.cleared
<1> DEFINE g == [h EXCEPT !.encodings = Append(@, "gzip"), !.recorded = TRUE]
           s == IF BuiltinGzips(r, h) THEN g ELSE h
<1>0. Append(h.encodings, "gzip") \in Seq(ContentCoding)
  <2>1. "gzip" \in ContentCoding
    BY DEF ContentCoding, Coding
  <2> QED
    BY <2>1 DEF Header
<1>1. /\ g \in Header
      /\ g.encodings = Append(h.encodings, "gzip") /\ g.recorded = TRUE
      /\ g.status = h.status /\ g.vary = h.vary /\ g.cleared = h.cleared
  BY <1>0, ZenonT(60) DEF Header
<1>2. /\ response' = [response EXCEPT ![r] = s]
      /\ builtin' = (builtin \/ BuiltinGzips(r, h))
      /\ \E next \in {IF r = "main" THEN "body" ELSE "done", "closed"} : pc' = [pc EXCEPT ![r] = next]
  BY DEF Downstream, Goto
<1>3. s \in Header
  BY <1>1
<1>4. response \in [Request -> Header] /\ pc \in [Request -> Line]
  BY DEF Shape
<1> HIDE DEF s
<1>5. response' \in [Request -> Header] /\ response'[r] = s
      /\ \A q \in Request \ {r} : response'[q] = response[q]
  BY <1>2, <1>3, <1>4
<1>6. /\ pc' \in [Request -> Line] /\ pc'[r] \in {IF r = "main" THEN "body" ELSE "done", "closed"}
      /\ \A q \in Request \ {r} : pc'[q] = pc[q]
  BY <1>2, <1>4 DEF Line
<1> QED
  BY <1>1, <1>2, <1>5, <1>6 DEF s

\* A header with a coding added to it.
Encoded(h, list, n) == [h EXCEPT !.encodings = list, !.length = n, !.cleared = TRUE]

\* It is a header, and what the other fields are.
LEMMA EncodedHeader ==
    ASSUME NEW h \in Header, NEW list \in Seq(ContentCoding), NEW n \in Int
    PROVE  /\ Encoded(h, list, n) \in Header
           /\ Encoded(h, list, n).encodings = list /\ Encoded(h, list, n).recorded = h.recorded
           /\ Encoded(h, list, n).status = h.status /\ Encoded(h, list, n).cleared
           /\ Encoded(h, list, n).vary = h.vary
<1> DEFINE g == Encoded(h, list, n)
<1>1. g \in Header
  BY ZenonT(60) DEF Header, Encoded
<1>2. g.encodings = list /\ g.recorded = h.recorded /\ g.status = h.status
  BY DEF Header, Encoded
<1>3. g.cleared = TRUE /\ g.vary = h.vary
  BY DEF Header, Encoded
<1> QED
  BY <1>1, <1>2, <1>3

Typed(h, type, n) == [h EXCEPT !.type = type, !.length = n]

\* Headers with another type and length.
LEMMA TypedHeader ==
    ASSUME NEW h \in Header, NEW type \in ContentType, NEW n \in Int
    PROVE  Typed(h, type, n) \in Header
BY ZenonT(60) DEF Header, Typed

\* The headers the module itself prepares.
LEMMA PreparedFacts ==
    ASSUME Shape, NEW r \in Request, Encodes(r)
    PROVE  /\ WithVary(r) \in Header
           /\ WithVary(r).encodings = response[r].encodings /\ WithVary(r).recorded = response[r].recorded
           /\ WithVary(r).status = response[r].status /\ WithVary(r).cleared = response[r].cleared
           /\ WithVary(r).vary = (response[r].vary \/ config[r].vary)
           /\ Prepared(r) \in Header
           /\ Prepared(r).encodings = Append(response[r].encodings, Negotiated(r))
           /\ Prepared(r).recorded = response[r].recorded
           /\ Prepared(r).status = response[r].status /\ Prepared(r).cleared
           /\ Prepared(r).vary = (response[r].vary \/ config[r].vary)
<1>1. response[r] \in Header /\ config[r].vary \in BOOLEAN
  BY LocationFacts DEF Shape
<1>2. Negotiated(r) \in ContentCoding
  BY EncodesFacts
<1>3. (response[r].vary \/ config[r].vary) \in BOOLEAN
  BY <1>1 DEF Header
<1>4. WithVary(r) = [response[r] EXCEPT !.vary = response[r].vary \/ config[r].vary]
  BY DEF WithVary
<1> DEFINE w == WithVary(r)
<1>5. /\ w \in Header
      /\ w.encodings = response[r].encodings /\ w.recorded = response[r].recorded
      /\ w.status = response[r].status /\ w.cleared = response[r].cleared
      /\ w.vary = (response[r].vary \/ config[r].vary)
  BY <1>1, <1>3, <1>4 DEF Header
<1>6. Prepared(r) = [w EXCEPT !.encodings = Append(w.encodings, Negotiated(r)), !.length = -1, !.cleared = TRUE]
  BY DEF Prepared
<1> HIDE DEF w
<1>7. Append(w.encodings, Negotiated(r)) \in Seq(ContentCoding)
  <2>1. w.encodings \in Seq(ContentCoding)
    BY <1>5 DEF Header
  <2> QED
    BY <1>2, <2>1
<1> DEFINE list == Append(w.encodings, Negotiated(r))
<1>8. list \in Seq(ContentCoding) /\ -1 \in Int /\ w \in Header
  BY <1>5, <1>7
<1>9. Prepared(r) = Encoded(w, list, -1)
  BY <1>6 DEF Encoded
<1> HIDE DEF list
<1>10. /\ Prepared(r) \in Header
       /\ Prepared(r).encodings = list /\ Prepared(r).recorded = w.recorded
       /\ Prepared(r).status = w.status /\ Prepared(r).cleared /\ Prepared(r).vary = w.vary
  BY <1>8, <1>9, EncodedHeader
<1> QED
  BY <1>5, <1>10 DEF w, list

-----------------------------------------------------------------------------
\* What a step leaves alone at request q.
Keeps(q) ==
    /\ pc'[q] = pc[q] /\ candidates'[q] = candidates[q]
    /\ found'[q] = found[q] /\ missing'[q] = missing[q]
    /\ sidecar'[q] = sidecar[q] /\ refused'[q] = refused[q]
    /\ response'[q] = response[q] /\ body'[q] = body[q] /\ context'[q] = context[q]

\* A step of request r: the variables keep their shape and the other request its state.
Frame(r) ==
    /\ Shape'
    /\ config' = config /\ header' = header
    /\ \A q \in Request \ {r} : Keeps(q)

SameHead(r) ==
    /\ response'[r].encodings = response[r].encodings /\ response'[r].recorded = response[r].recorded
    /\ response'[r].status = response[r].status /\ response'[r].cleared = response[r].cleared

\* What each action does to the request it is a step of.  The handler declines.
LEMMA DeclineFacts ==
    ASSUME Shape, NEW r \in Request, NEW servable \in BOOLEAN, Decline(r, servable)
    PROVE  /\ Frame(r)
           /\ pc[r] = "content" /\ pc'[r] = "upstream"
           /\ UNCHANGED <<candidates, found, missing, sidecar, refused, response, body, context,
                          builtin, included>>
<1>1. /\ pc' = [pc EXCEPT ![r] = "upstream"] /\ pc[r] = "content"
      /\ UNCHANGED <<config, header, candidates, found, missing, sidecar, refused, response, body,
                     context, builtin, included>>
  BY DEF Decline, Goto, unchangedByHandler
<1>2. /\ pc' \in [Request -> Line] /\ pc'[r] = "upstream"
      /\ \A q \in Request \ {r} : pc'[q] = pc[q]
  BY <1>1 DEF Shape, Line
<1>3. Shape'
  BY <1>1, <1>2 DEF Shape
<1> QED
  BY <1>1, <1>2, <1>3 DEF Frame, Keeps

\* The handler has its candidates.
LEMMA StartProbingFacts ==
    ASSUME Shape, NEW r \in Request, NEW servable \in BOOLEAN, StartProbing(r, servable)
    PROVE  /\ Frame(r)
           /\ pc[r] = "content" /\ pc'[r] = "probing"
           /\ candidates'[r] \in Seq(SidecarCoding) /\ IsInjective(candidates'[r])
           /\ UNCHANGED <<found, missing, sidecar, refused, response, body, context,
                          builtin, included>>
<1> DEFINE chain == StaticCandidates(config[r].static_mode, accept, config[r].priority)
<1>1. chain \in Seq(SidecarCoding) /\ IsInjective(chain)
  BY LocationFacts
<1> HIDE DEF chain
<1>2. /\ pc' = [pc EXCEPT ![r] = "probing"] /\ pc[r] = "content"
      /\ candidates' = [candidates EXCEPT ![r] = chain]
      /\ UNCHANGED <<config, header, found, missing, sidecar, refused, response, body,
                     context, builtin, included>>
  BY DEF StartProbing, Goto, unchangedByHandler, chain
<1>3. /\ pc' \in [Request -> Line] /\ pc'[r] = "probing"
      /\ \A q \in Request \ {r} : pc'[q] = pc[q]
  BY <1>2 DEF Shape, Line
<1>4. /\ candidates' \in [Request -> Seq(SidecarCoding)] /\ candidates'[r] = chain
      /\ \A q \in Request \ {r} : candidates'[q] = candidates[q]
  BY <1>1, <1>2 DEF Shape
<1>5. Shape'
  BY <1>2, <1>3, <1>4 DEF Shape
<1> QED
  BY <1>1, <1>2, <1>3, <1>4, <1>5 DEF Frame, Keeps

\* Another handler answers.
LEMMA OriginalFacts ==
    ASSUME Shape, NEW r \in Request, Original(r)
    PROVE  /\ Frame(r)
           /\ pc[r] = "upstream" /\ pc'[r] = "header"
           /\ body'[r] = response'[r].encodings /\ Len(response'[r].encodings) <= 1
           /\ response'[r].recorded <=> response'[r].encodings # <<>>
           /\ ~response'[r].cleared /\ response'[r].vary = response[r].vary
           /\ r = "sub" => body'[r] = <<>>
           /\ UNCHANGED <<candidates, found, missing, sidecar, refused, context, builtin, included>>
<1>1. PICK answer \in Responses :
         /\ r = "sub" => answer.encodings = <<>>
         /\ response' = [response EXCEPT ![r] = [answer EXCEPT !.vary = response[r].vary]]
         /\ body' = [body EXCEPT ![r] = answer.encodings]
  BY DEF Original
<1>2. /\ answer \in Header /\ Len(answer.encodings) <= 1 /\ ~answer.cleared
      /\ answer.recorded <=> answer.encodings # <<>>
  BY ResponseAssumption
<1>3. /\ pc' = [pc EXCEPT ![r] = "header"] /\ pc[r] = "upstream"
      /\ UNCHANGED <<config, header, candidates, found, missing, sidecar, refused, context,
                     builtin, included>>
  BY DEF Original, Goto, unchangedAround
<1> DEFINE h == [answer EXCEPT !.vary = response[r].vary]
<1>4. response[r].vary \in BOOLEAN
  BY HeaderFacts, ZenonT(60) DEF Shape
<1>5. /\ h \in Header /\ h.encodings = answer.encodings /\ h.recorded = answer.recorded
      /\ h.cleared = answer.cleared /\ h.vary = response[r].vary
  BY <1>2, <1>4 DEF Header
<1>6. response' = [response EXCEPT ![r] = h]
  BY <1>1
<1> HIDE DEF h
<1>7. /\ pc' \in [Request -> Line] /\ pc'[r] = "header"
      /\ \A q \in Request \ {r} : pc'[q] = pc[q]
  BY <1>3 DEF Shape, Line
<1>8. /\ response' \in [Request -> Header] /\ response'[r] = h
      /\ \A q \in Request \ {r} : response'[q] = response[q]
  BY <1>5, <1>6 DEF Shape
<1>9. answer.encodings \in Seq(ContentCoding)
  BY <1>2 DEF Header
<1>10. /\ body' \in [Request -> Seq(ContentCoding)] /\ body'[r] = answer.encodings
       /\ \A q \in Request \ {r} : body'[q] = body[q]
  BY <1>1, <1>9 DEF Shape
<1>11. Shape'
  BY <1>3, <1>7, <1>8, <1>10 DEF Shape
<1>12. Frame(r)
  BY <1>3, <1>7, <1>8, <1>10, <1>11 DEF Frame, Keeps
<1> QED
  BY <1>1, <1>2, <1>3, <1>5, <1>7, <1>8, <1>10, <1>12

\* An error page replaces the response.
LEMMA SpecialResponseFacts ==
    ASSUME Shape, NEW r \in Request, SpecialResponse(r)
    PROVE  /\ Frame(r)
           /\ pc[r] = "error" /\ pc'[r] = "header"
           /\ SameHead(r) /\ response'[r].vary = response[r].vary /\ body'[r] = <<>>
           /\ UNCHANGED <<candidates, found, missing, sidecar, refused, context, builtin, included>>
<1> DEFINE h == [response[r] EXCEPT !.type = "text/html", !.length = 150]
<1>1. /\ pc' = [pc EXCEPT ![r] = "header"] /\ pc[r] = "error"
      /\ response' = [response EXCEPT ![r] = h]
      /\ body' = [body EXCEPT ![r] = <<>>]
      /\ UNCHANGED <<config, header, candidates, found, missing, sidecar, refused, context,
                     builtin, included>>
  BY DEF SpecialResponse, Goto, unchangedAround
<1>2. response[r] \in Header
  BY DEF Shape
<1>3. /\ h.encodings = response[r].encodings /\ h.recorded = response[r].recorded
      /\ h.status = response[r].status /\ h.cleared = response[r].cleared
      /\ h.vary = response[r].vary
  BY <1>2 DEF Header
<1>4. h \in Header
  <2>1. "text/html" \in ContentType
    BY DEF ContentType, BuiltinTypes
  <2>2. h = Typed(response[r], "text/html", 150)
    BY DEF Typed
  <2> QED
    BY <1>2, <2>1, <2>2, TypedHeader
<1> HIDE DEF h
<1>5. /\ pc' \in [Request -> Line] /\ pc'[r] = "header"
      /\ \A q \in Request \ {r} : pc'[q] = pc[q]
  BY <1>1 DEF Shape, Line
<1>6. /\ response' \in [Request -> Header] /\ response'[r] = h
      /\ \A q \in Request \ {r} : response'[q] = response[q]
  BY <1>1, <1>4 DEF Shape
<1>7. /\ body' \in [Request -> Seq(ContentCoding)] /\ body'[r] = <<>>
      /\ \A q \in Request \ {r} : body'[q] = body[q]
  BY <1>1 DEF Shape
<1>8. Shape'
  BY <1>1, <1>5, <1>6, <1>7 DEF Shape
<1>9. Frame(r)
  BY <1>1, <1>5, <1>6, <1>7, <1>8 DEF Frame, Keeps
<1>10. response'[r] = h
  BY <1>6
<1>11. SameHead(r)
  BY <1>3, <1>10 DEF SameHead
<1>12. response'[r].vary = response[r].vary
  BY <1>3, <1>10
<1> QED
  BY <1>1, <1>5, <1>7, <1>9, <1>11, <1>12

\* fail(): 500, whatever the headers were.
LEMMA FailsFacts ==
    ASSUME Shape, NEW r \in Request, NEW h \in Header, Fails(r, h)
    PROVE  /\ pc' \in [Request -> Line] /\ pc'[r] = "error"
           /\ response' \in [Request -> Header]
           /\ response'[r].status = 500 /\ response'[r].cleared = h.cleared
           /\ response'[r].encodings = h.encodings /\ response'[r].vary = h.vary
           /\ \A q \in Request \ {r} : pc'[q] = pc[q] /\ response'[q] = response[q]
           /\ sidecar' = sidecar /\ refused' = refused
<1> DEFINE g == [h EXCEPT !.status = 500]
<1>1. /\ g \in Header /\ g.status = 500 /\ g.cleared = h.cleared
      /\ g.encodings = h.encodings /\ g.vary = h.vary
  BY DEF Header
<1>2. response' = [response EXCEPT ![r] = g] /\ pc' = [pc EXCEPT ![r] = "error"]
  BY DEF Fails, Goto
<1>3. sidecar' = sidecar /\ refused' = refused
  BY DEF Fails
<1> HIDE DEF g
<1>4. response' \in [Request -> Header] /\ response'[r] = g
      /\ \A q \in Request \ {r} : response'[q] = response[q]
  BY <1>1, <1>2 DEF Shape
<1>5. pc' \in [Request -> Line] /\ pc'[r] = "error" /\ \A q \in Request \ {r} : pc'[q] = pc[q]
  BY <1>2 DEF Shape, Line
<1> QED
  BY <1>1, <1>3, <1>4, <1>5

\* The headers of a sidecar.
Labelled(h, c) ==
    [h EXCEPT !.encodings = Append(h.encodings, c), !.recorded = TRUE, !.status = 200,
              !.type = "text/html", !.length = 500]

\* It is a header, and what its fields are.
LEMMA LabelledHeader ==
    ASSUME NEW h \in Header, NEW c \in ContentCoding
    PROVE  /\ Labelled(h, c) \in Header
           /\ Labelled(h, c).encodings = Append(h.encodings, c) /\ Labelled(h, c).recorded
           /\ Labelled(h, c).status = 200
           /\ Labelled(h, c).cleared = h.cleared /\ Labelled(h, c).vary = h.vary
<1> DEFINE list == Append(h.encodings, c)
<1>1. list \in Seq(ContentCoding)
  BY DEF Header
<1> HIDE DEF list
<1> DEFINE g == [h EXCEPT !.encodings = list, !.recorded = TRUE, !.status = 200]
<1>2. g \in Header
  BY <1>1, ZenonT(60) DEF Header
<1>3. g.encodings = list /\ g.recorded = TRUE /\ g.status = 200
  BY <1>1 DEF Header
<1>4. g.cleared = h.cleared /\ g.vary = h.vary
  BY <1>1 DEF Header
<1>5. Labelled(h, c) = Typed(g, "text/html", 500)
  BY DEF Labelled, Typed, list
<1> HIDE DEF g
<1>6. "text/html" \in ContentType
  BY DEF ContentType, BuiltinTypes
<1>7. Typed(g, "text/html", 500) \in Header
  BY <1>2, <1>6, TypedHeader
<1>8. /\ Typed(g, "text/html", 500).encodings = g.encodings
      /\ Typed(g, "text/html", 500).recorded = g.recorded
      /\ Typed(g, "text/html", 500).status = g.status
  BY <1>2 DEF Header, Typed
<1>9. /\ Typed(g, "text/html", 500).cleared = g.cleared
      /\ Typed(g, "text/html", 500).vary = g.vary
  BY <1>2 DEF Header, Typed
<1> QED
  BY <1>3, <1>4, <1>5, <1>7, <1>8, <1>9 DEF list

\* A sidecar is sent, or sending it fails.
LEMMA SendFileFacts ==
    ASSUME Shape, NEW r \in Request, NEW c \in SidecarCoding, NEW h \in Header, SendFile(r, c, h)
    PROVE  /\ pc' \in [Request -> Line] /\ response' \in [Request -> Header]
           /\ sidecar' \in [Request -> SidecarCoding \cup {Nothing}]
           /\ body' \in [Request -> Seq(ContentCoding)]
           /\ \A q \in Request \ {r} : /\ pc'[q] = pc[q] /\ response'[q] = response[q]
                                       /\ sidecar'[q] = sidecar[q] /\ body'[q] = body[q]
           /\ UNCHANGED <<refused, config, header, context, builtin, included>>
           /\ response'[r].cleared = h.cleared /\ response'[r].vary = h.vary
           /\ \/ /\ pc'[r] = "header" /\ body'[r] = <<c>> /\ sidecar'[r] = c
                 /\ response'[r].encodings = Append(h.encodings, c) /\ response'[r].recorded
                 /\ response'[r].status = 200
              \/ /\ pc'[r] = "error" /\ body'[r] = body[r] /\ sidecar'[r] = sidecar[r]
                 /\ response'[r].status = 500
                 /\ \/ response'[r].encodings = h.encodings
                    \/ response'[r].encodings = Append(h.encodings, c)
<1> DEFINE labelled == Labelled(h, c)
<1>1. c \in ContentCoding /\ SidecarCoding \subseteq ContentCoding
  BY DEF SidecarCoding, ContentCoding, Coding
<1>2. /\ labelled \in Header
      /\ labelled.encodings = Append(h.encodings, c) /\ labelled.recorded
      /\ labelled.status = 200 /\ labelled.cleared = h.cleared /\ labelled.vary = h.vary
  BY <1>1, LabelledHeader
<1>3. UNCHANGED <<config, header, context, builtin, included>>
  BY DEF SendFile
<1>4. \/ /\ response' = [response EXCEPT ![r] = labelled]
         /\ sidecar' = [sidecar EXCEPT ![r] = c]
         /\ body' = [body EXCEPT ![r] = <<c>>]
         /\ pc' = [pc EXCEPT ![r] = "header"]
         /\ refused' = refused
      \/ /\ \E sent \in {h, labelled} : Fails(r, sent)
         /\ body' = body
  BY DEF SendFile, Goto, Labelled
<1> HIDE DEF labelled
<1>5. CASE /\ response' = [response EXCEPT ![r] = labelled]
           /\ sidecar' = [sidecar EXCEPT ![r] = c]
           /\ body' = [body EXCEPT ![r] = <<c>>]
           /\ pc' = [pc EXCEPT ![r] = "header"]
           /\ refused' = refused
  <2>1. /\ response' \in [Request -> Header] /\ response'[r] = labelled
        /\ \A q \in Request \ {r} : response'[q] = response[q]
    BY <1>2, <1>5 DEF Shape
  <2>2. /\ sidecar' \in [Request -> SidecarCoding \cup {Nothing}] /\ sidecar'[r] = c
        /\ \A q \in Request \ {r} : sidecar'[q] = sidecar[q]
    BY <1>5 DEF Shape
  <2>3. /\ body' \in [Request -> Seq(ContentCoding)] /\ body'[r] = <<c>>
        /\ \A q \in Request \ {r} : body'[q] = body[q]
    <3>1. <<c>> \in Seq(ContentCoding)
      BY <1>1
    <3> QED
      BY <1>5, <3>1 DEF Shape
  <2>4. /\ pc' \in [Request -> Line] /\ pc'[r] = "header"
        /\ \A q \in Request \ {r} : pc'[q] = pc[q]
    BY <1>5 DEF Shape, Line
  <2> QED
    BY <1>2, <1>3, <1>5, <2>1, <2>2, <2>3, <2>4
<1>6. CASE /\ \E sent \in {h, labelled} : Fails(r, sent)
           /\ body' = body
  <2>1. PICK sent \in {h, labelled} : Fails(r, sent)
    BY <1>6
  <2>2. /\ sent \in Header /\ sent.cleared = h.cleared /\ sent.vary = h.vary
        /\ sent.encodings = h.encodings \/ sent.encodings = Append(h.encodings, c)
    BY <1>2, <2>1
  <2>3. /\ pc' \in [Request -> Line] /\ pc'[r] = "error"
        /\ response' \in [Request -> Header]
        /\ response'[r].status = 500 /\ response'[r].cleared = sent.cleared
        /\ response'[r].encodings = sent.encodings /\ response'[r].vary = sent.vary
        /\ \A q \in Request \ {r} : pc'[q] = pc[q] /\ response'[q] = response[q]
        /\ sidecar' = sidecar /\ refused' = refused
    BY <2>1, <2>2, FailsFacts
  <2> QED
    BY <1>3, <1>6, <2>2, <2>3 DEF Shape
<1> QED
  BY <1>4, <1>5, <1>6


\* What probing one sidecar does.
LEMMA ProbeFacts ==
    ASSUME Shape, NEW r \in Request, Probe(r)
    PROVE  LET c == Head(candidates[r]) IN
           /\ Frame(r)
           /\ pc[r] = "probing" /\ candidates[r] # <<>> /\ candidates'[r] = Tail(candidates[r])
           /\ \/ found'[r] = found[r] /\ missing'[r] = missing[r]
              \/ found'[r] = found[r] /\ missing'[r] = missing[r] \cup {c}
              \/ found'[r] = found[r] \cup {c} /\ missing'[r] = missing[r]
           /\ sidecar'[r] = sidecar[r] \/ (sidecar'[r] = c /\ found'[r] = found[r] \cup {c})
           /\ UNCHANGED <<refused, context, builtin, included>>
           /\ response'[r].cleared = response[r].cleared
           /\ \/ /\ pc'[r] = "error" /\ response'[r].status = 500 /\ body'[r] = body[r]
              \/ /\ pc'[r] = "probing" /\ SameHead(r) /\ body'[r] = body[r]
                 /\ \/ response'[r].vary = response[r].vary /\ found'[r] = found[r]
                    \/ response'[r].vary = (response[r].vary \/ VariesByAccept(r))
              \/ /\ pc'[r] = "header" /\ body'[r] = <<c>> /\ sidecar'[r] = c
                 /\ response'[r].encodings = Append(response[r].encodings, c)
                 /\ response'[r].recorded /\ response'[r].status = 200
                 /\ response'[r].vary = (response[r].vary \/ VariesByAccept(r))
<1> DEFINE c == Head(candidates[r])
           v == response[r].vary \/ MarkVary(r, c)
           marked == [response[r] EXCEPT !.vary = v]
<1>1. /\ candidates[r] \in Seq(SidecarCoding) /\ candidates[r] # <<>> /\ pc[r] = "probing"
      /\ candidates' = [candidates EXCEPT ![r] = Tail(candidates[r])]
  BY DEF Shape, Probe
<1>2. c \in SidecarCoding /\ Tail(candidates[r]) \in Seq(SidecarCoding)
  BY <1>1
<1>3. /\ candidates' \in [Request -> Seq(SidecarCoding)] /\ candidates'[r] = Tail(candidates[r])
      /\ \A q \in Request \ {r} : candidates'[q] = candidates[q]
  BY <1>1, <1>2 DEF Shape
<1>4. response[r] \in Header /\ v \in BOOLEAN
  BY DEF Shape
<1>5. v = (response[r].vary \/ VariesByAccept(r))
  BY DEF MarkVary
<1>6. \/ /\ missing' = [missing EXCEPT ![r] = missing[r] \cup {c}]
         /\ UNCHANGED <<pc, found, sidecar, refused, response>>
         /\ UNCHANGED unchangedByHandler
      \/ /\ Fails(r, response[r])
         /\ UNCHANGED <<found, missing>>
         /\ UNCHANGED unchangedByHandler
      \/ /\ found' = [found EXCEPT ![r] = found[r] \cup {c}]
         /\ UNCHANGED missing
         /\ \/ SendFile(r, c, marked)
            \/ /\ response' = [response EXCEPT ![r] = marked]
               /\ UNCHANGED <<pc, sidecar, refused>>
               /\ UNCHANGED unchangedByHandler
            \/ /\ Fails(r, response[r])
               /\ UNCHANGED unchangedByHandler
  BY DEF Probe
<1> HIDE DEF c, v
<1>7. /\ marked \in Header /\ marked.cleared = response[r].cleared
      /\ marked.encodings = response[r].encodings /\ marked.recorded = response[r].recorded
      /\ marked.status = response[r].status
      /\ marked.vary = v
  BY <1>4 DEF Header
<1> HIDE DEF marked
<1> SUFFICES /\ Frame(r)
             /\ \/ found'[r] = found[r] /\ missing'[r] = missing[r]
                \/ found'[r] = found[r] /\ missing'[r] = missing[r] \cup {c}
                \/ found'[r] = found[r] \cup {c} /\ missing'[r] = missing[r]
             /\ sidecar'[r] = sidecar[r] \/ (sidecar'[r] = c /\ found'[r] = found[r] \cup {c})
             /\ UNCHANGED <<refused, context, builtin, included>>
             /\ response'[r].cleared = response[r].cleared
             /\ \/ /\ pc'[r] = "error" /\ response'[r].status = 500 /\ body'[r] = body[r]
                \/ /\ pc'[r] = "probing" /\ SameHead(r) /\ body'[r] = body[r]
                   /\ \/ response'[r].vary = response[r].vary /\ found'[r] = found[r]
                      \/ response'[r].vary = (response[r].vary \/ VariesByAccept(r))
                \/ /\ pc'[r] = "header" /\ body'[r] = <<c>> /\ sidecar'[r] = c
                   /\ response'[r].encodings = Append(response[r].encodings, c)
                   /\ response'[r].recorded /\ response'[r].status = 200
                   /\ response'[r].vary = (response[r].vary \/ VariesByAccept(r))
  BY <1>1, <1>3 DEF c
<1>8. ASSUME missing' = [missing EXCEPT ![r] = missing[r] \cup {c}]
      PROVE  /\ missing' \in [Request -> SUBSET SidecarCoding] /\ missing'[r] = missing[r] \cup {c}
             /\ \A q \in Request \ {r} : missing'[q] = missing[q]
  BY <1>2, <1>8 DEF Shape
<1>9. ASSUME found' = [found EXCEPT ![r] = found[r] \cup {c}]
      PROVE  /\ found' \in [Request -> SUBSET SidecarCoding] /\ found'[r] = found[r] \cup {c}
             /\ \A q \in Request \ {r} : found'[q] = found[q]
  BY <1>2, <1>9 DEF Shape
<1>10. CASE /\ missing' = [missing EXCEPT ![r] = missing[r] \cup {c}]
            /\ UNCHANGED <<pc, found, sidecar, refused, response>>
            /\ UNCHANGED unchangedByHandler
  <2>1. UNCHANGED <<pc, found, sidecar, refused, response, config, header, body, context, builtin, included>>
    BY <1>10 DEF unchangedByHandler
  <2>2. Shape'
    BY <1>3, <1>8, <1>10, <2>1 DEF Shape
  <2>3. Frame(r)
    BY <1>3, <1>8, <1>10, <2>1, <2>2 DEF Frame, Keeps
  <2> QED
    BY <1>1, <1>8, <1>10, <2>1, <2>3 DEF SameHead
<1>11. ASSUME Fails(r, response[r]), UNCHANGED unchangedByHandler,
              \/ UNCHANGED <<found, missing>>
              \/ found' = [found EXCEPT ![r] = found[r] \cup {c}] /\ UNCHANGED missing
       PROVE  /\ Frame(r)
              /\ found'[r] = found[r] \/ found'[r] = found[r] \cup {c}
              /\ missing'[r] = missing[r] /\ sidecar'[r] = sidecar[r]
              /\ UNCHANGED <<refused, context, builtin, included>>
              /\ response'[r].cleared = response[r].cleared
              /\ pc'[r] = "error" /\ response'[r].status = 500 /\ body'[r] = body[r]
  <2>1. /\ pc' \in [Request -> Line] /\ pc'[r] = "error"
        /\ response' \in [Request -> Header]
        /\ response'[r].status = 500 /\ response'[r].cleared = response[r].cleared
        /\ \A q \in Request \ {r} : pc'[q] = pc[q] /\ response'[q] = response[q]
        /\ sidecar' = sidecar /\ refused' = refused
    BY <1>4, <1>11, FailsFacts
  <2>2. UNCHANGED <<config, header, body, context, builtin, included>>
    BY <1>11 DEF unchangedByHandler
  <2>3. /\ found' \in [Request -> SUBSET SidecarCoding]
        /\ found'[r] = found[r] \/ found'[r] = found[r] \cup {c}
        /\ \A q \in Request \ {r} : found'[q] = found[q]
    BY <1>9, <1>11 DEF Shape
  <2>4. missing' = missing
    BY <1>11
  <2>5. Shape'
    BY <1>3, <2>1, <2>2, <2>3, <2>4 DEF Shape
  <2>6. Frame(r)
    BY <1>3, <2>1, <2>2, <2>3, <2>4, <2>5 DEF Frame, Keeps
  <2> QED
    BY <2>1, <2>2, <2>3, <2>4, <2>6
<1>12. CASE /\ Fails(r, response[r])
            /\ UNCHANGED <<found, missing>>
            /\ UNCHANGED unchangedByHandler
  BY <1>11, <1>12
<1>13. CASE /\ found' = [found EXCEPT ![r] = found[r] \cup {c}]
            /\ UNCHANGED missing
            /\ Fails(r, response[r])
            /\ UNCHANGED unchangedByHandler
  BY <1>11, <1>13
<1>14. CASE /\ found' = [found EXCEPT ![r] = found[r] \cup {c}]
            /\ UNCHANGED missing
            /\ response' = [response EXCEPT ![r] = marked]
            /\ UNCHANGED <<pc, sidecar, refused>>
            /\ UNCHANGED unchangedByHandler
  <2>1. UNCHANGED <<pc, missing, sidecar, refused, config, header, body, context, builtin, included>>
    BY <1>14 DEF unchangedByHandler
  <2>2. /\ response' \in [Request -> Header] /\ response'[r] = marked
        /\ \A q \in Request \ {r} : response'[q] = response[q]
    BY <1>7, <1>14 DEF Shape
  <2>3. Shape'
    BY <1>3, <1>9, <1>14, <2>1, <2>2 DEF Shape
  <2>4. Frame(r)
    BY <1>3, <1>9, <1>14, <2>1, <2>2, <2>3 DEF Frame, Keeps
  <2>5. SameHead(r)
    BY <1>7, <2>2 DEF SameHead
  <2>6. response'[r].vary = (response[r].vary \/ VariesByAccept(r))
    BY <1>7, <1>5, <2>2
  <2>7. response'[r].cleared = response[r].cleared
    BY <1>7, <2>2
  <2> QED
    BY <1>1, <1>9, <1>14, <2>1, <2>4, <2>5, <2>6, <2>7
<1>15. CASE /\ found' = [found EXCEPT ![r] = found[r] \cup {c}]
            /\ UNCHANGED missing
            /\ SendFile(r, c, marked)
  <2>1. /\ pc' \in [Request -> Line] /\ response' \in [Request -> Header]
        /\ sidecar' \in [Request -> SidecarCoding \cup {Nothing}]
        /\ body' \in [Request -> Seq(ContentCoding)]
        /\ \A q \in Request \ {r} : /\ pc'[q] = pc[q] /\ response'[q] = response[q]
                                    /\ sidecar'[q] = sidecar[q] /\ body'[q] = body[q]
        /\ UNCHANGED <<refused, config, header, context, builtin, included>>
        /\ response'[r].cleared = marked.cleared /\ response'[r].vary = marked.vary
        /\ \/ /\ pc'[r] = "header" /\ body'[r] = <<c>> /\ sidecar'[r] = c
              /\ response'[r].encodings = Append(marked.encodings, c) /\ response'[r].recorded
              /\ response'[r].status = 200
           \/ /\ pc'[r] = "error" /\ body'[r] = body[r] /\ sidecar'[r] = sidecar[r]
              /\ response'[r].status = 500
    BY <1>2, <1>7, <1>15, SendFileFacts
  <2>2. Shape'
    BY <1>3, <1>9, <1>15, <2>1 DEF Shape
  <2>3. Frame(r)
    BY <1>3, <1>9, <1>15, <2>1, <2>2 DEF Frame, Keeps
  <2> QED
    BY <1>7, <1>5, <1>9, <1>15, <2>1, <2>3
<1> QED
  BY <1>6, <1>10, <1>12, <1>13, <1>14, <1>15

\* The headers of a 406.
LEMMA RejectedHeader ==
    ASSUME NEW h \in Header, NEW v \in BOOLEAN
    PROVE  /\ Rejected(h, v) \in Header
           /\ Rejected(h, v).encodings = h.encodings /\ Rejected(h, v).recorded = h.recorded
           /\ Rejected(h, v).status = 406 /\ Rejected(h, v).cleared = h.cleared
           /\ Rejected(h, v).vary = (h.vary \/ v)
<1> DEFINE w == h.vary \/ v
           g == [h EXCEPT !.vary = w]
<1>1. w \in BOOLEAN
  OBVIOUS
<1>2. Rejected(h, v) = [g EXCEPT !.status = 406]
  BY DEF Rejected
<1> HIDE DEF w
<1>3. g \in Header
  BY <1>1 DEF Header
<1>4. /\ g.encodings = h.encodings /\ g.recorded = h.recorded /\ g.cleared = h.cleared
      /\ g.vary = w
  BY <1>1 DEF Header
<1> HIDE DEF g
<1>5. [g EXCEPT !.status = 406] \in Header
  BY <1>3 DEF Header
<1>6. /\ [g EXCEPT !.status = 406].encodings = g.encodings
      /\ [g EXCEPT !.status = 406].recorded = g.recorded
      /\ [g EXCEPT !.status = 406].cleared = g.cleared
      /\ [g EXCEPT !.status = 406].vary = g.vary
      /\ [g EXCEPT !.status = 406].status = 406
  BY <1>3 DEF Header
<1> QED
  BY <1>2, <1>4, <1>5, <1>6 DEF w

\* The handler gives up.
LEMMA ProbeEndFacts ==
    ASSUME Shape, NEW r \in Request, ProbeEnd(r)
    PROVE  /\ Frame(r)
           /\ pc[r] = "probing"
           /\ UNCHANGED <<candidates, found, missing, sidecar, body, context, builtin, included>>
           /\ response'[r].cleared = response[r].cleared
           /\ \/ pc'[r] = "upstream" /\ response' = response /\ refused' = refused
              \/ /\ pc'[r] = "error" /\ response'[r].status = 406 /\ refused'[r] = "static"
                 /\ response'[r].encodings = response[r].encodings
                 /\ response'[r].recorded = response[r].recorded
                 /\ response'[r].vary = (response[r].vary \/ VariesByAccept(r))
              \/ /\ pc'[r] = "error" /\ response'[r].status = 500 /\ refused' = refused
                 /\ response'[r].encodings = response[r].encodings
<1> DEFINE v == VariesByAccept(r)
           h == Rejected(response[r], v)
<1>1. /\ pc[r] = "probing"
      /\ UNCHANGED <<candidates, found, missing, config, header, body, context, builtin, included>>
  BY DEF ProbeEnd, unchangedByHandler
<1>2. \/ pc' = [pc EXCEPT ![r] = "upstream"] /\ UNCHANGED <<sidecar, refused, response>>
      \/ /\ response' = [response EXCEPT ![r] = h]
         /\ refused' = [refused EXCEPT ![r] = "static"]
         /\ pc' = [pc EXCEPT ![r] = "error"]
         /\ UNCHANGED sidecar
      \/ Fails(r, response[r])
  BY DEF ProbeEnd, Goto
<1>3. response[r] \in Header /\ v \in BOOLEAN
  BY LocationFacts DEF Shape, VariesByAccept
<1> HIDE DEF v
<1>4. /\ h \in Header /\ h.status = 406
      /\ h.encodings = response[r].encodings /\ h.recorded = response[r].recorded
      /\ h.cleared = response[r].cleared /\ h.vary = (response[r].vary \/ v)
  BY <1>3, RejectedHeader
<1> HIDE DEF h
<1>5. CASE pc' = [pc EXCEPT ![r] = "upstream"] /\ UNCHANGED <<sidecar, refused, response>>
  <2>1. /\ pc' \in [Request -> Line] /\ pc'[r] = "upstream"
        /\ \A q \in Request \ {r} : pc'[q] = pc[q]
    BY <1>5 DEF Shape, Line
  <2>2. Shape'
    BY <1>1, <1>5, <2>1 DEF Shape
  <2>3. Frame(r)
    BY <1>1, <1>5, <2>1, <2>2 DEF Frame, Keeps
  <2> QED
    BY <1>1, <1>5, <2>1, <2>3
<1>6. CASE /\ response' = [response EXCEPT ![r] = h]
           /\ refused' = [refused EXCEPT ![r] = "static"]
           /\ pc' = [pc EXCEPT ![r] = "error"]
           /\ UNCHANGED sidecar
  <2>1. /\ pc' \in [Request -> Line] /\ pc'[r] = "error"
        /\ \A q \in Request \ {r} : pc'[q] = pc[q]
    BY <1>6 DEF Shape, Line
  <2>2. /\ response' \in [Request -> Header] /\ response'[r] = h
        /\ \A q \in Request \ {r} : response'[q] = response[q]
    BY <1>4, <1>6 DEF Shape
  <2>3. /\ refused' \in [Request -> {"static", "runtime", Nothing}] /\ refused'[r] = "static"
        /\ \A q \in Request \ {r} : refused'[q] = refused[q]
    BY <1>6 DEF Shape
  <2>4. Shape'
    BY <1>1, <1>6, <2>1, <2>2, <2>3 DEF Shape
  <2>5. Frame(r)
    BY <1>1, <1>6, <2>1, <2>2, <2>3, <2>4 DEF Frame, Keeps
  <2> QED
    BY <1>1, <1>4, <2>1, <2>2, <2>3, <2>5, <1>6 DEF v
<1>7. CASE Fails(r, response[r])
  <2>1. /\ pc' \in [Request -> Line] /\ pc'[r] = "error"
        /\ response' \in [Request -> Header]
        /\ response'[r].status = 500 /\ response'[r].cleared = response[r].cleared
        /\ response'[r].encodings = response[r].encodings
        /\ \A q \in Request \ {r} : pc'[q] = pc[q] /\ response'[q] = response[q]
        /\ sidecar' = sidecar /\ refused' = refused
    BY <1>3, <1>7, FailsFacts
  <2>2. Shape'
    BY <1>1, <2>1 DEF Shape
  <2>3. Frame(r)
    BY <1>1, <2>1, <2>2 DEF Frame, Keeps
  <2> QED
    BY <1>1, <2>1, <2>3
<1> QED
  BY <1>2, <1>5, <1>6, <1>7

\* The header filter refuses.
LEMMA RejectFacts ==
    ASSUME Shape, NEW r \in Request, Reject(r)
    PROVE  /\ Frame(r)
           /\ r = "main" /\ pc[r] = "header" /\ pc'[r] = "error"
           /\ response[r].status = 200 /\ ~response[r].recorded
           /\ response'[r].status = 406
           /\ response'[r].encodings = response[r].encodings
           /\ response'[r].recorded = response[r].recorded
           /\ response'[r].cleared = response[r].cleared
           /\ response[r].vary => response'[r].vary
           /\ refused'[r] = "runtime"
           /\ UNCHANGED <<candidates, found, missing, sidecar, body, context, builtin, included>>
<1>1. PICK added \in {config[r].vary, FALSE} :
         response' = [response EXCEPT ![r] = Rejected(response[r], added)]
  BY DEF Reject
<1>2. /\ pc[r] = "header" /\ Considers(r)
      /\ pc' = [pc EXCEPT ![r] = "error"]
      /\ refused' = [refused EXCEPT ![r] = "runtime"]
      /\ UNCHANGED <<config, header, candidates, found, missing, sidecar, body, context, builtin, included>>
  BY DEF Reject, Goto, unchangedByFilter
<1>3. r = "main" /\ response[r].status = 200 /\ ~response[r].recorded
  BY <1>2 DEF Considers, Eligible
<1> DEFINE h == Rejected(response[r], added)
<1>4. response[r] \in Header /\ added \in BOOLEAN
  BY LocationFacts DEF Shape
<1>5. /\ h \in Header /\ h.status = 406
      /\ h.encodings = response[r].encodings /\ h.recorded = response[r].recorded
      /\ h.cleared = response[r].cleared /\ h.vary = (response[r].vary \/ added)
  BY <1>4, RejectedHeader
<1>6. response' = [response EXCEPT ![r] = h]
  BY <1>1
<1> HIDE DEF h
<1>7. /\ pc' \in [Request -> Line] /\ pc'[r] = "error"
      /\ \A q \in Request \ {r} : pc'[q] = pc[q]
  BY <1>2 DEF Shape, Line
<1>8. /\ response' \in [Request -> Header] /\ response'[r] = h
      /\ \A q \in Request \ {r} : response'[q] = response[q]
  BY <1>5, <1>6 DEF Shape
<1>9. /\ refused' \in [Request -> {"static", "runtime", Nothing}] /\ refused'[r] = "runtime"
      /\ \A q \in Request \ {r} : refused'[q] = refused[q]
  BY <1>2 DEF Shape
<1>10. Shape'
  BY <1>2, <1>7, <1>8, <1>9 DEF Shape
<1>11. Frame(r)
  BY <1>2, <1>7, <1>8, <1>9, <1>10 DEF Frame, Keeps
<1> QED
  BY <1>2, <1>3, <1>4, <1>5, <1>7, <1>8, <1>9, <1>11

\* The response has gone to the next header filters with headers h.
Answers(r, h) ==
    /\ pc'[r] \in {IF r = "main" THEN "body" ELSE "done", "closed"}
    /\ builtin' = (builtin \/ BuiltinGzips(r, h))
    /\ BuiltinGzips(r, h) =>
          response'[r].encodings = Append(h.encodings, "gzip") /\ response'[r].recorded
    /\ ~BuiltinGzips(r, h) =>
          response'[r].encodings = h.encodings /\ response'[r].recorded = h.recorded
    /\ response'[r].status = h.status /\ response'[r].vary = h.vary /\ response'[r].cleared = h.cleared

\* The header filter lets the response go on.
LEMMA AnswerFacts ==
    ASSUME Shape, NEW r \in Request, NEW h \in Header, Downstream(r, h),
           UNCHANGED unchangedByFilter, refused' = refused,
           context' \in [Request -> ContentCoding \cup {Nothing}],
           \A q \in Request \ {r} : context'[q] = context[q]
    PROVE  /\ Frame(r) /\ Answers(r, h)
           /\ UNCHANGED <<candidates, found, missing, sidecar, refused, body, included>>
<1>1. /\ pc' \in [Request -> Line]
      /\ \A q \in Request \ {r} : pc'[q] = pc[q] /\ response'[q] = response[q]
      /\ response' \in [Request -> Header]
  BY DownstreamFacts
<1>2. Answers(r, h)
  BY DownstreamFacts DEF Answers
<1>3. UNCHANGED <<config, header, candidates, found, missing, sidecar, body, included>>
  BY DEF unchangedByFilter
<1>4. builtin' \in BOOLEAN
  BY <1>2 DEF Answers
<1>5. Shape'
  BY <1>1, <1>3, <1>4 DEF Shape
<1>6. Frame(r)
  BY <1>1, <1>3, <1>5 DEF Frame, Keeps
<1> QED
  BY <1>2, <1>3, <1>6

\* ... as it was,
LEMMA PassFacts ==
    ASSUME Shape, NEW r \in Request, Pass(r)
    PROVE  /\ Frame(r) /\ Answers(r, response[r])
           /\ pc[r] = "header"
           /\ UNCHANGED <<candidates, found, missing, sidecar, refused, body, context, included>>
<1>1. /\ pc[r] = "header" /\ Downstream(r, response[r])
      /\ UNCHANGED <<refused, context>> /\ UNCHANGED unchangedByFilter
  BY DEF Pass
<1>2. response[r] \in Header /\ context' \in [Request -> ContentCoding \cup {Nothing}]
  BY <1>1 DEF Shape
<1> QED
  BY <1>1, <1>2, AnswerFacts

\* ... with Vary alone,
LEMMA EncodingNotAddedFacts ==
    ASSUME Shape, NEW r \in Request, EncodingNotAdded(r)
    PROVE  /\ Frame(r) /\ Answers(r, WithVary(r))
           /\ pc[r] = "header" /\ Encodes(r)
           /\ UNCHANGED <<candidates, found, missing, sidecar, refused, body, context, included>>
<1>1. /\ pc[r] = "header" /\ Encodes(r) /\ Downstream(r, WithVary(r))
      /\ UNCHANGED <<refused, context>> /\ UNCHANGED unchangedByFilter
  BY DEF EncodingNotAdded
<1>2. WithVary(r) \in Header
  BY <1>1, PreparedFacts
<1>3. context' \in [Request -> ContentCoding \cup {Nothing}]
  BY <1>1 DEF Shape
<1> QED
  BY <1>1, <1>2, <1>3, AnswerFacts

\* ... encoded,
LEMMA CompressFacts ==
    ASSUME Shape, NEW r \in Request, Compress(r)
    PROVE  /\ Frame(r) /\ Answers(r, Prepared(r))
           /\ pc[r] = "header" /\ Encodes(r) /\ context'[r] = Negotiated(r)
           /\ UNCHANGED <<candidates, found, missing, sidecar, refused, body, included>>
<1>1. /\ pc[r] = "header" /\ Encodes(r) /\ Downstream(r, Prepared(r))
      /\ context' = [context EXCEPT ![r] = Negotiated(r)]
      /\ refused' = refused /\ UNCHANGED unchangedByFilter
  BY DEF Compress
<1>2. Prepared(r) \in Header
  BY <1>1, PreparedFacts
<1>3. Negotiated(r) \in ContentCoding
  BY <1>1, EncodesFacts
<1>4. /\ context' \in [Request -> ContentCoding \cup {Nothing}] /\ context'[r] = Negotiated(r)
      /\ \A q \in Request \ {r} : context'[q] = context[q]
  BY <1>1, <1>3 DEF Shape
<1> QED
  BY <1>1, <1>2, <1>4, AnswerFacts

\* ... or closes the connection.
LEMMA InstallFailsFacts ==
    ASSUME Shape, NEW r \in Request, InstallFails(r)
    PROVE  /\ Frame(r)
           /\ pc[r] = "header" /\ pc'[r] = "closed" /\ Encodes(r)
           /\ response'[r].status = 200
           /\ response[r].vary => response'[r].vary
           /\ UNCHANGED <<candidates, found, missing, sidecar, refused, body, context,
                          builtin, included>>
<1>1. /\ pc[r] = "header" /\ Encodes(r)
      /\ response' = [response EXCEPT ![r] = Prepared(r)]
      /\ pc' = [pc EXCEPT ![r] = "closed"]
      /\ UNCHANGED <<refused, context, builtin, config, header, candidates, found, missing,
                     sidecar, body, included>>
  BY DEF InstallFails, Goto, unchangedByFilter
<1>2. /\ Prepared(r) \in Header /\ Prepared(r).vary = (response[r].vary \/ config[r].vary)
      /\ Prepared(r).status = 200
  BY <1>1, PreparedFacts, EncodesFacts
<1>3. /\ response' \in [Request -> Header] /\ response'[r] = Prepared(r)
      /\ \A q \in Request \ {r} : response'[q] = response[q]
  BY <1>1, <1>2 DEF Shape
<1>4. /\ pc' \in [Request -> Line] /\ pc'[r] = "closed" /\ \A q \in Request \ {r} : pc'[q] = pc[q]
  BY <1>1 DEF Shape, Line
<1>5. Shape'
  BY <1>1, <1>3, <1>4 DEF Shape
<1>6. Frame(r)
  BY <1>1, <1>3, <1>4, <1>5 DEF Frame, Keeps
<1> QED
  BY <1>1, <1>2, <1>3, <1>4, <1>6

\* The page includes its subrequest.
LEMMA IncludeFacts ==
    ASSUME Shape, Include
    PROVE  /\ Frame("sub")
           /\ pc["main"] = "body" /\ pc["sub"] = "idle" /\ pc'["sub"] = "content"
           /\ body["main"] = <<>> /\ response["main"].status = 200 /\ included'
           /\ UNCHANGED <<candidates, found, missing, sidecar, refused, response, body, context, builtin>>
<1>1. /\ pc["main"] = "body" /\ pc["sub"] = "idle"
      /\ body["main"] = <<>> /\ response["main"].status = 200
      /\ included' = TRUE /\ pc' = [pc EXCEPT !["sub"] = "content"]
      /\ UNCHANGED <<config, header, candidates, found, missing, sidecar, refused, response,
                     body, context, builtin>>
  BY DEF Include, Goto
<1>2. /\ pc' \in [Request -> Line] /\ pc'["sub"] = "content"
      /\ \A q \in Request \ {"sub"} : pc'[q] = pc[q]
  BY <1>1 DEF Shape, Line, Request
<1>3. Shape'
  BY <1>1, <1>2 DEF Shape
<1> QED
  BY <1>1, <1>2, <1>3 DEF Frame, Keeps

\* The page is complete.
LEMMA DeliverFacts ==
    ASSUME Shape, Deliver
    PROVE  /\ Frame("main")
           /\ pc["main"] = "body" /\ pc'["main"] = "done"
           /\ UNCHANGED <<candidates, found, missing, sidecar, refused, response, body, context,
                          builtin, included>>
<1>1. /\ pc["main"] = "body" /\ pc' = [pc EXCEPT !["main"] = "done"]
      /\ UNCHANGED <<config, header, candidates, found, missing, sidecar, refused, response,
                     body, context, builtin, included>>
  BY DEF Deliver, Goto
<1>2. /\ pc' \in [Request -> Line] /\ pc'["main"] = "done"
      /\ \A q \in Request \ {"main"} : pc'[q] = pc[q]
  BY <1>1 DEF Shape, Line, Request
<1>3. Shape'
  BY <1>1, <1>2 DEF Shape
<1> QED
  BY <1>1, <1>2, <1>3 DEF Frame, Keeps

-----------------------------------------------------------------------------
(***************************************************************************)
(* The inductive invariant.                                                *)
(***************************************************************************)
\* Each candidate is probed once and either found or missing; the installed coding is
\* one the location has an encoder for.
Probed(q) ==
    /\ IsInjective(candidates[q])
    /\ ToSet(candidates[q]) \cap (found[q] \cup missing[q]) = {}
    /\ found[q] \cap missing[q] = {}
    /\ sidecar[q] \in found[q] \cup {Nothing}
    /\ context[q] \in DOMAIN config[q].codecs \cup {Nothing}
    /\ pc[q] \in {"idle", "content"} => found[q] = {} /\ missing[q] = {}

\* Nothing is announced before a handler answers.
Fresh ==
    pc["main"] \in {"content", "probing", "upstream"} =>
        /\ response["main"].status = 0
        /\ response["main"].encodings = <<>> /\ ~response["main"].recorded

\* Nothing is encoded, cleared or included before the header filter has run.
Unfiltered ==
    pc["main"] \notin {"body", "done", "closed"} =>
        /\ context["main"] = Nothing /\ ~builtin /\ ~included
        /\ ~response["main"].cleared

\* What reaches the header filter says how it is encoded, in both places.
Announced ==
    pc["main"] = "header" /\ response["main"].status # 500 =>
        /\ body["main"] = response["main"].encodings
        /\ Len(response["main"].encodings) <= 1
        /\ response["main"].recorded <=> response["main"].encodings # <<>>

\* A 406 has nothing left of an encoding.
Bare ==
    pc["main"] = "error" /\ response["main"].status # 500 =>
        response["main"].encodings = <<>> /\ ~response["main"].recorded

Matched ==
    pc["main"] \in {"body", "done"} /\ response["main"].status # 500 =>
        /\ Delivered("main") = response["main"].encodings
        /\ Len(response["main"].encodings) <= 1
        /\ response["main"].cleared <=> context["main"] # Nothing

\* The parts of an including page carry no coding of their own.
Embedded ==
    /\ included => body["main"] = <<>>
    /\ sidecar["sub"] = Nothing => body["sub"] = <<>>

Varies ==
    response["main"].status # 500 =>
        /\ VariesByAccept("main") /\ (found["main"] # {} \/ refused["main"] = "static")
              => response["main"].vary
        /\ context["main"] # Nothing /\ config["main"].vary => response["main"].vary

HeadInv == Fresh /\ Unfiltered /\ Announced /\ Bare /\ Matched
RepresentationInv == Shape /\ (\A q \in Request : Probed(q)) /\ HeadInv /\ Embedded /\ Varies

\* A request whose sidecars and context stay.
LEMMA ProbedKept ==
    ASSUME NEW q \in Request, Probed(q), config' = config,
           candidates'[q] = candidates[q], found'[q] = found[q], missing'[q] = missing[q],
           sidecar'[q] = sidecar[q], context'[q] = context[q],
           pc'[q] \in {"idle", "content"} => pc[q] \in {"idle", "content"}
    PROVE  Probed(q)'
BY DEF Probed

\* A step that leaves the sidecars and contexts alone.
LEMMA ProbedFrame ==
    ASSUME NEW r \in Request, \A q \in Request : Probed(q), Frame(r),
           candidates'[r] = candidates[r], found'[r] = found[r], missing'[r] = missing[r],
           sidecar'[r] = sidecar[r], context'[r] = context[r],
           pc'[r] \in {"idle", "content"} => pc[r] \in {"idle", "content"}
    PROVE  \A q \in Request : Probed(q)'
<1>1. TAKE q \in Request
<1>2. CASE q = r
  BY <1>2, ProbedKept DEF Frame
<1>3. CASE q # r
  BY <1>3, ProbedKept DEF Frame, Keeps
<1> QED
  BY <1>2, <1>3

\* A step of the subrequest leaves the page's own headers alone.
LEMMA SubFrame ==
    ASSUME HeadInv, Varies, Frame("sub"), builtin' = builtin, included' = included
    PROVE  HeadInv' /\ Varies'
<1>1. Keeps("main") /\ config' = config
  BY DEF Frame, Request
<1>2. Fresh' /\ Unfiltered' /\ Announced' /\ Bare'
  BY <1>1 DEF HeadInv, Keeps, Fresh, Unfiltered, Announced, Bare
<1>3. Matched'
  <2>1. Applied' = Applied
    BY <1>1 DEF Keeps, Applied
  <2>2. Delivered("main")' = Delivered("main")
    BY <1>1, <2>1 DEF Keeps, Delivered
  <2> QED
    BY <1>1, <2>2 DEF HeadInv, Keeps, Matched
<1>4. Varies'
  BY <1>1 DEF Keeps, Varies, VariesByAccept
<1> QED
  BY <1>2, <1>3, <1>4 DEF HeadInv

\* A step of the page leaves the fragment alone.
LEMMA MainFrame ==
    ASSUME Embedded, Frame("main"), included' => body'["main"] = <<>>
    PROVE  Embedded'
<1>1. Keeps("sub")
  BY DEF Frame, Request
<1> QED
  BY <1>1 DEF Keeps, Embedded

\* A step of the subrequest only has to keep its own fragment.
LEMMA SubStep ==
    ASSUME RepresentationInv, Frame("sub"), builtin' = builtin,
           \A q \in Request : Probed(q)',
           included' = included, sidecar'["sub"] = Nothing => body'["sub"] = <<>>
    PROVE  RepresentationInv'
<1>1. HeadInv' /\ Varies'
  BY SubFrame DEF RepresentationInv
<1>2. Embedded'
  BY DEF RepresentationInv, Embedded, Frame, Keeps, Request
<1>3. Shape'
  BY DEF Frame
<1> QED
  BY <1>1, <1>2, <1>3 DEF RepresentationInv

\* ... and one of the page the rest.
LEMMA MainStep ==
    ASSUME RepresentationInv, Frame("main"), \A q \in Request : Probed(q)',
           HeadInv', Varies', included' => body'["main"] = <<>>
    PROVE  RepresentationInv'
<1>1. Embedded'
  BY MainFrame DEF RepresentationInv
<1>2. Shape'
  BY DEF Frame
<1> QED
  BY <1>1, <1>2 DEF RepresentationInv

\* Each action preserves the invariant.  The handler declines.
LEMMA DeclineStep ==
    ASSUME RepresentationInv, NEW r \in Request, NEW servable \in BOOLEAN, Decline(r, servable)
    PROVE  RepresentationInv'
<1>1. /\ Frame(r) /\ pc[r] = "content" /\ pc'[r] = "upstream"
      /\ UNCHANGED <<candidates, found, missing, sidecar, refused, response, body, context,
                     builtin, included>>
  BY DeclineFacts DEF RepresentationInv
<1>2. \A q \in Request : Probed(q)'
  BY <1>1, ProbedFrame DEF RepresentationInv
<1>3. CASE r = "main"
  <2>1. HeadInv'
    BY <1>1, <1>3 DEF RepresentationInv, HeadInv, Fresh, Unfiltered, Announced, Bare, Matched
  <2>2. Varies'
    BY <1>1, <1>3 DEF RepresentationInv, Varies, VariesByAccept, Frame
  <2>3. included' => body'["main"] = <<>>
    BY <1>1 DEF RepresentationInv, Embedded
  <2> QED
    BY <1>1, <1>2, <1>3, <2>1, <2>2, <2>3, MainStep
<1>4. CASE r = "sub"
  <2>1. sidecar'["sub"] = Nothing => body'["sub"] = <<>>
    BY <1>1 DEF RepresentationInv, Embedded
  <2> QED
    BY <1>1, <1>2, <1>4, <2>1, SubStep
<1> QED
  BY <1>3, <1>4 DEF Request

\* Candidates are distinct and not yet probed.
LEMMA StartProbingStep ==
    ASSUME RepresentationInv, NEW r \in Request, NEW servable \in BOOLEAN, StartProbing(r, servable)
    PROVE  RepresentationInv'
<1>1. /\ Frame(r) /\ pc[r] = "content" /\ pc'[r] = "probing"
      /\ candidates'[r] \in Seq(SidecarCoding) /\ IsInjective(candidates'[r])
      /\ UNCHANGED <<found, missing, sidecar, refused, response, body, context, builtin, included>>
  BY StartProbingFacts DEF RepresentationInv
<1>2. \A q \in Request : Probed(q)'
  <2>1. Probed(r) /\ config' = config
    BY <1>1 DEF RepresentationInv, Frame
  <2>2. Probed(r)'
    BY <1>1, <2>1 DEF Probed
  <2>3. ASSUME NEW q \in Request \ {r} PROVE Probed(q)'
    BY <1>1, ProbedKept DEF RepresentationInv, Frame, Keeps
  <2> QED
    BY <2>2, <2>3
<1>3. CASE r = "main"
  <2>1. HeadInv'
    BY <1>1, <1>3 DEF RepresentationInv, HeadInv, Fresh, Unfiltered, Announced, Bare, Matched
  <2>2. Varies'
    BY <1>1, <1>3 DEF RepresentationInv, Varies, VariesByAccept, Frame
  <2>3. included' => body'["main"] = <<>>
    BY <1>1 DEF RepresentationInv, Embedded
  <2> QED
    BY <1>1, <1>2, <1>3, <2>1, <2>2, <2>3, MainStep
<1>4. CASE r = "sub"
  <2>1. sidecar'["sub"] = Nothing => body'["sub"] = <<>>
    BY <1>1 DEF RepresentationInv, Embedded
  <2> QED
    BY <1>1, <1>2, <1>4, <2>1, SubStep
<1> QED
  BY <1>3, <1>4 DEF Request

\* A response arrives with its coding on both lists.
LEMMA OriginalStep ==
    ASSUME RepresentationInv, NEW r \in Request, Original(r)
    PROVE  RepresentationInv'
<1>1. /\ Frame(r) /\ pc[r] = "upstream" /\ pc'[r] = "header"
      /\ body'[r] = response'[r].encodings /\ Len(response'[r].encodings) <= 1
      /\ response'[r].recorded <=> response'[r].encodings # <<>>
      /\ ~response'[r].cleared /\ response'[r].vary = response[r].vary
      /\ r = "sub" => body'[r] = <<>>
      /\ UNCHANGED <<candidates, found, missing, sidecar, refused, context, builtin, included>>
  BY OriginalFacts DEF RepresentationInv
<1>2. \A q \in Request : Probed(q)'
  BY <1>1, ProbedFrame DEF RepresentationInv
<1>3. CASE r = "main"
  <2>1. /\ context["main"] = Nothing /\ ~builtin /\ ~included /\ response["main"].status = 0
    BY <1>1, <1>3 DEF RepresentationInv, HeadInv, Unfiltered, Fresh
  <2>2. HeadInv'
    BY <1>1, <1>3, <2>1 DEF HeadInv, Fresh, Unfiltered, Announced, Bare, Matched
  <2>3. Varies'
    BY <1>1, <1>3, <2>1 DEF RepresentationInv, Varies, VariesByAccept, Frame
  <2> QED
    BY <1>1, <1>2, <1>3, <2>1, <2>2, <2>3, MainStep
<1>4. CASE r = "sub"
  BY <1>1, <1>2, <1>4, SubStep
<1> QED
  BY <1>3, <1>4 DEF Request

\* An error page has no coding, and a 406 announces none.
LEMMA SpecialResponseStep ==
    ASSUME RepresentationInv, NEW r \in Request, SpecialResponse(r)
    PROVE  RepresentationInv'
<1>1. /\ Frame(r) /\ pc[r] = "error" /\ pc'[r] = "header"
      /\ SameHead(r) /\ response'[r].vary = response[r].vary /\ body'[r] = <<>>
      /\ UNCHANGED <<candidates, found, missing, sidecar, refused, context, builtin, included>>
  BY SpecialResponseFacts DEF RepresentationInv
<1>2. \A q \in Request : Probed(q)'
  BY <1>1, ProbedFrame DEF RepresentationInv
<1>3. CASE r = "main"
  <2>1. /\ context["main"] = Nothing /\ ~builtin /\ ~included /\ ~response["main"].cleared
        /\ response["main"].status # 500 =>
              response["main"].encodings = <<>> /\ ~response["main"].recorded
    BY <1>1, <1>3 DEF RepresentationInv, HeadInv, Unfiltered, Bare
  <2>2. HeadInv'
    BY <1>1, <1>3, <2>1 DEF HeadInv, Fresh, Unfiltered, Announced, Bare, Matched, SameHead
  <2>3. Varies'
    BY <1>1, <1>3, <2>1 DEF RepresentationInv, Varies, VariesByAccept, Frame, SameHead
  <2> QED
    BY <1>1, <1>2, <1>3, <2>1, <2>2, <2>3, MainStep
<1>4. CASE r = "sub"
  BY <1>1, <1>2, <1>4, SubStep
<1> QED
  BY <1>3, <1>4 DEF Request

\* A probed candidate is found or missing and not probed again.
LEMMA ProbeStep ==
    ASSUME RepresentationInv, NEW r \in Request, Probe(r)
    PROVE  RepresentationInv'
<1> DEFINE c == Head(candidates[r])
<1>1. /\ Frame(r)
      /\ pc[r] = "probing" /\ candidates[r] # <<>> /\ candidates'[r] = Tail(candidates[r])
      /\ \/ found'[r] = found[r] /\ missing'[r] = missing[r]
         \/ found'[r] = found[r] /\ missing'[r] = missing[r] \cup {c}
         \/ found'[r] = found[r] \cup {c} /\ missing'[r] = missing[r]
      /\ sidecar'[r] = sidecar[r] \/ (sidecar'[r] = c /\ found'[r] = found[r] \cup {c})
      /\ UNCHANGED <<refused, context, builtin, included>>
      /\ response'[r].cleared = response[r].cleared
  BY ProbeFacts DEF RepresentationInv
<1>2. \/ /\ pc'[r] = "error" /\ response'[r].status = 500 /\ body'[r] = body[r]
      \/ /\ pc'[r] = "probing" /\ SameHead(r) /\ body'[r] = body[r]
         /\ \/ response'[r].vary = response[r].vary /\ found'[r] = found[r]
            \/ response'[r].vary = (response[r].vary \/ VariesByAccept(r))
      \/ /\ pc'[r] = "header" /\ body'[r] = <<c>> /\ sidecar'[r] = c
         /\ response'[r].encodings = Append(response[r].encodings, c)
         /\ response'[r].recorded /\ response'[r].status = 200
         /\ response'[r].vary = (response[r].vary \/ VariesByAccept(r))
  BY ProbeFacts DEF RepresentationInv
<1>3. candidates[r] \in Seq(SidecarCoding) /\ IsInjective(candidates[r]) /\ Probed(r)
  BY DEF RepresentationInv, Shape, Probed
<1>4. /\ c \in SidecarCoding /\ c \in ToSet(candidates[r]) /\ IsInjective(Tail(candidates[r]))
      /\ ToSet(Tail(candidates[r])) = ToSet(candidates[r]) \ {c}
  BY <1>1, <1>3, TailFacts
<1>5. c # Nothing
  BY <1>4 DEF SidecarCoding, Nothing
<1> HIDE DEF c
<1>6. \A q \in Request : Probed(q)'
  <2>1. /\ config' = config /\ pc'[r] \notin {"idle", "content"}
    BY <1>1, <1>2 DEF Frame
  <2>2. Probed(r)'
    BY <1>1, <1>3, <1>4, <2>1 DEF Probed
  <2>3. ASSUME NEW q \in Request \ {r} PROVE Probed(q)'
    BY <1>1, ProbedKept DEF RepresentationInv, Frame, Keeps
  <2> QED
    BY <2>2, <2>3
<1>7. CASE r = "main"
  <2>1. /\ context["main"] = Nothing /\ ~builtin /\ ~included /\ ~response["main"].cleared
        /\ response["main"].status = 0
        /\ response["main"].encodings = <<>> /\ ~response["main"].recorded
    BY <1>1, <1>7 DEF RepresentationInv, HeadInv, Unfiltered, Fresh
  <2>2. HeadInv'
    <3>1. Unfiltered'
      BY <1>1, <1>7, <2>1 DEF Unfiltered
    <3>2. CASE pc'[r] = "error" /\ response'[r].status = 500
      BY <1>7, <3>1, <3>2 DEF HeadInv, Fresh, Announced, Bare, Matched
    <3>3. CASE pc'[r] = "probing" /\ SameHead(r)
      BY <1>7, <2>1, <3>1, <3>3 DEF HeadInv, Fresh, Announced, Bare, Matched, SameHead
    <3>4. CASE /\ pc'[r] = "header" /\ body'[r] = <<c>> /\ response'[r].recorded
               /\ response'[r].encodings = Append(response[r].encodings, c)
      <4>1. response'["main"].encodings = <<c>> /\ Len(<<c>>) <= 1 /\ <<c>> # <<>>
        <5>1. response'["main"].encodings = Append(<<>>, c)
          BY <1>7, <2>1, <3>4
        <5> QED
          BY <1>4, <5>1, OneCoding
      <4> QED
        BY <1>7, <3>1, <3>4, <4>1 DEF HeadInv, Fresh, Announced, Bare, Matched
    <3> QED
      BY <1>2, <3>2, <3>3, <3>4
  <2>3. Varies'
    <3>1. config' = config /\ VariesByAccept("main")' = VariesByAccept("main")
      BY <1>1 DEF Frame, VariesByAccept
    <3>2. VariesByAccept("main") /\ (found["main"] # {} \/ refused["main"] = "static")
             => response["main"].vary
      BY <2>1 DEF RepresentationInv, Varies
    <3>3. CASE response'[r].status = 500
      BY <1>7, <3>3 DEF Varies
    <3>4. CASE response'[r].vary = response[r].vary /\ found'[r] = found[r]
      BY <1>1, <1>7, <2>1, <3>1, <3>2, <3>4 DEF Varies
    <3>5. CASE response'[r].vary = (response[r].vary \/ VariesByAccept(r))
      BY <1>1, <1>7, <2>1, <3>1, <3>5, ZenonT(60) DEF Varies
    <3> QED
      BY <1>2, <3>3, <3>4, <3>5
  <2> QED
    BY <1>1, <1>6, <1>7, <2>1, <2>2, <2>3, MainStep
<1>8. CASE r = "sub"
  <2>1. sidecar["sub"] = Nothing => body["sub"] = <<>>
    BY DEF RepresentationInv, Embedded
  <2>2. sidecar'["sub"] = Nothing => body'["sub"] = <<>>
    BY <1>1, <1>2, <1>3, <1>5, <1>8, <2>1 DEF Probed
  <2> QED
    BY <1>1, <1>6, <1>8, <2>2, SubStep
<1> QED
  BY <1>7, <1>8 DEF Request

\* The fallback or 406.
LEMMA ProbeEndStep ==
    ASSUME RepresentationInv, NEW r \in Request, ProbeEnd(r)
    PROVE  RepresentationInv'
<1>1. /\ Frame(r) /\ pc[r] = "probing"
      /\ UNCHANGED <<candidates, found, missing, sidecar, body, context, builtin, included>>
      /\ response'[r].cleared = response[r].cleared
  BY ProbeEndFacts DEF RepresentationInv
<1>2. \/ pc'[r] = "upstream" /\ response' = response /\ refused' = refused
      \/ /\ pc'[r] = "error" /\ response'[r].status = 406
         /\ response'[r].encodings = response[r].encodings
         /\ response'[r].recorded = response[r].recorded
         /\ response'[r].vary = (response[r].vary \/ VariesByAccept(r))
      \/ pc'[r] = "error" /\ response'[r].status = 500 /\ refused' = refused
  BY ProbeEndFacts DEF RepresentationInv
<1>3. \A q \in Request : Probed(q)'
  BY <1>1, <1>2, ProbedFrame DEF RepresentationInv
<1>4. CASE r = "main"
  <2>1. /\ context["main"] = Nothing /\ ~builtin /\ ~included /\ ~response["main"].cleared
        /\ response["main"].status = 0
        /\ response["main"].encodings = <<>> /\ ~response["main"].recorded
    BY <1>1, <1>4 DEF RepresentationInv, HeadInv, Unfiltered, Fresh
  <2>2. HeadInv'
    <3>1. Unfiltered'
      BY <1>1, <1>4, <2>1 DEF Unfiltered
    <3>2. CASE pc'[r] = "upstream" /\ response' = response
      BY <1>4, <2>1, <3>1, <3>2 DEF HeadInv, Fresh, Announced, Bare, Matched
    <3>3. CASE /\ pc'[r] = "error" /\ response'[r].encodings = response[r].encodings
               /\ response'[r].recorded = response[r].recorded
      BY <1>4, <2>1, <3>1, <3>3 DEF HeadInv, Fresh, Announced, Bare, Matched
    <3>4. CASE pc'[r] = "error" /\ response'[r].status = 500
      BY <1>4, <3>1, <3>4 DEF HeadInv, Fresh, Announced, Bare, Matched
    <3> QED
      BY <1>2, <3>2, <3>3, <3>4
  <2>3. Varies'
    <3>1. config' = config /\ VariesByAccept("main")' = VariesByAccept("main")
      BY <1>1 DEF Frame, VariesByAccept
    <3>2. VariesByAccept("main") /\ (found["main"] # {} \/ refused["main"] = "static")
             => response["main"].vary
      BY <2>1 DEF RepresentationInv, Varies
    <3> QED
      BY <1>1, <1>2, <1>4, <2>1, <3>1, <3>2, ZenonT(60) DEF Varies
  <2> QED
    BY <1>1, <1>3, <1>4, <2>1, <2>2, <2>3, MainStep
<1>5. CASE r = "sub"
  <2>1. sidecar'["sub"] = Nothing => body'["sub"] = <<>>
    BY <1>1 DEF RepresentationInv, Embedded
  <2> QED
    BY <1>1, <1>3, <1>5, <2>1, SubStep
<1> QED
  BY <1>4, <1>5 DEF Request

\* A refused response had no coding.
LEMMA RejectStep ==
    ASSUME RepresentationInv, NEW r \in Request, Reject(r)
    PROVE  RepresentationInv'
<1>1. /\ Frame(r) /\ pc[r] = "header" /\ pc'[r] = "error"
      /\ response[r].status = 200 /\ ~response[r].recorded
      /\ response'[r].status = 406
      /\ response'[r].encodings = response[r].encodings
      /\ response'[r].recorded = response[r].recorded
      /\ response'[r].cleared = response[r].cleared
      /\ response[r].vary => response'[r].vary
      /\ refused'[r] = "runtime"
      /\ UNCHANGED <<candidates, found, missing, sidecar, body, context, builtin, included>>
  BY RejectFacts DEF RepresentationInv
<1>2. \A q \in Request : Probed(q)'
  BY <1>1, ProbedFrame DEF RepresentationInv
<1>3. CASE r = "main"
  <2>1. /\ context["main"] = Nothing /\ ~builtin /\ ~included /\ ~response["main"].cleared
        /\ response["main"].encodings = <<>>
    BY <1>1, <1>3 DEF RepresentationInv, HeadInv, Unfiltered, Announced
  <2>2. HeadInv'
    BY <1>1, <1>3, <2>1 DEF HeadInv, Fresh, Unfiltered, Announced, Bare, Matched
  <2>3. Varies'
    BY <1>1, <1>3, <2>1 DEF RepresentationInv, Varies, VariesByAccept, Frame
  <2> QED
    BY <1>1, <1>2, <1>3, <2>1, <2>2, <2>3, MainStep
<1>4. CASE r = "sub"
  <2>1. sidecar'["sub"] = Nothing => body'["sub"] = <<>>
    BY <1>1 DEF RepresentationInv, Embedded
  <2> QED
    BY <1>1, <1>2, <1>4, <2>1, SubStep
<1> QED
  BY <1>3, <1>4 DEF Request

\* The page's response goes on with headers h, which say as much as the body's codings;
\* the context is new, or NGINX's gzip may still take the response.
LEMMA AnswerMain ==
    ASSUME Shape, NEW h \in Header, Frame("main"), Answers("main", h), pc["main"] = "header",
           body' = body, ~builtin,
           h.status # 500 =>
             \/ /\ context'["main"] = Nothing /\ ~h.cleared
                /\ body["main"] = h.encodings /\ Len(h.encodings) <= 1
                /\ h.recorded <=> h.encodings # <<>>
             \/ /\ context'["main"] # Nothing /\ h.cleared
                /\ body["main"] = <<>> /\ h.encodings = <<context'["main"]>>
                /\ ~BuiltinGzips("main", h)
    PROVE  HeadInv'
<1> DEFINE e == response'["main"].encodings
           d == Composed(body'["main"], context'["main"], builtin')
<1>1. /\ pc'["main"] \in {"body", "closed"}
      /\ response'["main"].status = h.status /\ response'["main"].cleared = h.cleared
      /\ BuiltinGzips("main", h) => builtin' /\ e = Append(h.encodings, "gzip")
      /\ ~BuiltinGzips("main", h) => ~builtin' /\ e = h.encodings
  BY DEF Answers
<1>2. Fresh' /\ Unfiltered' /\ Announced' /\ Bare'
  BY <1>1 DEF Fresh, Unfiltered, Announced, Bare
<1>3. Delivered("main")' = d
  BY DEF Delivered, Applied, Composed
<1>4. /\ body'["main"] \in Seq(ContentCoding) /\ builtin' \in BOOLEAN
      /\ context'["main"] \in ContentCoding \cup {Nothing}
  BY DEF Frame, Shape, Request
<1>5. body["main"] = body'["main"]
  OBVIOUS
<1>6. /\ context'["main"] = Nothing /\ ~builtin' => d = body'["main"]
      /\ context'["main"] = Nothing /\ builtin' /\ body'["main"] = <<>> => d = <<"gzip">>
      /\ context'["main"] # Nothing /\ ~builtin' /\ body'["main"] = <<>> => d = <<context'["main"]>>
  BY <1>4, ComposedFacts
<1> HIDE DEF d, e
<1>7. BuiltinGzips("main", h) => ~h.recorded
  BY DEF BuiltinGzips
<1>8. CASE h.status = 500
  BY <1>1, <1>2, <1>8 DEF HeadInv, Matched
<1>9. CASE /\ context'["main"] = Nothing /\ ~h.cleared
           /\ body["main"] = h.encodings /\ Len(h.encodings) <= 1
           /\ h.recorded <=> h.encodings # <<>>
  <2>1. CASE BuiltinGzips("main", h)
    <3>1. h.encodings = <<>> /\ builtin'
      BY <1>1, <1>7, <1>9, <2>1
    <3>2. e = <<"gzip">> /\ Len(e) <= 1
      <4>1. "gzip" \in ContentCoding /\ e = Append(<<>>, "gzip")
        BY <1>1, <2>1, <3>1 DEF ContentCoding, Coding
      <4> QED
        BY <4>1, OneCoding
    <3>3. d = <<"gzip">>
      BY <1>5, <1>6, <1>9, <3>1
    <3> QED
      BY <1>1, <1>2, <1>3, <1>9, <3>2, <3>3 DEF HeadInv, Matched, e
  <2>2. CASE ~BuiltinGzips("main", h)
    <3>1. e = h.encodings /\ ~builtin'
      BY <1>1, <2>2
    <3>2. d = e
      BY <1>5, <1>6, <1>9, <3>1
    <3> QED
      BY <1>1, <1>2, <1>3, <1>9, <3>1, <3>2 DEF HeadInv, Matched, e
  <2> QED
    BY <2>1, <2>2
<1>10. CASE /\ context'["main"] # Nothing /\ h.cleared
            /\ body["main"] = <<>> /\ h.encodings = <<context'["main"]>>
            /\ ~BuiltinGzips("main", h)
  <2>1. e = <<context'["main"]>> /\ ~builtin' /\ Len(e) <= 1
    <3>1. e = <<context'["main"]>> /\ ~builtin'
      BY <1>1, <1>10
    <3>2. Len(<<context'["main"]>>) = 1
      BY <1>4, OneCoding
    <3> QED
      BY <3>1, <3>2
  <2>2. d = <<context'["main"]>>
    BY <1>5, <1>6, <1>10, <2>1
  <2> QED
    BY <1>1, <1>2, <1>3, <1>10, <2>1, <2>2 DEF HeadInv, Matched, e
<1> QED
  BY <1>8, <1>9, <1>10

\* Of a subrequest nothing is encoded.
LEMMA AnswerSub ==
    ASSUME RepresentationInv, NEW h, Frame("sub"), Answers("sub", h),
           UNCHANGED <<candidates, found, missing, sidecar, body, context, included>>
    PROVE  RepresentationInv'
<1>1. builtin' = builtin
  <2>1. ~BuiltinGzips("sub", h)
    BY DEF BuiltinGzips
  <2>2. builtin' = (builtin \/ BuiltinGzips("sub", h)) /\ builtin \in BOOLEAN
    BY DEF Answers, RepresentationInv, Shape
  <2> QED
    BY <2>1, <2>2
<1>2. "sub" \in Request /\ pc'["sub"] \notin {"idle", "content"}
  BY DEF Answers, Request
<1>3. \A q \in Request : Probed(q)'
  BY <1>2, ProbedFrame DEF RepresentationInv
<1>4. sidecar'["sub"] = Nothing => body'["sub"] = <<>>
  BY DEF RepresentationInv, Embedded
<1> QED
  BY <1>1, <1>3, <1>4, SubStep

\* What passes is encoded by NGINX's gzip at most.
LEMMA PassStep ==
    ASSUME RepresentationInv, NEW r \in Request, Pass(r)
    PROVE  RepresentationInv'
<1>1. /\ Frame(r) /\ Answers(r, response[r]) /\ pc[r] = "header"
      /\ UNCHANGED <<candidates, found, missing, sidecar, refused, body, context, included>>
  BY PassFacts DEF RepresentationInv
<1>2. CASE r = "main"
  <2>1. \A q \in Request : Probed(q)'
    <3>1. pc'[r] \notin {"idle", "content"}
      BY <1>1, <1>2 DEF Answers
    <3> QED
      BY <1>1, <3>1, ProbedFrame DEF RepresentationInv
  <2>2. context["main"] = Nothing /\ ~builtin /\ ~included /\ ~response["main"].cleared
    BY <1>1, <1>2 DEF RepresentationInv, HeadInv, Unfiltered
  <2>3. response["main"].status # 500 =>
          /\ body["main"] = response["main"].encodings /\ Len(response["main"].encodings) <= 1
          /\ response["main"].recorded <=> response["main"].encodings # <<>>
    BY <1>1, <1>2 DEF RepresentationInv, HeadInv, Announced
  <2>4. response["main"] \in Header /\ Shape
    BY DEF RepresentationInv, Shape, Request
  <2>5. HeadInv'
    BY <1>1, <1>2, <2>2, <2>3, <2>4, AnswerMain
  <2>6. Varies'
    BY <1>1, <1>2, <2>2 DEF RepresentationInv, Varies, VariesByAccept, Frame, Answers
  <2> QED
    BY <1>1, <1>2, <2>1, <2>2, <2>5, <2>6, MainStep
<1>3. CASE r = "sub"
  BY <1>1, <1>3, AnswerSub
<1> QED
  BY <1>2, <1>3 DEF Request

\* Where the header filter encodes, nothing has been encoded yet.
LEMMA EncodesMain ==
    ASSUME RepresentationInv, NEW r \in Request, Encodes(r), pc[r] = "header"
    PROVE  /\ r = "main" /\ Shape
           /\ response["main"].status = 200 /\ ~response["main"].recorded
           /\ response["main"].encodings = <<>> /\ body["main"] = <<>>
           /\ ~response["main"].cleared
           /\ context["main"] = Nothing /\ ~builtin /\ ~included
           /\ \A h : ~BuiltinGzips("main", h)
           /\ Negotiated("main") \in DOMAIN config["main"].codecs
           /\ Negotiated("main") \in ContentCoding /\ Negotiated("main") # Nothing
           /\ \A q \in Request : Probed(q)
           /\ Varies
<1>1. /\ r = "main" /\ ~config[r].builtin_gzip
      /\ response[r].status = 200 /\ ~response[r].recorded
      /\ Negotiated(r) \in DOMAIN config[r].codecs /\ Negotiated(r) \in ContentCoding
      /\ Negotiated(r) # Nothing
  BY EncodesFacts DEF RepresentationInv
<1>2. /\ context["main"] = Nothing /\ ~builtin /\ ~included /\ ~response["main"].cleared
      /\ response["main"].encodings = <<>> /\ body["main"] = <<>>
  BY <1>1 DEF RepresentationInv, HeadInv, Unfiltered, Announced
<1>3. \A h : ~BuiltinGzips("main", h)
  BY <1>1 DEF BuiltinGzips
<1> QED
  BY <1>1, <1>2, <1>3 DEF RepresentationInv

\* Vary without an encoding.
LEMMA EncodingNotAddedStep ==
    ASSUME RepresentationInv, NEW r \in Request, EncodingNotAdded(r)
    PROVE  RepresentationInv'
<1>1. /\ Frame(r) /\ Answers(r, WithVary(r)) /\ pc[r] = "header" /\ Encodes(r)
      /\ UNCHANGED <<candidates, found, missing, sidecar, refused, body, context, included>>
  BY EncodingNotAddedFacts DEF RepresentationInv
<1>2. /\ r = "main" /\ Shape
      /\ response["main"].status = 200 /\ ~response["main"].recorded
      /\ response["main"].encodings = <<>> /\ body["main"] = <<>>
      /\ ~response["main"].cleared
      /\ context["main"] = Nothing /\ ~builtin /\ ~included
      /\ \A q \in Request : Probed(q)
      /\ Varies
  BY <1>1, EncodesMain
<1> DEFINE h == WithVary("main")
<1>3. /\ h \in Header /\ h.encodings = response["main"].encodings
      /\ h.recorded = response["main"].recorded /\ h.status = response["main"].status
      /\ h.cleared = response["main"].cleared
      /\ h.vary = (response["main"].vary \/ config["main"].vary)
  BY <1>1, <1>2, PreparedFacts
<1> HIDE DEF h
<1>4. Frame("main") /\ Answers("main", h) /\ pc["main"] = "header"
  BY <1>1, <1>2 DEF h
<1>5. \A q \in Request : Probed(q)'
  <2>1. pc'[r] \notin {"idle", "content"}
    BY <1>2, <1>4 DEF Answers
  <2> QED
    BY <1>1, <1>2, <2>1, ProbedFrame
<1>6. HeadInv'
  <2>1. Len(<<>>) <= 1
    OBVIOUS
  <2>2. h.encodings = <<>> /\ Len(h.encodings) <= 1 /\ ~h.recorded /\ ~h.cleared
    BY <1>2, <1>3, <2>1
  <2>3. context'["main"] = Nothing /\ body["main"] = h.encodings /\ body' = body
    BY <1>1, <1>2, <2>2
  <2>4. h.recorded <=> h.encodings # <<>>
    BY <2>2
  <2> QED
    BY <1>2, <1>3, <1>4, <2>2, <2>3, <2>4, AnswerMain
<1>7. Varies'
  <2>1. response["main"].vary => response'["main"].vary
    BY <1>3, <1>4 DEF Answers
  <2>2. config' = config
    BY <1>4 DEF Frame
  <2> QED
    BY <1>1, <1>2, <2>1, <2>2 DEF Varies, VariesByAccept
<1> QED
  BY <1>1, <1>2, <1>4, <1>5, <1>6, <1>7, MainStep

\* The new context is the only coding.
LEMMA CompressStep ==
    ASSUME RepresentationInv, NEW r \in Request, Compress(r)
    PROVE  RepresentationInv'
<1>1. /\ Frame(r) /\ Answers(r, Prepared(r)) /\ pc[r] = "header" /\ Encodes(r)
      /\ context'[r] = Negotiated(r)
      /\ UNCHANGED <<candidates, found, missing, sidecar, refused, body, included>>
  BY CompressFacts DEF RepresentationInv
<1>2. /\ r = "main" /\ Shape
      /\ response["main"].status = 200 /\ ~response["main"].recorded
      /\ response["main"].encodings = <<>> /\ body["main"] = <<>>
      /\ ~builtin /\ ~included
      /\ \A h : ~BuiltinGzips("main", h)
      /\ Negotiated("main") \in DOMAIN config["main"].codecs
      /\ Negotiated("main") \in ContentCoding /\ Negotiated("main") # Nothing
      /\ \A q \in Request : Probed(q)
      /\ Varies
  BY <1>1, EncodesMain
<1> DEFINE h == Prepared("main")
<1>3. /\ h \in Header /\ h.encodings = Append(response["main"].encodings, Negotiated("main"))
      /\ h.status = response["main"].status /\ h.cleared
      /\ h.vary = (response["main"].vary \/ config["main"].vary)
  BY <1>1, <1>2, PreparedFacts
<1> HIDE DEF h
<1>4. /\ Frame("main") /\ Answers("main", h) /\ pc["main"] = "header"
      /\ context'["main"] = Negotiated("main")
  BY <1>1, <1>2 DEF h
<1>5. h.encodings = <<context'["main"]>>
  BY <1>2, <1>3, <1>4, OneCoding
<1>6. \A q \in Request : Probed(q)'
  <2>1. pc'["main"] \notin {"idle", "content"} /\ config' = config
    BY <1>4 DEF Answers, Frame
  <2>2. Probed("main")'
    BY <1>1, <1>2, <1>4, <2>1 DEF Probed
  <2>3. ASSUME NEW q \in Request \ {"main"} PROVE Probed(q)'
    BY <1>2, <1>4, ProbedKept DEF Frame, Keeps
  <2> QED
    BY <2>2, <2>3
<1>7. HeadInv'
  BY <1>1, <1>2, <1>3, <1>4, <1>5, AnswerMain
<1>8. Varies'
  BY <1>1, <1>2, <1>3, <1>4 DEF Varies, VariesByAccept, Frame, Answers
<1> QED
  BY <1>1, <1>2, <1>4, <1>6, <1>7, <1>8, MainStep

\* A closed connection delivers nothing.
LEMMA InstallFailsStep ==
    ASSUME RepresentationInv, NEW r \in Request, InstallFails(r)
    PROVE  RepresentationInv'
<1>1. /\ Frame(r) /\ pc[r] = "header" /\ pc'[r] = "closed" /\ Encodes(r)
      /\ response[r].vary => response'[r].vary
      /\ UNCHANGED <<candidates, found, missing, sidecar, refused, body, context, builtin, included>>
  BY InstallFailsFacts DEF RepresentationInv
<1>2. /\ r = "main" /\ response["main"].status = 200
      /\ context["main"] = Nothing /\ ~builtin /\ ~included
      /\ \A q \in Request : Probed(q)
      /\ Varies
  BY <1>1, EncodesMain
<1>3. \A q \in Request : Probed(q)'
  BY <1>1, <1>2, ProbedFrame
<1>4. HeadInv'
  BY <1>1, <1>2 DEF HeadInv, Fresh, Unfiltered, Announced, Bare, Matched
<1>5. Varies'
  BY <1>1, <1>2 DEF Varies, VariesByAccept, Frame
<1> QED
  BY <1>1, <1>2, <1>3, <1>4, <1>5, MainStep

\* Only an unencoded page includes.
LEMMA IncludeStep ==
    ASSUME RepresentationInv, Include
    PROVE  RepresentationInv'
<1>1. /\ Frame("sub") /\ pc["main"] = "body" /\ pc["sub"] = "idle" /\ pc'["sub"] = "content"
      /\ body["main"] = <<>> /\ included'
      /\ UNCHANGED <<candidates, found, missing, sidecar, refused, response, body, context, builtin>>
  BY IncludeFacts DEF RepresentationInv
<1>2. Keeps("main") /\ config' = config /\ Shape'
  BY <1>1 DEF Frame, Request
<1>3. \A q \in Request : Probed(q)'
  BY <1>1, ProbedFrame DEF RepresentationInv, Request
<1>4. HeadInv'
  <2>1. Fresh' /\ Unfiltered' /\ Announced' /\ Bare'
    BY <1>1, <1>2 DEF RepresentationInv, HeadInv, Keeps, Fresh, Unfiltered, Announced, Bare
  <2>2. Delivered("main")' = Delivered("main")
    BY <1>1 DEF Delivered, Applied
  <2>3. Matched'
    BY <1>1, <1>2, <2>2 DEF RepresentationInv, HeadInv, Keeps, Matched
  <2> QED
    BY <2>1, <2>3 DEF HeadInv
<1>5. Varies' /\ Embedded'
  BY <1>1, <1>2 DEF RepresentationInv, Varies, VariesByAccept, Embedded
<1> QED
  BY <1>2, <1>3, <1>4, <1>5 DEF RepresentationInv

\* Delivering changes no header.
LEMMA DeliverStep ==
    ASSUME RepresentationInv, Deliver
    PROVE  RepresentationInv'
<1>1. /\ Frame("main") /\ pc["main"] = "body" /\ pc'["main"] = "done"
      /\ UNCHANGED <<candidates, found, missing, sidecar, refused, response, body, context,
                     builtin, included>>
  BY DeliverFacts DEF RepresentationInv
<1>2. \A q \in Request : Probed(q)'
  BY <1>1, ProbedFrame DEF RepresentationInv, Request
<1>3. HeadInv'
  <2>1. Delivered("main")' = Delivered("main")
    BY <1>1 DEF Delivered, Applied
  <2> QED
    BY <1>1, <2>1 DEF RepresentationInv, HeadInv, Fresh, Unfiltered, Announced, Bare, Matched
<1>4. Varies'
  BY <1>1 DEF RepresentationInv, Varies, VariesByAccept, Frame
<1>5. included' => body'["main"] = <<>>
  BY <1>1 DEF RepresentationInv, Embedded
<1> QED
  BY <1>1, <1>2, <1>3, <1>4, <1>5, MainStep

-----------------------------------------------------------------------------
\* The first state.
LEMMA RepresentationInit ==
    ASSUME Init
    PROVE  RepresentationInv
<1>1. Shape
  <2>1. NoResponse \in Header
    BY DEF NoResponse, Header, ContentType
  <2>2. pc \in [Request -> Line]
    BY DEF Init, Request, Line
  <2>3. /\ config \in [Request -> Configs] /\ header \in Headers
        /\ candidates = [r \in Request |-> <<>>]
        /\ found = [r \in Request |-> {}] /\ missing = [r \in Request |-> {}]
        /\ sidecar = [r \in Request |-> Nothing] /\ refused = [r \in Request |-> Nothing]
        /\ response = [r \in Request |-> NoResponse]
        /\ body = [r \in Request |-> <<>>] /\ context = [r \in Request |-> Nothing]
        /\ builtin = FALSE /\ included = FALSE
    BY DEF Init
  <2>4. /\ candidates \in [Request -> Seq(SidecarCoding)] /\ body \in [Request -> Seq(ContentCoding)]
        /\ found \in [Request -> SUBSET SidecarCoding] /\ missing \in [Request -> SUBSET SidecarCoding]
    BY <2>3
  <2>5. /\ sidecar \in [Request -> SidecarCoding \cup {Nothing}]
        /\ refused \in [Request -> {"static", "runtime", Nothing}]
        /\ context \in [Request -> ContentCoding \cup {Nothing}]
        /\ response \in [Request -> Header]
    BY <2>1, <2>3
  <2> QED
    BY <2>2, <2>3, <2>4, <2>5 DEF Shape
<1>2. \A q \in Request : Probed(q)
  <2>1. TAKE q \in Request
  <2>2. /\ candidates[q] = <<>> /\ found[q] = {} /\ missing[q] = {}
        /\ sidecar[q] = Nothing /\ context[q] = Nothing
    BY DEF Init
  <2>3. IsInjective(<<>>) /\ ToSet(<<>>) = {}
    BY DEF IsInjective, ToSet
  <2> QED
    BY <2>2, <2>3 DEF Probed
<1>3. /\ response["main"] = NoResponse /\ pc["main"] = "content"
      /\ context["main"] = Nothing /\ builtin = FALSE /\ included = FALSE
      /\ found["main"] = {} /\ refused["main"] = Nothing /\ body["sub"] = <<>>
  BY DEF Init, Request
<1>4. HeadInv
  BY <1>3 DEF HeadInv, Fresh, Unfiltered, Announced, Bare, Matched, NoResponse
<1>5. Embedded /\ Varies
  BY <1>3 DEF Embedded, Varies, Nothing
<1> QED
  BY <1>1, <1>2, <1>4, <1>5 DEF RepresentationInv

\* Every step.
LEMMA RepresentationStep ==
    ASSUME RepresentationInv, [Next]_vars
    PROVE  RepresentationInv'
<1>1. CASE UNCHANGED vars
  <2>1. UNCHANGED <<config, header, pc, candidates, found, missing, sidecar, refused, response,
                    body, context, builtin, included>>
    BY <1>1 DEF vars
  <2>2. Shape' /\ Embedded' /\ Varies'
    BY <2>1 DEF RepresentationInv, Shape, Embedded, Varies, VariesByAccept
  <2>3. \A q \in Request : Probed(q)'
    BY <2>1, ProbedKept DEF RepresentationInv
  <2>4. Fresh' /\ Unfiltered' /\ Announced' /\ Bare'
    BY <2>1 DEF RepresentationInv, HeadInv, Fresh, Unfiltered, Announced, Bare
  <2>5. Matched'
    <3>1. Delivered("main")' = Delivered("main")
      BY <2>1 DEF Delivered, Applied
    <3> QED
      BY <2>1, <3>1 DEF RepresentationInv, HeadInv, Matched
  <2> QED
    BY <2>2, <2>3, <2>4, <2>5 DEF RepresentationInv, HeadInv
<1>2. ASSUME NEW r \in Request, NEW servable \in BOOLEAN,
             Decline(r, servable) \/ StartProbing(r, servable)
      PROVE  RepresentationInv'
  BY <1>2, DeclineStep, StartProbingStep
<1>3. ASSUME NEW r \in Request, Probe(r) \/ ProbeEnd(r)
      PROVE  RepresentationInv'
  BY <1>3, ProbeStep, ProbeEndStep
<1>4. ASSUME NEW r \in Request, Original(r) \/ SpecialResponse(r)
      PROVE  RepresentationInv'
  BY <1>4, OriginalStep, SpecialResponseStep
<1>5. ASSUME NEW r \in Request, Pass(r) \/ Reject(r) \/ EncodingNotAdded(r)
      PROVE  RepresentationInv'
  BY <1>5, PassStep, RejectStep, EncodingNotAddedStep
<1>6. ASSUME NEW r \in Request, InstallFails(r) \/ Compress(r)
      PROVE  RepresentationInv'
  BY <1>6, InstallFailsStep, CompressStep
<1>7. CASE Include \/ Deliver
  BY <1>7, IncludeStep, DeliverStep
<1> QED
  BY <1>1, <1>2, <1>3, <1>4, <1>5, <1>6, <1>7 DEF Next

\* The invariant holds throughout.
LEMMA RepresentationInvariant == Spec => []RepresentationInv
<1>1. Init => RepresentationInv
  BY RepresentationInit
<1>2. RepresentationInv /\ [Next]_vars => RepresentationInv'
  BY RepresentationStep
<1> QED
  BY <1>1, <1>2, PTL DEF Spec

\* The variables have their types, a sidecar that is sent was found, what was found is
\* not missing, and the installed coding is one the location has an encoder for
\* (static_file, filter/select.rs).
THEOREM TypeCorrect == Spec => []TypeOK
<1>1. RepresentationInv => TypeOK
  <2> SUFFICES ASSUME RepresentationInv PROVE TypeOK
    OBVIOUS
  <2>1. Shape /\ \A q \in Request : Probed(q)
    BY DEF RepresentationInv
  <2>2. ASSUME NEW r \in Request
        PROVE  /\ ToSet(candidates[r]) \subseteq SidecarCoding
               /\ found[r] \subseteq SidecarCoding /\ missing[r] \subseteq SidecarCoding
               /\ found[r] \cap missing[r] = {}
               /\ sidecar[r] \in found[r] \cup {Nothing}
               /\ refused[r] \in {"static", "runtime", Nothing}
               /\ context[r] \in DOMAIN config[r].codecs \cup {Nothing}
               /\ response[r].status \in {0, 200, 404, 406, 500}
               /\ ToSet(response[r].encodings) \cup ToSet(body[r]) \subseteq Coding \ {"identity"}
    <3>1. /\ candidates[r] \in Seq(SidecarCoding) /\ found[r] \in SUBSET SidecarCoding
          /\ missing[r] \in SUBSET SidecarCoding /\ refused[r] \in {"static", "runtime", Nothing}
          /\ response[r] \in Header /\ body[r] \in Seq(ContentCoding)
      BY <2>1 DEF Shape
    <3>2. response[r].status \in {0, 200, 404, 406, 500} /\ response[r].encodings \in Seq(ContentCoding)
      BY <3>1 DEF Header
    <3>3. ToSet(candidates[r]) \subseteq SidecarCoding
      BY <3>1 DEF ToSet
    <3>4. ToSet(response[r].encodings) \subseteq ContentCoding /\ ToSet(body[r]) \subseteq ContentCoding
      BY <3>1, <3>2 DEF ToSet
    <3>5. /\ found[r] \cap missing[r] = {} /\ sidecar[r] \in found[r] \cup {Nothing}
          /\ context[r] \in DOMAIN config[r].codecs \cup {Nothing}
      BY <2>1 DEF Probed
    <3> QED
      BY <3>1, <3>2, <3>3, <3>4, <3>5 DEF ContentCoding
  <2>3. /\ config \in [Request -> Configs] /\ header \in Headers /\ pc \in [Request -> Line]
        /\ builtin \in BOOLEAN /\ included \in BOOLEAN
    BY <2>1 DEF Shape
  <2> QED
    BY <2>2, <2>3 DEF TypeOK
<1> QED
  BY <1>1, RepresentationInvariant, PTL

-----------------------------------------------------------------------------
(***************************************************************************)
(* The choice: which sidecar, which coding, and when none.                 *)
(***************************************************************************)
Negotiates(q) == config[q].static_mode = "on"
Welcome(c) == Accepted("on", accept, c)
Favours(q, c, d) == Ahead(accept, config[q].priority, c, d)

\* A negotiating handler goes through its candidates from the best on, and each sidecar
\* there may be is one of them or has been probed.
InOrder(q) ==
    pc[q] = "probing" /\ Negotiates(q) =>
        /\ \A i, j \in DOMAIN candidates[q] :
              i < j => Favours(q, candidates[q][i], candidates[q][j])
        /\ SidecarCoding \subseteq ToSet(candidates[q]) \cup found[q] \cup missing[q]

\* It stops at a sidecar the client accepts, which leaves nothing for the header filter.
Stops(q) ==
    Negotiates(q) /\ (\E c \in found[q] : Welcome(c)) =>
        /\ pc[q] \notin {"idle", "content", "probing", "upstream"}
        /\ pc[q] \in {"error", "header"} => response[q].recorded \/ response[q].status # 200

Unrefused(q) == pc[q] \in {"idle", "content", "probing"} => refused[q] = Nothing

BestCoding(q) ==
    context[q] # Nothing =>
        /\ Quality(accept, context[q]) > 0
        /\ \A d \in DOMAIN config[q].codecs \cup {"identity"} :
              d # context[q] => Favours(q, context[q], d)

BestSidecar(q) ==
    sidecar[q] # Nothing /\ Negotiates(q) =>
        /\ Welcome(sidecar[q])
        /\ \A d \in SidecarCoding : Favours(q, d, sidecar[q]) => d \in missing[q]

Refusable(q) ==
    refused[q] # Nothing =>
        /\ Quality(accept, "identity") = 0
        /\ config[q].enabled => \A c \in DOMAIN config[q].codecs : Quality(accept, c) = 0
        /\ Negotiates(q) => \A c \in found[q] : Quality(accept, c) = 0

Choice(q) ==
    InOrder(q) /\ Stops(q) /\ Unrefused(q) /\ BestCoding(q) /\ BestSidecar(q) /\ Refusable(q)
ChoiceInv == \A q \in Request : Choice(q)

\* Preference orders the codings.
LEMMA AheadFacts ==
    ASSUME Shape, NEW q \in Request
    PROVE  /\ \A c, d \in Coding : Preferred(q, c, d) <=> Favours(q, c, d)
           /\ \A c, d \in Coding : Favours(q, c, d) => ~Favours(q, d, c) /\ Quality(accept, c) >= Quality(accept, d)
<1> DEFINE p == config[q].priority
<1>1. /\ p \in Seq(Coding) /\ IsInjective(p) /\ \A c \in Coding : \E i \in DOMAIN p : p[i] = c
      /\ \A c \in Coding : Quality(accept, c) = ClientWeight(c)
      /\ \A c \in Coding : Quality(accept, c) \in QualityValue
  BY OrderFacts DEF IsOrder
<1>2. \A c \in Coding : Quality(accept, c) \in Int
  <2>1. \A w \in QualityValue : w \in Int
    BY DEF QualityValue, QualityMax
  <2> QED
    BY <1>1, <2>1
<1>3. \A i \in DOMAIN p : i \in Int
  BY <1>1
<1>4. ASSUME NEW c \in Coding
      PROVE  /\ Position(q, c) \in DOMAIN p /\ p[Position(q, c)] = c
             /\ \A i \in DOMAIN p : p[i] = c => i = Position(q, c)
  <2>1. \E i \in DOMAIN p : p[i] = c
    BY <1>1
  <2>2. Position(q, c) \in DOMAIN p /\ p[Position(q, c)] = c
    BY <2>1 DEF Position
  <2> QED
    BY <1>1, <2>2 DEF IsInjective
<1> HIDE DEF p
<1>5. \A c, d \in Coding : FirstIn(p, c, d) <=> Position(q, c) < Position(q, d)
  <2> TAKE c \in Coding, d \in Coding
  <2>1. /\ Position(q, c) \in DOMAIN p /\ p[Position(q, c)] = c
        /\ Position(q, d) \in DOMAIN p /\ p[Position(q, d)] = d
    BY <1>4
  <2>2. FirstIn(p, c, d) => Position(q, c) < Position(q, d)
    <3> SUFFICES ASSUME NEW i \in DOMAIN p, NEW j \in DOMAIN p, i < j, p[i] = c, p[j] = d
                 PROVE  Position(q, c) < Position(q, d)
      BY DEF FirstIn
    <3>1. i = Position(q, c) /\ j = Position(q, d)
      BY <1>4
    <3> QED
      BY <3>1
  <2>3. Position(q, c) < Position(q, d) => FirstIn(p, c, d)
    BY <2>1 DEF FirstIn
  <2> QED
    BY <2>2, <2>3
<1>6. ASSUME NEW c \in Coding, NEW d \in Coding
      PROVE  /\ Preferred(q, c, d) <=> Favours(q, c, d)
             /\ Favours(q, c, d) => ~Favours(q, d, c) /\ Quality(accept, c) >= Quality(accept, d)
  <2>1. /\ Quality(accept, c) = ClientWeight(c) /\ Quality(accept, d) = ClientWeight(d)
        /\ FirstIn(p, c, d) <=> Position(q, c) < Position(q, d)
        /\ FirstIn(p, d, c) <=> Position(q, d) < Position(q, c)
        /\ Quality(accept, c) \in Int /\ Quality(accept, d) \in Int
        /\ Position(q, c) \in Int /\ Position(q, d) \in Int
    BY <1>1, <1>2, <1>3, <1>4, <1>5
  <2>2. Favours(q, c, d) <=> \/ Quality(accept, c) > Quality(accept, d)
                             \/ Quality(accept, c) = Quality(accept, d) /\ FirstIn(p, c, d)
    BY DEF Favours, Ahead, p
  <2>3. Favours(q, d, c) <=> \/ Quality(accept, d) > Quality(accept, c)
                             \/ Quality(accept, d) = Quality(accept, c) /\ FirstIn(p, d, c)
    BY DEF Favours, Ahead, p
  <2>4. Preferred(q, c, d) <=> Favours(q, c, d)
    BY <2>1, <2>2 DEF Preferred
  <2>5. Favours(q, c, d) => ~Favours(q, d, c)
    BY <2>1, <2>2, <2>3
  <2>6. Favours(q, c, d) => Quality(accept, c) >= Quality(accept, d)
    BY <2>1, <2>2
  <2> QED
    BY <2>4, <2>5, <2>6
<1> QED
  BY <1>6

\* Nothing at request q changes that Choice is about, except how far it is.
LEMMA ChoiceKept ==
    ASSUME NEW q \in Request, Choice(q), config' = config, header' = header,
           found'[q] = found[q], missing'[q] = missing[q],
           sidecar'[q] = sidecar[q], refused'[q] = refused[q], context'[q] = context[q],
           candidates'[q] = candidates[q],
           pc'[q] = "probing" => pc[q] = "probing",
           pc'[q] \in {"idle", "content"} => pc[q] \in {"idle", "content"},
           Stops(q)'
    PROVE  Choice(q)'
<1>1. accept' = accept
  BY DEF accept
<1>2. InOrder(q)'
  BY <1>1 DEF Choice, InOrder, Negotiates, Favours
<1>3. Unrefused(q)'
  BY DEF Choice, Unrefused
<1>4. BestCoding(q)'
  BY <1>1 DEF Choice, BestCoding, Favours
<1>5. BestSidecar(q)'
  BY <1>1 DEF Choice, BestSidecar, Negotiates, Favours, Welcome
<1>6. Refusable(q)'
  BY <1>1 DEF Choice, Refusable, Negotiates
<1> QED
  BY <1>2, <1>3, <1>4, <1>5, <1>6 DEF Choice

\* A step of request r leaves the choice of the other one.
LEMMA ChoiceFrame ==
    ASSUME NEW r \in Request, ChoiceInv, Frame(r), Choice(r)'
    PROVE  ChoiceInv'
<1>1. ASSUME NEW q \in Request \ {r} PROVE Choice(q)'
  <2>1. Keeps(q) /\ Choice(q) /\ config' = config /\ header' = header
    BY DEF Frame, ChoiceInv
  <2>2. accept' = accept
    BY <2>1 DEF accept
  <2>3. Stops(q)'
    BY <2>1, <2>2 DEF Choice, Stops, Keeps, Negotiates, Welcome
  <2> QED
    BY <2>1, <2>3, ChoiceKept DEF Keeps
<1> QED
  BY <1>1 DEF ChoiceInv

\* A step that leaves the handler's state alone moves on a request, or ends the
\* content phase.
LEMMA ChoiceStep ==
    ASSUME NEW r \in Request, ChoiceInv, Frame(r),
           found'[r] = found[r], missing'[r] = missing[r], candidates'[r] = candidates[r],
           sidecar'[r] = sidecar[r], refused'[r] = refused[r], context'[r] = context[r],
           pc'[r] # "probing",
           pc'[r] \in {"idle", "content"} => pc[r] \in {"idle", "content"},
           Stops(r)'
    PROVE  ChoiceInv'
<1>1. Choice(r) /\ config' = config /\ header' = header
  BY DEF ChoiceInv, Frame
<1>2. Choice(r)'
  BY <1>1, ChoiceKept
<1> QED
  BY <1>2, ChoiceFrame

\* Where a sidecar the client accepts was found stays as it was.
LEMMA StopsKept ==
    ASSUME NEW r \in Request, Stops(r), config' = config, header' = header, found'[r] = found[r],
           pc'[r] \in {"idle", "content", "probing", "upstream"} =>
              pc[r] \in {"idle", "content", "probing", "upstream"},
           pc'[r] \in {"error", "header"} =>
              \/ pc[r] \in {"idle", "content", "probing", "upstream"}
              \/ /\ pc[r] \in {"error", "header"}
                 /\ response[r].recorded => response'[r].recorded
                 /\ response[r].status # 200 => response'[r].status # 200
              \/ response'[r].status # 200
    PROVE  Stops(r)'
<1>1. accept' = accept
  BY DEF accept
<1>2. (Negotiates(r) /\ \E c \in found[r] : Welcome(c))'
      <=> (Negotiates(r) /\ \E c \in found[r] : Welcome(c))
  BY <1>1 DEF Negotiates, Welcome
<1> QED
  BY <1>2 DEF Stops

\* Declining, answering and the error page choose nothing.
LEMMA DeclineChoice ==
    ASSUME Shape, ChoiceInv, NEW r \in Request, NEW servable \in BOOLEAN, Decline(r, servable)
    PROVE  ChoiceInv'
<1>1. /\ Frame(r) /\ pc[r] = "content" /\ pc'[r] = "upstream"
      /\ UNCHANGED <<candidates, found, missing, sidecar, refused, response, body, context,
                     builtin, included>>
  BY DeclineFacts
<1>2. Stops(r) /\ config' = config /\ header' = header
  BY <1>1 DEF ChoiceInv, Choice, Frame
<1>3. Stops(r)'
  BY <1>1, <1>2, StopsKept
<1> QED
  BY <1>1, <1>3, ChoiceStep

\* The response of the content handler behind decides nothing.
LEMMA OriginalChoice ==
    ASSUME Shape, ChoiceInv, NEW r \in Request, Original(r)
    PROVE  ChoiceInv'
<1>1. /\ Frame(r) /\ pc[r] = "upstream" /\ pc'[r] = "header"
      /\ UNCHANGED <<candidates, found, missing, sidecar, refused, context, builtin, included>>
  BY OriginalFacts
<1>2. Stops(r) /\ config' = config /\ header' = header
  BY <1>1 DEF ChoiceInv, Choice, Frame
<1>3. Stops(r)'
  BY <1>1, <1>2, StopsKept
<1> QED
  BY <1>1, <1>3, ChoiceStep

\* Nor does an error page.
LEMMA SpecialResponseChoice ==
    ASSUME Shape, ChoiceInv, NEW r \in Request, SpecialResponse(r)
    PROVE  ChoiceInv'
<1>1. /\ Frame(r) /\ pc[r] = "error" /\ pc'[r] = "header" /\ SameHead(r)
      /\ UNCHANGED <<candidates, found, missing, sidecar, refused, context, builtin, included>>
  BY SpecialResponseFacts
<1>2. Stops(r) /\ config' = config /\ header' = header
  BY <1>1 DEF ChoiceInv, Choice, Frame
<1>3. Stops(r)'
  BY <1>1, <1>2, StopsKept DEF SameHead
<1> QED
  BY <1>1, <1>3, ChoiceStep

\* The handler orders its candidates.
LEMMA StartProbingChoice ==
    ASSUME Shape, ChoiceInv, NEW r \in Request, Probed(r),
           NEW servable \in BOOLEAN, StartProbing(r, servable)
    PROVE  ChoiceInv'
<1> DEFINE s == StaticCandidates(config[r].static_mode, accept, config[r].priority)
<1>1. /\ Frame(r) /\ pc[r] = "content" /\ pc'[r] = "probing"
      /\ UNCHANGED <<found, missing, sidecar, refused, response, body, context, builtin, included>>
  BY StartProbingFacts
<1>2. candidates'[r] = s
  BY DEF StartProbing, Shape
<1>3. /\ IsOrder(config[r].priority) /\ \A c \in Coding : Quality(accept, c) \in QualityValue
  BY OrderFacts
<1>4. /\ ToSet(s) = SidecarCoding
      /\ Negotiates(r) => \A i, j \in DOMAIN s : i < j => Ahead(accept, config[r].priority, s[i], s[j])
  BY <1>3, StaticCandidatesFacts DEF Negotiates
<1> HIDE DEF s
<1>5. Choice(r) /\ config' = config /\ header' = header /\ accept' = accept
  BY <1>1 DEF ChoiceInv, Frame, accept
<1>6. InOrder(r)'
  <2>1. ASSUME Negotiates(r), NEW i \in DOMAIN s, NEW j \in DOMAIN s, i < j
        PROVE  Ahead(accept', config'[r].priority, s[i], s[j])
    BY <1>4, <1>5, <2>1
  <2>2. Negotiates(r)' <=> Negotiates(r)
    BY <1>5 DEF Negotiates
  <2>3. SidecarCoding \subseteq ToSet(s)
    BY <1>4
  <2> QED
    BY <1>2, <2>1, <2>2, <2>3 DEF InOrder, Favours
<1>7. Stops(r)'
  BY <1>1, <1>5, StopsKept DEF Choice
<1>8. Unrefused(r)'
  BY <1>1, <1>5 DEF Choice, Unrefused
<1>9. BestCoding(r)' /\ BestSidecar(r)' /\ Refusable(r)'
  BY <1>1, <1>5 DEF Choice, BestCoding, BestSidecar, Refusable, Favours, Welcome, Negotiates
<1>10. Choice(r)'
  BY <1>6, <1>7, <1>8, <1>9 DEF Choice
<1> QED
  BY <1>1, <1>10, ChoiceFrame

\* How a probe ends: nothing there, unwelcome, sent, or failed.
Missed(r, c) ==
    /\ pc'[r] = "probing" /\ missing'[r] = missing[r] \cup {c} /\ found'[r] = found[r]
    /\ sidecar'[r] = sidecar[r]
Passed(r, c) ==
    /\ pc'[r] = "probing" /\ missing'[r] = missing[r] /\ found'[r] = found[r] \cup {c}
    /\ sidecar'[r] = sidecar[r]
    /\ ~Accepted(config[r].static_mode, accept, c)
Sent(r, c) ==
    /\ pc'[r] = "header" /\ missing'[r] = missing[r] /\ found'[r] = found[r] \cup {c}
    /\ sidecar'[r] = c /\ response'[r].recorded
    /\ Accepted(config[r].static_mode, accept, c)
Failed(r, c) ==
    /\ pc'[r] = "error" /\ missing'[r] = missing[r] /\ found'[r] \in {found[r], found[r] \cup {c}}
    /\ sidecar'[r] = sidecar[r] /\ response'[r].status = 500
    /\ \/ response'[r].encodings = response[r].encodings
       \/ /\ found'[r] = found[r] \cup {c} /\ Accepted(config[r].static_mode, accept, c)
          /\ response'[r].encodings = Append(response[r].encodings, c)
          /\ VariesByAccept(r) => response'[r].vary

\* Every probe ends in one of the four.
LEMMA ProbeOutcome ==
    ASSUME Shape, NEW r \in Request, Probe(r)
    PROVE  LET c == Head(candidates[r])
           IN  Missed(r, c) \/ Passed(r, c) \/ Sent(r, c) \/ Failed(r, c)
<1> DEFINE c == Head(candidates[r])
           v == response[r].vary \/ MarkVary(r, c)
           marked == [response[r] EXCEPT !.vary = v]
<1>1. /\ candidates[r] \in Seq(SidecarCoding) /\ candidates[r] # <<>> /\ pc[r] = "probing"
      /\ response[r] \in Header /\ v \in BOOLEAN
  BY DEF Shape, Probe
<1>2. c \in SidecarCoding
  BY <1>1
<1>3. \/ /\ missing' = [missing EXCEPT ![r] = missing[r] \cup {c}]
         /\ UNCHANGED <<pc, found, sidecar, refused, response>>
      \/ /\ Fails(r, response[r])
         /\ UNCHANGED <<found, missing>>
      \/ /\ found' = [found EXCEPT ![r] = found[r] \cup {c}]
         /\ UNCHANGED missing
         /\ \/ /\ Accepted(config[r].static_mode, accept, c)
               /\ SendFile(r, c, marked)
            \/ /\ ~Accepted(config[r].static_mode, accept, c)
               /\ UNCHANGED <<pc, sidecar>>
            \/ Fails(r, response[r])
  BY DEF Probe
<1>0. VariesByAccept(r) => v
  BY DEF MarkVary
<1> HIDE DEF c, v
<1>4. marked \in Header /\ marked.encodings = response[r].encodings /\ marked.vary = v
  BY <1>1 DEF Header
<1> HIDE DEF marked
<1>5. ASSUME found' = [found EXCEPT ![r] = found[r] \cup {c}]
      PROVE  found'[r] = found[r] \cup {c}
  BY <1>5 DEF Shape
<1>6. CASE /\ missing' = [missing EXCEPT ![r] = missing[r] \cup {c}]
           /\ UNCHANGED <<pc, found, sidecar, refused, response>>
  <2>1. missing'[r] = missing[r] \cup {c}
    BY <1>6 DEF Shape
  <2>2. Missed(r, c)
    BY <1>1, <1>6, <2>1 DEF Missed
  <2> QED
    BY <2>2 DEF c
<1>7. ASSUME Fails(r, response[r]), missing' = missing, found'[r] \in {found[r], found[r] \cup {c}}
      PROVE  Failed(r, c)
  <2>1. /\ pc'[r] = "error" /\ response'[r].status = 500 /\ sidecar' = sidecar
        /\ response'[r].encodings = response[r].encodings
    BY <1>1, <1>7, FailsFacts
  <2> QED
    BY <1>7, <2>1 DEF Failed
<1>8. CASE Fails(r, response[r]) /\ UNCHANGED <<found, missing>>
  BY <1>7, <1>8 DEF c
<1>9. CASE /\ found' = [found EXCEPT ![r] = found[r] \cup {c}] /\ UNCHANGED missing
           /\ Fails(r, response[r])
  BY <1>5, <1>7, <1>9 DEF c
<1>10. CASE /\ found' = [found EXCEPT ![r] = found[r] \cup {c}] /\ UNCHANGED missing
            /\ ~Accepted(config[r].static_mode, accept, c)
            /\ UNCHANGED <<pc, sidecar>>
  <2>1. Passed(r, c)
    BY <1>1, <1>5, <1>10 DEF Passed
  <2> QED
    BY <2>1 DEF c
<1>11. CASE /\ found' = [found EXCEPT ![r] = found[r] \cup {c}] /\ UNCHANGED missing
            /\ Accepted(config[r].static_mode, accept, c)
            /\ SendFile(r, c, marked)
  <2>1. \/ pc'[r] = "header" /\ sidecar'[r] = c /\ response'[r].recorded
        \/ /\ pc'[r] = "error" /\ sidecar'[r] = sidecar[r] /\ response'[r].status = 500
           /\ \/ response'[r].encodings = response[r].encodings
              \/ response'[r].encodings = Append(response[r].encodings, c)
    BY <1>2, <1>4, <1>11, SendFileFacts
  <2>2. response'[r].vary = v
    BY <1>2, <1>4, <1>11, SendFileFacts
  <2>3. VariesByAccept(r) => response'[r].vary
    BY <1>0, <2>2
  <2>4. Sent(r, c) \/ Failed(r, c)
    BY <1>5, <1>11, <2>1, <2>3 DEF Sent, Failed
  <2> QED
    BY <2>4 DEF c
<1> QED
  BY <1>3, <1>6, <1>8, <1>9, <1>10, <1>11

\* What is behind the head of the candidates comes after it.
LEMMA HeadIsAhead ==
    ASSUME Shape, NEW r \in Request, InOrder(r), pc[r] = "probing", Negotiates(r),
           candidates[r] # <<>>
    PROVE  /\ Head(candidates[r]) \in SidecarCoding
           /\ \A d \in ToSet(Tail(candidates[r])) : Favours(r, Head(candidates[r]), d)
           /\ \A i, j \in DOMAIN Tail(candidates[r]) :
                 i < j => Favours(r, Tail(candidates[r])[i], Tail(candidates[r])[j])
           /\ SidecarCoding \subseteq
                 {Head(candidates[r])} \cup ToSet(Tail(candidates[r])) \cup found[r] \cup missing[r]
<1> DEFINE s == candidates[r]
           t == Tail(s)
<1>1. s \in Seq(SidecarCoding) /\ s # <<>>
  BY DEF Shape
<1>2. /\ \A i, j \in DOMAIN s : i < j => Favours(r, s[i], s[j])
      /\ SidecarCoding \subseteq ToSet(s) \cup found[r] \cup missing[r]
  BY DEF InOrder
<1> HIDE DEF s
<1>3. /\ Len(s) \in Nat /\ Len(s) > 0 /\ (\A i : i \in DOMAIN s <=> i \in 1..Len(s)) /\ Head(s) = s[1]
      /\ (\A i : i \in DOMAIN t <=> i \in 1..(Len(s) - 1))
      /\ \A i \in 1..(Len(s) - 1) : t[i] = s[i + 1]
  BY <1>1
<1>4. /\ 1 \in DOMAIN s
      /\ \A i \in DOMAIN t : i + 1 \in DOMAIN s /\ t[i] = s[i + 1] /\ 1 < i + 1
      /\ \A i, j \in DOMAIN t : i < j => i + 1 < j + 1
      /\ \A i \in DOMAIN s : i = 1 \/ (i - 1 \in DOMAIN t /\ t[i - 1] = s[i])
  BY <1>3
<1> HIDE DEF t
<1>5. Head(s) \in SidecarCoding
  BY <1>1, <1>3, <1>4
<1>6. ASSUME NEW d \in ToSet(t) PROVE Favours(r, Head(s), d)
  <2>1. PICK i \in DOMAIN t : d = t[i]
    BY DEF ToSet
  <2> QED
    BY <1>2, <1>3, <1>4, <2>1
<1>7. \A i, j \in DOMAIN t : i < j => Favours(r, t[i], t[j])
  BY <1>2, <1>4
<1>8. ASSUME NEW d \in ToSet(s) PROVE d = Head(s) \/ d \in ToSet(t)
  <2>1. PICK i \in DOMAIN s : d = s[i]
    BY DEF ToSet
  <2> QED
    BY <1>3, <1>4, <2>1 DEF ToSet
<1>9. SidecarCoding \subseteq {Head(s)} \cup ToSet(t) \cup found[r] \cup missing[r]
  BY <1>2, <1>8
<1> QED
  BY <1>5, <1>6, <1>7, <1>9 DEF s, t

\* A probe.
LEMMA ProbeChoice ==
    ASSUME Shape, ChoiceInv, NEW r \in Request, Probe(r)
    PROVE  ChoiceInv'
<1> DEFINE c == Head(candidates[r])
<1>1. /\ Frame(r) /\ pc[r] = "probing" /\ candidates[r] # <<>> /\ candidates'[r] = Tail(candidates[r])
      /\ refused' = refused /\ context' = context
  BY ProbeFacts
<1>2. Missed(r, c) \/ Passed(r, c) \/ Sent(r, c) \/ Failed(r, c)
  BY ProbeOutcome
<1>3. Choice(r) /\ config' = config /\ header' = header /\ accept' = accept
  BY <1>1 DEF ChoiceInv, Frame, accept
<1>4. ASSUME Negotiates(r)
      PROVE  /\ c \in SidecarCoding
             /\ \A d \in ToSet(Tail(candidates[r])) : Favours(r, c, d)
             /\ \A i, j \in DOMAIN Tail(candidates[r]) :
                   i < j => Favours(r, Tail(candidates[r])[i], Tail(candidates[r])[j])
             /\ SidecarCoding \subseteq {c} \cup ToSet(Tail(candidates[r])) \cup found[r] \cup missing[r]
  BY <1>1, <1>3, <1>4, HeadIsAhead DEF Choice
<1>5. Negotiates(r) => \A d \in found[r] : ~Welcome(d)
  BY <1>1, <1>3 DEF Choice, Stops
<1>6. /\ Negotiates(r)' <=> Negotiates(r)
      /\ \A d : Welcome(d)' <=> Welcome(d)
      /\ \A d, e : Favours(r, d, e)' <=> Favours(r, d, e)
  BY <1>3 DEF Negotiates, Welcome, Favours
<1>7. Negotiates(r) => (Accepted(config[r].static_mode, accept, c) <=> Welcome(c))
  BY DEF Negotiates, Welcome
<1>8. refused[r] = Nothing
  BY <1>1, <1>3 DEF Choice, Unrefused
<1>9. found[r] \subseteq found'[r] /\ missing[r] \subseteq missing'[r] /\ found'[r] \subseteq found[r] \cup {c}
  BY <1>2 DEF Missed, Passed, Sent, Failed
<1> HIDE DEF c
<1>10. InOrder(r)'
  <2> SUFFICES ASSUME pc'[r] = "probing", Negotiates(r)
               PROVE  /\ \A i, j \in DOMAIN candidates'[r] :
                            i < j => Favours(r, candidates'[r][i], candidates'[r][j])
                      /\ SidecarCoding \subseteq ToSet(candidates'[r]) \cup found'[r] \cup missing'[r]
    BY <1>6 DEF InOrder
  <2>1. c \in found'[r] \cup missing'[r]
    BY <1>2 DEF Missed, Passed, Sent, Failed
  <2> QED
    BY <1>1, <1>4, <1>9, <2>1
<1>11. Stops(r)'
  <2> SUFFICES ASSUME Negotiates(r), NEW d \in found'[r], Welcome(d)
               PROVE  /\ pc'[r] \notin {"idle", "content", "probing", "upstream"}
                      /\ pc'[r] \in {"error", "header"} => response'[r].recorded \/ response'[r].status # 200
    BY <1>6 DEF Stops
  <2>1. d = c
    BY <1>5, <1>9
  <2>2. Sent(r, c) \/ Failed(r, c)
    BY <1>2, <1>5, <1>7, <2>1 DEF Missed, Passed
  <2> QED
    BY <2>2 DEF Sent, Failed
<1>12. Unrefused(r)' /\ Refusable(r)'
  BY <1>1, <1>8 DEF Unrefused, Refusable
<1>13. BestCoding(r)'
  BY <1>1, <1>3, <1>6 DEF Choice, BestCoding
<1>14. BestSidecar(r)'
  <2> SUFFICES ASSUME sidecar'[r] # Nothing, Negotiates(r)
               PROVE  /\ Welcome(sidecar'[r])
                      /\ \A d \in SidecarCoding : Favours(r, d, sidecar'[r]) => d \in missing'[r]
    BY <1>6 DEF BestSidecar
  <2>1. CASE sidecar'[r] = sidecar[r]
    BY <1>3, <1>9, <2>1 DEF Choice, BestSidecar
  <2>2. CASE Sent(r, c)
    <3>1. sidecar'[r] = c /\ Welcome(c) /\ missing'[r] = missing[r]
      BY <1>7, <2>2 DEF Sent
    <3>2. SidecarCoding \subseteq Coding
      BY DEF SidecarCoding, Coding
    <3>3. ASSUME NEW d \in SidecarCoding, Favours(r, d, c) PROVE d \in missing[r]
      <4>1. /\ ~Favours(r, c, d) /\ Quality(accept, d) >= Quality(accept, c) /\ ~Favours(r, c, c)
            /\ Quality(accept, c) \in Int /\ Quality(accept, d) \in Int
            /\ Quality(accept, "identity") \in Int
        <5>1. \A e \in Coding : Quality(accept, e) \in Int
          <6>1. \A w \in QualityValue : w \in Int
            BY DEF QualityValue, QualityMax
          <6> QED
            BY <6>1, OrderFacts
        <5>2. c \in Coding /\ d \in Coding /\ "identity" \in Coding
          BY <1>4, <3>2 DEF Coding
        <5> QED
          BY <3>3, <5>1, <5>2, AheadFacts
      <4>2. d # c /\ d \notin ToSet(Tail(candidates[r]))
        BY <1>4, <3>3, <4>1
      <4>3. Welcome(d)
        <5>1. Quality(accept, c) > 0 /\ Quality(accept, c) >= Quality(accept, "identity")
          BY <3>1 DEF Welcome, Accepted
        <5>2. Quality(accept, d) > 0 /\ Quality(accept, d) >= Quality(accept, "identity")
          BY <4>1, <5>1
        <5> QED
          BY <5>2 DEF Welcome, Accepted
      <4>4. d \notin found[r]
        BY <1>5, <4>3
      <4> QED
        BY <1>4, <4>2, <4>4
    <3> QED
      BY <3>1, <3>3
  <2> QED
    BY <1>2, <2>1, <2>2 DEF Missed, Passed, Failed
<1>15. Choice(r)'
  BY <1>10, <1>11, <1>12, <1>13, <1>14 DEF Choice
<1> QED
  BY <1>1, <1>15, ChoiceFrame

\* A location that negotiates nothing at all refuses whatever it could encode, and identity.
LEMMA Unacceptable ==
    ASSUME Shape, NEW r \in Request, Negotiated(r) = "NotAcceptable"
    PROVE  /\ Quality(accept, "identity") = 0
           /\ \A c \in DOMAIN config[r].codecs : Quality(accept, c) = 0
<1>1. "NotAcceptable" \notin DOMAIN config[r].codecs \cup {"identity"}
  BY OrderFacts DEF ContentCoding, Coding
<1> QED
  BY <1>1, NegotiatedFacts

\* What was found without being accepted, when identity is refused.
LEMMA UnwelcomeFound ==
    ASSUME Shape, NEW r \in Request, Negotiates(r), \A c \in found[r] : ~Welcome(c),
           Quality(accept, "identity") = 0
    PROVE  \A c \in found[r] : Quality(accept, c) = 0
<1> TAKE c \in found[r]
<1>1. c \in Coding
  BY DEF Shape, SidecarCoding, Coding
<1>2. Quality(accept, c) \in Int /\ Quality(accept, c) >= 0
  <2>1. \A w \in QualityValue : w \in Int /\ w >= 0
    BY DEF QualityValue, QualityMax
  <2> QED
    BY <1>1, <2>1, OrderFacts
<1> QED
  BY <1>2 DEF Welcome, Accepted

\* The handler gives up, and refuses only what is nowhere acceptable.
LEMMA ProbeEndChoice ==
    ASSUME Shape, ChoiceInv, NEW r \in Request, ProbeEnd(r)
    PROVE  ChoiceInv'
<1>1. /\ Frame(r) /\ pc[r] = "probing"
      /\ UNCHANGED <<candidates, found, missing, sidecar, body, context, builtin, included>>
      /\ \/ pc'[r] = "upstream" /\ response' = response /\ refused' = refused
         \/ pc'[r] = "error" /\ response'[r].status = 406 /\ refused'[r] = "static"
         \/ pc'[r] = "error" /\ response'[r].status = 500 /\ refused' = refused
  BY ProbeEndFacts
<1>2. Choice(r) /\ Stops(r) /\ config' = config /\ header' = header /\ accept' = accept
  BY <1>1 DEF ChoiceInv, Choice, Frame, accept
<1>3. Stops(r)'
  BY <1>1, <1>2, StopsKept
<1>4. CASE refused' = refused
  BY <1>1, <1>3, <1>4, ChoiceStep
<1>5. CASE pc'[r] = "error" /\ refused'[r] = "static"
  <2>1. refused[r] = Nothing
    BY <1>1, <1>2 DEF Choice, Unrefused
  <2>2. ~FallbackAcceptable(r)
    <3>1. refused' # refused
      BY <1>5, <2>1 DEF Nothing
    <3> QED
      BY <3>1 DEF ProbeEnd, Fails
  <2>3. /\ ~(Quality(accept, "identity") > 0)
        /\ config[r].enabled => Negotiated(r) \in {"identity", "NotAcceptable"}
    BY <2>2 DEF FallbackAcceptable, RuntimeAcceptable
  <2>4. Quality(accept, "identity") \in Int /\ Quality(accept, "identity") >= 0
    <3>1. \A w \in QualityValue : w \in Int /\ w >= 0
      BY DEF QualityValue, QualityMax
    <3> QED
      BY <3>1, OrderFacts DEF Coding
  <2>5. Quality(accept, "identity") = 0
    BY <2>3, <2>4
  <2>6. ASSUME config[r].enabled PROVE \A c \in DOMAIN config[r].codecs : Quality(accept, c) = 0
    <3>1. Negotiated(r) # "identity"
      BY <2>3, NegotiatedFacts
    <3> QED
      BY <2>3, <2>6, <3>1, Unacceptable
  <2>7. Negotiates(r) => \A c \in found[r] : Quality(accept, c) = 0
    BY <1>1, <1>2, <2>5, UnwelcomeFound DEF Stops
  <2>8. Refusable(r)'
    BY <1>1, <1>2, <2>5, <2>6, <2>7 DEF Refusable, Negotiates
  <2>9. InOrder(r)' /\ Unrefused(r)'
    BY <1>5 DEF InOrder, Unrefused
  <2>10. BestCoding(r)' /\ BestSidecar(r)'
    BY <1>1, <1>2 DEF Choice, BestCoding, BestSidecar, Favours, Welcome, Negotiates
  <2>11. Choice(r)'
    BY <1>3, <2>8, <2>9, <2>10 DEF Choice
  <2> QED
    BY <1>1, <2>11, ChoiceFrame
<1> QED
  BY <1>1, <1>4, <1>5

\* The header filter refuses what is nowhere acceptable.
LEMMA RejectChoice ==
    ASSUME Shape, ChoiceInv, NEW r \in Request, Reject(r)
    PROVE  ChoiceInv'
<1>1. /\ Frame(r) /\ pc[r] = "header" /\ pc'[r] = "error"
      /\ response[r].status = 200 /\ ~response[r].recorded /\ response'[r].status = 406
      /\ refused'[r] = "runtime"
      /\ UNCHANGED <<candidates, found, missing, sidecar, body, context, builtin, included>>
  BY RejectFacts
<1>2. Choice(r) /\ Stops(r) /\ config' = config /\ header' = header /\ accept' = accept
  BY <1>1 DEF ChoiceInv, Choice, Frame, accept
<1>3. Stops(r)'
  BY <1>1, <1>2, StopsKept
<1>4. Negotiated(r) = "NotAcceptable"
  BY DEF Reject
<1>5. /\ Quality(accept, "identity") = 0
      /\ \A c \in DOMAIN config[r].codecs : Quality(accept, c) = 0
  BY <1>4, Unacceptable
<1>6. Negotiates(r) => \A c \in found[r] : Quality(accept, c) = 0
  BY <1>1, <1>2, <1>5, UnwelcomeFound DEF Stops
<1>7. Refusable(r)'
  BY <1>1, <1>2, <1>5, <1>6 DEF Refusable, Negotiates
<1>8. InOrder(r)' /\ Unrefused(r)'
  BY <1>1 DEF InOrder, Unrefused
<1>9. BestCoding(r)' /\ BestSidecar(r)'
  BY <1>1, <1>2 DEF Choice, BestCoding, BestSidecar, Favours, Welcome, Negotiates
<1>10. Choice(r)'
  BY <1>3, <1>7, <1>8, <1>9 DEF Choice
<1> QED
  BY <1>1, <1>10, ChoiceFrame

\* Behind the header filter nothing is refused any more.
LEMMA AnswerChoice ==
    ASSUME ChoiceInv, NEW r \in Request, Frame(r),
           pc'[r] \in {"body", "done", "closed"},
           UNCHANGED <<candidates, found, missing, sidecar, refused, context>>
    PROVE  ChoiceInv'
<1>1. Stops(r)'
  BY DEF Stops
<1> QED
  BY <1>1, ChoiceStep

\* The coding that is installed is the best.
LEMMA CompressChoice ==
    ASSUME Shape, ChoiceInv, NEW r \in Request, Compress(r)
    PROVE  ChoiceInv'
<1>1. /\ Frame(r) /\ pc'[r] \in {"body", "done", "closed"}
      /\ Encodes(r) /\ context'[r] = Negotiated(r)
      /\ UNCHANGED <<candidates, found, missing, sidecar, refused, body, included>>
  BY CompressFacts DEF Answers
<1>2. Choice(r) /\ config' = config /\ header' = header /\ accept' = accept
  BY <1>1 DEF ChoiceInv, Frame, accept
<1>3. /\ Quality(accept, Negotiated(r)) > 0
      /\ \A d \in DOMAIN config[r].codecs \cup {"identity"} :
            d # Negotiated(r) => Favours(r, Negotiated(r), d)
  BY <1>1, NegotiatedFacts DEF Encodes, Favours
<1>4. BestCoding(r)'
  BY <1>1, <1>2, <1>3 DEF BestCoding, Favours
<1>5. InOrder(r)' /\ Stops(r)' /\ Unrefused(r)'
  BY <1>1 DEF InOrder, Stops, Unrefused
<1>6. BestSidecar(r)' /\ Refusable(r)'
  BY <1>1, <1>2 DEF Choice, BestSidecar, Refusable, Favours, Welcome, Negotiates
<1>7. Choice(r)'
  BY <1>4, <1>5, <1>6 DEF Choice
<1> QED
  BY <1>1, <1>7, ChoiceFrame

\* At first nothing is chosen.
LEMMA ChoiceInit ==
    ASSUME Init
    PROVE  ChoiceInv
<1> SUFFICES ASSUME NEW q \in Request PROVE Choice(q)
  BY DEF ChoiceInv
<1>1. /\ found[q] = {} /\ sidecar[q] = Nothing /\ refused[q] = Nothing /\ context[q] = Nothing
      /\ pc[q] # "probing"
  BY DEF Init, Request
<1> QED
  BY <1>1 DEF Choice, InOrder, Stops, Unrefused, BestCoding, BestSidecar, Refusable

\* Every step.
LEMMA ChoiceNext ==
    ASSUME RepresentationInv, ChoiceInv, [Next]_vars
    PROVE  ChoiceInv'
<1>0. Shape /\ \A r \in Request : Probed(r)
  BY DEF RepresentationInv
<1>1. CASE UNCHANGED vars
  <2>1. UNCHANGED <<config, header, pc, candidates, found, missing, sidecar, refused, response, context>>
    BY <1>1 DEF vars
  <2>2. accept' = accept
    BY <2>1 DEF accept
  <2>3. ASSUME NEW q \in Request PROVE Choice(q)'
    <3>1. Choice(q)
      BY DEF ChoiceInv
    <3>2. Stops(q)'
      BY <2>1, <2>2, <3>1 DEF Choice, Stops, Negotiates, Welcome
    <3> QED
      BY <2>1, <3>1, <3>2, ChoiceKept
  <2> QED
    BY <2>3 DEF ChoiceInv
<1>2. ASSUME NEW r \in Request, NEW servable \in BOOLEAN,
             Decline(r, servable) \/ StartProbing(r, servable)
      PROVE  ChoiceInv'
  BY <1>0, <1>2, DeclineChoice, StartProbingChoice
<1>3. ASSUME NEW r \in Request, Probe(r) \/ ProbeEnd(r)
      PROVE  ChoiceInv'
  BY <1>0, <1>3, ProbeChoice, ProbeEndChoice
<1>4. ASSUME NEW r \in Request, Original(r) \/ SpecialResponse(r)
      PROVE  ChoiceInv'
  BY <1>0, <1>4, OriginalChoice, SpecialResponseChoice
<1>5. ASSUME NEW r \in Request, Reject(r) \/ Compress(r)
      PROVE  ChoiceInv'
  BY <1>0, <1>5, RejectChoice, CompressChoice
<1>6. ASSUME NEW r \in Request, Pass(r)
      PROVE  ChoiceInv'
  <2>1. /\ Frame(r) /\ Answers(r, response[r])
        /\ UNCHANGED <<candidates, found, missing, sidecar, refused, body, context, included>>
    BY <1>0, <1>6, PassFacts
  <2> QED
    BY <2>1, AnswerChoice DEF Answers
<1>7. ASSUME NEW r \in Request, EncodingNotAdded(r)
      PROVE  ChoiceInv'
  <2>1. /\ Frame(r) /\ Answers(r, WithVary(r))
        /\ UNCHANGED <<candidates, found, missing, sidecar, refused, body, context, included>>
    BY <1>0, <1>7, EncodingNotAddedFacts
  <2> QED
    BY <2>1, AnswerChoice DEF Answers
<1>8. ASSUME NEW r \in Request, InstallFails(r)
      PROVE  ChoiceInv'
  <2>1. /\ Frame(r) /\ pc'[r] = "closed"
        /\ UNCHANGED <<candidates, found, missing, sidecar, refused, context>>
    BY <1>0, <1>8, InstallFailsFacts
  <2> QED
    BY <2>1, AnswerChoice
<1>9. CASE Include
  <2>1. /\ "sub" \in Request /\ Frame("sub") /\ pc["sub"] = "idle" /\ pc'["sub"] = "content"
        /\ UNCHANGED <<candidates, found, missing, sidecar, refused, response, context>>
    BY <1>0, <1>9, IncludeFacts DEF Request
  <2>2. Stops("sub") /\ config' = config /\ header' = header
    BY <2>1 DEF ChoiceInv, Choice, Frame
  <2>3. Stops("sub")'
    BY <2>1, <2>2, StopsKept
  <2> QED
    BY <2>1, <2>3, ChoiceStep
<1>10. CASE Deliver
  <2>1. /\ "main" \in Request /\ Frame("main") /\ pc'["main"] = "done"
        /\ UNCHANGED <<candidates, found, missing, sidecar, refused, context>>
    BY <1>0, <1>10, DeliverFacts DEF Request
  <2> QED
    BY <2>1, AnswerChoice
<1> QED
  BY <1>1, <1>2, <1>3, <1>4, <1>5, <1>6, <1>7, <1>8, <1>9, <1>10 DEF Next

\* Both invariants hold throughout.
LEMMA ChoiceInvariant == Spec => [](RepresentationInv /\ ChoiceInv)
<1>1. Init => RepresentationInv /\ ChoiceInv
  BY RepresentationInit, ChoiceInit
<1>2. (RepresentationInv /\ ChoiceInv) /\ [Next]_vars => (RepresentationInv /\ ChoiceInv)'
  BY RepresentationStep, ChoiceNext
<1> QED
  BY <1>1, <1>2, PTL DEF Spec

\* What is encoded at request time is encoded in the available coding the client weighs
\* most, the server's order among equals; a negotiated sidecar is at least as welcome as
\* identity, and every better one was looked for in vain (negotiation.rs, static_policy.rs,
\* for every field, order and set of encoders).
THEOREM ChoiceIsBest == Spec => []BestRepresentation
<1>1. RepresentationInv /\ ChoiceInv => BestRepresentation
  <2> SUFFICES ASSUME RepresentationInv, ChoiceInv, NEW r \in Request
               PROVE  /\ context[r] # Nothing =>
                            /\ ClientWeight(context[r]) > 0
                            /\ \A d \in DOMAIN config[r].codecs \cup {"identity"} :
                                  d # context[r] => Preferred(r, context[r], d)
                      /\ sidecar[r] # Nothing /\ config[r].static_mode = "on" =>
                            /\ ClientWeight(sidecar[r]) > 0
                            /\ ClientWeight(sidecar[r]) >= ClientWeight("identity")
                            /\ \A d \in SidecarCoding : Preferred(r, d, sidecar[r]) => d \in missing[r]
    BY DEF BestRepresentation
  <2>1. Shape /\ BestCoding(r) /\ BestSidecar(r)
    BY DEF RepresentationInv, ChoiceInv, Choice
  <2>2. /\ DOMAIN config[r].codecs \subseteq Coding /\ "identity" \in Coding /\ SidecarCoding \subseteq Coding
        /\ \A c \in Coding : Quality(accept, c) = ClientWeight(c)
    BY <2>1, OrderFacts DEF ContentCoding, SidecarCoding, Coding
  <2>3. \A c, d \in Coding : Preferred(r, c, d) <=> Favours(r, c, d)
    BY <2>1, AheadFacts
  <2>4. ASSUME context[r] # Nothing
        PROVE  /\ ClientWeight(context[r]) > 0
               /\ \A d \in DOMAIN config[r].codecs \cup {"identity"} :
                     d # context[r] => Preferred(r, context[r], d)
    <3>1. context[r] \in Coding
      BY <2>1, <2>4 DEF Shape, ContentCoding
    <3> QED
      BY <2>1, <2>2, <2>3, <2>4, <3>1 DEF BestCoding
  <2>5. ASSUME sidecar[r] # Nothing, config[r].static_mode = "on"
        PROVE  /\ ClientWeight(sidecar[r]) > 0
               /\ ClientWeight(sidecar[r]) >= ClientWeight("identity")
               /\ \A d \in SidecarCoding : Preferred(r, d, sidecar[r]) => d \in missing[r]
    <3>1. sidecar[r] \in Coding
      BY <2>1, <2>2, <2>5 DEF Shape
    <3>2. /\ Welcome(sidecar[r])
          /\ \A d \in SidecarCoding : Favours(r, d, sidecar[r]) => d \in missing[r]
      BY <2>1, <2>5 DEF BestSidecar, Negotiates
    <3>3. Quality(accept, sidecar[r]) > 0 /\ Quality(accept, sidecar[r]) >= Quality(accept, "identity")
      BY <3>2 DEF Welcome, Accepted
    <3> QED
      BY <2>2, <2>3, <3>1, <3>2, <3>3
  <2> QED
    BY <2>4, <2>5
<1> QED
  BY <1>1, ChoiceInvariant, PTL

\* 406 is answered, by the handler or by the header filter, only to a client that excludes
\* identity, every coding the location compresses to and every sidecar that was found
\* (static_file/handler.rs, filter/runtime.rs).
THEOREM RefusalsAreJustified == Spec => []RefusalJustified
<1>1. RepresentationInv /\ ChoiceInv => RefusalJustified
  <2> SUFFICES ASSUME RepresentationInv, ChoiceInv, NEW r \in Request, refused[r] # Nothing
               PROVE  /\ ClientWeight("identity") = 0
                      /\ config[r].enabled => \A c \in DOMAIN config[r].codecs : ClientWeight(c) = 0
                      /\ config[r].static_mode = "on" => \A c \in found[r] : ClientWeight(c) = 0
    BY DEF RefusalJustified
  <2>1. Shape /\ Refusable(r)
    BY DEF RepresentationInv, ChoiceInv, Choice
  <2>2. /\ DOMAIN config[r].codecs \subseteq Coding /\ "identity" \in Coding /\ SidecarCoding \subseteq Coding
        /\ \A c \in Coding : Quality(accept, c) = ClientWeight(c)
    BY <2>1, OrderFacts DEF ContentCoding, SidecarCoding, Coding
  <2>3. found[r] \subseteq Coding
    BY <2>1, <2>2 DEF Shape
  <2> QED
    BY <2>1, <2>2, <2>3 DEF Refusable, Negotiates
<1> QED
  BY <1>1, ChoiceInvariant, PTL

-----------------------------------------------------------------------------
(***************************************************************************)
(* The page: what a failure leaves announced, and what a fragment is.      *)
(***************************************************************************)
\* The lone coding of a failed page is a sidecar's the client accepted, and a negotiating
\* handler has told caches so before.
Marked == LoneEncoding /\ (VariesByAccept("main") => response["main"].vary)

FailedPage ==
    response["main"].status = 500 =>
        /\ context["main"] = Nothing /\ ~builtin /\ ~included /\ ~response["main"].cleared
        /\ Len(response["main"].encodings) <= 1
        /\ pc["main"] = "error" => response["main"].encodings = <<>> \/ Marked
        /\ pc["main"] \in {"header", "body", "done"} =>
              \/ body["main"] = response["main"].encodings
              \/ body["main"] = <<>> /\ Marked

\* A fragment answered with a sidecar has that sidecar's bytes and is behind the handlers.
Spliced ==
    sidecar["sub"] # Nothing =>
        body["sub"] = <<sidecar["sub"]>> /\ pc["sub"] \in {"header", "done", "closed"}

PageInv == FailedPage /\ Spliced

\* A page whose headers stay announces what it did.
LEMMA MarkedKept ==
    ASSUME Marked, config' = config, header' = header, found'["main"] = found["main"],
           response'["main"].status = response["main"].status,
           response'["main"].encodings = response["main"].encodings,
           response'["main"].vary = response["main"].vary
    PROVE  Marked'
<1>1. accept' = accept
  BY DEF accept
<1>2. LoneEncoding'
  BY <1>1 DEF Marked, LoneEncoding
<1>3. VariesByAccept("main")' => VariesByAccept("main")
  BY DEF VariesByAccept
<1>4. VariesByAccept("main") => response["main"].vary
  BY DEF Marked
<1>5. VariesByAccept("main")' => response'["main"].vary
  BY <1>3, <1>4
<1> QED
  BY <1>2, <1>5 DEF Marked

\* A step of the page leaves the fragment's bytes, ...
LEMMA PageStep ==
    ASSUME PageInv, Frame("main"), FailedPage'
    PROVE  PageInv'
<1>1. Keeps("sub")
  BY DEF Frame, Request
<1> QED
  BY <1>1 DEF PageInv, Spliced, Keeps

\* ... and one of the subrequest the page's headers.
LEMMA FragmentStep ==
    ASSUME PageInv, Frame("sub"), Spliced', builtin' = builtin,
           (included' = included) \/ response["main"].status = 200
    PROVE  PageInv'
<1>1. Keeps("main") /\ config' = config /\ header' = header
  BY DEF Frame, Request
<1>2. Marked => Marked'
  BY <1>1, MarkedKept DEF Keeps
<1>3. FailedPage'
  BY <1>1, <1>2 DEF PageInv, FailedPage, Keeps
<1> QED
  BY <1>3 DEF PageInv

\* A page without a status, or with another one, has not failed.
LEMMA NotFailed ==
    ASSUME PageInv, Frame("main"), response'["main"].status # 500
    PROVE  PageInv'
<1>1. FailedPage'
  BY DEF FailedPage
<1> QED
  BY <1>1, PageStep

\* A subrequest short of the header filter was not answered with a sidecar, nor is it by
\* a step that leaves it without one.
LEMMA NotSpliced ==
    ASSUME PageInv, Frame("sub"), builtin' = builtin, sidecar'["sub"] = sidecar["sub"],
           (included' = included) \/ response["main"].status = 200,
           pc["sub"] \notin {"header", "done", "closed"}
    PROVE  PageInv'
<1>1. Spliced'
  BY DEF PageInv, Spliced
<1> QED
  BY <1>1, FragmentStep

\* Each action preserves the invariant.  The handler declines or starts.
LEMMA StartPage ==
    ASSUME RepresentationInv, PageInv, NEW r \in Request, NEW servable \in BOOLEAN,
           Decline(r, servable) \/ StartProbing(r, servable)
    PROVE  PageInv'
<1>1. /\ Frame(r) /\ pc[r] = "content"
      /\ UNCHANGED <<sidecar, response, builtin, included>>
  BY DeclineFacts, StartProbingFacts DEF RepresentationInv
<1>2. CASE r = "main"
  <2>1. response'["main"].status = 0
    BY <1>1, <1>2 DEF RepresentationInv, HeadInv, Fresh
  <2> QED
    BY <1>1, <1>2, <2>1, NotFailed
<1>3. CASE r = "sub"
  BY <1>1, <1>3, NotSpliced
<1> QED
  BY <1>2, <1>3 DEF Request

\* A probe may fail with the sidecar's coding announced.
LEMMA ProbePage ==
    ASSUME RepresentationInv, PageInv, NEW r \in Request, Probe(r)
    PROVE  PageInv'
<1> DEFINE c == Head(candidates[r])
<1>1. Shape
  BY DEF RepresentationInv
<1>2. /\ Frame(r) /\ pc[r] = "probing"
      /\ UNCHANGED <<context, builtin, included>>
      /\ response'[r].cleared = response[r].cleared
  BY <1>1, ProbeFacts
<1>3. \/ pc'[r] = "error"
      \/ pc'[r] = "probing" /\ response'[r].status = response[r].status
      \/ pc'[r] = "header" /\ body'[r] = <<c>> /\ sidecar'[r] = c /\ response'[r].status = 200
  BY <1>1, ProbeFacts DEF SameHead
<1>4. Missed(r, c) \/ Passed(r, c) \/ Sent(r, c) \/ Failed(r, c)
  BY <1>1, ProbeOutcome
<1>5. c \in ContentCoding
  <2>1. candidates[r] \in Seq(SidecarCoding) /\ candidates[r] # <<>>
    BY <1>1 DEF Shape, Probe
  <2>2. c \in SidecarCoding
    BY <2>1
  <2> QED
    BY <2>2 DEF SidecarCoding, ContentCoding, Coding
<1> HIDE DEF c
<1>6. CASE r = "main"
  <2>1. /\ response["main"].status = 0 /\ response["main"].encodings = <<>>
        /\ context["main"] = Nothing /\ ~builtin /\ ~included /\ ~response["main"].cleared
    BY <1>2, <1>6 DEF RepresentationInv, HeadInv, Fresh, Unfiltered
  <2>2. CASE pc'[r] # "error"
    <3>1. response'["main"].status # 500
      BY <1>3, <1>6, <2>1, <2>2
    <3> QED
      BY <1>2, <1>6, <3>1, NotFailed
  <2>3. CASE pc'[r] = "error"
    <3>1. Failed(r, c)
      BY <1>4, <2>3 DEF Missed, Passed, Sent
    <3>2. CASE response'[r].encodings = response[r].encodings
      <4>1. response'["main"].encodings = <<>> /\ Len(<<>>) <= 1
        BY <1>6, <2>1, <3>2
      <4>2. FailedPage'
        BY <1>2, <1>6, <2>1, <2>3, <4>1 DEF FailedPage
      <4> QED
        BY <1>2, <1>6, <4>2, PageStep
    <3>3. CASE /\ found'[r] = found[r] \cup {c} /\ Accepted(config[r].static_mode, accept, c)
               /\ response'[r].encodings = Append(response[r].encodings, c)
               /\ VariesByAccept(r) => response'[r].vary
      <4>1. config' = config /\ accept' = accept
        BY <1>2 DEF Frame, accept
      <4>2. response'["main"].encodings = Append(<<>>, c)
        BY <1>6, <2>1, <3>3
      <4>3. response'["main"].encodings = <<c>> /\ Len(<<c>>) <= 1
        BY <1>5, <4>2, OneCoding
      <4>4. response'["main"].status = 500
        BY <1>6, <3>1 DEF Failed
      <4>5. c \in found'["main"] /\ Accepted(config'["main"].static_mode, accept', c)
        BY <1>6, <3>3, <4>1
      <4>6. LoneEncoding'
        BY <4>3, <4>4, <4>5 DEF LoneEncoding
      <4>7. VariesByAccept("main")' => VariesByAccept("main")
        BY <4>1 DEF VariesByAccept
      <4>8. VariesByAccept("main")' => response'["main"].vary
        BY <1>6, <3>3, <4>7
      <4>9. Marked'
        BY <4>6, <4>8 DEF Marked
      <4>10. FailedPage'
        BY <1>2, <1>6, <2>1, <2>3, <4>3, <4>9 DEF FailedPage
      <4> QED
        BY <1>2, <1>6, <4>10, PageStep
    <3> QED
      BY <3>1, <3>2, <3>3 DEF Failed
  <2> QED
    BY <2>2, <2>3
<1>7. CASE r = "sub"
  <2>1. CASE sidecar'[r] = sidecar[r]
    BY <1>2, <1>7, <2>1, NotSpliced
  <2>2. CASE sidecar'[r] # sidecar[r]
    <3>1. Sent(r, c)
      BY <1>4, <2>2 DEF Missed, Passed, Failed
    <3>2. pc'["sub"] = "header" /\ body'["sub"] = <<sidecar'["sub"]>>
      BY <1>3, <1>7, <3>1 DEF Sent
    <3>3. Spliced'
      BY <3>2 DEF Spliced
    <3> QED
      BY <1>2, <1>7, <3>3, FragmentStep
  <2> QED
    BY <2>1, <2>2
<1> QED
  BY <1>6, <1>7 DEF Request

\* The handler gives up with nothing announced.
LEMMA ProbeEndPage ==
    ASSUME RepresentationInv, PageInv, NEW r \in Request, ProbeEnd(r)
    PROVE  PageInv'
<1>1. /\ Frame(r) /\ pc[r] = "probing"
      /\ UNCHANGED <<sidecar, context, builtin, included>>
      /\ response'[r].cleared = response[r].cleared
      /\ \/ response' = response
         \/ response'[r].status = 406
         \/ pc'[r] = "error" /\ response'[r].encodings = response[r].encodings
  BY ProbeEndFacts DEF RepresentationInv
<1>2. CASE r = "main"
  <2>1. /\ response["main"].status = 0 /\ response["main"].encodings = <<>>
        /\ context["main"] = Nothing /\ ~builtin /\ ~included /\ ~response["main"].cleared
    BY <1>1, <1>2 DEF RepresentationInv, HeadInv, Fresh, Unfiltered
  <2>2. CASE response' = response \/ response'[r].status = 406
    <3>1. response'["main"].status # 500
      BY <1>2, <2>1, <2>2
    <3> QED
      BY <1>1, <1>2, <3>1, NotFailed
  <2>3. CASE pc'[r] = "error" /\ response'[r].encodings = response[r].encodings
    <3>1. response'["main"].encodings = <<>> /\ Len(<<>>) <= 1
      BY <1>2, <2>1, <2>3
    <3>2. FailedPage'
      BY <1>1, <1>2, <2>1, <2>3, <3>1 DEF FailedPage
    <3> QED
      BY <1>1, <1>2, <3>2, PageStep
  <2> QED
    BY <1>1, <2>2, <2>3
<1>3. CASE r = "sub"
  BY <1>1, <1>3, NotSpliced
<1> QED
  BY <1>2, <1>3 DEF Request

\* Another handler's 500 says how it is encoded.
LEMMA OriginalPage ==
    ASSUME RepresentationInv, PageInv, NEW r \in Request, Original(r)
    PROVE  PageInv'
<1>1. /\ Frame(r) /\ pc[r] = "upstream" /\ pc'[r] = "header"
      /\ body'[r] = response'[r].encodings /\ Len(response'[r].encodings) <= 1
      /\ ~response'[r].cleared
      /\ UNCHANGED <<sidecar, context, builtin, included>>
  BY OriginalFacts DEF RepresentationInv
<1>2. CASE r = "main"
  <2>1. context["main"] = Nothing /\ ~builtin /\ ~included
    BY <1>1, <1>2 DEF RepresentationInv, HeadInv, Unfiltered
  <2>2. FailedPage'
    BY <1>1, <1>2, <2>1 DEF FailedPage
  <2> QED
    BY <1>1, <1>2, <2>2, PageStep
<1>3. CASE r = "sub"
  BY <1>1, <1>3, NotSpliced
<1> QED
  BY <1>2, <1>3 DEF Request

\* An error page is plain and keeps the announcement.
LEMMA SpecialResponsePage ==
    ASSUME RepresentationInv, PageInv, NEW r \in Request, SpecialResponse(r)
    PROVE  PageInv'
<1>1. /\ Frame(r) /\ pc[r] = "error" /\ pc'[r] = "header"
      /\ SameHead(r) /\ response'[r].vary = response[r].vary /\ body'[r] = <<>>
      /\ UNCHANGED <<found, sidecar, context, builtin, included>>
  BY SpecialResponseFacts DEF RepresentationInv
<1>2. CASE r = "main"
  <2>1. config' = config /\ header' = header
    BY <1>1 DEF Frame
  <2>2. Marked => Marked'
    BY <1>1, <1>2, <2>1, MarkedKept DEF SameHead
  <2>3. FailedPage'
    BY <1>1, <1>2, <2>2 DEF PageInv, FailedPage, SameHead
  <2> QED
    BY <1>1, <1>2, <2>3, PageStep
<1>3. CASE r = "sub"
  BY <1>1, <1>3, NotSpliced
<1> QED
  BY <1>2, <1>3 DEF Request

\* A failed page passes the header filter as it is: no coding is added to a 500.
LEMMA PassPage ==
    ASSUME RepresentationInv, PageInv, NEW r \in Request, Pass(r)
    PROVE  PageInv'
<1>1. /\ Frame(r) /\ Answers(r, response[r]) /\ pc[r] = "header"
      /\ UNCHANGED <<found, sidecar, body, context, included>>
  BY PassFacts DEF RepresentationInv
<1>2. CASE r = "main"
  <2>1. config' = config /\ header' = header
    BY <1>1 DEF Frame
  <2>2. /\ pc'["main"] \in {"body", "closed"}
        /\ response'["main"].status = response["main"].status
        /\ response'["main"].vary = response["main"].vary
        /\ response'["main"].cleared = response["main"].cleared
    BY <1>1, <1>2 DEF Answers
  <2>3. CASE response["main"].status = 500
    <3>1. ~BuiltinGzips("main", response["main"])
      BY <2>3 DEF BuiltinGzips
    <3>2. response'["main"].encodings = response["main"].encodings
      BY <1>1, <1>2, <3>1 DEF Answers
    <3>3. builtin' = (builtin \/ BuiltinGzips("main", response["main"]))
      BY <1>1, <1>2 DEF Answers
    <3>4. builtin' = builtin
      BY <3>1, <3>3 DEF RepresentationInv, Shape
    <3>5. Marked => Marked'
      BY <1>1, <2>1, <2>2, <3>2, MarkedKept
    <3>6. FailedPage'
      BY <1>1, <1>2, <2>2, <3>2, <3>4, <3>5 DEF PageInv, FailedPage
    <3> QED
      BY <1>1, <1>2, <3>6, PageStep
  <2>4. CASE response["main"].status # 500
    BY <1>1, <1>2, <2>2, <2>4, NotFailed
  <2> QED
    BY <2>3, <2>4
<1>3. CASE r = "sub"
  <2>1. pc'["sub"] \in {"done", "closed"}
    BY <1>1, <1>3 DEF Answers
  <2>2. builtin' = (builtin \/ BuiltinGzips(r, response[r])) /\ ~BuiltinGzips(r, response[r])
    BY <1>1, <1>3 DEF Answers, BuiltinGzips
  <2>3. builtin' = builtin
    BY <2>2 DEF RepresentationInv, Shape
  <2>4. Spliced'
    BY <1>1, <2>1 DEF PageInv, Spliced
  <2> QED
    BY <1>1, <1>3, <2>3, <2>4, FragmentStep
<1> QED
  BY <1>2, <1>3 DEF Request

\* Nor is one refused or encoded: that is for a 200.
LEMMA FilterPage ==
    ASSUME RepresentationInv, PageInv, NEW r \in Request,
           Reject(r) \/ EncodingNotAdded(r) \/ Compress(r) \/ InstallFails(r)
    PROVE  PageInv'
<1>1. Shape
  BY DEF RepresentationInv
<1>2. CASE Reject(r)
  <2>1. Frame("main") /\ response'["main"].status = 406
    BY <1>1, <1>2, RejectFacts
  <2> QED
    BY <2>1, NotFailed
<1>3. CASE EncodingNotAdded(r)
  <2>1. Frame(r) /\ Answers(r, WithVary(r)) /\ Encodes(r)
    BY <1>1, <1>3, EncodingNotAddedFacts
  <2>2. r = "main" /\ WithVary(r).status = 200
    BY <1>1, <2>1, EncodesFacts, PreparedFacts
  <2> QED
    BY <2>1, <2>2, NotFailed DEF Answers
<1>4. CASE Compress(r)
  <2>1. Frame(r) /\ Answers(r, Prepared(r)) /\ Encodes(r)
    BY <1>1, <1>4, CompressFacts
  <2>2. r = "main" /\ Prepared(r).status = 200
    BY <1>1, <2>1, EncodesFacts, PreparedFacts
  <2> QED
    BY <2>1, <2>2, NotFailed DEF Answers
<1>5. CASE InstallFails(r)
  <2>1. Frame(r) /\ Encodes(r) /\ response'[r].status = 200
    BY <1>1, <1>5, InstallFailsFacts
  <2>2. r = "main"
    BY <1>1, <2>1, EncodesFacts
  <2> QED
    BY <2>1, <2>2, NotFailed
<1> QED
  BY <1>2, <1>3, <1>4, <1>5

\* Only a 200 includes a fragment, and delivery changes nothing.
LEMMA BodyPage ==
    ASSUME RepresentationInv, PageInv, Include \/ Deliver
    PROVE  PageInv'
<1>1. Shape
  BY DEF RepresentationInv
<1>2. CASE Include
  <2>1. /\ Frame("sub") /\ pc["sub"] = "idle" /\ response["main"].status = 200
        /\ UNCHANGED <<sidecar, builtin>>
    BY <1>1, <1>2, IncludeFacts
  <2> QED
    BY <2>1, NotSpliced
<1>3. CASE Deliver
  <2>1. /\ Frame("main") /\ pc["main"] = "body" /\ pc'["main"] = "done"
        /\ UNCHANGED <<found, response, body, context, builtin, included>>
    BY <1>1, <1>3, DeliverFacts
  <2>2. config' = config /\ header' = header
    BY <2>1 DEF Frame
  <2>3. Marked => Marked'
    BY <2>1, <2>2, MarkedKept
  <2>4. FailedPage'
    BY <2>1, <2>3 DEF PageInv, FailedPage
  <2> QED
    BY <2>1, <2>4, PageStep
<1> QED
  BY <1>2, <1>3

\* At first there is neither.
LEMMA PageInit ==
    ASSUME Init
    PROVE  PageInv
<1>1. sidecar["sub"] = Nothing /\ response["main"].status = 0
  BY DEF Init, Request, NoResponse
<1> QED
  BY <1>1 DEF PageInv, FailedPage, Spliced

\* Every step.
LEMMA PageNext ==
    ASSUME RepresentationInv, PageInv, [Next]_vars
    PROVE  PageInv'
<1>1. CASE UNCHANGED vars
  <2>1. UNCHANGED <<config, header, pc, found, sidecar, response, body, context, builtin, included>>
    BY <1>1 DEF vars
  <2>2. Marked => Marked'
    BY <2>1, MarkedKept
  <2>3. FailedPage' /\ Spliced'
    BY <2>1, <2>2 DEF PageInv, FailedPage, Spliced
  <2> QED
    BY <2>3 DEF PageInv
<1>2. ASSUME NEW r \in Request, NEW servable \in BOOLEAN,
             Decline(r, servable) \/ StartProbing(r, servable)
      PROVE  PageInv'
  BY <1>2, StartPage
<1>3. ASSUME NEW r \in Request, Probe(r) \/ ProbeEnd(r)
      PROVE  PageInv'
  BY <1>3, ProbePage, ProbeEndPage
<1>4. ASSUME NEW r \in Request, Original(r) \/ SpecialResponse(r) \/ Pass(r)
      PROVE  PageInv'
  BY <1>4, OriginalPage, SpecialResponsePage, PassPage
<1>5. ASSUME NEW r \in Request, Reject(r) \/ EncodingNotAdded(r) \/ Compress(r) \/ InstallFails(r)
      PROVE  PageInv'
  BY <1>5, FilterPage
<1>6. CASE Include \/ Deliver
  BY <1>6, BodyPage
<1> QED
  BY <1>1, <1>2, <1>3, <1>4, <1>5, <1>6 DEF Next

\* Both invariants hold throughout.
LEMMA PageInvariant == Spec => [](RepresentationInv /\ PageInv)
<1>1. Init => RepresentationInv /\ PageInv
  BY RepresentationInit, PageInit
<1>2. (RepresentationInv /\ PageInv) /\ [Next]_vars => (RepresentationInv /\ PageInv)'
  BY RepresentationStep, PageNext
<1> QED
  BY <1>1, <1>2, PTL DEF Spec

\* The codings this module and NGINX's gzip apply are content codings.
LEMMA AppliedType ==
    ASSUME Shape
    PROVE  Applied \in Seq(ContentCoding)
<1> DEFINE own == IF context["main"] = Nothing THEN <<>> ELSE <<context["main"]>>
           gzip == IF builtin THEN <<"gzip">> ELSE <<>>
<1>1. context["main"] \in ContentCoding \cup {Nothing} /\ "gzip" \in ContentCoding
  BY DEF Shape, Request, ContentCoding, Coding
<1>2. own \in Seq(ContentCoding) /\ gzip \in Seq(ContentCoding)
  BY <1>1
<1>3. Applied = own \o gzip
  BY DEF Applied
<1> HIDE DEF own, gzip
<1> QED
  BY <1>2, <1>3

\* Where neither has a part, the client gets the body as the handler supplied it.
LEMMA PlainDelivery ==
    ASSUME Shape, context["main"] = Nothing, ~builtin
    PROVE  Delivered("main") = body["main"]
<1>1. /\ body["main"] \in Seq(ContentCoding) /\ builtin \in BOOLEAN
      /\ context["main"] \in ContentCoding \cup {Nothing}
  BY DEF Shape, Request
<1>2. Delivered("main") = Composed(body["main"], context["main"], builtin)
  BY DEF Delivered, Applied, Composed
<1> QED
  BY <1>1, <1>2, ComposedFacts

\* A finished page, whatever its status and whichever step of the header filter failed,
\* announces exactly the coding of its bytes and at most one.  The exception the property
\* names is real and all there is: the plain error page of a handler that failed behind
\* add_content_encoding (sidecar.rs) announces the sidecar it had accepted.  An included
\* part has the page's coding, behind its own sidecar's if it was answered with one
\* (filter/runtime.rs, header.rs, static_file/serve.rs with NGINX's gzip).
THEOREM HeadsMatchBodies == Spec => []HeadMatchesBody
<1>1. RepresentationInv /\ PageInv => HeadMatchesBody
  <2> DEFINE own == IF sidecar["sub"] = Nothing THEN <<>> ELSE <<sidecar["sub"]>>
  <2> SUFFICES ASSUME RepresentationInv, PageInv, Done
               PROVE  /\ \/ Delivered("main") = response["main"].encodings
                         \/ Delivered("main") = <<>> /\ LoneEncoding
                      /\ Len(response["main"].encodings) <= 1
                      /\ response["main"].cleared <=> context["main"] # Nothing
                      /\ included => Delivered("sub") = own \o response["main"].encodings
    BY DEF HeadMatchesBody
  <2>1. Shape /\ pc["main"] = "done"
    BY DEF Done, RepresentationInv
  <2>2. CASE response["main"].status = 500
    <3>1. /\ context["main"] = Nothing /\ ~builtin /\ ~included /\ ~response["main"].cleared
          /\ Len(response["main"].encodings) <= 1
          /\ \/ body["main"] = response["main"].encodings
             \/ body["main"] = <<>> /\ LoneEncoding
      BY <2>1, <2>2 DEF PageInv, FailedPage, Marked
    <3>2. Delivered("main") = body["main"]
      BY <2>1, <3>1, PlainDelivery
    <3> QED
      BY <3>1, <3>2
  <2>3. CASE response["main"].status # 500
    <3>1. /\ Delivered("main") = response["main"].encodings
          /\ Len(response["main"].encodings) <= 1
          /\ response["main"].cleared <=> context["main"] # Nothing
      BY <2>1, <2>3 DEF RepresentationInv, HeadInv, Matched
    <3>2. ASSUME included
          PROVE  Delivered("sub") = own \o response["main"].encodings
      <4>1. body["main"] = <<>> /\ body["sub"] = own
        BY <3>2 DEF RepresentationInv, Embedded, PageInv, Spliced
      <4>2. Applied \in Seq(ContentCoding)
        BY <2>1, AppliedType
      <4>3. Delivered("main") = Applied
        BY <4>1, <4>2, EmptyJoin DEF Delivered
      <4> QED
        BY <3>1, <4>1, <4>3 DEF Delivered
    <3> QED
      BY <3>1, <3>2
  <2> QED
    BY <2>2, <2>3
<1> QED
  BY <1>1, PageInvariant, PTL

\* With compress_vary, Vary is on a page this module encoded and, where the static handler
\* negotiates, on one for which a sidecar existed or which it refused (static_file's Vary
\* comes before the file is judged), and on an error page that still announces a
\* sidecar's coding.  Nothing follows where identity won at request time, for the header
\* filter's 406, for other error pages of a failure, or about a subrequest's negotiation.
THEOREM CachesAreSafe == Spec => []CacheSafe
<1>1. RepresentationInv /\ PageInv => CacheSafe
  <2> SUFFICES ASSUME RepresentationInv, PageInv, Done, config["main"].vary,
                      context["main"] # Nothing \/ (config["main"].static_mode = "on" /\ Decided)
               PROVE  response["main"].vary
    BY DEF CacheSafe
  <2>1. Shape /\ pc["main"] = "done"
    BY DEF Done, RepresentationInv
  <2>2. CASE response["main"].status = 500
    <3>1. /\ context["main"] = Nothing /\ ~builtin
          /\ \/ body["main"] = response["main"].encodings
             \/ body["main"] = <<>> /\ Marked
      BY <2>1, <2>2 DEF PageInv, FailedPage
    <3>2. Delivered("main") = body["main"]
      BY <2>1, <3>1, PlainDelivery
    <3>3. config["main"].static_mode = "on" /\ Delivered("main") # response["main"].encodings
      BY <2>2, <3>1 DEF Decided
    <3>4. Marked
      BY <3>1, <3>2, <3>3
    <3> QED
      BY <3>3, <3>4 DEF Marked, VariesByAccept
  <2>3. CASE response["main"].status # 500
    <3>1. Delivered("main") = response["main"].encodings
      BY <2>1, <2>3 DEF RepresentationInv, HeadInv, Matched
    <3>2. \/ context["main"] # Nothing
          \/ config["main"].static_mode = "on" /\ (found["main"] # {} \/ refused["main"] = "static")
      BY <3>1 DEF Decided
    <3> QED
      BY <2>3, <3>2 DEF RepresentationInv, Varies, VariesByAccept
  <2> QED
    BY <2>2, <2>3
<1> QED
  BY <1>1, PageInvariant, PTL

=============================================================================
