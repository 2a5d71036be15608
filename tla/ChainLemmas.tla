---------------------------- MODULE ChainLemmas -----------------------------
(*****************************************************************************)
(* Chains of buffers as sequences without duplicates: what appending, taking *)
(* the tail, concatenating, cutting and reversing does to their elements.    *)
(* The items a chain stands for, when each of its elements stands for some.  *)
(* That the folds of the library, which are functions on sets chosen by      *)
(* their equation, have the values their equation says.                      *)
(*****************************************************************************)
EXTENDS Naturals, SequencesExt, SequenceTheorems, FiniteSetTheorems, TLAPS

\* One more element of a chain without duplicates.
LEMMA AppendFacts ==
    ASSUME NEW S, NEW s \in Seq(S), NEW x \in S, x \notin ToSet(s), IsInjective(s)
    PROVE  /\ Append(s, x) \in Seq(S) /\ Len(Append(s, x)) = Len(s) + 1
           /\ IsInjective(Append(s, x))
           /\ ToSet(Append(s, x)) = ToSet(s) \cup {x}
<1> DEFINE t == Append(s, x)
<1>1. /\ Len(s) \in Nat /\ DOMAIN s = 1..Len(s)
      /\ t \in Seq(S) /\ Len(t) = Len(s) + 1 /\ DOMAIN t = 1..(Len(s) + 1)
      /\ t[Len(s) + 1] = x
      /\ \A i \in DOMAIN s : t[i] = s[i]
  OBVIOUS
<1> HIDE DEF t
<1>2. /\ Len(s) + 1 \in DOMAIN t /\ Len(s) + 1 \notin DOMAIN s
      /\ \A i \in DOMAIN t : i \in DOMAIN s \/ i = Len(s) + 1
      /\ \A i \in DOMAIN s : i \in DOMAIN t
  BY <1>1
<1>3. ToSet(t) = ToSet(s) \cup {x}
  BY <1>1, <1>2 DEF ToSet
<1>4. \A i \in DOMAIN s : s[i] # x
  BY DEF ToSet
<1>5. \A i, j \in DOMAIN s : s[i] = s[j] => i = j
  BY DEF IsInjective
<1>6. ASSUME NEW i \in DOMAIN t, NEW j \in DOMAIN t, t[i] = t[j]
      PROVE  i = j
  BY <1>1, <1>2, <1>4, <1>5, <1>6
<1>7. IsInjective(t)
  BY <1>6 DEF IsInjective
<1> QED
  BY <1>1, <1>3, <1>7 DEF t

\* The chain behind its head.
LEMMA TailFacts ==
    ASSUME NEW S, NEW s \in Seq(S), s # <<>>, IsInjective(s)
    PROVE  /\ Head(s) \in S /\ Head(s) \in ToSet(s)
           /\ Tail(s) \in Seq(S) /\ Len(Tail(s)) = Len(s) - 1
           /\ IsInjective(Tail(s))
           /\ ToSet(Tail(s)) = ToSet(s) \ {Head(s)}
<1> DEFINE t == Tail(s)
<1>1. /\ Len(s) \in Nat /\ Len(s) > 0 /\ DOMAIN s = 1..Len(s) /\ Head(s) = s[1]
      /\ t \in Seq(S) /\ Len(t) = Len(s) - 1 /\ DOMAIN t = 1..(Len(s) - 1)
      /\ \A i \in 1..(Len(s) - 1) : t[i] = s[i + 1]
  OBVIOUS
<1> HIDE DEF t
<1>2. IsInjective(t)
  BY <1>1 DEF IsInjective
<1>3. \A i \in DOMAIN s : s[i] # s[1] => i - 1 \in DOMAIN t /\ t[i - 1] = s[i]
  BY <1>1
<1>4. \A i \in DOMAIN t : i + 1 \in DOMAIN s /\ t[i] = s[i + 1] /\ s[i + 1] # s[1]
  BY <1>1 DEF IsInjective
<1>5. ToSet(t) = ToSet(s) \ {s[1]}
  BY <1>3, <1>4 DEF ToSet
<1>6. s[1] \in S /\ s[1] \in ToSet(s)
  BY <1>1 DEF ToSet
<1> QED
  BY <1>1, <1>2, <1>5, <1>6 DEF t

\* Two chains without a common element, one behind the other.
LEMMA ConcatFacts ==
    ASSUME NEW S, NEW s \in Seq(S), NEW t \in Seq(S), IsInjective(s), IsInjective(t),
           ToSet(s) \cap ToSet(t) = {}
    PROVE  /\ s \o t \in Seq(S) /\ Len(s \o t) = Len(s) + Len(t)
           /\ IsInjective(s \o t)
           /\ ToSet(s \o t) = ToSet(s) \cup ToSet(t)
<1> DEFINE u == s \o t
<1>1. /\ Len(s) \in Nat /\ DOMAIN s = 1..Len(s) /\ Len(t) \in Nat /\ DOMAIN t = 1..Len(t)
      /\ u \in Seq(S) /\ Len(u) = Len(s) + Len(t) /\ DOMAIN u = 1..(Len(s) + Len(t))
      /\ \A i \in DOMAIN u : u[i] = IF i <= Len(s) THEN s[i] ELSE t[i - Len(s)]
  OBVIOUS
<1> HIDE DEF u
<1>2. /\ \A i \in DOMAIN s : i \in DOMAIN u /\ u[i] = s[i]
      /\ \A i \in DOMAIN t : i + Len(s) \in DOMAIN u /\ u[i + Len(s)] = t[i]
      /\ \A i \in DOMAIN u : \/ i \in DOMAIN s /\ u[i] = s[i]
                             \/ i - Len(s) \in DOMAIN t /\ u[i] = t[i - Len(s)]
  BY <1>1
<1>3. ToSet(u) = ToSet(s) \cup ToSet(t)
  BY <1>2 DEF ToSet
<1>4. \A i \in DOMAIN s, j \in DOMAIN t : s[i] # t[j]
  BY DEF ToSet
<1>5. ASSUME NEW i \in DOMAIN u, NEW j \in DOMAIN u, u[i] = u[j]
      PROVE  i = j
  <2>1. CASE i <= Len(s) /\ j <= Len(s)
    BY <1>1, <1>5, <2>1 DEF IsInjective
  <2>2. CASE i > Len(s) /\ j > Len(s)
    <3>1. t[i - Len(s)] = t[j - Len(s)] /\ i - Len(s) \in DOMAIN t /\ j - Len(s) \in DOMAIN t
      BY <1>1, <1>5, <2>2
    <3>2. i - Len(s) = j - Len(s)
      BY <3>1 DEF IsInjective
    <3> QED
      BY <1>1, <1>5, <3>2
  <2>3. ~(i <= Len(s) /\ j > Len(s)) /\ ~(j <= Len(s) /\ i > Len(s))
    BY <1>1, <1>4, <1>5
  <2> QED
    BY <1>1, <1>5, <2>1, <2>2, <2>3
<1>6. IsInjective(u)
  BY <1>5 DEF IsInjective
<1> QED
  BY <1>1, <1>3, <1>6 DEF u

\* A chain cut in two: a are its first n elements, z the others.
LEMMA SplitFacts ==
    ASSUME NEW S, NEW s \in Seq(S), NEW n \in 0..Len(s), IsInjective(s),
           NEW a \in Seq(S), Len(a) = n, \A i \in 1..n : a[i] = s[i],
           NEW z \in Seq(S), Len(z) = Len(s) - n, \A i \in 1..(Len(s) - n) : z[i] = s[i + n]
    PROVE  /\ IsInjective(a) /\ IsInjective(z)
           /\ ToSet(a) \cap ToSet(z) = {}
           /\ ToSet(a) \cup ToSet(z) = ToSet(s)
<1>1. /\ Len(s) \in Nat /\ DOMAIN s = 1..Len(s) /\ n \in Nat /\ n <= Len(s)
      /\ DOMAIN a = 1..n
      /\ \A i \in DOMAIN a : a[i] = s[i]
  OBVIOUS
<1>2. /\ DOMAIN z = 1..(Len(s) - n)
      /\ \A i \in DOMAIN z : z[i] = s[i + n]
  OBVIOUS
<1>3. /\ \A i \in DOMAIN a : i \in DOMAIN s /\ a[i] = s[i]
      /\ \A i \in DOMAIN z : i + n \in DOMAIN s /\ z[i] = s[i + n]
      /\ \A i \in DOMAIN s : \/ i \in DOMAIN a /\ s[i] = a[i]
                             \/ i - n \in DOMAIN z /\ s[i] = z[i - n]
  BY <1>1, <1>2
<1>4. ToSet(a) \cup ToSet(z) = ToSet(s)
  <2>1. ToSet(a) \subseteq ToSet(s)
    BY <1>3 DEF ToSet
  <2>2. ToSet(z) \subseteq ToSet(s)
    BY <1>3 DEF ToSet
  <2>3. ASSUME NEW i \in DOMAIN s PROVE s[i] \in ToSet(a) \cup ToSet(z)
    BY <1>3 DEF ToSet
  <2> QED
    BY <2>1, <2>2, <2>3 DEF ToSet
<1>5. IsInjective(a)
  <2>1. \A i, j \in DOMAIN s : s[i] = s[j] => i = j
    BY DEF IsInjective
  <2>2. \A i, j \in DOMAIN a : a[i] = a[j] => i = j
    BY <1>3, <2>1
  <2> QED
    BY <2>2 DEF IsInjective
<1>6. IsInjective(z)
  <2>1. \A i, j \in DOMAIN s : s[i] = s[j] => i = j
    BY DEF IsInjective
  <2>2. ASSUME NEW i \in DOMAIN z, NEW j \in DOMAIN z, z[i] = z[j]
        PROVE  i = j
    <3>1. i + n \in DOMAIN s /\ j + n \in DOMAIN s /\ z[i] = s[i + n] /\ z[j] = s[j + n]
      BY <1>3
    <3>2. i + n = j + n
      BY <2>1, <2>2, <3>1
    <3> QED
      BY <1>1, <1>2, <3>2
  <2> QED
    BY <2>2 DEF IsInjective
<1>7. ASSUME NEW i \in DOMAIN a, NEW j \in DOMAIN z
      PROVE  a[i] # z[j]
  <2>1. i \in DOMAIN s /\ j + n \in DOMAIN s /\ i # j + n
    BY <1>1, <1>2
  <2>2. s[i] # s[j + n]
    BY <2>1 DEF IsInjective
  <2> QED
    BY <1>3, <2>2
<1>8. ToSet(a) \cap ToSet(z) = {}
  BY <1>7 DEF ToSet
<1> QED
  BY <1>1, <1>2, <1>4, <1>5, <1>6, <1>8

\* Reversing keeps the elements.
LEMMA ReverseFacts ==
    ASSUME NEW S, NEW s \in Seq(S), IsInjective(s)
    PROVE  /\ Reverse(s) \in Seq(S) /\ Len(Reverse(s)) = Len(s)
           /\ IsInjective(Reverse(s))
           /\ ToSet(Reverse(s)) = ToSet(s)
<1> DEFINE r == Reverse(s)
<1>1. /\ Len(s) \in Nat /\ DOMAIN s = 1..Len(s)
      /\ r \in Seq(S) /\ Len(r) = Len(s) /\ DOMAIN r = 1..Len(s)
      /\ \A i \in 1..Len(s) : r[i] = s[(Len(s) - i) + 1]
  BY DEF Reverse
<1> HIDE DEF r
<1>2. /\ \A i \in DOMAIN r : (Len(s) - i) + 1 \in DOMAIN s /\ r[i] = s[(Len(s) - i) + 1]
      /\ \A i \in DOMAIN s : (Len(s) - i) + 1 \in DOMAIN r /\ r[(Len(s) - i) + 1] = s[i]
  BY <1>1
<1>3. ToSet(r) = ToSet(s)
  BY <1>2 DEF ToSet
<1>4. \A i, j \in DOMAIN s : s[i] = s[j] => i = j
  BY DEF IsInjective
<1>5. ASSUME NEW i \in DOMAIN r, NEW j \in DOMAIN r, r[i] = r[j]
      PROVE  i = j
  <2>1. (Len(s) - i) + 1 = (Len(s) - j) + 1
    BY <1>2, <1>4, <1>5
  <2> QED
    BY <1>1, <2>1
<1>6. IsInjective(r)
  BY <1>5 DEF IsInjective
<1> QED
  BY <1>1, <1>3, <1>6 DEF r

\* The least number principle, in the form the proofs use.
LEMMA LeastNat ==
    ASSUME NEW T, T \subseteq Nat, T # {}
    PROVE  \E n \in T : \A m \in T : n <= m
<1>1. PICK n \in T : \A m \in T : <<m, n>> \notin OpToRel(<, Nat)
  BY NatLessThanWellFounded, WFMin
<1>2. \A m \in T : ~(m < n)
  BY <1>1 DEF OpToRel
<1> QED
  BY <1>2

\* A sequence cut in two, and put together again.
LEMMA CutSeq ==
    ASSUME NEW S, NEW s \in Seq(S), NEW n \in 0..Len(s)
    PROVE  /\ SubSeq(s, 1, n) \in Seq(S) /\ Len(SubSeq(s, 1, n)) = n
           /\ SubSeq(s, n + 1, Len(s)) \in Seq(S) /\ Len(SubSeq(s, n + 1, Len(s))) = Len(s) - n
           /\ SubSeq(s, 1, n) \o SubSeq(s, n + 1, Len(s)) = s
<1>1. Len(s) \in Nat /\ n \in Nat /\ n <= Len(s)
  OBVIOUS
<1>2. /\ 1 \in 1..(Len(s) + 1) /\ n \in (1 - 1)..Len(s) /\ Len(s) \in n..Len(s)
  BY <1>1
<1>3. SubSeq(s, 1, n) \o SubSeq(s, n + 1, Len(s)) = SubSeq(s, 1, Len(s))
  BY <1>2, ConcatAdjacentSubSeq
<1>4. SubSeq(s, 1, Len(s)) = s
  BY SubSeqFull
<1>5. SubSeq(s, 1, n) \in Seq(S) /\ Len(SubSeq(s, 1, n)) = n
  BY <1>1
<1>6. SubSeq(s, n + 1, Len(s)) \in Seq(S) /\ Len(SubSeq(s, n + 1, Len(s))) = Len(s) - n
  BY <1>1
<1> QED
  BY <1>3, <1>4, <1>5, <1>6

-----------------------------------------------------------------------------
(* Sequences made of pieces.                                               *)

\* Sequences of items, put together.
LEMMA Joined ==
    /\ \A a, b \in Seq(Int) : a \o b \in Seq(Int)
    /\ \A a, b, c \in Seq(Int) : (a \o b) \o c = a \o (b \o c)
    /\ \A a \in Seq(Int) : a \o <<>> = a /\ <<>> \o a = a
    /\ <<>> \in Seq(Int)
<1>1. ASSUME NEW a \in Seq(Int), NEW b \in Seq(Int), NEW c \in Seq(Int)
      PROVE  (a \o b) \o c = a \o (b \o c)
  BY ConcatAssociative
<1>2. ASSUME NEW a \in Seq(Int) PROVE a \o <<>> = a /\ <<>> \o a = a
  BY ConcatEmptySeq
<1>3. ASSUME NEW a \in Seq(Int), NEW b \in Seq(Int) PROVE a \o b \in Seq(Int)
  BY ConcatProperties
<1> QED
  BY <1>1, <1>2, <1>3

\* The same of three given ones.
LEMMA JoinAssoc ==
    ASSUME NEW a, NEW b, NEW c, a \in Seq(Int), b \in Seq(Int), c \in Seq(Int)
    PROVE  /\ (a \o b) \o c = a \o (b \o c)
           /\ a \o b \in Seq(Int) /\ b \o c \in Seq(Int)
           /\ a \o <<>> = a /\ <<>> \o a = a
<1>1. (a \o b) \o c = a \o (b \o c)
  BY ConcatAssociative
<1>2. a \o b \in Seq(Int) /\ b \o c \in Seq(Int)
  BY Joined
<1>3. a \o <<>> = a /\ <<>> \o a = a
  BY ConcatEmptySeq
<1> QED
  BY <1>1, <1>2, <1>3

\* Induction up to n, about a set of numbers.
LEMMA UpTo ==
    ASSUME NEW n \in Nat, NEW T, 0 \in T, \A m \in 1..n : m - 1 \in T => m \in T
    PROVE  n \in T
<1> DEFINE B == {m \in 0..n : m \notin T}
<1> SUFFICES ASSUME B # {} PROVE FALSE
  OBVIOUS
<1>1. B \subseteq Nat
  OBVIOUS
<1>2. PICK k \in B : \A m \in B : k <= m
  BY <1>1, LeastNat
<1>3. k \in 1..n /\ k - 1 \in 0..n /\ ~(k <= k - 1)
  BY <1>2
<1>4. k - 1 \notin B
  BY <1>2, <1>3
<1> QED
  BY <1>2, <1>3, <1>4

\* f[m] is what the first m elements of s stand for, when x stands for g[x].
PartialJoins(f, g, s) ==
    /\ f[0] = <<>>
    /\ \A m \in 1..Len(s) : f[m] = f[m - 1] \o g[s[m]]

\* What the elements of s stand for, one behind the other.
FlatMap(g, s) == (CHOOSE f \in [0..Len(s) -> Seq(Int)] : PartialJoins(f, g, s))[Len(s)]

\* There are such joins, and FlatMap is the last of them.
LEMMA FlatExists ==
    ASSUME NEW A, NEW s \in Seq(A), NEW g, \A x \in A : g[x] \in Seq(Int)
    PROVE  \E f \in [0..Len(s) -> Seq(Int)] : PartialJoins(f, g, s) /\ FlatMap(g, s) = f[Len(s)]
<1> DEFINE P(f, n) == f[0] = <<>> /\ \A m \in 1..n : f[m] = f[m - 1] \o g[s[m]]
           T == {n \in 0..Len(s) : \E f \in [0..n -> Seq(Int)] : P(f, n)}
<1>1. Len(s) \in Nat /\ \A m \in 1..Len(s) : g[s[m]] \in Seq(Int)
  OBVIOUS
<1>2. 0 \in T
  <2> DEFINE f == [i \in 0..0 |-> <<>>]
  <2>1. f \in [0..0 -> Seq(Int)] /\ P(f, 0)
    OBVIOUS
  <2> HIDE DEF f, P
  <2> QED
    BY <1>1, <2>1
<1>3. ASSUME NEW n \in 1..Len(s), n - 1 \in T PROVE n \in T
  <2>1. PICK f \in [0..(n - 1) -> Seq(Int)] : P(f, n - 1)
    BY <1>3
  <2> DEFINE piece == g[s[n]]
             last == f[n - 1] \o piece
             h == [i \in 0..n |-> IF i = n THEN last ELSE f[i]]
  <2>2. n \in Nat /\ n - 1 \in 0..(n - 1) /\ n \in 0..Len(s) /\ 0 \in 0..(n - 1)
    BY <1>1
  <2>3. piece \in Seq(Int) /\ f[n - 1] \in Seq(Int)
    BY <1>1, <2>1, <2>2
  <2>4. last \in Seq(Int)
    BY <2>3, ConcatProperties
  <2> HIDE DEF last, P, T
  <2>5. /\ h[n] = last
        /\ \A i \in 0..(n - 1) : h[i] = f[i]
    BY <2>2
  <2>6. h \in [0..n -> Seq(Int)]
    <3>1. \A i \in 0..n : i # n => f[i] \in Seq(Int)
      BY <2>1, <2>2
    <3> QED
      BY <2>4, <3>1
  <2> HIDE DEF h
  <2>7. ASSUME NEW m \in 1..n PROVE h[m] = h[m - 1] \o g[s[m]]
    <3>1. CASE m = n
      BY <2>2, <2>5, <3>1 DEF last
    <3>2. CASE m # n
      <4>1. m \in 1..(n - 1) /\ m \in 0..(n - 1) /\ m - 1 \in 0..(n - 1)
        BY <2>2, <3>2
      <4>2. f[m] = f[m - 1] \o g[s[m]]
        BY <2>1, <4>1 DEF P
      <4> QED
        BY <2>5, <4>1, <4>2
    <3> QED
      BY <3>1, <3>2
  <2>8. h[0] = <<>>
    BY <2>1, <2>2, <2>5 DEF P
  <2>9. P(h, n)
    BY <2>7, <2>8 DEF P
  <2> QED
    BY <2>2, <2>6, <2>9 DEF T
<1>4. Len(s) \in T
  <2> HIDE DEF T
  <2> QED
    BY <1>1, <1>2, <1>3, UpTo
<1>5. \E f \in [0..Len(s) -> Seq(Int)] : PartialJoins(f, g, s)
  BY <1>4 DEF PartialJoins
<1> QED
  BY <1>5 DEF FlatMap

\* The result depends on the pieces only.
LEMMA FlatSame ==
    ASSUME NEW A, NEW s \in Seq(A), NEW g, \A x \in A : g[x] \in Seq(Int),
           NEW h, \A i \in DOMAIN s : h[s[i]] = g[s[i]]
    PROVE  FlatMap(h, s) = FlatMap(g, s)
<1>1. Len(s) \in Nat /\ DOMAIN s = 1..Len(s) /\ \A i \in DOMAIN s : s[i] \in A
  OBVIOUS
<1>2. PICK f \in [0..Len(s) -> Seq(Int)] : PartialJoins(f, g, s) /\ FlatMap(g, s) = f[Len(s)]
  BY FlatExists
<1>3. PartialJoins(f, h, s)
  BY <1>1, <1>2 DEF PartialJoins
<1>4. PICK e \in [0..Len(s) -> Seq(Int)] : PartialJoins(e, h, s) /\ FlatMap(h, s) = e[Len(s)]
  BY <1>3 DEF FlatMap
<1> DEFINE T == {m \in 0..Len(s) : e[m] = f[m]}
<1>5. 0 \in T
  BY <1>1, <1>2, <1>4 DEF PartialJoins
<1>6. ASSUME NEW m \in 1..Len(s), m - 1 \in T PROVE m \in T
  <2>1. h[s[m]] = g[s[m]] /\ m \in 0..Len(s) /\ e[m - 1] = f[m - 1]
    BY <1>1, <1>6
  <2>2. e[m] = e[m - 1] \o h[s[m]] /\ f[m] = f[m - 1] \o g[s[m]]
    BY <1>2, <1>4 DEF PartialJoins
  <2> QED
    BY <2>1, <2>2
<1> HIDE DEF T
<1>7. Len(s) \in T
  BY <1>1, <1>5, <1>6, UpTo
<1> QED
  BY <1>2, <1>4, <1>7 DEF T

\* The empty sequence, one element, and two sequences.
LEMMA FlatEmpty ==
    ASSUME NEW g
    PROVE  FlatMap(g, <<>>) = <<>>
<1> DEFINE A == {}
           s == <<>>
<1>1. s \in Seq(A) /\ Len(s) = 0 /\ \A x \in A : g[x] \in Seq(Int)
  OBVIOUS
<1> HIDE DEF A, s
<1>2. \E f \in [0..Len(s) -> Seq(Int)] : PartialJoins(f, g, s) /\ FlatMap(g, s) = f[Len(s)]
  BY <1>1, FlatExists
<1>3. FlatMap(g, s) = <<>>
  BY <1>1, <1>2 DEF PartialJoins
<1> QED
  BY <1>3 DEF s

\* FlatMap gives a sequence.
LEMMA FlatType ==
    ASSUME NEW A, NEW s \in Seq(A), NEW g, \A x \in A : g[x] \in Seq(Int)
    PROVE  FlatMap(g, s) \in Seq(Int)
<1>1. Len(s) \in 0..Len(s)
  OBVIOUS
<1> QED
  BY <1>1, FlatExists

\* FlatMap of one element.
LEMMA FlatOne ==
    ASSUME NEW x, NEW g, g[x] \in Seq(Int)
    PROVE  FlatMap(g, <<x>>) = g[x]
<1> DEFINE A == {x}
           s == <<x>>
<1>1. s \in Seq(A) /\ Len(s) = 1 /\ s[1] = x /\ 1 \in 1..1
  OBVIOUS
<1>2. \A y \in A : g[y] \in Seq(Int)
  OBVIOUS
<1> HIDE DEF A, s
<1>3. PICK f \in [0..Len(s) -> Seq(Int)] : PartialJoins(f, g, s) /\ FlatMap(g, s) = f[Len(s)]
  BY <1>1, <1>2, FlatExists
<1>4. f[0] = <<>> /\ f[1] = f[1 - 1] \o g[s[1]] /\ f[1 - 1] = f[0]
  BY <1>1, <1>3 DEF PartialJoins
<1>5. <<>> \o g[x] = g[x]
  BY ConcatEmptySeq
<1> QED
  BY <1>1, <1>3, <1>4, <1>5 DEF s

\* FlatMap of a concatenation.
LEMMA FlatConcat ==
    ASSUME NEW A, NEW s \in Seq(A), NEW t \in Seq(A), NEW g, \A x \in A : g[x] \in Seq(Int)
    PROVE  FlatMap(g, s \o t) = FlatMap(g, s) \o FlatMap(g, t)
<1> DEFINE u == s \o t
<1>1. /\ u \in Seq(A) /\ Len(u) = Len(s) + Len(t) /\ Len(s) \in Nat /\ Len(t) \in Nat
      /\ \A i \in 1..Len(s) : u[i] = s[i]
      /\ \A i \in 1..Len(t) : u[Len(s) + i] = t[i]
  OBVIOUS
<1> HIDE DEF u
<1>2. PICK f \in [0..Len(s) -> Seq(Int)] : PartialJoins(f, g, s) /\ FlatMap(g, s) = f[Len(s)]
  BY FlatExists
<1>3. PICK e \in [0..Len(t) -> Seq(Int)] : PartialJoins(e, g, t) /\ FlatMap(g, t) = e[Len(t)]
  BY FlatExists
<1>4. PICK h \in [0..Len(u) -> Seq(Int)] : PartialJoins(h, g, u) /\ FlatMap(g, u) = h[Len(u)]
  BY <1>1, FlatExists, ZenonT(60)
<1> DEFINE B == {m \in 0..Len(s) : h[m] = f[m]}
<1>5. 0 \in B
  BY <1>1, <1>2, <1>4 DEF PartialJoins
<1>6. ASSUME NEW m \in 1..Len(s), m - 1 \in B PROVE m \in B
  <2>1. u[m] = s[m] /\ m \in 0..Len(s) /\ m \in 1..Len(u) /\ h[m - 1] = f[m - 1]
    BY <1>1, <1>6
  <2>2. h[m] = h[m - 1] \o g[u[m]] /\ f[m] = f[m - 1] \o g[s[m]]
    BY <1>2, <1>4, <2>1 DEF PartialJoins
  <2> QED
    BY <2>1, <2>2
<1> HIDE DEF B
<1>7. Len(s) \in B
  BY <1>1, <1>5, <1>6, UpTo
<1> DEFINE a == f[Len(s)]
           T == {m \in 0..Len(t) : h[Len(s) + m] = a \o e[m]}
<1>8. a \in Seq(Int) /\ h[Len(s)] = a
  <2>1. Len(s) \in 0..Len(s)
    BY <1>1
  <2>2. \A m \in 0..Len(s) : f[m] \in Seq(Int)
    BY <1>2
  <2> QED
    BY <1>7, <2>1, <2>2 DEF B
<1>9. \A m \in 0..Len(t) : e[m] \in Seq(Int)
  BY <1>3
<1> HIDE DEF a
<1>10. 0 \in T
  <2>1. Len(s) + 0 = Len(s) /\ 0 \in 0..Len(t) /\ e[0] = <<>>
    BY <1>1, <1>3 DEF PartialJoins
  <2>2. a \o <<>> = a
    BY <1>8, ConcatEmptySeq
  <2> QED
    BY <1>8, <2>1, <2>2
<1>11. ASSUME NEW m \in 1..Len(t), m - 1 \in T PROVE m \in T
  <2> DEFINE b == e[m - 1]
             c == g[t[m]]
  <2>1. Len(s) + m \in 1..Len(u) /\ (Len(s) + m) - 1 = Len(s) + (m - 1) /\ m \in 0..Len(t)
        /\ m - 1 \in 0..Len(t)
    BY <1>1
  <2>2. h[Len(s) + m] = h[(Len(s) + m) - 1] \o g[u[Len(s) + m]]
    BY <1>4, <2>1 DEF PartialJoins
  <2>3. u[Len(s) + m] = t[m] /\ h[(Len(s) + m) - 1] = a \o b
    BY <1>1, <1>11, <2>1
  <2>4. e[m] = b \o c
    BY <1>3 DEF PartialJoins
  <2>5. b \in Seq(Int)
    BY <1>9, <2>1
  <2>6. c \in Seq(Int)
    BY <1>1
  <2> HIDE DEF b, c, T
  <2>7. (a \o b) \o c = a \o (b \o c)
    BY <1>8, <2>5, <2>6, JoinAssoc, SMTT(30)
  <2>8. h[Len(s) + m] = a \o e[m]
    BY <2>2, <2>3, <2>4, <2>7 DEF c
  <2> QED
    BY <2>1, <2>8 DEF T
<1> HIDE DEF T
<1>12. Len(t) \in T
  BY <1>1, <1>10, <1>11, UpTo
<1> QED
  BY <1>1, <1>2, <1>3, <1>4, <1>12 DEF T, a, u

\* The head and the rest.
LEMMA FlatHead ==
    ASSUME NEW A, NEW s \in Seq(A), s # <<>>, NEW g, \A x \in A : g[x] \in Seq(Int)
    PROVE  FlatMap(g, s) = g[Head(s)] \o FlatMap(g, Tail(s))
<1> DEFINE h == <<Head(s)>>
           t == Tail(s)
<1>1. h \in Seq(A) /\ t \in Seq(A) /\ Head(s) \in A /\ s = h \o t
  OBVIOUS
<1>2. FlatMap(g, h) = g[Head(s)]
  BY <1>1, FlatOne
<1> HIDE DEF h, t
<1>3. FlatMap(g, h \o t) = FlatMap(g, h) \o FlatMap(g, t)
  BY <1>1, FlatConcat
<1> QED
  BY <1>1, <1>2, <1>3 DEF t

-----------------------------------------------------------------------------
(* Folds.                                                                  *)

\* A function defined by recursion over the subsets of a finite set exists: each set is
\* the pick of one of its elements and what the rest comes to.
Picks(pick, S) == \A s \in SUBSET S : s # {} => pick[s] \in s
Closed(g, S, A) == \A x \in S, a \in A : g[<<x, a>>] \in A
FoldsTo(h, base, pick, g, S) ==
    \A s \in SUBSET S : h[s] = IF s = {} THEN base ELSE g[<<pick[s], h[s \ {pick[s]}]>>]

\* A fold that picks an element of each set has a value on each.
LEMMA FoldExists ==
    ASSUME NEW S, NEW A, NEW base, NEW pick, NEW g,
           IsFiniteSet(S), base \in A, Picks(pick, S), Closed(g, S, A)
    PROVE  \E h \in [SUBSET S -> A] : FoldsTo(h, base, pick, g, S)
<1>p. \A s \in SUBSET S : s # {} => pick[s] \in s
  BY DEF Picks
<1>r. \A s, x : IsFiniteSet(s) /\ x \in s => Cardinality(s \ {x}) = Cardinality(s) - 1
  BY FS_RemoveElement
<1>g. \A x \in S, a \in A : g[<<x, a>>] \in A
  BY DEF Closed
<1> DEFINE N == Cardinality(S)
           D(m) == {s \in SUBSET S : Cardinality(s) <= m}
           P(h, m) == \A s \in D(m) :
                         h[s] = IF s = {} THEN base ELSE g[<<pick[s], h[s \ {pick[s]}]>>]
           T == {m \in 0..N : \E h \in [D(m) -> A] : P(h, m)}
<1>1. N \in Nat
  BY FS_CardinalityType
<1>2. \A s \in SUBSET S : IsFiniteSet(s) /\ Cardinality(s) \in Nat /\ Cardinality(s) <= N
  BY FS_Subset, FS_CardinalityType
<1>3. 0 \in T
  <2> DEFINE h == [s \in D(0) |-> base]
  <2>1. \A s \in D(0) : s = {}
    BY <1>2, FS_EmptySet
  <2>2. h \in [D(0) -> A] /\ P(h, 0)
    BY <2>1
  <2> HIDE DEF P, h, D, N
  <2> QED
    BY <1>1, <2>2
<1>4. ASSUME NEW m \in 1..N, m - 1 \in T PROVE m \in T
  <2>1. PICK h \in [D(m - 1) -> A] : P(h, m - 1)
    BY <1>4
  <2> DEFINE e == [s \in D(m) |-> IF s = {} THEN base ELSE g[<<pick[s], h[s \ {pick[s]}]>>]]
  <2>2. \A s \in D(m) : s # {} => /\ s \ {pick[s]} \in D(m - 1)
                                  /\ s \ {pick[s]} \in D(m)
                                  /\ pick[s] \in S
    <3> SUFFICES ASSUME NEW s \in D(m), s # {}
                 PROVE  /\ s \ {pick[s]} \in D(m - 1)
                        /\ s \ {pick[s]} \in D(m)
                        /\ pick[s] \in S
      OBVIOUS
    <3>1. pick[s] \in s /\ Cardinality(s) <= m /\ IsFiniteSet(s) /\ Cardinality(s) \in Nat
      BY <1>2, <1>p
    <3>2. Cardinality(s \ {pick[s]}) = Cardinality(s) - 1
      BY <3>1, <1>r
    <3>3. s \ {pick[s]} \in SUBSET S /\ pick[s] \in S
      BY <3>1
    <3>4. Cardinality(s) - 1 <= m - 1 /\ Cardinality(s) - 1 <= m
      BY <1>1, <3>1
    <3>5. Cardinality(s \ {pick[s]}) <= m - 1 /\ Cardinality(s \ {pick[s]}) <= m
      BY <3>2, <3>4
    <3> QED
      BY <3>3, <3>5
  <2>3. \A s \in D(m - 1) : s \in D(m) /\ h[s] \in A
    BY <1>1, <1>2
  <2>4. e \in [D(m) -> A]
    BY <1>g, <2>2, <2>3
  <2>5. \A s \in D(m - 1) : e[s] = h[s]
    BY <2>1, <2>3
  <2>6. P(e, m)
    BY <2>2, <2>5
  <2> HIDE DEF P, e, D
  <2> QED
    BY <1>1, <2>4, <2>6
<1>5. N \in T
  <2> HIDE DEF T, N
  <2> QED
    BY <1>1, <1>3, <1>4, UpTo
<1>6. D(N) = SUBSET S
  BY <1>2
<1>7. PICK h \in [D(N) -> A] : P(h, N)
  BY <1>5
<1> QED
  BY <1>6, <1>7 DEF FoldsTo

\* The case of FoldLeft, which takes the last element of a sequence first.
FoldsLeft(h, base, g, n, A) ==
    \A s \in SUBSET (1..n) :
        /\ s = {} => h[s] = base
        /\ s # {} => /\ Max(s) \in 1..n /\ h[s \ {Max(s)}] \in A
                     /\ h[s] = g[<<Max(s), h[s \ {Max(s)}]>>]

\* A fold from the left has a value on each prefix.
LEMMA FoldLeftExists ==
    ASSUME NEW n \in Nat, NEW A, NEW base, NEW g, base \in A, Closed(g, 1..n, A)
    PROVE  \E h \in [SUBSET (1..n) -> A] : FoldsLeft(h, base, g, n, A)
<1> DEFINE S == 1..n
           pick == [s \in SUBSET S |-> Max(s)]
<1>1. ASSUME NEW s \in SUBSET S, s # {} PROVE Max(s) \in s
  <2> DEFINE B == {n - i : i \in s}
  <2>0. \A i \in s : i \in 1..n /\ n - i \in Nat
    OBVIOUS
  <2>1. B \subseteq Nat /\ B # {}
    BY <1>1, <2>0
  <2>2. PICK k \in B : \A b \in B : k <= b
    <3> HIDE DEF B
    <3> QED
      BY <2>1, LeastNat
  <2>3. PICK m \in s : k = n - m
    BY <2>2
  <2>4. \A i \in s : m >= i
    <3> TAKE i \in s
    <3>1. n - m <= n - i
      BY <2>2, <2>3
    <3> QED
      BY <2>0, <3>1
  <2> QED
    BY <2>4 DEF Max
<1>2. IsFiniteSet(S)
  BY FS_Interval
<1>3. Picks(pick, S)
  BY <1>1 DEF Picks
<1> HIDE DEF S, pick
<1>4. PICK h \in [SUBSET S -> A] : FoldsTo(h, base, pick, g, S)
  BY <1>2, <1>3, FoldExists DEF S
<1>5. ASSUME NEW s \in SUBSET S
      PROVE  /\ s = {} => h[s] = base
             /\ s # {} => /\ Max(s) \in S /\ h[s \ {Max(s)}] \in A
                          /\ h[s] = g[<<Max(s), h[s \ {Max(s)}]>>]
  <2>1. pick[s] = Max(s)
    BY DEF pick
  <2>2. h[s] = IF s = {} THEN base ELSE g[<<Max(s), h[s \ {Max(s)}]>>]
    BY <1>4, <2>1 DEF FoldsTo
  <2>3. s # {} => Max(s) \in S
    BY <1>1
  <2>4. h[s \ {Max(s)}] \in A
    OBVIOUS
  <2> QED
    BY <2>2, <2>3, <2>4
<1> QED
  BY <1>4, <1>5 DEF S, FoldsLeft

\* F is what FoldLeft unfolds to, as far as its values are in A.
Folding(F, base, g, n, A) ==
    /\ F[{}] = base
    /\ \A s \in SUBSET (1..n) :
          s # {} /\ F[s \ {Max(s)}] \in A => F[s] = g[<<Max(s), F[s \ {Max(s)}]>>]

\* Its values along the sequence.
LEMMA FoldSteps ==
    ASSUME NEW n \in Nat, NEW A, NEW base, NEW g, NEW F,
           base \in A, Closed(g, 1..n, A), Folding(F, base, g, n, A)
    PROVE  \E f \in [0..n -> A] :
              /\ f[0] = base /\ f[n] = F[1..n]
              /\ \A i \in 1..n : f[i] = g[<<i, f[i - 1]>>]
<1> DEFINE f == [i \in 0..n |-> F[1..i]]
           T == {m \in 0..n : F[1..m] \in A}
<1>1. ASSUME NEW m \in 1..n
      PROVE  Max(1..m) = m /\ (1..m) \ {Max(1..m)} = 1..(m - 1) /\ 1..m \in SUBSET (1..n) /\ 1..m # {}
  <2>1. m \in 1..m /\ \A y \in 1..m : m >= y
    OBVIOUS
  <2>2. \A x \in 1..m : (\A y \in 1..m : x >= y) => x = m
    BY <2>1
  <2>3. Max(1..m) = m
    BY <2>1, <2>2 DEF Max
  <2>4. (1..m) \ {m} = 1..(m - 1) /\ 1..m \subseteq 1..n
    OBVIOUS
  <2> QED
    BY <2>1, <2>3, <2>4
<1>2. F[1..0] = base
  <2>1. 1..0 = {}
    OBVIOUS
  <2> QED
    BY <2>1 DEF Folding
<1>3. ASSUME NEW m \in 1..n, F[1..(m - 1)] \in A
      PROVE  F[1..m] = g[<<m, F[1..(m - 1)]>>] /\ F[1..m] \in A
  <2> DEFINE s == 1..m
  <2>1. s \in SUBSET (1..n) /\ s # {} /\ Max(s) = m /\ s \ {Max(s)} = 1..(m - 1)
    BY <1>1
  <2> HIDE DEF s
  <2>2. F[s] = g[<<Max(s), F[s \ {Max(s)}]>>]
    BY <1>3, <2>1 DEF Folding
  <2> QED
    BY <1>3, <2>1, <2>2 DEF s, Closed
<1>4. 0 \in T
  BY <1>2
<1>5. ASSUME NEW m \in 1..n, m - 1 \in T PROVE m \in T
  <2>1. m \in 0..n /\ F[1..(m - 1)] \in A
    BY <1>5
  <2> QED
    BY <1>3, <2>1
<1>6. ASSUME NEW m \in 0..n PROVE F[1..m] \in A
  <2>1. \A k \in 1..m : k - 1 \in T => k \in T
    BY <1>5
  <2> HIDE DEF T
  <2>2. m \in T
    BY <1>4, <2>1, UpTo
  <2> QED
    BY <2>2 DEF T
<1>7. f \in [0..n -> A] /\ f[0] = base /\ f[n] = F[1..n]
  BY <1>2, <1>6
<1>8. \A i \in 1..n : f[i] = g[<<i, f[i - 1]>>]
  <2> TAKE i \in 1..n
  <2>1. i \in 0..n /\ i - 1 \in 0..n
    OBVIOUS
  <2> QED
    BY <1>3, <1>6, <2>1
<1> QED
  BY <1>7, <1>8

=============================================================================
