---------------------- MODULE BodyFilterStream_proofs -----------------------
(***************************************************************************)
(* Proofs about what goes through the body filter.                         *)
(*                                                                         *)
(* The bytes are counted exactly (CountInv, InputInv), and the totals in   *)
(* the trailer are final (TrailInv).  The links further down the filter    *)
(* chain are alive and apart from what may be lent, also behind a filter   *)
(* that adds bytes of its own, as long as upstream never flushes           *)
(* (FrameInv).  And the stream keeps its order: what upstream handed over  *)
(* is what went down, followed by what is inside (StreamInv), so that      *)
(* every step is one of OrderedStream.                                     *)
(***************************************************************************)
EXTENDS BodyFilter_proofs

-----------------------------------------------------------------------------
(* Counting bytes.                                                         *)

\* The positions of a stream that hold a byte.
Bytes(s) == {i \in DOMAIN s : s[i] > 0}

LEMMA BytesFinite ==
    ASSUME NEW s \in Seq(Int)
    PROVE  IsFiniteSet(Bytes(s)) /\ Bytes(s) \subseteq 1..Len(s) /\ BytesIn(s) = Cardinality(Bytes(s))
<1>1. Bytes(s) \subseteq 1..Len(s) /\ Len(s) \in Nat
  BY DEF Bytes
<1>2. IsFiniteSet(Bytes(s))
  <2>1. IsFiniteSet(1..Len(s)) /\ Bytes(s) \in SUBSET (1..Len(s))
    BY <1>1, FS_Interval
  <2> QED
    BY <2>1, FS_Subset
<1> QED
  BY <1>1, <1>2 DEF Bytes, BytesIn

\* A run of bytes adds as many as it is long, ...
LEMMA RunBytes ==
    ASSUME NEW s \in Seq(Int), NEW f \in Nat \ {0}, NEW n \in Nat
    PROVE  BytesIn(s \o Run(f, n)) = BytesIn(s) + n
<1> DEFINE r == Run(f, n)
           t == s \o r
           new == (Len(s) + 1)..(Len(s) + n)
<1>1. r \in Seq(Int) /\ Len(r) = n /\ \A i \in 1..n : r[i] > 0
  <2>1. r \in Seq(Int) /\ Len(r) = n
    BY RunFacts
  <2>2. \A i \in 1..n : r[i] = f + i - 1
    BY DEF Run
  <2> QED
    BY <2>1, <2>2
<1> HIDE DEF r
<1>2. /\ t \in Seq(Int) /\ Len(s) \in Nat /\ DOMAIN s = 1..Len(s) /\ DOMAIN t = 1..(Len(s) + n)
      /\ \A i \in 1..Len(s) : t[i] = s[i]
      /\ \A i \in new : t[i] = r[i - Len(s)]
  BY <1>1
<1> HIDE DEF t
<1>3. \A i \in new : t[i] > 0
  BY <1>1, <1>2
<1>4. Bytes(t) = Bytes(s) \cup new
  BY <1>2, <1>3 DEF Bytes
<1>5. Bytes(s) \cap new = {}
  BY <1>2 DEF Bytes
<1>6. IsFiniteSet(new) /\ Cardinality(new) = n
  BY <1>2, FS_Interval
<1> HIDE DEF new
<1>7. IsFiniteSet(Bytes(s)) /\ BytesIn(s) = Cardinality(Bytes(s)) /\ BytesIn(t) = Cardinality(Bytes(t))
  BY <1>2, BytesFinite
<1>8. Cardinality(Bytes(t)) = Cardinality(Bytes(s)) + n - Cardinality({})
  BY <1>4, <1>5, <1>6, <1>7, FS_Union
<1>9. BytesIn(s) \in Nat
  BY BytesInNat
<1> QED
  BY <1>7, <1>8, <1>9, FS_EmptySet DEF t, r

\* ... and a mark none.
LEMMA MarkBytes ==
    ASSUME NEW s \in Seq(Int), NEW op
    PROVE  BytesIn(s \o MarkOf(op)) = BytesIn(s)
<1> DEFINE m == MarkOf(op)
           t == s \o m
<1>1. m \in Seq(Int) /\ \A i \in DOMAIN m : ~(m[i] > 0)
  BY DEF MarkOf, FlushMark, LastMark
<1> HIDE DEF m
<1>2. /\ t \in Seq(Int) /\ Len(s) \in Nat /\ DOMAIN s = 1..Len(s)
      /\ \A i \in DOMAIN t : \/ i \in DOMAIN s /\ t[i] = s[i]
                             \/ i - Len(s) \in DOMAIN m /\ t[i] = m[i - Len(s)]
      /\ \A i \in DOMAIN s : i \in DOMAIN t /\ t[i] = s[i]
  BY <1>1
<1> HIDE DEF t
<1>3. Bytes(t) = Bytes(s)
  BY <1>1, <1>2 DEF Bytes
<1> QED
  BY <1>2, <1>3, BytesFinite DEF t, m

\* Places of bytes in output buffers, when buffer b holds f[b] of them.
Places(f) == {p \in OutputBufferIds \X (1..Capacity) : p[2] <= f[p[1]]}

LEMMA PlacesFinite ==
    ASSUME NEW f
    PROVE  IsFiniteSet(Places(f)) /\ Cardinality(Places(f)) \in Nat
<1>1. BufferCount \in Int /\ Capacity \in Int
  BY FilterAssumption
<1>2. IsFiniteSet(OutputBufferIds) /\ IsFiniteSet(1..Capacity)
  BY <1>1, FS_Interval DEF OutputBufferIds
<1>3. IsFiniteSet(OutputBufferIds \X (1..Capacity))
  BY <1>2, FS_Product
<1>4. Places(f) \in SUBSET (OutputBufferIds \X (1..Capacity))
  BY DEF Places
<1>5. IsFiniteSet(Places(f))
  BY <1>3, <1>4, FS_Subset
<1> QED
  BY <1>5, FS_CardinalityType

\* Filling an empty buffer.
LEMMA PlacesFilled ==
    ASSUME NEW f \in [OutputBufferIds -> 0..Capacity], NEW b \in OutputBufferIds, f[b] = 0,
           NEW n \in 0..Capacity
    PROVE  Cardinality(Places([f EXCEPT ![b] = n])) = Cardinality(Places(f)) + n
<1> DEFINE g == [f EXCEPT ![b] = n]
           new == {b} \X (1..n)
<1>0. Capacity \in Nat
  BY FilterAssumption
<1>1. g[b] = n /\ \A c \in OutputBufferIds : c # b => g[c] = f[c]
  OBVIOUS
<1> HIDE DEF g
<1>2. Places(g) = Places(f) \cup new
  <2>1. ASSUME NEW p \in Places(g) PROVE p \in Places(f) \cup new
    <3>1. p \in OutputBufferIds \X (1..Capacity) /\ p[2] <= g[p[1]]
      BY DEF Places
    <3>2. PICK c \in OutputBufferIds, k \in 1..Capacity : p = <<c, k>>
      BY <3>1
    <3>3. CASE c = b
      BY <1>0, <1>1, <3>1, <3>2, <3>3
    <3>4. CASE c # b
      BY <1>1, <3>1, <3>2, <3>4 DEF Places
    <3> QED
      BY <3>3, <3>4
  <2>2. ASSUME NEW p \in Places(f) PROVE p \in Places(g)
    <3>1. p \in OutputBufferIds \X (1..Capacity) /\ p[2] <= f[p[1]]
      BY DEF Places
    <3>2. PICK c \in OutputBufferIds, k \in 1..Capacity : p = <<c, k>>
      BY <3>1
    <3>3. c # b
      BY <1>0, <3>1, <3>2
    <3> QED
      BY <1>1, <3>1, <3>2, <3>3 DEF Places
  <2>3. ASSUME NEW p \in new PROVE p \in Places(g)
    <3>1. PICK k \in 1..n : p = <<b, k>>
      OBVIOUS
    <3>2. k \in 1..Capacity /\ k <= g[b]
      BY <1>0, <1>1
    <3> QED
      BY <3>1, <3>2 DEF Places
  <2> HIDE DEF new
  <2> QED
    BY <2>1, <2>2, <2>3
<1>3. Places(f) \cap new = {}
  <2> SUFFICES ASSUME NEW k \in 1..n PROVE <<b, k>> \notin Places(f)
    OBVIOUS
  <2>1. ~(k <= f[b])
    BY <1>0
  <2> QED
    BY <2>1 DEF Places
<1>4. IsFiniteSet(new) /\ Cardinality(new) = n
  <2>0. 1 \in Int /\ n \in Int /\ (IF 1 > n THEN 0 ELSE n - 1 + 1) = n
    BY <1>0
  <2>1. IsFiniteSet(1..n) /\ Cardinality(1..n) = n
    BY <2>0, FS_Interval
  <2>2. IsFiniteSet({b}) /\ Cardinality({b}) = 1
    BY FS_EmptySet, FS_AddElement
  <2>3. IsFiniteSet(new) /\ Cardinality(new) = Cardinality({b}) * Cardinality(1..n)
    BY <2>1, <2>2, FS_Product
  <2>4. 1 * n = n
    BY <1>0
  <2> QED
    BY <2>1, <2>2, <2>3, <2>4
<1> HIDE DEF new
<1>5. Cardinality(Places(g)) = Cardinality(Places(f)) + n - Cardinality({})
  BY <1>2, <1>3, <1>4, PlacesFinite, FS_Union
<1>6. Cardinality(Places(f)) \in Nat /\ n \in Nat
  BY <1>0, PlacesFinite
<1> QED
  BY <1>5, <1>6, FS_EmptySet DEF g

\* Taking one byte out of a buffer.
LEMMA PlaceTaken ==
    ASSUME NEW f \in [OutputBufferIds -> 0..Capacity], NEW b \in OutputBufferIds, f[b] > 0
    PROVE  Cardinality(Places([f EXCEPT ![b] = f[b] - 1])) = Cardinality(Places(f)) - 1
<1> DEFINE g == [f EXCEPT ![b] = f[b] - 1]
           old == <<b, f[b]>>
<1>0. Capacity \in Nat /\ f[b] \in 1..Capacity
  BY FilterAssumption
<1>1. g[b] = f[b] - 1 /\ \A c \in OutputBufferIds : c # b => g[c] = f[c]
  OBVIOUS
<1> HIDE DEF g
<1>2. old \in Places(f)
  BY <1>0 DEF Places
<1>3. ASSUME NEW c \in OutputBufferIds, NEW k \in 1..Capacity
      PROVE  <<c, k>> \in Places(g) <=> <<c, k>> \in Places(f) /\ <<c, k>> # old
  <2>1. <<c, k>> \in Places(g) <=> k <= g[c]
    BY DEF Places
  <2>2. <<c, k>> \in Places(f) <=> k <= f[c]
    BY DEF Places
  <2>3. CASE c = b
    BY <1>0, <1>1, <2>1, <2>2, <2>3
  <2>4. CASE c # b
    BY <1>1, <2>1, <2>2, <2>4
  <2> QED
    BY <2>3, <2>4
<1>4. Places(f) \subseteq OutputBufferIds \X (1..Capacity) /\ Places(g) \subseteq OutputBufferIds \X (1..Capacity)
  BY DEF Places
<1> HIDE DEF old
<1>5. Places(g) = Places(f) \ {old}
  BY <1>3, <1>4
<1> QED
  BY <1>2, <1>5, PlacesFinite, FS_RemoveElement DEF g

\* The bytes in output buffers.
Lengths(contents) == [b \in OutputBufferIds |-> Len(contents[b].data)]

LEMMA BufferedPlaces ==
    ASSUME ChainsTyped
    PROVE  Lengths(buf) \in [OutputBufferIds -> 0..Capacity] /\ BufferedBytes = Places(Lengths(buf))
<1>1. /\ buf \in [OutputBufferIds -> [data : Seq(Int), mark : OutputBoundary]]
      /\ \A b \in OutputBufferIds : Len(buf[b].data) <= Capacity
      /\ Capacity \in Nat
  BY FilterAssumption DEF ChainsTyped
<1>2. \A b \in OutputBufferIds : Len(buf[b].data) \in 0..Capacity
  BY <1>1
<1>3. ASSUME NEW p \in OutputBufferIds \X (1..Capacity)
      PROVE  Lengths(buf)[p[1]] = Len(buf[p[1]].data)
  BY DEF Lengths
<1> QED
  BY <1>2, <1>3 DEF Lengths, BufferedBytes, Places

-----------------------------------------------------------------------------
(* The pending input.                                                      *)

\* The pending buffers are what is left of the response so far: each starts where the
\* one before it ends, the last one ends at byte a, and nothing is behind a finish.
LeadsTo(s, a) ==
    /\ \A i \in DOMAIN s : s[i].first + s[i].size = IF i = Len(s) THEN a + 1 ELSE s[i + 1].first
    /\ \A i \in DOMAIN s : s[i].op = "Finish" => i = Len(s)

InputInv ==
    /\ BytesIn(accepted) <= MaxBytes
    /\ \A i \in DOMAIN input : input[i].id <= arrivals
    /\ LeadsTo(input, BytesIn(accepted))
    /\ pendingOp = "Finish" => input = <<>>

\* The number of the first byte the filter has still to compress.
Start(s, a) == IF s = <<>> THEN a + 1 ELSE s[1].first
NextByte == Start(input, BytesIn(accepted))

\* One more buffer behind the others.
LEMMA LeadsAppend ==
    ASSUME NEW s \in Seq(UpstreamBuffer), NEW a \in Nat, LeadsTo(s, a),
           \A i \in DOMAIN s : s[i].op # "Finish",
           NEW u \in UpstreamBuffer, NEW n \in Nat, u.first = a + 1, u.size = n
    PROVE  LeadsTo(Append(s, u), a + n) /\ Start(Append(s, u), a + n) = Start(s, a)
<1> DEFINE t == Append(s, u)
<1>1. /\ Len(s) \in Nat /\ DOMAIN s = 1..Len(s) /\ Len(t) = Len(s) + 1 /\ DOMAIN t = 1..(Len(s) + 1)
      /\ t[Len(s) + 1] = u /\ \A i \in DOMAIN s : t[i] = s[i]
      /\ t # <<>> /\ (s = <<>> <=> Len(s) = 0)
  OBVIOUS
<1> HIDE DEF t
<1>2. ASSUME NEW i \in DOMAIN t
      PROVE  t[i].first + t[i].size = IF i = Len(t) THEN a + n + 1 ELSE t[i + 1].first
  <2>0. (a + 1) + n = (a + n) + 1
    OBVIOUS
  <2>1. CASE i = Len(s) + 1
    <3>1. t[i] = u /\ i = Len(t)
      BY <1>1, <2>1
    <3> QED
      BY <2>0, <3>1
  <2>2. CASE i = Len(s)
    <3>1. i \in DOMAIN s /\ t[i] = s[i] /\ t[i + 1] = u
      BY <1>1, <1>2, <2>2
    <3>2. s[i].first + s[i].size = a + 1
      BY <2>2, <3>1 DEF LeadsTo
    <3>a. Len(t) = Len(s) + 1 /\ Len(s) \in Nat
      BY <1>1
    <3>3. i # Len(t)
      BY <2>2, <3>a
    <3>4. t[i].first + t[i].size = a + 1 /\ t[i + 1].first = a + 1
      BY <3>1, <3>2
    <3> QED
      BY <3>3, <3>4
  <2>3. CASE i < Len(s)
    <3>1. i \in DOMAIN s /\ i + 1 \in DOMAIN s /\ t[i] = s[i] /\ t[i + 1] = s[i + 1]
      BY <1>1, <1>2, <2>3
    <3>2. s[i].first + s[i].size = s[i + 1].first
      BY <1>1, <2>3, <3>1 DEF LeadsTo
    <3> QED
      BY <1>1, <2>3, <3>1, <3>2
  <2> QED
    BY <1>1, <2>1, <2>2, <2>3
<1>3. \A i \in DOMAIN t : t[i].op = "Finish" => i = Len(t)
  BY <1>1
<1>4. Start(t, a + n) = Start(s, a)
  <2>1. CASE s = <<>>
    BY <1>1, <2>1 DEF Start
  <2>2. CASE s # <<>>
    <3>1. 1 \in DOMAIN s /\ t[1] = s[1]
      BY <1>1, <2>2
    <3> QED
      BY <1>1, <2>2, <3>1 DEF Start
  <2> QED
    BY <2>1, <2>2
<1> QED
  BY <1>2, <1>3, <1>4 DEF LeadsTo, t

\* The head leaves.
LEMMA LeadsTail ==
    ASSUME NEW s \in Seq(UpstreamBuffer), s # <<>>, NEW a \in Nat, LeadsTo(s, a)
    PROVE  /\ LeadsTo(Tail(s), a) /\ Start(Tail(s), a) = Start(s, a) + s[1].size
           /\ s[1].op = "Finish" => Tail(s) = <<>>
<1> DEFINE t == Tail(s)
<1>a. /\ Len(s) \in Nat /\ Len(s) > 0 /\ DOMAIN s = 1..Len(s) /\ Len(t) = Len(s) - 1
      /\ t \in Seq(UpstreamBuffer) /\ DOMAIN t = 1..(Len(s) - 1)
      /\ \A i \in 1..(Len(s) - 1) : t[i] = s[i + 1]
      /\ 1 \in DOMAIN s /\ s[1] \in UpstreamBuffer
  OBVIOUS
<1> HIDE DEF t
<1>b. t = <<>> <=> Len(t) = 0
  BY <1>a
<1>1. /\ Len(s) \in Nat /\ Len(s) > 0 /\ DOMAIN s = 1..Len(s) /\ Len(t) = Len(s) - 1
      /\ t \in Seq(UpstreamBuffer) /\ DOMAIN t = 1..(Len(s) - 1)
      /\ \A i \in DOMAIN t : t[i] = s[i + 1]
      /\ (t = <<>> <=> Len(t) = 0) /\ 1 \in DOMAIN s /\ s[1] \in UpstreamBuffer
  BY <1>a, <1>b
<1>2. ASSUME NEW i \in DOMAIN t
      PROVE  t[i].first + t[i].size = IF i = Len(t) THEN a + 1 ELSE t[i + 1].first
  <2>1. i + 1 \in DOMAIN s /\ t[i] = s[i + 1] /\ (i = Len(t) <=> i + 1 = Len(s))
    BY <1>1, <1>2
  <2>2. s[i + 1].first + s[i + 1].size = IF i + 1 = Len(s) THEN a + 1 ELSE s[(i + 1) + 1].first
    BY <2>1 DEF LeadsTo
  <2>3. i # Len(t) => i + 1 \in DOMAIN t /\ t[i + 1] = s[(i + 1) + 1]
    BY <1>1, <1>2
  <2> QED
    BY <2>1, <2>2, <2>3
<1>3. \A i \in DOMAIN t : t[i].op = "Finish" => i = Len(t)
  <2> TAKE i \in DOMAIN t
  <2>1. i + 1 \in DOMAIN s /\ t[i] = s[i + 1] /\ (i = Len(t) <=> i + 1 = Len(s))
    BY <1>1
  <2> QED
    BY <2>1 DEF LeadsTo
<1>4. Start(t, a) = s[1].first + s[1].size
  <2>1. s[1].first + s[1].size = IF 1 = Len(s) THEN a + 1 ELSE s[1 + 1].first
    BY <1>1 DEF LeadsTo
  <2>2. CASE Len(s) = 1
    BY <1>1, <2>1, <2>2 DEF Start
  <2>3. CASE Len(s) # 1
    <3>1. 1 \in DOMAIN t /\ t[1] = s[1 + 1] /\ t # <<>>
      BY <1>1, <2>3, SMTT(30)
    <3> QED
      BY <2>1, <2>3, <3>1 DEF Start
  <2> QED
    BY <2>2, <2>3
<1>5. s[1].op = "Finish" => t = <<>>
  BY <1>1 DEF LeadsTo
<1> QED
  BY <1>2, <1>3, <1>4, <1>5 DEF LeadsTo, t, Start

\* Another head.
LEMMA HeadReplaced ==
    ASSUME NEW S, NEW s \in Seq(S), s # <<>>, NEW x, NEW t, t = [s EXCEPT ![1] = x]
    PROVE  /\ DOMAIN t = DOMAIN s /\ Len(t) = Len(s) /\ t # <<>> /\ t[1] = x
           /\ \A i \in DOMAIN s : i # 1 => t[i] = s[i]
<1>1. DOMAIN t = DOMAIN s /\ 1 \in DOMAIN s /\ DOMAIN s = 1..Len(s) /\ Len(s) \in Nat
  OBVIOUS
<1>2. t[1] = x /\ \A i \in DOMAIN s : i # 1 => t[i] = s[i]
  BY <1>1
<1>3. \A i \in DOMAIN s : s[i] \in S
  OBVIOUS
<1>4. t \in [1..Len(s) -> S \cup {x}]
  <2>1. \A i \in DOMAIN t : t[i] \in S \cup {x}
    BY <1>1, <1>2, <1>3
  <2>2. t = [i \in DOMAIN t |-> t[i]]
    OBVIOUS
  <2> QED
    BY <1>1, <2>1, <2>2
<1>5. t \in Seq(S \cup {x})
  BY <1>1, <1>4, SeqDef
<1>6. DOMAIN t = 1..Len(t) /\ Len(t) \in Nat
  BY <1>5
<1>7. Len(t) = Len(s)
  BY <1>1, <1>6
<1> QED
  BY <1>1, <1>2, <1>7

\* The head loses its first k bytes.
LEMMA LeadsCut ==
    ASSUME NEW s \in Seq(UpstreamBuffer), s # <<>>, NEW a \in Nat, LeadsTo(s, a), NEW k \in Nat,
           NEW t, DOMAIN t = DOMAIN s, Len(t) = Len(s), t # <<>>,
           t[1].first = s[1].first + k, t[1].size = s[1].size - k, t[1].op = s[1].op,
           \A i \in DOMAIN s : i # 1 => t[i] = s[i]
    PROVE  LeadsTo(t, a) /\ Start(t, a) = Start(s, a) + k
<1>1. /\ Len(s) \in Nat /\ Len(s) > 0 /\ DOMAIN s = 1..Len(s) /\ s[1] \in UpstreamBuffer
  OBVIOUS
<1>4. s[1].first \in Nat /\ s[1].size \in Nat
  BY <1>1, FilterAssumption DEF UpstreamBuffer
<1>6. t[1].first + t[1].size = s[1].first + s[1].size
  BY <1>4
<1>7. ASSUME NEW i \in DOMAIN t
      PROVE  t[i].first + t[i].size = IF i = Len(t) THEN a + 1 ELSE t[i + 1].first
  <2>1. t[i].first + t[i].size = s[i].first + s[i].size
    BY <1>6
  <2>2. s[i].first + s[i].size = IF i = Len(s) THEN a + 1 ELSE s[i + 1].first
    BY DEF LeadsTo
  <2>3. i # Len(s) => t[i + 1] = s[i + 1]
    BY <1>1
  <2> QED
    BY <2>1, <2>2, <2>3
<1>8. \A i \in DOMAIN t : t[i].op = s[i].op
  OBVIOUS
<1>9. \A i \in DOMAIN t : t[i].op = "Finish" => i = Len(t)
  BY <1>8 DEF LeadsTo
<1>10. Start(t, a) = Start(s, a) + k
  BY DEF Start
<1> QED
  BY <1>7, <1>9, <1>10 DEF LeadsTo

\* An outcome of drive_input that the filter acts on.
Answered == OperationPaused \/ OperationComplete \/ HeadPaused \/ HeadComplete \/ StreamFinished

\* Upstream adds to the end of what is pending.
LEMMA ArrivalAppends ==
    ASSUME TypeOK, EndInv, InputInv, NEW n \in 0..MaxBytes, NEW op \in request.ops, UpstreamData(n, op)
    PROVE  LET a == BytesIn(accepted)
               new == [id |-> arrivals + 1, first |-> a + 1, size |-> n, op |-> op]
           IN /\ a \in Nat /\ n \in Nat /\ a + n <= MaxBytes
              /\ new \in UpstreamBuffer
              /\ ~Ended /\ ~done /\ pendingOp # "Finish" /\ \A i \in DOMAIN input : input[i].op # "Finish"
              /\ arrivals' = arrivals + 1
              /\ accepted' = accepted \o Run(a + 1, n) \o MarkOf(op)
              /\ input' = Append(input, new)
              /\ pc' = "Compress"
              /\ UNCHANGED <<done, pendingOp>>
<1> DEFINE a == BytesIn(accepted)
           new == [id |-> arrivals + 1, first |-> a + 1, size |-> n, op |-> op]
<1>2. /\ accepted \in Seq(Int) /\ input \in Seq(UpstreamBuffer) /\ arrivals \in Nat
      /\ MaxArrivals \in Nat /\ MaxBytes \in Nat /\ n \in Nat /\ a \in Nat /\ op \in Operation
  BY FilterAssumption, BytesInNat, ArrivalFacts DEF TypeOK
<1>3. /\ ~Ended /\ arrivals < MaxArrivals /\ arrivals' = arrivals + 1
      /\ a + 1 + n <= MaxBytes + 1
      /\ accepted' = accepted \o Run(a + 1, n) \o MarkOf(op)
      /\ \/ EnterFilter(AppendLink(input, new))
         \/ \E i \in DOMAIN input : EnterFilter(AppendLink(AppendLink(input, input[i]), new))
      /\ UNCHANGED <<done, pendingOp>>
  BY DEF UpstreamData
<1>4. new \in UpstreamBuffer /\ new.id = arrivals + 1
  BY <1>2, <1>3 DEF UpstreamBuffer
<1> HIDE DEF new, a
<1>5. \A i \in DOMAIN input : input[i].id <= arrivals /\ input[i].id \in Int
  <2> TAKE i \in DOMAIN input
  <2>1. input[i] \in UpstreamBuffer
    BY <1>2
  <2> QED
    BY <2>1, FilterAssumption DEF InputInv, UpstreamBuffer
<1>6. AppendLink(input, new) = Append(input, new)
  <2>1. ~\E i \in DOMAIN input : input[i].id = new.id
    BY <1>2, <1>4, <1>5
  <2> QED
    BY <2>1 DEF AppendLink
<1>7. \A i \in DOMAIN input : AppendLink(input, input[i]) = input
  BY DEF AppendLink
<1>8. ~done /\ pendingOp # "Finish" /\ \A i \in DOMAIN input : input[i].op # "Finish"
  BY <1>3 DEF EndInv
<1>9. EnterFilter(Append(input, new))
  BY <1>3, <1>6, <1>7
<1>10. input' = Append(input, new) /\ pc' = "Compress"
  BY <1>8, <1>9 DEF EnterFilter
<1>11. a + n <= MaxBytes
  BY <1>2, <1>3
<1> QED
  BY <1>2, <1>3, <1>4, <1>8, <1>10, <1>11 DEF new, a

\* It moves nothing before that.
LEMMA ArrivalInput ==
    ASSUME TypeOK, EndInv, InputInv, Upstream
    PROVE  InputInv' /\ NextByte' = NextByte
<1>1. PICK n \in 0..MaxBytes, op \in request.ops : UpstreamData(n, op)
  BY DEF Upstream
<1> DEFINE a == BytesIn(accepted)
           new == [id |-> arrivals + 1, first |-> a + 1, size |-> n, op |-> op]
<1>2. /\ accepted \in Seq(Int) /\ input \in Seq(UpstreamBuffer) /\ arrivals \in Nat
  BY FilterAssumption DEF TypeOK
<1>3. /\ a \in Nat /\ n \in Nat /\ a + n <= MaxBytes
      /\ new \in UpstreamBuffer /\ new.first = a + 1 /\ new.size = n /\ new.id = arrivals + 1
      /\ ~done /\ pendingOp # "Finish" /\ \A i \in DOMAIN input : input[i].op # "Finish"
      /\ arrivals' = arrivals + 1
      /\ accepted' = accepted \o Run(a + 1, n) \o MarkOf(op)
      /\ input' = Append(input, new)
      /\ UNCHANGED <<done, pendingOp>>
  BY <1>1, ArrivalAppends
<1> HIDE DEF new, a
<1>5. \A i \in DOMAIN input : input[i].id <= arrivals /\ input[i].id \in Int
  <2> TAKE i \in DOMAIN input
  <2>1. input[i] \in UpstreamBuffer
    BY <1>2
  <2> QED
    BY <2>1, FilterAssumption DEF InputInv, UpstreamBuffer
<1>6. BytesIn(accepted') = a + n
  <2>1. a + 1 \in Nat \ {0}
    BY <1>3
  <2>2. Run(a + 1, n) \in Seq(Int)
    BY <1>2, <1>3, <2>1, RunFacts
  <2>3. accepted \o Run(a + 1, n) \in Seq(Int)
    BY <1>2, <2>2
  <2>4. BytesIn(accepted \o Run(a + 1, n)) = a + n
    BY <1>2, <1>3, <2>1, RunBytes DEF a
  <2> QED
    BY <1>3, <2>3, <2>4, MarkBytes
<1>7. LeadsTo(input, a)
  BY DEF InputInv, a
<1>8. LeadsTo(input', a + n) /\ Start(input', a + n) = Start(input, a)
  BY <1>2, <1>3, <1>7, LeadsAppend
<1>9. \A i \in DOMAIN input' : input'[i].id <= arrivals'
  <2> TAKE i \in DOMAIN input'
  <2>1. (i \in DOMAIN input /\ input'[i] = input[i]) \/ input'[i] = new
    BY <1>2, <1>3
  <2> QED
    BY <1>2, <1>3, <1>5, <2>1
<1> QED
  BY <1>3, <1>6, <1>8, <1>9 DEF InputInv, NextByte, a

\* What the codec has taken of a buffer leaves the pending input when the call of
\* drive_input is over, and nothing else does.
LEMMA AnswerInput ==
    ASSUME TypeOK, PhaseInv, ResumeInv, DP!DriverInv, WakeInv, InputInv, Answered
    PROVE  InputInv' /\ NextByte' = NextByte + offset
<1> DEFINE a == BytesIn(accepted)
<1>1. /\ accepted \in Seq(Int) /\ input \in Seq(UpstreamBuffer) /\ a \in Nat /\ pc = "Drive"
      /\ len \in Nat /\ offset \in 0..len /\ offset \in Nat /\ operation \in Operation
      /\ UNCHANGED <<accepted, arrivals>>
  <2>1. accepted \in Seq(Int) /\ input \in Seq(UpstreamBuffer)
    BY DEF TypeOK
  <2>2. len \in Nat /\ offset \in 0..len /\ operation \in Operation
    BY FilterAssumption DEF TypeOK, Driver!TypeOK, Driver!Operation, Operation
  <2>3. pc = "Drive" /\ UNCHANGED <<accepted, arrivals>>
    BY DEF Answered, OperationPaused, OperationComplete, HeadPaused, HeadComplete, StreamFinished,
           upstreamVars
  <2> QED
    BY <2>1, <2>2, <2>3, BytesInNat
<1>2. state \in {"NeedsInput", "Flushed", "Finished"} => offset = len
  BY DEF DP!DriverInv, DP!BoundaryHonest
<1>3. state = "Finished" => operation = "Finish"
  BY DEF DP!DriverInv, DP!BoundaryHonest
<1>4. LeadsTo(input, a) /\ BytesIn(accepted') = a
  BY <1>1 DEF InputInv
<1>5. pendingOp # "None" => pendingOp = operation /\ len = 0 /\ offset = 0
  BY <1>1 DEF ResumeInv
<1>6. pendingOp = "None" => input # <<>> /\ input[1].op = operation /\ input[1].size = len
  BY <1>1 DEF ResumeInv
<1>7. NextByte = Start(input, a) /\ NextByte' = Start(input', a)
  BY <1>4 DEF NextByte
<1>8. NextByte \in Nat
  <2>1. input # <<>> => input[1] \in UpstreamBuffer
    BY <1>1
  <2> QED
    BY <1>1, <1>7, <2>1, FilterAssumption DEF Start, UpstreamBuffer
<1> HIDE DEF a
<1>a. ASSUME LeadsTo(input', a), \A i \in DOMAIN input' : input'[i].id <= arrivals,
             pendingOp' = "Finish" => input' = <<>>
      PROVE  InputInv'
  BY <1>1, <1>4, <1>a DEF InputInv, a
<1>b. \A i \in DOMAIN input : input[i].id <= arrivals
  BY DEF InputInv
<1>c. input # <<>> => \A i \in DOMAIN Tail(input) : Tail(input)[i].id <= arrivals
  <2> SUFFICES ASSUME input # <<>>, NEW i \in DOMAIN Tail(input) PROVE Tail(input)[i].id <= arrivals
    OBVIOUS
  <2>1. i + 1 \in DOMAIN input /\ Tail(input)[i] = input[i + 1]
    BY <1>1
  <2> QED
    BY <1>b, <2>1
<1>9. CASE OperationPaused
  <2>1. UNCHANGED <<input, pendingOp>> /\ pendingOp # "None"
    BY <1>9 DEF OperationPaused
  <2> QED
    BY <1>4, <1>5, <1>7, <1>8, <1>a, <1>b, <2>1 DEF InputInv
<1>10. CASE OperationComplete
  <2>1. UNCHANGED input /\ pendingOp' = "None" /\ pendingOp # "None"
    BY <1>10 DEF OperationComplete
  <2> QED
    BY <1>4, <1>5, <1>7, <1>8, <1>a, <1>b, <2>1 DEF InputInv
<1>11. CASE HeadPaused
  <2>1. input # <<>> /\ input[1].op = operation /\ input[1].size = len
    BY <1>6, <1>11 DEF HeadPaused
  <2>2. CASE Consumed
    <3>1. input' = Tail(input) /\ pendingOp' = operation /\ offset = len
      BY <1>11, <2>2 DEF HeadPaused, Consumed
    <3>2. /\ LeadsTo(Tail(input), a) /\ Start(Tail(input), a) = Start(input, a) + input[1].size
          /\ input[1].op = "Finish" => Tail(input) = <<>>
      BY <1>1, <1>4, <2>1, LeadsTail
    <3> QED
      BY <1>7, <1>a, <1>c, <2>1, <3>1, <3>2
  <2>3. CASE ~Consumed
    <3>1. /\ input' = [input EXCEPT ![1].first = @ + offset, ![1].size = @ - offset]
          /\ pendingOp' = "None"
      BY <1>11, <2>3 DEF HeadPaused
    <3>a. /\ input[1] \in UpstreamBuffer /\ 1 \in DOMAIN input /\ Len(input) \in Nat
          /\ DOMAIN input = 1..Len(input)
      BY <1>1, <2>1
    <3> DEFINE h == [input[1] EXCEPT !.first = @ + offset, !.size = @ - offset]
    <3>b. /\ h.first = input[1].first + offset /\ h.size = input[1].size - offset
          /\ h.op = input[1].op /\ h.id = input[1].id
      BY <3>a DEF UpstreamBuffer
    <3>c. input' = [input EXCEPT ![1] = h]
      BY <3>1
    <3> HIDE DEF h
    <3>d. /\ DOMAIN input' = DOMAIN input /\ Len(input') = Len(input) /\ input' # <<>>
          /\ input'[1] = h /\ \A i \in DOMAIN input : i # 1 => input'[i] = input[i]
      BY <1>1, <2>1, <3>c, HeadReplaced
    <3>e. /\ input'[1].first = input[1].first + offset /\ input'[1].size = input[1].size - offset
          /\ input'[1].op = input[1].op /\ input'[1].id = input[1].id
      BY <3>b, <3>d
    <3>h. LeadsTo(input', a) /\ Start(input', a) = Start(input, a) + offset
      BY <1>1, <1>4, <2>1, <3>d, <3>e, LeadsCut, SMTT(30)
    <3>2. /\ LeadsTo(input', a) /\ Start(input', a) = Start(input, a) + offset
          /\ DOMAIN input' = DOMAIN input
          /\ \A i \in DOMAIN input : input'[i].id = input[i].id
      BY <3>d, <3>e, <3>h
    <3> QED
      BY <1>7, <1>a, <1>b, <3>1, <3>2
  <2> QED
    BY <2>2, <2>3
<1>12. CASE HeadComplete \/ (StreamFinished /\ pendingOp = "None")
  <2>1. input # <<>> /\ input[1].op = operation /\ input[1].size = len
    BY <1>6, <1>12 DEF HeadComplete
  <2>2. /\ LeadsTo(Tail(input), a) /\ Start(Tail(input), a) = Start(input, a) + input[1].size
        /\ input[1].op = "Finish" => Tail(input) = <<>>
    BY <1>1, <1>4, <2>1, LeadsTail
  <2>3. offset = len /\ pendingOp' = "None" /\ input' = Tail(input)
    BY <1>2, <1>3, <1>12, <2>1, <2>2 DEF HeadComplete, StreamFinished
  <2> QED
    BY <1>7, <1>a, <1>c, <2>1, <2>2, <2>3
<1>13. CASE StreamFinished /\ pendingOp # "None"
  <2>1. input' = <<>> /\ pendingOp' = "None" /\ pendingOp = "Finish"
    BY <1>3, <1>5, <1>13 DEF StreamFinished
  <2>2. input = <<>>
    BY <2>1 DEF InputInv
  <2> QED
    BY <1>4, <1>5, <1>7, <1>8, <1>a, <1>b, <2>1, <2>2
<1> QED
  BY <1>9, <1>10, <1>11, <1>12, <1>13 DEF Answered

\* No other step moves it.
LEMMA InputKept ==
    ASSUME Next
    PROVE  Upstream \/ Answered \/ UNCHANGED <<input, accepted, arrivals, pendingOp>>
<1> USE DEF ctxVars, upstreamVars
<1>1. CASE PostedWriteEvent \/ SocketWriteEvent
  BY <1>1 DEF PostedWriteEvent, SocketWriteEvent, ReenterIfBuffered, EnterFilter
<1>2. CASE Compress \/ Fails
  BY <1>2 DEF Compress, Fails, ResumeOperation, DriveHead, DriveInput, InputExhausted, DriveStep, DriveExhaust,
              BuffersExhausted, CompressionFails, WriteFails, Answered
<1>3. CASE Hand
  BY <1>3 DEF Hand, NothingToSubmit, Submit, SubmitPostponed, BypassContext, Prepare, PreparedVars
<1>4. CASE Write
  BY <1>4 DEF Write, WriteByte, DropLink, WriteComplete, WriteBlocked, WriteAbsorbed
<1> QED
  BY <1>1, <1>2, <1>3, <1>4 DEF Next, Callback

LEMMA InputStep ==
    ASSUME TypeOK, PhaseInv, ResumeInv, DP!DriverInv, EndInv, WakeInv, InputInv, Next
    PROVE  InputInv'
<1>1. CASE UNCHANGED <<input, accepted, arrivals, pendingOp>>
  BY <1>1 DEF InputInv
<1> QED
  BY <1>1, InputKept, ArrivalInput, AnswerInput

\* Every pending buffer lies between the first byte to compress and the last one taken.
LEMMA LeadsRange ==
    ASSUME NEW s \in Seq(UpstreamBuffer), s # <<>>, NEW a \in Nat, LeadsTo(s, a)
    PROVE  /\ \A i \in DOMAIN s : s[1].first <= s[i].first
           /\ \A i \in DOMAIN s : s[i].first + s[i].size <= a + 1
<1>1. /\ Len(s) \in Nat /\ Len(s) > 0 /\ DOMAIN s = 1..Len(s)
      /\ \A i \in DOMAIN s : s[i].first \in Nat /\ s[i].size \in Nat
  <2>1. \A i \in DOMAIN s : s[i] \in UpstreamBuffer
    OBVIOUS
  <2> QED
    BY <2>1, FilterAssumption DEF UpstreamBuffer
<1>2. \A i \in DOMAIN s : i # Len(s) => s[i].first + s[i].size = s[i + 1].first
  BY DEF LeadsTo
<1>3. s[Len(s)].first + s[Len(s)].size = a + 1
  BY <1>1 DEF LeadsTo
<1>4. \A i \in DOMAIN s : s[1].first <= s[i].first
  <2> DEFINE T == {i \in 1..Len(s) : ~(s[1].first <= s[i].first)}
  <2> SUFFICES ASSUME T # {} PROVE FALSE
    BY <1>1
  <2>1. T \subseteq Nat
    BY <1>1
  <2>2. PICK n \in T : \A m \in T : n <= m
    BY <2>1, LeastNat
  <2>3. n \in 1..Len(s) /\ ~(s[1].first <= s[n].first)
    OBVIOUS
  <2>4. n # 1
    BY <1>1, <2>3
  <2>5. n - 1 \in DOMAIN s /\ n - 1 # Len(s) /\ (n - 1) + 1 = n /\ ~(n <= n - 1)
    BY <1>1, <2>3, <2>4
  <2>6. n - 1 \notin T
    BY <2>2, <2>5
  <2>7. s[1].first <= s[n - 1].first
    BY <1>1, <2>5, <2>6
  <2>8. s[n - 1].first + s[n - 1].size = s[n].first
    BY <1>2, <2>5
  <2>9. s[1].first \in Nat /\ s[n - 1].first \in Nat /\ s[n - 1].size \in Nat
    BY <1>1, <2>5
  <2> HIDE DEF T
  <2> QED
    BY <2>3, <2>7, <2>8, <2>9
<1>5. \A i \in DOMAIN s : s[i].first + s[i].size <= a + 1
  <2> DEFINE T == {k \in 0..(Len(s) - 1) : ~(s[Len(s) - k].first + s[Len(s) - k].size <= a + 1)}
  <2> SUFFICES ASSUME NEW i \in DOMAIN s, ~(s[i].first + s[i].size <= a + 1) PROVE FALSE
    OBVIOUS
  <2>0. Len(s) - i \in T
    <3>1. Len(s) - i \in 0..(Len(s) - 1) /\ Len(s) - (Len(s) - i) = i
      BY <1>1
    <3> QED
      BY <3>1
  <2>1. T \subseteq Nat
    BY <1>1
  <2>2. PICK n \in T : \A m \in T : n <= m
    BY <2>0, <2>1, LeastNat
  <2>3. n \in 0..(Len(s) - 1) /\ ~(s[Len(s) - n].first + s[Len(s) - n].size <= a + 1)
    OBVIOUS
  <2>4. n # 0
    BY <1>1, <1>3, <2>3
  <2>5. /\ n - 1 \in 0..(Len(s) - 1) /\ ~(n <= n - 1) /\ Len(s) - n \in DOMAIN s
        /\ Len(s) - n # Len(s) /\ Len(s) - (n - 1) = (Len(s) - n) + 1 /\ Len(s) - (n - 1) \in DOMAIN s
    <3>1. Len(s) \in Nat /\ DOMAIN s = 1..Len(s) /\ n \in 0..(Len(s) - 1)
      BY <1>1, <2>3
    <3>2. /\ n - 1 \in 0..(Len(s) - 1) /\ ~(n <= n - 1) /\ Len(s) - n \in 1..Len(s)
          /\ Len(s) - n # Len(s) /\ Len(s) - (n - 1) = (Len(s) - n) + 1
          /\ Len(s) - (n - 1) \in 1..Len(s)
      <4> HIDE DEF T
      <4>1. \A L \in Nat : \A m \in 0..(L - 1) : m # 0 =>
              /\ m - 1 \in 0..(L - 1) /\ ~(m <= m - 1) /\ L - m \in 1..L
              /\ L - m # L /\ L - (m - 1) = (L - m) + 1 /\ L - (m - 1) \in 1..L
        OBVIOUS
      <4> QED
        BY <2>4, <3>1, <4>1
    <3> QED
      BY <3>1, <3>2
  <2>6. n - 1 \notin T
    BY <2>2, <2>5
  <2>7. s[Len(s) - (n - 1)].first + s[Len(s) - (n - 1)].size <= a + 1
    BY <2>5, <2>6
  <2>8. s[Len(s) - n].first + s[Len(s) - n].size = s[Len(s) - (n - 1)].first
    BY <1>2, <2>5
  <2>9. s[Len(s) - (n - 1)].first \in Nat /\ s[Len(s) - (n - 1)].size \in Nat
    BY <1>1, <2>5
  <2> HIDE DEF T
  <2> QED
    BY <2>3, <2>7, <2>8, <2>9
<1> QED
  BY <1>4, <1>5

\* The codec has taken the bytes in front of the first one to compress, no others.
LEMMA TakenIs ==
    ASSUME TypeOK, InputInv
    PROVE  NextByte \in Nat \ {0} /\ TakenBytes = NextByte - 1
<1> DEFINE a == BytesIn(accepted)
<1>1. a \in Nat /\ a <= MaxBytes /\ MaxBytes \in Nat /\ input \in Seq(UpstreamBuffer)
  BY BytesInNat, FilterAssumption DEF TypeOK, InputInv
<1>2. LeadsTo(input, a)
  BY DEF InputInv
<1>3. NextByte = Start(input, a)
  BY DEF NextByte
<1>4. TakenBytes = a - Cardinality(PendingBytes)
  BY DEF TakenBytes
<1>5. \A i \in DOMAIN input : input[i].first \in Nat \ {0} /\ input[i].size \in Nat
  <2>1. \A i \in DOMAIN input : input[i] \in UpstreamBuffer
    BY <1>1
  <2> QED
    BY <2>1, FilterAssumption DEF UpstreamBuffer
<1> HIDE DEF a
<1>6. CASE input = <<>>
  <2>1. PendingBytes = {}
    BY <1>6 DEF PendingBytes
  <2>2. NextByte = a + 1
    BY <1>3, <1>6 DEF Start
  <2> QED
    BY <1>1, <1>4, <2>1, <2>2, FS_EmptySet
<1>7. CASE input # <<>>
  <2> DEFINE f == input[1].first
  <2>1. NextByte = f
    BY <1>3, <1>7 DEF Start
  <2>2. /\ Len(input) \in Nat /\ Len(input) > 0 /\ DOMAIN input = 1..Len(input)
    BY <1>1, <1>7
  <2>3. /\ \A i \in DOMAIN input : f <= input[i].first
        /\ \A i \in DOMAIN input : input[i].first + input[i].size <= a + 1
    BY <1>1, <1>2, <1>7, LeadsRange
  <2>4. f \in Nat \ {0} /\ f <= a + 1
    <3>1. 1 \in DOMAIN input
      BY <2>2
    <3>2. f \in Nat \ {0} /\ input[1].size \in Nat /\ f + input[1].size <= a + 1
      BY <1>5, <2>3, <3>1
    <3> QED
      BY <1>1, <3>2
  <2> HIDE DEF f
  <2>5. ASSUME NEW n \in PendingBytes PROVE n \in f..a
    <3>1. PICK i \in DOMAIN input : input[i].first <= n /\ n < input[i].first + input[i].size
      BY DEF PendingBytes
    <3>2. n \in Nat
      BY <1>1 DEF PendingBytes
    <3>3. /\ input[i].first \in Nat /\ input[i].size \in Nat /\ f <= input[i].first
          /\ input[i].first + input[i].size <= a + 1
      BY <1>5, <2>3
    <3> QED
      BY <1>1, <2>4, <3>1, <3>2, <3>3
  <2>6. ASSUME NEW n \in f..a PROVE n \in PendingBytes
    <3> DEFINE T == {i \in DOMAIN input : n < input[i].first + input[i].size}
    <3>1. Len(input) \in DOMAIN input /\ input[Len(input)].first + input[Len(input)].size = a + 1
      BY <1>2, <2>2 DEF LeadsTo
    <3>2. n \in Nat /\ n < a + 1 /\ n \in 1..MaxBytes
      BY <1>1, <2>4
    <3>3. Len(input) \in T
      BY <3>1, <3>2
    <3>4. T \subseteq Nat
      BY <2>2
    <3>5. PICK i \in T : \A m \in T : i <= m
      BY <3>3, <3>4, LeastNat
    <3>6. i \in DOMAIN input /\ n < input[i].first + input[i].size
      OBVIOUS
    <3>7. input[i].first <= n
      <4>1. CASE i = 1
        BY <4>1 DEF f
      <4>2. CASE i # 1
        <5>1. i - 1 \in DOMAIN input /\ i - 1 # Len(input) /\ (i - 1) + 1 = i /\ ~(i <= i - 1)
          BY <2>2, <3>6, <4>2
        <5>2. ~(n < input[i - 1].first + input[i - 1].size)
          BY <3>5, <5>1
        <5>3. input[i - 1].first + input[i - 1].size = input[i].first
          BY <1>2, <5>1 DEF LeadsTo
        <5>4. input[i].first \in Nat
          BY <1>5, <3>6
        <5> HIDE DEF T
        <5> QED
          BY <3>2, <5>2, <5>3, <5>4
      <4> QED
        BY <4>1, <4>2
    <3> QED
      BY <3>2, <3>6, <3>7 DEF PendingBytes
  <2>7. PendingBytes = f..a
    BY <2>5, <2>6
  <2>8. f \in Int /\ a \in Int /\ (IF f > a THEN 0 ELSE a - f + 1) = a - f + 1
    BY <1>1, <2>4
  <2>9. Cardinality(PendingBytes) = a - f + 1
    BY <2>7, <2>8, FS_Interval
  <2> QED
    BY <1>1, <1>4, <2>1, <2>4, <2>9
<1> QED
  BY <1>6, <1>7

-----------------------------------------------------------------------------
(* The codec's output.                                                     *)

\* What a codec writes: bytes of the response and the end of its own format.
Codec == {Trailer} \cup (Nat \ {0})

CodecInv ==
    /\ backlog \in Seq(Codec)
    /\ \A b \in OutputBufferIds : buf[b].data \in Seq(Codec)

\* A buffer that may be lent is empty: what has bytes is in one of the other chains.
SpareInv == \A b \in OutputBufferIds : buf[b].data # <<>> => b \in ToSet(out) \cup ToSet(busy)

\* An iteration of the driver moves d out of the codec into the lent buffer, which is
\* emitted or put back empty.
LEMMA DriveStepItems ==
    ASSUME TypeOK, PhaseInv, ResumeInv, CodecInv, NEW r \in Driver!Results, DriveStep(r)
    PROVE  LET op == Driver!NextOperation
               holds == CodecHolds(op, Driver!StepEnd - offset, r.consumed)
           IN \E d \in Seq(Codec) :
                /\ Len(d) <= Capacity /\ d \o backlog' = holds /\ backlog' \in Seq(Codec)
                /\ buf' = [buf EXCEPT ![Lent] = [data |-> d, mark |-> BoundaryOf(op, r.state)]]
                /\ request.stats_mode # "off" => produced' = produced + Len(d)
                /\ \/ out' = Append(out, Lent)
                   \/ out' = out /\ d = <<>> /\ BoundaryOf(op, r.state) = "None"
<1> DEFINE op == Driver!NextOperation
           avail == Driver!StepEnd - offset
           b == BoundaryOf(op, r.state)
           chunk == Chunk(r.consumed)
           seal == IF Seals(op, avail, r.consumed) THEN <<Trailer>> ELSE <<>>
           holds == CodecHolds(op, avail, r.consumed)
           d == SubSeq(holds, 1, r.produced)
<1>1. /\ r.consumed \in Nat /\ r.produced \in Nat /\ r.produced <= Capacity
      /\ holds \in Seq(Int) /\ r.produced <= Len(holds)
  BY StepFacts
<1>2. chunk \in Seq(Codec)
  <2>1. CASE pendingOp = "None"
    <3>1. pc = "Drive" /\ input # <<>> /\ input \in Seq(UpstreamBuffer)
      BY <2>1 DEF ResumeInv, DriveStep, TypeOK
    <3>2. Head(input) \in UpstreamBuffer
      BY <3>1
    <3>a. Head(input).first \in Nat \ {0}
      BY <3>2, FilterAssumption DEF UpstreamBuffer
    <3>b. len \in Nat /\ offset \in 0..len
      BY FilterAssumption DEF TypeOK, Driver!TypeOK
    <3>3. Head(input).first \in Nat \ {0} /\ offset \in Nat
      BY <3>a, <3>b
    <3> DEFINE f == Head(input).first + offset
    <3>4. f \in Nat \ {0}
      BY <3>3
    <3>5. chunk = Run(f, r.consumed)
      BY <2>1 DEF Chunk
    <3> HIDE DEF f, chunk
    <3>6. \A i \in 1..r.consumed : f + i - 1 \in Codec
      BY <1>1, <3>4 DEF Codec
    <3>7. Run(f, r.consumed) \in [1..r.consumed -> Codec]
      BY <3>6 DEF Run
    <3> QED
      BY <1>1, <3>5, <3>7, SeqDef, SMTT(30)
  <2>2. CASE pendingOp # "None"
    BY <2>2 DEF Chunk
  <2> QED
    BY <2>1, <2>2
<1>3. seal \in Seq(Codec)
  BY DEF Codec
<1>4. holds = backlog \o chunk \o seal
  BY DEF CodecHolds
<1> HIDE DEF chunk, seal
<1>5. holds \in Seq(Codec)
  <2>1. backlog \in Seq(Codec)
    BY DEF CodecInv
  <2>2. backlog \o chunk \in Seq(Codec)
    BY <1>2, <2>1, ConcatProperties
  <2> QED
    BY <1>3, <1>4, <2>2, ConcatProperties
<1>6. /\ backlog' = SubSeq(holds, r.produced + 1, Len(holds))
      /\ \/ /\ Emits(r.produced, b)
            /\ buf' = [buf EXCEPT ![Lent] = [data |-> d, mark |-> b]]
            /\ out' = Append(out, Lent)
            /\ produced' = IF request.stats_mode = "off" THEN 0 ELSE produced + r.produced
         \/ /\ ~Emits(r.produced, b)
            /\ buf' = [buf EXCEPT ![Lent] = [data |-> <<>>, mark |-> "None"]]
            /\ out' = out /\ produced' = produced
  BY DEF DriveStep, EmptyBuffer
<1>7. produced \in Nat /\ Capacity \in Nat
  BY FilterAssumption DEF TypeOK
<1> HIDE DEF holds
<1>c. /\ d \in Seq(Codec) /\ Len(d) = r.produced
      /\ SubSeq(holds, r.produced + 1, Len(holds)) \in Seq(Codec)
      /\ d \o SubSeq(holds, r.produced + 1, Len(holds)) = holds
  <2>1. r.produced \in 0..Len(holds)
    BY <1>1
  <2> QED
    BY <1>5, <2>1, CutSeq
<1>8. d \in Seq(Codec) /\ Len(d) = r.produced /\ backlog' \in Seq(Codec)
  BY <1>6, <1>c
<1>9. d \o backlog' = holds
  BY <1>6, <1>c
<1>10. ~Emits(r.produced, b) => r.produced = 0 /\ b = "None"
  BY <1>1 DEF Emits
<1> HIDE DEF b, op, avail
<1>11. r.produced = 0 => d = <<>>
  BY <1>8
<1> HIDE DEF d
<1>12. /\ Len(d) <= Capacity /\ d \o backlog' = holds /\ backlog' \in Seq(Codec)
       /\ buf' = [buf EXCEPT ![Lent] = [data |-> d, mark |-> b]]
       /\ request.stats_mode # "off" => produced' = produced + Len(d)
       /\ \/ out' = Append(out, Lent)
          \/ out' = out /\ d = <<>> /\ b = "None"
  <2>1. CASE Emits(r.produced, b)
    BY <1>1, <1>6, <1>8, <1>9, <2>1
  <2>2. CASE ~Emits(r.produced, b)
    <3>1. r.produced = 0 /\ b = "None" /\ d = <<>> /\ Len(d) = 0
      BY <1>8, <1>10, <1>11, <2>2
    <3>2. buf' = [buf EXCEPT ![Lent] = [data |-> <<>>, mark |-> "None"]] /\ out' = out /\ produced' = produced
      BY <1>6, <2>2
    <3>3. produced' = produced + Len(d)
      BY <1>7, <3>1, <3>2
    <3>4. Len(d) <= Capacity
      BY <1>7, <3>1
    <3> QED
      BY <1>8, <1>9, <3>1, <3>2, <3>3, <3>4
  <2> QED
    BY <2>1, <2>2
<1> QED
  BY <1>8, <1>12 DEF holds, b, op, avail

\* Only an iteration of the driver and the write filter touch what is in a buffer, and
\* only the end of a call of drive_input the statistics.
LEMMA OutputKept ==
    ASSUME Next
    PROVE  \/ WriteByte
           \/ \E r \in Driver!Results : DriveStep(r)
           \/ Answered /\ RecordStats /\ UNCHANGED <<buf, written, backlog>> /\ pc' # "Drive"
           \/ CompressionFails
           \/ /\ UNCHANGED <<buf, written, backlog, stats, produced>>
              /\ pc # "Failed" /\ (pc = "Drive" => pc' = "Drive")
<1> USE DEF ctxVars, chainVars, codecVars, connVars, statVars
<1>1. CASE Upstream \/ PostedWriteEvent \/ SocketWriteEvent
  BY <1>1 DEF Upstream, UpstreamData, PostedWriteEvent, SocketWriteEvent, ReenterIfBuffered, EnterFilter
<1>2. CASE ResumeOperation \/ DriveHead \/ InputExhausted \/ DriveExhaust \/ BuffersExhausted
  BY <1>2 DEF ResumeOperation, DriveHead, DriveInput, InputExhausted, ReturnPending, DriveExhaust,
              BuffersExhausted
<1>3. CASE OperationPaused \/ OperationComplete \/ HeadPaused \/ HeadComplete \/ StreamFinished
  <2>1. Answered /\ RecordStats /\ UNCHANGED <<buf, written, backlog>>
    BY <1>3 DEF Answered, OperationPaused, OperationComplete, HeadPaused, HeadComplete, StreamFinished
  <2>2. pc' # "Drive"
    BY <1>3, ReturnFacts DEF OperationPaused, OperationComplete, HeadPaused, HeadComplete, StreamFinished
  <2> QED
    BY <2>1, <2>2
<1>4. CASE Hand
  BY <1>4 DEF Hand, NothingToSubmit, Submit, SubmitPostponed, BypassContext, Prepare, PreparedVars,
              CallDownstream, UpdateChains
<1>5. CASE DropLink \/ WriteFails
  BY <1>5 DEF DropLink, WriteFails, Writing
<1>6. CASE WriteComplete \/ WriteBlocked \/ WriteAbsorbed
  BY <1>6 DEF WriteComplete, WriteBlocked, WriteAbsorbed, DownstreamReturns, UpdateChains
<1> QED
  BY <1>1, <1>2, <1>3, <1>4, <1>5, <1>6 DEF Next, Callback, Compress, Fails, Write

\* The write filter takes the first item of its first link.
LEMMA WriteByteFacts ==
    ASSUME TypeOK, CodecInv, WriteByte
    PROVE  /\ UNCHANGED <<free, out, busy, backlog, stats, produced, pc>>
           /\ \/ Head(held) = FrameLink /\ UNCHANGED <<buf, written, delivered>> /\ held' = Tail(held)
              \/ \E b \in OutputBufferIds :
                   /\ b = Head(held) /\ buf[b].data # <<>> /\ UNCHANGED held
                   /\ buf' = [buf EXCEPT ![b] = [data |-> Tail(buf[b].data), mark |-> buf[b].mark]]
                   /\ written' = written + 1
                   /\ delivered' = IF Head(buf[b].data) > 0 THEN Append(delivered, Head(buf[b].data))
                                   ELSE delivered
<1>1. held \in Seq(OutputBufferIds \cup {FrameLink}) /\ held # <<>> /\ HeadData # <<>>
  BY DEF TypeOK, WriteByte
<1>2. buf \in [OutputBufferIds -> [data : Seq(Int), mark : OutputBoundary]]
  BY DEF TypeOK
<1>3. UNCHANGED <<free, out, busy, backlog, stats, produced, pc>>
  BY DEF WriteByte, ctxVars, codecVars, statVars
<1>4. CASE Head(held) = FrameLink
  <2>1. HeadData = <<Frame>> /\ Head(HeadData) = Frame
    BY <1>4 DEF HeadData, LinkData
  <2> QED
    BY <1>3, <1>4, <2>1 DEF WriteByte, Frame
<1>5. CASE Head(held) # FrameLink
  <2> DEFINE b == Head(held)
  <2>1. b \in OutputBufferIds
    BY <1>1, <1>5
  <2>2. HeadData = buf[b].data
    BY <1>5 DEF HeadData, LinkData
  <2>3. UNCHANGED held /\ buf' = [buf EXCEPT ![b].data = Tail(@)]
    BY <1>5 DEF WriteByte
  <2> HIDE DEF b
  <2>4. buf[b].data \in Seq(Codec) /\ buf[b].data # <<>>
    BY <1>1, <2>1, <2>2 DEF CodecInv
  <2>5. Head(buf[b].data) \in Codec
    BY <2>4
  <2>6. Head(buf[b].data) # Frame
    BY <2>5 DEF Codec, Frame, Trailer
  <2>7. written' = written + 1
    BY <2>2, <2>6 DEF WriteByte
  <2>8. buf' = [buf EXCEPT ![b] = [data |-> Tail(buf[b].data), mark |-> buf[b].mark]]
    <3>1. buf' = [buf EXCEPT ![b] = [buf[b] EXCEPT !.data = Tail(buf[b].data)]]
      BY <1>2, <2>1, <2>3
    <3>2. \A x \in [data : Seq(Int), mark : OutputBoundary] :
            \A y : [x EXCEPT !.data = y] = [data |-> y, mark |-> x.mark]
      OBVIOUS
    <3>3. buf[b] \in [data : Seq(Int), mark : OutputBoundary]
      BY <1>2, <2>1
    <3> QED
      BY <3>1, <3>2, <3>3
  <2>9. delivered' = IF Head(buf[b].data) > 0 THEN Append(delivered, Head(buf[b].data)) ELSE delivered
    BY <2>2 DEF WriteByte
  <2> QED
    BY <1>3, <2>1, <2>3, <2>4, <2>7, <2>8, <2>9 DEF b
<1> QED
  BY <1>4, <1>5

LEMMA CodecStep ==
    ASSUME TypeOK, PhaseInv, ResumeInv, CodecInv, Next
    PROVE  CodecInv'
<1>0. buf \in [OutputBufferIds -> [data : Seq(Int), mark : OutputBoundary]]
  BY DEF TypeOK
<1>1. CASE UNCHANGED <<buf, backlog>>
  BY <1>1 DEF CodecInv
<1>2. ASSUME NEW r \in Driver!Results, DriveStep(r) PROVE CodecInv'
  <2> DEFINE m == BoundaryOf(Driver!NextOperation, r.state)
  <2>1. PICK d \in Seq(Codec) : /\ backlog' \in Seq(Codec)
                                /\ buf' = [buf EXCEPT ![Lent] = [data |-> d, mark |-> m]]
    BY <1>2, DriveStepItems
  <2> HIDE DEF m
  <2>2. ASSUME NEW b \in OutputBufferIds
        PROVE  buf'[b].data = d \/ buf'[b] = buf[b]
    BY <1>0, <2>1
  <2> QED
    BY <2>1, <2>2 DEF CodecInv
<1>3. CASE WriteByte
  <2>1. UNCHANGED backlog
    BY <1>3, WriteByteFacts
  <2>2. CASE UNCHANGED buf
    BY <2>1, <2>2, <1>1
  <2>3. CASE ~UNCHANGED buf
    <3>1. PICK b \in OutputBufferIds :
            /\ buf[b].data # <<>>
            /\ buf' = [buf EXCEPT ![b] = [data |-> Tail(buf[b].data), mark |-> buf[b].mark]]
      BY <1>3, <2>3, WriteByteFacts
    <3>2. Tail(buf[b].data) \in Seq(Codec)
      BY <3>1 DEF CodecInv
    <3>3. ASSUME NEW c \in OutputBufferIds
          PROVE  buf'[c].data = Tail(buf[b].data) \/ buf'[c] = buf[c]
      BY <1>0, <3>1
    <3> QED
      BY <2>1, <3>2, <3>3 DEF CodecInv
  <2> QED
    BY <2>2, <2>3
<1>4. CASE CompressionFails
  BY <1>1, <1>4 DEF CompressionFails, chainVars, codecVars
<1> QED
  BY <1>1, <1>2, <1>3, <1>4, OutputKept

LEMMA SpareStep ==
    ASSUME TypeOK, PhaseInv, ResumeInv, OwnInv, CodecInv, SpareInv, Next
    PROVE  SpareInv'
<1>0. /\ buf \in [OutputBufferIds -> [data : Seq(Int), mark : OutputBoundary]]
      /\ out \in Seq(OutputBufferIds) /\ busy \in Seq(OutputBufferIds) /\ ChainsTyped
  BY TypeParts DEF TypeOK
<1>1. CASE UNCHANGED <<out, busy>> /\ \A b \in OutputBufferIds : buf'[b].data # <<>> => buf[b].data # <<>>
  BY <1>1 DEF SpareInv
<1>2. ASSUME NEW r \in Driver!Results, DriveStep(r) PROVE SpareInv'
  <2> DEFINE m == BoundaryOf(Driver!NextOperation, r.state)
  <2>1. PICK d \in Seq(Codec) : /\ buf' = [buf EXCEPT ![Lent] = [data |-> d, mark |-> m]]
                                /\ \/ out' = Append(out, Lent)
                                   \/ out' = out /\ d = <<>>
    BY <1>2, DriveStepItems
  <2> HIDE DEF m
  <2>2. busy' = busy /\ CanLend /\ Lent \in OutputBufferIds
    BY <1>2, DriveStepChains, LendFacts
  <2>3. Lent \notin ToSet(out) /\ IsInjective(out)
    BY <2>2, LendOwn DEF OwnInv
  <2>4. ToSet(Append(out, Lent)) = ToSet(out) \cup {Lent}
    BY <1>0, <2>2, <2>3, AppendFacts
  <2>5. ASSUME NEW b \in OutputBufferIds
        PROVE  (b # Lent => buf'[b] = buf[b]) /\ (b = Lent => buf'[b].data = d)
    BY <1>0, <2>1
  <2> QED
    BY <2>1, <2>2, <2>4, <2>5 DEF SpareInv
<1>3. CASE WriteByte
  <2>1. UNCHANGED <<out, busy>>
    BY <1>3, WriteByteFacts
  <2>2. ASSUME NEW b \in OutputBufferIds, buf'[b].data # <<>> PROVE buf[b].data # <<>>
    <3>1. CASE UNCHANGED buf
      BY <2>2, <3>1
    <3>2. CASE ~UNCHANGED buf
      <4>1. PICK c \in OutputBufferIds :
              /\ buf[c].data # <<>>
              /\ buf' = [buf EXCEPT ![c] = [data |-> Tail(buf[c].data), mark |-> buf[c].mark]]
        BY <1>3, <3>2, WriteByteFacts
      <4>2. b = c \/ buf'[b] = buf[b]
        BY <1>0, <4>1
      <4> QED
        BY <2>2, <4>1, <4>2
    <3> QED
      BY <3>1, <3>2
  <2> QED
    BY <1>1, <2>1, <2>2
<1>4. CASE UpdateChains
  <2> DEFINE chain == busy \o out
             n == Drained(buf, chain)
  <2>1. /\ chain \in Seq(OutputBufferIds) /\ n \in 0..Len(chain)
        /\ busy' = SubSeq(chain, n + 1, Len(chain)) /\ UNCHANGED buf
    BY <1>0, <1>4, UpdateFacts
  <2>2. \A i \in 1..n : buf[chain[i]].data = <<>>
    BY <2>1, DrainedFacts
  <2>3. ASSUME NEW b \in ToSet(busy) \cup ToSet(out)
        PROVE  \E i \in DOMAIN chain : chain[i] = b
    <3>1. CASE b \in ToSet(busy)
      <4>1. PICK i \in DOMAIN busy : busy[i] = b
        BY <3>1 DEF ToSet
      <4>2. i \in DOMAIN chain /\ chain[i] = b
        BY <1>0, <4>1
      <4> QED
        BY <4>2
    <3>2. CASE b \in ToSet(out)
      <4>1. PICK i \in DOMAIN out : out[i] = b
        BY <3>2 DEF ToSet
      <4>2. i + Len(busy) \in DOMAIN chain /\ chain[i + Len(busy)] = b
        BY <1>0, <4>1
      <4> QED
        BY <4>2
    <3> QED
      BY <3>1, <3>2
  <2> HIDE DEF chain, n
  <2>4. ASSUME NEW b \in OutputBufferIds, buf'[b].data # <<>>
        PROVE  b \in ToSet(busy')
    <3>1. b \in ToSet(busy) \cup ToSet(out)
      BY <2>1, <2>4 DEF SpareInv
    <3>2. PICK i \in DOMAIN chain : chain[i] = b
      BY <2>3, <3>1
    <3>3. i \in 1..Len(chain) /\ Len(chain) \in Nat /\ i > n
      BY <2>1, <2>2, <2>4, <3>2
    <3>4. i - n \in DOMAIN busy' /\ busy'[i - n] = b
      BY <2>1, <3>2, <3>3
    <3> QED
      BY <3>4 DEF ToSet
  <2> QED
    BY <2>4 DEF SpareInv
<1>5. CASE UNCHANGED <<out, busy, buf>>
  BY <1>1, <1>5
<1>6. CASE CompressionFails
  BY <1>5, <1>6 DEF CompressionFails, chainVars
<1> QED
  BY <1>2, <1>3, <1>4, <1>5, <1>6, OutputKept, ChainsKept

-----------------------------------------------------------------------------
(* The counters.                                                           *)

\* Outside a call of drive_input everything is counted; within one, its own input is not.
CountInv ==
    /\ pc # "Drive" => produced = 0
    /\ request.stats_mode # "off" =>
         /\ stats.output + produced = CodecBytes
         /\ pc # "Failed" => stats.input = NextByte - 1

\* An iteration of the driver adds to the buffers what it adds to the count.
LEMMA StepBytes ==
    ASSUME TypeOK, PhaseInv, ResumeInv, OwnInv, CodecInv, SpareInv,
           NEW r \in Driver!Results, DriveStep(r), request.stats_mode # "off"
    PROVE  CodecBytes \in Nat /\ CodecBytes' = CodecBytes + (produced' - produced) /\ produced' \in Nat
<1>1. /\ buf \in [OutputBufferIds -> [data : Seq(Int), mark : OutputBoundary]]
      /\ ChainsTyped /\ written \in Nat /\ produced \in Nat /\ Capacity \in Nat
  BY TypeParts, FilterAssumption DEF TypeOK
<1> DEFINE m == BoundaryOf(Driver!NextOperation, r.state)
<1>2. PICK d \in Seq(Codec) :
        /\ Len(d) <= Capacity
        /\ buf' = [buf EXCEPT ![Lent] = [data |-> d, mark |-> m]]
        /\ produced' = produced + Len(d)
  BY DriveStepItems
<1>3. m \in OutputBoundary
  BY StepFacts
<1> HIDE DEF m
<1>4. CanLend /\ Lent \in OutputBufferIds /\ written' = written
  BY DriveStepChains, LendFacts
<1>5. Lent \notin ToSet(out) /\ Lent \notin ToSet(busy)
  BY <1>4, LendOwn
<1>6. buf[Lent].data = <<>>
  BY <1>4, <1>5 DEF SpareInv
<1>7. Lengths(buf) \in [OutputBufferIds -> 0..Capacity] /\ BufferedBytes = Places(Lengths(buf))
  BY <1>1, BufferedPlaces
<1>8. Lengths(buf)[Lent] = 0
  BY <1>4, <1>6 DEF Lengths
<1>9. Len(d) \in 0..Capacity
  BY <1>1, <1>2
<1>10. \A b \in OutputBufferIds : Len(buf'[b].data) = IF b = Lent THEN Len(d) ELSE Len(buf[b].data)
  BY <1>1, <1>2, <1>4
<1>11. Lengths(buf') = [Lengths(buf) EXCEPT ![Lent] = Len(d)]
  BY <1>4, <1>10 DEF Lengths
<1>12. BufferedBytes' = Places(Lengths(buf'))
  <2>1. ASSUME NEW p \in OutputBufferIds \X (1..Capacity)
        PROVE  Lengths(buf')[p[1]] = Len(buf'[p[1]].data)
    BY DEF Lengths
  <2> QED
    BY <2>1 DEF BufferedBytes, Places
<1>13. Cardinality(BufferedBytes') = Cardinality(BufferedBytes) + Len(d)
  BY <1>4, <1>7, <1>8, <1>9, <1>11, <1>12, PlacesFilled
<1>14. Cardinality(BufferedBytes) \in Nat
  BY <1>7, PlacesFinite
<1>15. CodecBytes = written + Cardinality(BufferedBytes) /\ CodecBytes' = written + Cardinality(BufferedBytes')
  BY <1>4 DEF CodecBytes
<1> QED
  BY <1>1, <1>2, <1>9, <1>13, <1>14, <1>15

\* What the write filter takes out of a buffer is still counted.
LEMMA WriteBytes ==
    ASSUME TypeOK, CodecInv, WriteByte
    PROVE  CodecBytes' = CodecBytes
<1>1. /\ buf \in [OutputBufferIds -> [data : Seq(Int), mark : OutputBoundary]]
      /\ ChainsTyped /\ written \in Nat
  BY TypeParts DEF TypeOK
<1>2. CASE UNCHANGED <<buf, written>>
  BY <1>2 DEF CodecBytes, BufferedBytes
<1>3. CASE ~UNCHANGED <<buf, written>>
  <2>1. PICK b \in OutputBufferIds :
          /\ buf[b].data # <<>> /\ written' = written + 1
          /\ buf' = [buf EXCEPT ![b] = [data |-> Tail(buf[b].data), mark |-> buf[b].mark]]
    BY <1>3, WriteByteFacts
  <2>2. Lengths(buf) \in [OutputBufferIds -> 0..Capacity] /\ BufferedBytes = Places(Lengths(buf))
    BY <1>1, BufferedPlaces
  <2>3. buf[b].data \in Seq(Int)
    BY <1>1
  <2>4. Len(Tail(buf[b].data)) = Len(buf[b].data) - 1 /\ Len(buf[b].data) \in Nat /\ Len(buf[b].data) > 0
    BY <2>1, <2>3
  <2>5. \A c \in OutputBufferIds :
          Len(buf'[c].data) = IF c = b THEN Len(Tail(buf[b].data)) ELSE Len(buf[c].data)
    BY <1>1, <2>1
  <2>6. Lengths(buf)[b] = Len(buf[b].data)
    BY DEF Lengths
  <2>7. Lengths(buf') = [Lengths(buf) EXCEPT ![b] = Lengths(buf)[b] - 1]
    BY <2>4, <2>5, <2>6 DEF Lengths
  <2>8. BufferedBytes' = Places(Lengths(buf'))
    <3>1. ASSUME NEW p \in OutputBufferIds \X (1..Capacity)
          PROVE  Lengths(buf')[p[1]] = Len(buf'[p[1]].data)
      BY DEF Lengths
    <3> QED
      BY <3>1 DEF BufferedBytes, Places
  <2>9. Lengths(buf)[b] > 0
    BY <2>4, <2>6
  <2>10. Cardinality(BufferedBytes') = Cardinality(BufferedBytes) - 1
    BY <2>2, <2>7, <2>8, <2>9, PlaceTaken
  <2>11. Cardinality(BufferedBytes) \in Nat
    BY <2>2, PlacesFinite
  <2>12. CodecBytes = written + Cardinality(BufferedBytes)
    BY DEF CodecBytes
  <2>13. CodecBytes' = (written + 1) + Cardinality(BufferedBytes')
    BY <2>1 DEF CodecBytes
  <2> QED
    BY <1>1, <2>10, <2>11, <2>12, <2>13
<1> QED
  BY <1>2, <1>3

\* Counting keeps up with the bytes.
LEMMA CountStep ==
    ASSUME TypeOK, PhaseInv, ResumeInv, DP!DriverInv, OwnInv, EndInv, WakeInv, InputInv, CodecInv,
           SpareInv, CountInv, Next
    PROVE  CountInv'
<1>0. /\ request' = request /\ stats \in [input : Nat, output : Nat] /\ produced \in Nat
      /\ offset \in Nat /\ NextByte \in Nat
  <2>1. len \in Nat /\ offset \in 0..len
    BY FilterAssumption DEF TypeOK, Driver!TypeOK
  <2> QED
    BY <2>1, RequestStays, TakenIs DEF TypeOK
<1>1. CASE Answered
  <2>1. RecordStats /\ UNCHANGED <<buf, written>> /\ pc = "Drive" /\ pc' # "Drive"
    <3>1. RecordStats /\ UNCHANGED <<buf, written>> /\ pc = "Drive"
      BY <1>1 DEF Answered, OperationPaused, HeadPaused, StreamFinished, OperationComplete, HeadComplete,
                  chainVars, connVars
    <3>2. pc' # "Drive"
      BY <1>1, ReturnFacts DEF Answered, OperationPaused, OperationComplete, HeadPaused, HeadComplete,
                               StreamFinished
    <3> QED
      BY <3>1, <3>2
  <2>2. NextByte' = NextByte + offset
    BY <1>1, AnswerInput
  <2>3. CodecBytes' = CodecBytes
    BY <2>1 DEF CodecBytes, BufferedBytes
  <2>4. produced' = 0
    BY <2>1 DEF RecordStats
  <2>5. request.stats_mode # "off" =>
          stats'.input = stats.input + offset /\ stats'.output = stats.output + produced
    BY <2>1 DEF RecordStats
  <2>6. ASSUME request.stats_mode # "off"
        PROVE  stats'.output + produced' = CodecBytes' /\ stats'.input = NextByte' - 1
    <3>1. stats.output + produced = CodecBytes /\ stats.input = NextByte - 1
      BY <2>1, <2>6 DEF CountInv
    <3>2. stats.output \in Nat /\ stats.input \in Nat
      BY <1>0
    <3> QED
      BY <1>0, <2>2, <2>3, <2>4, <2>5, <2>6, <3>1, <3>2
  <2> QED
    BY <1>0, <2>4, <2>6 DEF CountInv
<1>2. CASE WriteByte
  <2>1. CodecBytes' = CodecBytes /\ UNCHANGED <<stats, produced, pc>>
    BY <1>2, WriteBytes, WriteByteFacts
  <2>2. NextByte' = NextByte /\ pc # "Drive"
    BY <1>2 DEF WriteByte, Writing, ctxVars, upstreamVars, NextByte
  <2> QED
    BY <1>0, <2>1, <2>2 DEF CountInv
<1>3. ASSUME NEW r \in Driver!Results, DriveStep(r) PROVE CountInv'
  <2>1. /\ UNCHANGED stats /\ pc = "Drive" /\ pc' = "Drive" /\ NextByte' = NextByte
    BY <1>3 DEF DriveStep, upstreamVars, NextByte
  <2>2. ASSUME request.stats_mode # "off" PROVE stats.output + produced' = CodecBytes'
    <3>1. CodecBytes \in Nat /\ CodecBytes' = CodecBytes + (produced' - produced) /\ produced' \in Nat
      BY <1>3, <2>2, StepBytes
    <3>2. stats.output + produced = CodecBytes
      BY <2>2 DEF CountInv
    <3>3. stats.output \in Nat
      BY <1>0
    <3> QED
      BY <1>0, <3>1, <3>2, <3>3
  <2> QED
    BY <1>0, <2>1, <2>2 DEF CountInv
<1>4. CASE CompressionFails
  <2>1. RecordStats /\ UNCHANGED <<buf, written>> /\ pc = "Drive" /\ pc' = "Failed"
    BY <1>4 DEF CompressionFails, chainVars, connVars
  <2>2. CodecBytes' = CodecBytes
    BY <2>1 DEF CodecBytes, BufferedBytes
  <2>3. produced' = 0 /\ (request.stats_mode # "off" => stats'.output = stats.output + produced)
    BY <2>1 DEF RecordStats
  <2>4. stats.output \in Nat
    BY <1>0
  <2> QED
    BY <1>0, <2>1, <2>2, <2>3, <2>4 DEF CountInv
<1>5. CASE /\ UNCHANGED <<buf, written, stats, produced>>
           /\ pc # "Failed" /\ (pc = "Drive" => pc' = "Drive")
           /\ ~Answered
  <2>1. NextByte' = NextByte
    <3>1. CASE Upstream
      BY <3>1, ArrivalInput
    <3>2. CASE UNCHANGED <<input, accepted, arrivals, pendingOp>>
      BY <3>2 DEF NextByte
    <3> QED
      BY <1>5, <3>1, <3>2, InputKept
  <2>2. CodecBytes' = CodecBytes
    BY <1>5 DEF CodecBytes, BufferedBytes
  <2> QED
    BY <1>0, <1>5, <2>1, <2>2 DEF CountInv
<1> QED
  BY <1>1, <1>2, <1>3, <1>4, <1>5, OutputKept

\* The trailer, once sent, has the totals, which do not change any more; or it has no
\* contents.
TrailInv ==
    /\ ~trailerSent => trailers = <<>>
    /\ trailerSent => done /\ request.stats_mode # "off"
    /\ trailers \in {<<>>, <<Unwritten>>,
                     <<[input |-> BytesIn(accepted), output |-> CodecBytes]>>}

\* Only the step in front of the next filter sends it.
LEMMA TrailersKept ==
    ASSUME Next, done \in BOOLEAN
    PROVE  /\ done => done'
           /\ \/ UNCHANGED <<trailers, trailerSent>>
              \/ /\ pc = "Submit" /\ AddServerTiming(done)
                 /\ UNCHANGED <<buf, written, done, accepted, input>>
<1> USE DEF ctxVars, upstreamVars, connVars, chainVars
<1>1. CASE Upstream \/ PostedWriteEvent \/ SocketWriteEvent
  BY <1>1 DEF Upstream, UpstreamData, PostedWriteEvent, SocketWriteEvent
<1>2. CASE Compress \/ Fails
  BY <1>2 DEF Compress, Fails, ResumeOperation, DriveHead, DriveInput, InputExhausted, OperationPaused, HeadPaused,
         StreamFinished, OperationComplete, HeadComplete, DriveExhaust, BuffersExhausted, CompressionFails, WriteFails,
         DriveStep
<1>3. CASE NothingToSubmit \/ Submit \/ SubmitPostponed
  BY <1>3 DEF NothingToSubmit, Submit, SubmitPostponed, Prepare, PreparedVars, CallDownstream, UpdateChains
<1>4. CASE BypassContext
  BY <1>4 DEF BypassContext
<1>5. CASE Write
  BY <1>5 DEF Write, WriteByte, DropLink, WriteComplete, WriteBlocked, WriteAbsorbed
<1> QED
  BY <1>1, <1>2, <1>3, <1>4, <1>5 DEF Next, Callback, Hand

LEMMA TrailStep ==
    ASSUME TypeOK, PhaseInv, ResumeInv, EndInv, WakeInv, CodecInv, CountInv, TrailInv, Next
    PROVE  TrailInv'
<1> DEFINE total == [input |-> BytesIn(accepted), output |-> CodecBytes]
<1>0. /\ request' = request /\ done \in BOOLEAN /\ trailerSent \in BOOLEAN
      /\ stats \in [input : Nat, output : Nat] /\ produced \in Nat /\ accepted \in Seq(Int)
  BY RequestStays DEF TypeOK
<1>1. done => done'
  BY <1>0, TrailersKept
<1>2. CASE UNCHANGED <<trailers, trailerSent>> /\ ~trailerSent
  BY <1>2 DEF TrailInv
<1>3. CASE UNCHANGED <<trailers, trailerSent>> /\ trailerSent
  <2>1. done /\ request.stats_mode # "off"
    BY <1>3 DEF TrailInv
  <2>2. Ended /\ pc # "Drive"
    BY <2>1 DEF EndInv, PhaseInv
  <2>3. accepted' = accepted
    <3>1. ~Upstream
      BY <2>2 DEF Upstream, UpstreamData
    <3>2. UNCHANGED accepted \/ Answered
      BY <3>1, InputKept
    <3>3. ~Answered
      BY <2>2 DEF Answered, OperationPaused, OperationComplete, HeadPaused, HeadComplete, StreamFinished
    <3> QED
      BY <3>2, <3>3
  <2>4. CodecBytes' = CodecBytes
    <3>1. CASE WriteByte
      BY <3>1, WriteBytes
    <3>2. ~\E r \in Driver!Results : DriveStep(r)
      BY <2>2 DEF DriveStep
    <3>3. ~CompressionFails
      BY <2>2 DEF CompressionFails
    <3>4. CASE UNCHANGED <<buf, written>>
      BY <3>4 DEF CodecBytes, BufferedBytes
    <3> QED
      BY <3>1, <3>2, <3>3, <3>4, OutputKept
  <2> QED
    BY <1>0, <1>1, <1>3, <2>1, <2>3, <2>4 DEF TrailInv
<1>4. CASE /\ pc = "Submit" /\ AddServerTiming(done)
           /\ UNCHANGED <<buf, written, done, accepted, input>>
  <2>1. total' = total
    BY <1>4 DEF CodecBytes, BufferedBytes
  <2>2. CASE done /\ request.stats_mode = "server_timing" /\ ~trailerSent
    <3>1. trailers = <<>>
      BY <2>2 DEF TrailInv
    <3>2. PICK entries \in {<<stats>>, <<>>, <<Unwritten>>} : trailers' = trailers \o entries
      BY <1>4, <2>2 DEF AddServerTiming
    <3>3. trailerSent'
      BY <1>4, <2>2 DEF AddServerTiming
    <3>4. trailers' = entries
      BY <3>1, <3>2
    <3>5. stats.output + produced = CodecBytes /\ stats.input = NextByte - 1 /\ produced = 0
      BY <1>4, <2>2 DEF CountInv
    <3>6. NextByte = BytesIn(accepted) + 1
      BY <2>2 DEF WakeInv, NextByte, Start
    <3>7. BytesIn(accepted) \in Nat /\ stats.input \in Nat /\ stats.output \in Nat
      BY <1>0, BytesInNat
    <3>8. stats.input = BytesIn(accepted) /\ stats.output = CodecBytes
      BY <3>5, <3>6, <3>7
    <3>9. stats = total
      BY <1>0, <3>8
    <3> HIDE DEF total
    <3>10. trailers' \in {<<>>, <<Unwritten>>, <<total'>>}
      BY <2>1, <3>2, <3>4, <3>9
    <3> QED
      BY <1>0, <1>1, <2>2, <3>3, <3>10 DEF TrailInv, total
  <2>3. CASE ~(done /\ request.stats_mode = "server_timing" /\ ~trailerSent)
    <3>1. UNCHANGED <<trailers, trailerSent>>
      BY <1>4, <2>3 DEF AddServerTiming
    <3>2. trailers \in {<<>>, <<Unwritten>>, <<total>>}
      BY DEF TrailInv
    <3> HIDE DEF total
    <3>3. trailers' \in {<<>>, <<Unwritten>>, <<total'>>}
      BY <2>1, <3>1, <3>2
    <3> QED
      BY <1>0, <1>1, <3>1, <3>3 DEF TrailInv, total
  <2> QED
    BY <2>2, <2>3
<1> QED
  BY <1>0, <1>2, <1>3, <1>4, TrailersKept

-----------------------------------------------------------------------------
(* The invariant of the bytes.                                             *)

BytesInv == IndInv /\ InputInv /\ CodecInv /\ SpareInv /\ CountInv /\ TrailInv

LEMMA InitBytesInv == Init => BytesInv
<1> SUFFICES ASSUME Init PROVE BytesInv
  OBVIOUS
<1>1. IndInv
  BY InitIndInv
<1>2. /\ accepted = <<>> /\ input = <<>> /\ backlog = <<>> /\ trailers = <<>> /\ ~trailerSent
      /\ pc = "Idle" /\ pendingOp = "None" /\ produced = 0 /\ written = 0 /\ arrivals = 0
      /\ stats = [input |-> 0, output |-> 0]
      /\ \A b \in OutputBufferIds : buf[b].data = <<>>
  BY DEF Init, EmptyBuffer
<1>3. BytesIn(accepted) = 0
  <2>1. {i \in DOMAIN accepted : accepted[i] > 0} = {}
    BY <1>2
  <2> QED
    BY <2>1, FS_EmptySet DEF BytesIn
<1>4. InputInv /\ NextByte = 1
  BY <1>2, <1>3, FilterAssumption DEF InputInv, LeadsTo, NextByte, Start
<1>5. CodecInv /\ SpareInv
  <2>1. <<>> \in Seq(Codec)
    BY EmptySeq
  <2> QED
    BY <1>2, <2>1 DEF CodecInv, SpareInv
<1>6. CodecBytes = 0
  <2>1. BufferedBytes = {}
    <3>1. \A p \in OutputBufferIds \X (1..Capacity) : ~(p[2] <= Len(buf[p[1]].data))
      BY <1>2, FilterAssumption
    <3> QED
      BY <3>1 DEF BufferedBytes
  <2> QED
    BY <1>2, <2>1, FS_EmptySet DEF CodecBytes
<1>7. CountInv /\ TrailInv
  BY <1>2, <1>4, <1>6 DEF CountInv, TrailInv
<1> QED
  BY <1>1, <1>4, <1>5, <1>7 DEF BytesInv

LEMMA NextBytesInv == BytesInv /\ [Next]_vars => BytesInv'
<1> SUFFICES ASSUME BytesInv, [Next]_vars PROVE BytesInv'
  OBVIOUS
<1>1. IndInv' /\ IndInv
  BY NextIndInv DEF BytesInv
<1>2. CASE UNCHANGED vars
  <2>1. /\ UNCHANGED <<input, accepted, arrivals, pendingOp, buf, written, backlog, out, busy, stats>>
        /\ UNCHANGED <<produced, pc, trailers, trailerSent, done, request>>
    BY <1>2 DEF vars, ctxVars, upstreamVars, connVars, chainVars, codecVars, statVars
  <2>2. NextByte' = NextByte /\ CodecBytes' = CodecBytes
    BY <2>1 DEF NextByte, CodecBytes, BufferedBytes
  <2> QED
    BY <1>1, <2>1, <2>2 DEF BytesInv, InputInv, CodecInv, SpareInv, CountInv, TrailInv
<1>3. CASE Next
  BY <1>1, <1>3, InputStep, CodecStep, SpareStep, CountStep, TrailStep DEF BytesInv, IndInv
<1> QED
  BY <1>2, <1>3

LEMMA BytesInvariant == Spec => []BytesInv
<1> QED
  BY InitBytesInv, NextBytesInv, PTL DEF Spec

\* For every size of buffers and of allowances, whatever upstream sends and the socket
\* takes: the byte counters of the variables and of Server-Timing miss nothing and count
\* nothing twice.
THEOREM StatsAreExact == Spec => []StatsExact
<1>1. BytesInv => StatsExact
  BY TakenIs DEF BytesInv, IndInv, CountInv, StatsExact
<1> QED
  BY <1>1, BytesInvariant, PTL

\* The trailer, when there was memory for it, has the final totals of the whole response,
\* and it is sent at most once.
THEOREM TrailerHasTotals == Spec => []TrailerTotals
<1>1. BytesInv => TrailerTotals
  BY DEF BytesInv, TrailInv, TrailerTotals
<1> QED
  BY <1>1, BytesInvariant, PTL

-----------------------------------------------------------------------------
(* Upstream without flushes.                                               *)

\* With a framing filter behind this one, what follows holds as long as upstream does
\* not ask for a flush: a flush without bytes is then handed down in a buffer that the
\* framing filter keeps linked although it has no bytes left.
NoFlush == "Flush" \notin request.ops

\* Nobody asks for a flush, then, and no buffer carries one.
FlushInv ==
    NoFlush =>
      /\ \A i \in DOMAIN input : input[i].op # "Flush"
      /\ pendingOp # "Flush" /\ operation # "Flush"
      /\ \A b \in OutputBufferIds : buf[b].mark # "Flush"

LEMMA FlushStep ==
    ASSUME TypeOK, PhaseInv, ResumeInv, CodecInv, FlushInv, Next
    PROVE  FlushInv'
<1> SUFFICES ASSUME NoFlush PROVE FlushInv'
  BY RequestStays DEF FlushInv, NoFlush
<1>0. /\ \A i \in DOMAIN input : input[i].op # "Flush"
      /\ pendingOp # "Flush" /\ operation # "Flush"
      /\ \A b \in OutputBufferIds : buf[b].mark # "Flush"
      /\ buf \in [OutputBufferIds -> [data : Seq(Int), mark : OutputBoundary]]
      /\ input \in Seq(UpstreamBuffer)
  BY DEF TypeOK, FlushInv

\* The buffers.
<1>1. \A b \in OutputBufferIds : buf'[b].mark # "Flush"
  <2>1. CASE UNCHANGED buf
    BY <1>0, <2>1
  <2>2. CASE WriteByte /\ ~UNCHANGED buf
    <3>1. PICK c \in OutputBufferIds :
            buf' = [buf EXCEPT ![c] = [data |-> Tail(buf[c].data), mark |-> buf[c].mark]]
      BY <2>2, WriteByteFacts
    <3>2. \A b \in OutputBufferIds : buf'[b].mark = buf[b].mark
      BY <1>0, <3>1
    <3> QED
      BY <1>0, <3>2
  <2>3. ASSUME NEW r \in Driver!Results, DriveStep(r)
        PROVE  \A b \in OutputBufferIds : buf'[b].mark # "Flush"
    <3> DEFINE m == BoundaryOf(Driver!NextOperation, r.state)
    <3>1. m # "Flush"
      BY <1>0 DEF BoundaryOf, Driver!NextOperation, Driver!StepOperation
    <3>2. PICK d \in Seq(Codec) : buf' = [buf EXCEPT ![Lent] = [data |-> d, mark |-> m]]
      BY <2>3, DriveStepItems
    <3> HIDE DEF m
    <3>3. \A b \in OutputBufferIds : buf'[b].mark = m \/ buf'[b] = buf[b]
      BY <1>0, <3>2
    <3> QED
      BY <1>0, <3>1, <3>3
  <2>4. CASE CompressionFails
    BY <1>0, <2>4 DEF CompressionFails, chainVars
  <2> QED
    BY <2>1, <2>2, <2>3, <2>4, OutputKept

\* The requests.
<1>2. /\ \A i \in DOMAIN input' : input'[i].op # "Flush"
      /\ pendingOp' # "Flush"
  <2>1. CASE Upstream
    <3>1. PICK n \in 0..MaxBytes, op \in request.ops : UpstreamData(n, op)
      BY <2>1 DEF Upstream
    <3>2. op # "Flush"
      BY DEF NoFlush
    <3>3. \A i \in DOMAIN input' : (\E j \in DOMAIN input : input'[i] = input[j]) \/ input'[i].op = op
      BY <3>1, ArrivalFacts
    <3>4. pendingOp' = pendingOp
      BY <3>1 DEF UpstreamData
    <3> QED
      BY <1>0, <3>2, <3>3, <3>4
  <2>2. CASE Answered
    <3>1. pendingOp' \in {pendingOp, operation, "None"}
      BY <2>2 DEF Answered, OperationPaused, OperationComplete, HeadPaused, HeadComplete, StreamFinished
    <3>2. \/ UNCHANGED input \/ input' = <<>>
          \/ input # <<>> /\ input' = Tail(input)
          \/ input # <<>> /\ input' = [input EXCEPT ![1].first = @ + offset, ![1].size = @ - offset]
      BY <2>2 DEF Answered, OperationPaused, OperationComplete, HeadPaused, HeadComplete, StreamFinished,
                  ResumeInv
    <3>3. CASE input # <<>> /\ input' = Tail(input)
      <4>1. \A i \in DOMAIN input' : i + 1 \in DOMAIN input /\ input'[i] = input[i + 1]
        BY <1>0, <3>3
      <4> QED
        BY <1>0, <3>1, <4>1
    <3>4. CASE input # <<>> /\ input' = [input EXCEPT ![1].first = @ + offset, ![1].size = @ - offset]
      <4> DEFINE h == [input[1] EXCEPT !.first = @ + offset, !.size = @ - offset]
      <4>1. input[1] \in UpstreamBuffer /\ 1 \in DOMAIN input
        BY <1>0, <3>4
      <4>2. h.op = input[1].op
        BY <4>1 DEF UpstreamBuffer
      <4>3. input' = [input EXCEPT ![1] = h]
        BY <3>4, <4>1
      <4> HIDE DEF h
      <4>4. DOMAIN input' = DOMAIN input /\ \A i \in DOMAIN input : input'[i] = h \/ input'[i] = input[i]
        BY <4>3
      <4>5. \A i \in DOMAIN input' : input'[i].op # "Flush"
        BY <1>0, <4>1, <4>2, <4>4
      <4> QED
        BY <1>0, <3>1, <4>5
    <3>5. CASE UNCHANGED input \/ input' = <<>>
      BY <1>0, <3>1, <3>5
    <3> QED
      BY <3>2, <3>3, <3>4, <3>5
  <2>3. CASE UNCHANGED <<input, pendingOp>>
    BY <1>0, <2>3
  <2> QED
    BY <2>1, <2>2, <2>3, InputKept
<1>3. operation' # "Flush"
  <2>1. CASE ResumeOperation
    BY <1>0, <2>1 DEF ResumeOperation, DriveInput
  <2>2. CASE DriveHead
    <3>1. operation' = Head(input).op /\ input # <<>>
      BY <2>2 DEF DriveHead, DriveInput
    <3>2. 1 \in DOMAIN input /\ Head(input) = input[1]
      BY <1>0, <3>1
    <3> QED
      BY <1>0, <3>1, <3>2
  <2>3. ASSUME NEW p, ReturnPending(p) PROVE operation' # "Flush"
    BY <1>0, <2>3 DEF ReturnPending, Driver!EndCallback, Driver!Suspend, driverVars
  <2>4. CASE UNCHANGED operation
    BY <1>0, <2>4
  <2>5. ASSUME NEW r \in Driver!Results, DriveStep(r) PROVE UNCHANGED operation
    BY <2>5 DEF DriveStep, Driver!Step
  <2>6. CASE Upstream \/ PostedWriteEvent \/ SocketWriteEvent
    BY <1>0, <2>6, EntryFacts DEF driverVars
  <2>7. CASE Hand \/ Write \/ WriteFails
    BY <2>4, <2>7 DEF Hand, NothingToSubmit, Submit, SubmitPostponed, BypassContext, Prepare, PreparedVars,
         Write, WriteByte, DropLink, WriteComplete, WriteBlocked, WriteAbsorbed, WriteFails, driverVars
  <2>8. CASE DriveExhaust \/ BuffersExhausted \/ CompressionFails \/ OperationComplete \/ HeadComplete
    BY <2>4, <2>8 DEF DriveExhaust, BuffersExhausted, CompressionFails, OperationComplete, HeadComplete,
         Driver!Exhaust, Driver!OutputFailure, Driver!RejectStep, driverVars
  <2>9. CASE InputExhausted \/ OperationPaused \/ HeadPaused \/ StreamFinished
    BY <2>3, <2>9 DEF InputExhausted, OperationPaused, HeadPaused, StreamFinished
  <2> QED
    BY <2>1, <2>2, <2>4, <2>5, <2>6, <2>7, <2>8, <2>9 DEF Next, Callback, Compress, Fails
<1> QED
  BY <1>1, <1>2, <1>3 DEF FlushInv

\* No output buffer is linked twice.
Distinct(s) == \A i, j \in DOMAIN s : s[i] = s[j] /\ s[i] # FrameLink => i = j

\* The output buffers a chain links.
OwnLinks(s) == ToSet(s) \ {FrameLink}

\* A buffer that is not through with the write filter, when no buffer carries a flush.
Due(b) == buf[b].data # <<>> \/ buf[b].mark = "Finish"

LEMMA DistinctTail ==
    ASSUME NEW S, NEW s \in Seq(S), s # <<>>, Distinct(s)
    PROVE  /\ Tail(s) \in Seq(S) /\ Distinct(Tail(s)) /\ Head(s) \in S
           /\ ToSet(s) = ToSet(Tail(s)) \cup {Head(s)}
           /\ Head(s) # FrameLink => Head(s) \notin ToSet(Tail(s))
<1> DEFINE t == Tail(s)
<1>1. /\ Len(s) \in Nat /\ Len(s) > 0 /\ DOMAIN s = 1..Len(s) /\ Head(s) = s[1]
      /\ t \in Seq(S) /\ Len(t) = Len(s) - 1 /\ DOMAIN t = 1..(Len(s) - 1)
      /\ \A i \in 1..(Len(s) - 1) : t[i] = s[i + 1]
      /\ s[1] \in S
  OBVIOUS
<1> HIDE DEF t
<1>2. \A i, j \in DOMAIN s : s[i] = s[j] /\ s[i] # FrameLink => i = j
  BY DEF Distinct
<1>3. ASSUME NEW i \in DOMAIN t, NEW j \in DOMAIN t, t[i] = t[j], t[i] # FrameLink
      PROVE  i = j
  <2>1. i + 1 \in DOMAIN s /\ j + 1 \in DOMAIN s /\ t[i] = s[i + 1] /\ t[j] = s[j + 1]
    BY <1>1
  <2>2. i + 1 = j + 1
    BY <1>2, <1>3, <2>1
  <2> QED
    BY <1>1, <2>2
<1>4. \A i \in DOMAIN s : i = 1 \/ (i - 1 \in DOMAIN t /\ s[i] = t[i - 1])
  BY <1>1
<1>5. \A i \in DOMAIN t : i + 1 \in DOMAIN s /\ t[i] = s[i + 1] /\ i + 1 # 1
  BY <1>1
<1>6. 1 \in DOMAIN s
  BY <1>1
<1>7. ToSet(s) = ToSet(t) \cup {s[1]}
  BY <1>4, <1>5, <1>6 DEF ToSet
<1>8. s[1] # FrameLink => s[1] \notin ToSet(t)
  BY <1>2, <1>5, <1>6 DEF ToSet
<1>9. Distinct(t)
  BY <1>3 DEF Distinct
<1> QED
  BY <1>1, <1>7, <1>8, <1>9 DEF t

\* What the write filter is given: what is held back, the new output, and a frame.
LEMMA HandedOver ==
    ASSUME TypeOK, NEW chain \in Seq(OutputBufferIds), Distinct(held), IsInjective(chain),
           ToSet(chain) \cap ToSet(held) = {}
    PROVE  /\ Distinct(Links(chain))
           /\ Links(chain) \in Seq(OutputBufferIds \cup {FrameLink})
           /\ OwnLinks(Links(chain)) = OwnLinks(held) \cup ToSet(chain)
           /\ ToSet(Links(chain)) \subseteq ToSet(held) \cup ToSet(chain) \cup {FrameLink}
           /\ ToSet(held) \cup ToSet(chain) \subseteq ToSet(Links(chain))
<1> DEFINE S == OutputBufferIds \cup {FrameLink}
           f == IF request.framing /\ \E i \in DOMAIN chain : buf[chain[i]].data # <<>>
                THEN <<FrameLink>> ELSE <<>>
           u == Links(chain)
<1>1. held \in Seq(S) /\ chain \in Seq(S) /\ f \in Seq(S) /\ Len(f) \in Nat
      /\ \A i \in DOMAIN f : f[i] = FrameLink
  <2>1. held \in Seq(S)
    BY DEF TypeOK
  <2>2. chain \in Seq(S)
    BY SeqMonotonic
  <2>3. f = <<FrameLink>> \/ f = <<>>
    OBVIOUS
  <2>4. FrameLink \in S
    OBVIOUS
  <2> HIDE DEF f, S
  <2>5. f \in Seq(S) /\ Len(f) \in Nat /\ \A i \in DOMAIN f : f[i] = FrameLink
    <3>1. CASE f = <<FrameLink>>
      BY <2>4, <3>1
    <3>2. CASE f = <<>>
      BY <3>2
    <3> QED
      BY <2>3, <3>1, <3>2
  <2> QED
    BY <2>1, <2>2, <2>5
<1>2. u = held \o chain \o f
  BY DEF Links
<1>3. FrameLink \notin ToSet(chain)
  <2>1. \A i \in DOMAIN chain : chain[i] \in OutputBufferIds
    OBVIOUS
  <2>2. FrameLink \notin OutputBufferIds
    BY FilterAssumption DEF FrameLink, OutputBufferIds
  <2> QED
    BY <2>1, <2>2 DEF ToSet
<1> HIDE DEF f, u
<1>4. /\ Len(held) \in Nat /\ Len(chain) \in Nat /\ DOMAIN held = 1..Len(held)
      /\ DOMAIN chain = 1..Len(chain) /\ DOMAIN f = 1..Len(f)
      /\ DOMAIN u = 1..(Len(held) + Len(chain) + Len(f))
      /\ \A i \in DOMAIN u : u[i] = IF i <= Len(held) THEN held[i]
                                    ELSE IF i <= Len(held) + Len(chain) THEN chain[i - Len(held)]
                                    ELSE f[i - (Len(held) + Len(chain))]
  <2> DEFINE v == held \o chain
  <2>1. /\ v \in Seq(S) /\ Len(v) = Len(held) + Len(chain) /\ Len(held) \in Nat /\ Len(chain) \in Nat
        /\ \A i \in 1..(Len(held) + Len(chain)) : v[i] = IF i <= Len(held) THEN held[i] ELSE chain[i - Len(held)]
    BY <1>1, ConcatProperties
  <2>2. u = v \o f
    BY <1>2
  <2> HIDE DEF v
  <2>3. /\ u \in Seq(S) /\ Len(u) = Len(v) + Len(f)
        /\ \A i \in 1..(Len(v) + Len(f)) : u[i] = IF i <= Len(v) THEN v[i] ELSE f[i - Len(v)]
    BY <1>1, <2>1, <2>2, ConcatProperties, ZenonT(60)
  <2>4. DOMAIN u = 1..(Len(held) + Len(chain) + Len(f))
    BY <2>1, <2>3
  <2>5. DOMAIN held = 1..Len(held) /\ DOMAIN chain = 1..Len(chain) /\ DOMAIN f = 1..Len(f)
    BY <1>1
  <2>6. ASSUME NEW i \in DOMAIN u
        PROVE  u[i] = IF i <= Len(held) THEN held[i]
                      ELSE IF i <= Len(held) + Len(chain) THEN chain[i - Len(held)]
                      ELSE f[i - (Len(held) + Len(chain))]
    <3>1. i \in 1..(Len(held) + Len(chain) + Len(f)) /\ Len(f) \in Nat
      BY <1>1, <2>4
    <3>2. u[i] = IF i <= Len(v) THEN v[i] ELSE f[i - Len(v)]
      BY <2>1, <2>3, <3>1
    <3>3. i <= Len(v) => v[i] = IF i <= Len(held) THEN held[i] ELSE chain[i - Len(held)]
      BY <2>1, <3>1
    <3> QED
      BY <2>1, <3>1, <3>2, <3>3
  <2> QED
    BY <2>1, <2>4, <2>5, <2>6
<1>5. \A i \in DOMAIN u : \/ i \in DOMAIN held /\ u[i] = held[i]
                          \/ i - Len(held) \in DOMAIN chain /\ u[i] = chain[i - Len(held)]
                          \/ u[i] = FrameLink
  <2> TAKE i \in DOMAIN u
  <2>1. CASE i <= Len(held)
    BY <1>4, <2>1
  <2>2. CASE i > Len(held) /\ i <= Len(held) + Len(chain)
    BY <1>1, <1>4, <2>2
  <2>3. CASE i > Len(held) + Len(chain)
    <3>1. i - (Len(held) + Len(chain)) \in DOMAIN f /\ u[i] = f[i - (Len(held) + Len(chain))]
      BY <1>1, <1>4, <2>3
    <3> QED
      BY <1>1, <3>1
  <2> QED
    BY <1>1, <1>4, <2>1, <2>2, <2>3
<1>6. \A i \in DOMAIN held : i \in DOMAIN u /\ u[i] = held[i]
  BY <1>1, <1>4
<1>7. \A i \in DOMAIN chain : i + Len(held) \in DOMAIN u /\ u[i + Len(held)] = chain[i]
  BY <1>1, <1>4
<1>8. ToSet(u) \subseteq ToSet(held) \cup ToSet(chain) \cup {FrameLink}
  BY <1>5 DEF ToSet
<1>9. ToSet(held) \cup ToSet(chain) \subseteq ToSet(u)
  BY <1>6, <1>7 DEF ToSet
<1>10. \A i \in DOMAIN held, j \in DOMAIN chain : held[i] # chain[j]
  BY DEF ToSet
<1>11. ASSUME NEW i \in DOMAIN u, NEW j \in DOMAIN u, u[i] = u[j], u[i] # FrameLink
       PROVE  i = j
  <2>1. CASE i \in DOMAIN held /\ u[i] = held[i] /\ j \in DOMAIN held /\ u[j] = held[j]
    BY <1>11, <2>1 DEF Distinct
  <2>2. CASE /\ i - Len(held) \in DOMAIN chain /\ u[i] = chain[i - Len(held)]
             /\ j - Len(held) \in DOMAIN chain /\ u[j] = chain[j - Len(held)]
    <3>1. i - Len(held) = j - Len(held)
      BY <1>11, <2>2 DEF IsInjective
    <3> QED
      BY <1>4, <3>1
  <2> QED
    BY <1>5, <1>10, <1>11, <2>1, <2>2
<1>12. Distinct(u)
  BY <1>11 DEF Distinct
<1>13. u \in Seq(S)
  <2> HIDE DEF S
  <2>1. held \o chain \in Seq(S)
    BY <1>1, ConcatProperties
  <2> QED
    BY <1>1, <1>2, <2>1, ConcatProperties
<1> QED
  BY <1>3, <1>8, <1>9, <1>12, <1>13 DEF OwnLinks, u

\* compress() is running or its output has not been handed down yet.
Begin == {"Compress", "Drive", "Submit"}
Fresh == IF pc \in Begin THEN ToSet(out) ELSE {}

\* The links the write filter has not begun with.
Waiting == IF Writing /\ held # <<>> THEN Tail(held) ELSE held

\* Whatever a framing filter adds: a link further down has bytes left or is the last one
\* of the response, and every byte in an output buffer is still linked.
FrameInv ==
    NoFlush =>
      /\ Distinct(held)
      /\ pc # "Failed" => \A b \in OwnLinks(Waiting) : Due(b)
      /\ \A b \in OwnLinks(held) : buf[b].mark = "Finish" =>
           done /\ (request.stats_mode = "server_timing" => trailerSent)
      /\ Fresh \cap ToSet(held) = {}
      /\ \A b \in Fresh : Due(b) /\ (buf[b].mark = "Finish" => state = "Finished")
      /\ pc # "Failed" =>
           \A b \in OutputBufferIds : buf[b].data # <<>> => b \in ToSet(held) \cup Fresh
      /\ pc \in Begin \/ (pc = "Idle" /\ ~done) =>
           (busy # <<>> => buf[Head(busy)].data # <<>>)
      /\ pc \in {"Idle", "Bypass", "WriteRaw"} => out = <<>>
      /\ WriterNeverRefuses

\* The links are those of the output buffers or of the framing filter.
LEMMA OwnLinksType ==
    ASSUME TypeOK
    PROVE  /\ OwnLinks(held) \subseteq OutputBufferIds /\ ToSet(out) \subseteq OutputBufferIds
           /\ OwnLinks(Waiting) \subseteq OwnLinks(held)
           /\ Fresh \subseteq OutputBufferIds
           /\ FrameLink \notin OutputBufferIds
<1>1. held \in Seq(OutputBufferIds \cup {FrameLink}) /\ out \in Seq(OutputBufferIds)
  BY DEF TypeOK
<1>2. FrameLink \notin OutputBufferIds
  BY FilterAssumption DEF OutputBufferIds, FrameLink
<1>3. OwnLinks(held) \subseteq OutputBufferIds
  <2>1. \A i \in DOMAIN held : held[i] \in OutputBufferIds \cup {FrameLink}
    BY <1>1
  <2> QED
    BY <2>1 DEF OwnLinks, ToSet
<1>4. ToSet(out) \subseteq OutputBufferIds
  <2>1. \A i \in DOMAIN out : out[i] \in OutputBufferIds
    BY <1>1
  <2> QED
    BY <2>1 DEF ToSet
<1>5. held # <<>> => OwnLinks(Tail(held)) \subseteq OwnLinks(held)
  <2> SUFFICES ASSUME held # <<>> PROVE ToSet(Tail(held)) \subseteq ToSet(held)
    BY DEF OwnLinks
  <2>1. \A i \in DOMAIN Tail(held) : i + 1 \in DOMAIN held /\ Tail(held)[i] = held[i + 1]
    BY <1>1
  <2> QED
    BY <2>1 DEF ToSet
<1> QED
  BY <1>2, <1>3, <1>4, <1>5 DEF Waiting, Fresh

\* Such links are not refused.
LEMMA DueNotRefused ==
    ASSUME NEW links \in Seq(OutputBufferIds \cup {FrameLink}), \A b \in OwnLinks(links) : Due(b),
           links # <<>> \/ tlsBit
    PROVE  ~Refused(links)
<1>1. ASSUME NEW i \in DOMAIN links
      PROVE  LinkData(buf, links[i]) # <<>> \/ LinkMark(buf, links[i]) # "None"
  <2>1. CASE links[i] = FrameLink
    BY <2>1 DEF LinkData
  <2>2. CASE links[i] # FrameLink
    <3>1. links[i] \in OwnLinks(links)
      BY <2>2 DEF OwnLinks, ToSet
    <3>2. Due(links[i])
      BY <3>1
    <3> QED
      BY <2>2, <3>2 DEF Due, LinkData, LinkMark
  <2> QED
    BY <2>1, <2>2
<1>2. ASSUME links # <<>> PROVE HasData(links) \/ HasMark(links)
  <2>1. 1 \in DOMAIN links
    BY <1>2
  <2> QED
    BY <1>1, <2>1 DEF HasData, HasMark
<1> QED
  BY <1>1, <1>2 DEF Refused

\* A buffer that may be lent is not linked.
LEMMA SpareUnlinked ==
    ASSUME TypeOK, PhaseInv, SpareInv, FrameInv, NoFlush, pc = "Drive",
           NEW b, b \notin ToSet(out), b \notin ToSet(busy)
    PROVE  b \notin OwnLinks(held)
<1> SUFFICES ASSUME b \in OwnLinks(held) PROVE FALSE
  OBVIOUS
<1>1. b \in OutputBufferIds
  BY OwnLinksType
<1>2. Due(b)
  BY DEF FrameInv, Waiting, Writing
<1>3. buf[b].data = <<>>
  BY <1>1 DEF SpareInv
<1>4. done
  BY <1>2, <1>3 DEF Due, FrameInv
<1> QED
  BY <1>4 DEF PhaseInv

\* What the steps of the filter build on.
Ground == TypeOK /\ PhaseInv /\ ResumeInv /\ OwnInv /\ WakeInv /\ CodecInv /\ SpareInv /\ FlushInv

\* Steps that touch neither links nor buffers.
LEMMA FrameKept ==
    ASSUME TypeOK, PhaseInv, FrameInv, NoFlush, UNCHANGED <<held, buf, out, busy, request>>,
           done => done', trailerSent => trailerSent', state = "Finished" => state' = "Finished",
           \/ pc \in Begin /\ pc' \in Begin
           \/ pc' = "Failed"
           \/ pc = "Submit" /\ pc' = "Idle" /\ out = <<>>
           \/ pc = "Idle" /\ pc' \in {"Idle", "Bypass"}
           \/ pc = "Idle" /\ pc' = "Compress" /\ ~done
    PROVE  FrameInv'
<1>0. done \in BOOLEAN /\ trailerSent \in BOOLEAN /\ ToSet(<<>>) = {}
  BY DEF TypeOK, ToSet
<1>1. \A b : Due(b)' <=> Due(b)
  BY DEF Due
<1>2. ~Writing => Waiting' = held /\ Waiting = held
  BY DEF Waiting, Writing, Begin
<1>3. pc' # "Failed" => Fresh' = Fresh /\ ~Writing
  BY <1>0 DEF Fresh, Begin, Writing, FrameInv
<1>4. Fresh' \subseteq Fresh
  BY <1>0, <1>3 DEF Fresh, Begin
<1>5. OwnLinks(held)' = OwnLinks(held) /\ ToSet(held)' = ToSet(held) /\ Distinct(held)'
  BY DEF FrameInv
<1>6. /\ \A b \in OwnLinks(held) : buf[b].mark = "Finish" =>
           done /\ (request.stats_mode = "server_timing" => trailerSent)
      /\ \A b \in Fresh : Due(b) /\ (buf[b].mark = "Finish" => state = "Finished")
      /\ Fresh \cap ToSet(held) = {}
  BY DEF FrameInv
<1>7. pc' # "Failed" => \A b \in OwnLinks(Waiting') : Due(b)'
  <2> SUFFICES ASSUME pc' # "Failed" PROVE \A b \in OwnLinks(held) : Due(b)
    BY <1>1, <1>2, <1>3
  <2>1. pc # "Failed"
    BY DEF Begin
  <2> QED
    BY <1>2, <1>3, <2>1 DEF FrameInv
<1>8. pc' # "Failed" =>
        \A b \in OutputBufferIds : buf'[b].data # <<>> => b \in ToSet(held') \cup Fresh'
  BY <1>3 DEF FrameInv, Begin
<1>9. pc' \in Begin \/ (pc' = "Idle" /\ ~done') =>
        (busy' # <<>> => buf'[Head(busy')].data # <<>>)
  <2>1. pc' \in Begin \/ (pc' = "Idle" /\ ~done') => pc \in Begin \/ (pc = "Idle" /\ ~done)
    BY <1>0 DEF Begin
  <2> QED
    BY <2>1 DEF FrameInv
<1>10. pc' \in {"Idle", "Bypass", "WriteRaw"} => out' = <<>>
  BY DEF FrameInv, Begin
<1>11. WriterNeverRefuses'
  BY DEF WriterNeverRefuses, Begin
<1>12. /\ \A b \in OwnLinks(held') : buf'[b].mark = "Finish" =>
           done' /\ (request'.stats_mode = "server_timing" => trailerSent')
       /\ \A b \in Fresh' : Due(b)' /\ (buf'[b].mark = "Finish" => state' = "Finished")
       /\ Fresh' \cap ToSet(held') = {}
  BY <1>1, <1>4, <1>5, <1>6
<1> QED
  BY <1>5, <1>7, <1>8, <1>9, <1>10, <1>11, <1>12 DEF FrameInv

\* A buffer is filled and goes behind the new output.
LEMMA FrameLend ==
    ASSUME Ground, FrameInv, NoFlush, FlushInv', NEW r \in Driver!Results, DriveStep(r)
    PROVE  FrameInv'
<1>0. /\ TypeOK /\ PhaseInv /\ ResumeInv /\ OwnInv /\ CodecInv /\ SpareInv
      /\ buf \in [OutputBufferIds -> [data : Seq(Int), mark : OutputBoundary]]
      /\ out \in Seq(OutputBufferIds) /\ busy \in Seq(OutputBufferIds)
  BY DEF Ground, TypeOK
<1>1. pc = "Drive" /\ UNCHANGED <<pc, busy, held, done, trailerSent, request>> /\ ~done
  BY <1>0 DEF DriveStep, connVars, PhaseInv
<1>2. CanLend /\ Lent \in OutputBufferIds /\ Lent \notin ToSet(out) /\ Lent \notin ToSet(busy)
  BY <1>0, DriveStepChains, LendFacts, LendOwn
<1>3. PICK d \in Seq(Int), m \in OutputBoundary :
        /\ buf' = [buf EXCEPT ![Lent] = [data |-> d, mark |-> m]]
        /\ \/ out' = Append(out, Lent) /\ (d # <<>> \/ m # "None") /\ (m = "Finish" => state' = "Finished")
           \/ out' = out /\ m = "None"
  BY <1>0, DriveStepChains
<1>4. out' = Append(out, Lent) \/ d = <<>>
  <2>1. \E e \in Seq(Codec) :
          /\ buf' = [buf EXCEPT ![Lent] = [data |-> e, mark |-> BoundaryOf(Driver!NextOperation, r.state)]]
          /\ out' = Append(out, Lent) \/ e = <<>>
    BY <1>0, DriveStepItems
  <2>2. PICK e \in Seq(Codec) :
          /\ buf' = [buf EXCEPT ![Lent] = [data |-> e, mark |-> BoundaryOf(Driver!NextOperation, r.state)]]
          /\ out' = Append(out, Lent) \/ e = <<>>
    BY <2>1
  <2>3. buf'[Lent].data = e
    BY <1>0, <1>2, <2>2
  <2>4. buf'[Lent].data = d
    BY <1>0, <1>2, <1>3
  <2> QED
    BY <2>2, <2>3, <2>4
<1>5. Lent \notin OwnLinks(held) /\ Lent \notin ToSet(held)
  <2>1. Lent \notin OwnLinks(held)
    BY <1>0, <1>1, <1>2, SpareUnlinked
  <2> QED
    BY <1>0, <1>2, <2>1, OwnLinksType DEF OwnLinks
<1>6. /\ buf'[Lent].data = d /\ buf'[Lent].mark = m
      /\ \A b \in OutputBufferIds : b # Lent => buf'[b] = buf[b]
  BY <1>0, <1>2, <1>3
<1>7. /\ OwnLinks(held) \subseteq OutputBufferIds /\ ToSet(out) \subseteq OutputBufferIds
      /\ Waiting = held /\ Waiting' = held /\ Fresh = ToSet(out)
      /\ Fresh' = ToSet(out')
  BY <1>0, <1>1, OwnLinksType DEF Waiting, Writing, Fresh, Begin
<1>8. /\ Distinct(held)
      /\ \A b \in OwnLinks(held) : Due(b)
      /\ \A b \in OwnLinks(held) : buf[b].mark = "Finish" =>
           done /\ (request.stats_mode = "server_timing" => trailerSent)
      /\ ToSet(out) \cap ToSet(held) = {}
      /\ \A b \in ToSet(out) : Due(b) /\ (buf[b].mark = "Finish" => state = "Finished")
      /\ \A b \in OutputBufferIds : buf[b].data # <<>> => b \in ToSet(held) \cup ToSet(out)
      /\ busy # <<>> => buf[Head(busy)].data # <<>>
  BY <1>1, <1>7 DEF FrameInv, Begin
<1>9. state = "Finished" => state' = "Finished"
  BY DEF DriveStep, Driver!Step, Driver!MayStep
<1>10. \A b \in OwnLinks(held) : buf'[b] = buf[b] /\ (Due(b)' <=> Due(b))
  BY <1>5, <1>6, <1>7 DEF Due
<1>11. \A b \in ToSet(out) : buf'[b] = buf[b] /\ (Due(b)' <=> Due(b))
  BY <1>2, <1>6, <1>7 DEF Due
<1>12. out' = out \/ ToSet(out') = ToSet(out) \cup {Lent}
  <2>1. IsInjective(out)
    BY <1>0 DEF OwnInv
  <2>2. ToSet(Append(out, Lent)) = ToSet(out) \cup {Lent}
    BY <1>0, <1>2, <2>1, AppendFacts
  <2> QED
    BY <1>3, <2>2
<1>13. \A b \in ToSet(out') : Due(b)' /\ (buf'[b].mark = "Finish" => state' = "Finished")
  <2>1. CASE out' = out
    BY <1>8, <1>9, <1>11, <2>1
  <2>2. CASE out' # out
    <3>1. (d # <<>> \/ m # "None") /\ (m = "Finish" => state' = "Finished")
      BY <1>3, <2>2
    <3>2. m \in {"None", "Finish"}
      BY <1>1, <1>2, <1>6 DEF FlushInv, NoFlush, OutputBoundary
    <3>3. ASSUME NEW b, b = Lent
          PROVE  Due(b)' /\ (buf'[b].mark = "Finish" => state' = "Finished")
      <4>1. d # <<>> \/ m = "Finish"
        BY <3>1, <3>2
      <4>2. buf'[b].data # <<>> \/ buf'[b].mark = "Finish"
        BY <1>6, <3>3, <4>1
      <4> QED
        BY <1>6, <3>1, <3>3, <4>2 DEF Due
    <3>4. \A b \in ToSet(out) : Due(b)' /\ (buf'[b].mark = "Finish" => state' = "Finished")
      BY <1>8, <1>9, <1>11
    <3> QED
      BY <1>12, <2>2, <3>3, <3>4
  <2> QED
    BY <2>1, <2>2
<1>14. ToSet(out') \cap ToSet(held) = {}
  BY <1>5, <1>8, <1>12
<1>15. \A b \in OutputBufferIds : buf'[b].data # <<>> => b \in ToSet(held) \cup ToSet(out')
  <2> SUFFICES ASSUME NEW b \in OutputBufferIds, buf'[b].data # <<>>
               PROVE  b \in ToSet(held) \cup ToSet(out')
    OBVIOUS
  <2>1. CASE b = Lent
    <3>1. d # <<>>
      BY <1>6, <2>1
    <3>2. out' = Append(out, Lent)
      BY <1>4, <3>1
    <3>3. ToSet(out') = ToSet(out) \cup {Lent}
      <4>1. IsInjective(out)
        BY <1>0 DEF OwnInv
      <4> QED
        BY <1>0, <1>2, <3>2, <4>1, AppendFacts
    <3> QED
      BY <2>1, <3>3
  <2>2. CASE b # Lent
    BY <1>6, <1>8, <1>12, <2>2
  <2> QED
    BY <2>1, <2>2
<1>16. busy' # <<>> => buf'[Head(busy')].data # <<>>
  <2> SUFFICES ASSUME busy # <<>> PROVE buf'[Head(busy)].data # <<>>
    BY <1>1
  <2>1. Head(busy) \in OutputBufferIds /\ Head(busy) \in ToSet(busy)
    BY <1>0 DEF ToSet
  <2> QED
    BY <1>2, <1>6, <1>8, <2>1
<1>17. WriterNeverRefuses' /\ pc' \notin {"Idle", "Bypass", "WriteRaw", "Failed"}
  BY <1>1 DEF WriterNeverRefuses
<1>18. \A b \in OwnLinks(held') : Due(b)' /\ (buf'[b].mark = "Finish" =>
           done' /\ (request'.stats_mode = "server_timing" => trailerSent'))
  BY <1>1, <1>8, <1>10
<1>19. Distinct(held)'
  BY <1>1, <1>8
<1> QED
  BY <1>1, <1>7, <1>13, <1>14, <1>15, <1>16, <1>17, <1>18, <1>19 DEF FrameInv

\* What the write filter is given, the new output and the frame behind it.
LEMMA FrameHanded ==
    ASSUME TypeOK, OwnInv, FrameInv, NoFlush, NEW chain, UNCHANGED <<buf, request>>,
           \/ pc = "Submit" /\ chain = out
           \/ pc = "Bypass" /\ chain = <<>>,
           held' = Links(chain)
    PROVE  /\ Distinct(held)' /\ held' \in Seq(OutputBufferIds \cup {FrameLink})
           /\ OwnLinks(held') = OwnLinks(held) \cup ToSet(chain)
           /\ \A b \in OwnLinks(held') : Due(b) /\ Due(b)'
           /\ \A b \in OutputBufferIds : buf'[b].data # <<>> => b \in ToSet(held')
           /\ ToSet(held) \cup ToSet(chain) \subseteq ToSet(held')
<1>1. /\ chain \in Seq(OutputBufferIds) /\ IsInjective(chain)
      /\ Fresh = ToSet(chain) /\ Waiting = held
  <2>1. pc \in {"Submit", "Bypass"}
    OBVIOUS
  <2>2. Waiting = held
    BY <2>1 DEF Waiting, Writing
  <2>3. CASE pc = "Submit" /\ chain = out
    BY <2>2, <2>3 DEF TypeOK, OwnInv, Fresh, Begin
  <2>4. CASE pc = "Bypass" /\ chain = <<>>
    <3>1. chain \in Seq(OutputBufferIds) /\ ToSet(chain) = {} /\ IsInjective(chain)
      BY <2>4 DEF ToSet, IsInjective
    <3> QED
      BY <2>2, <2>4, <3>1 DEF Fresh, Begin
  <2> QED
    BY <2>3, <2>4
<1>2. Distinct(held) /\ ToSet(chain) \cap ToSet(held) = {}
  BY <1>1 DEF FrameInv
<1>3. /\ Distinct(Links(chain))
      /\ Links(chain) \in Seq(OutputBufferIds \cup {FrameLink})
      /\ OwnLinks(Links(chain)) = OwnLinks(held) \cup ToSet(chain)
      /\ ToSet(held) \cup ToSet(chain) \subseteq ToSet(Links(chain))
  BY <1>1, <1>2, HandedOver
<1>4. \A b : Due(b)' <=> Due(b)
  BY DEF Due
<1>5. \A b \in OwnLinks(held) \cup ToSet(chain) : Due(b)
  BY <1>1 DEF FrameInv
<1>6. \A b \in OutputBufferIds : buf'[b].data # <<>> => b \in ToSet(held')
  <2>1. pc # "Failed"
    OBVIOUS
  <2>2. \A b \in OutputBufferIds : buf[b].data # <<>> => b \in ToSet(held) \cup ToSet(chain)
    BY <1>1, <2>1 DEF FrameInv
  <2> QED
    BY <1>3, <2>2
<1>7. Distinct(held')
  BY <1>3
<1> QED
  BY <1>3, <1>4, <1>5, <1>6, <1>7

\* ngx_chain_update_chains leaves no drained buffer at the head of busy.
LEMMA BusyHead ==
    ASSUME TypeOK, UpdateChains
    PROVE  /\ out' = <<>> /\ UNCHANGED buf
           /\ busy' # <<>> => buf'[Head(busy')].data # <<>>
<1> DEFINE chain == busy \o out
           n == Drained(buf, chain)
<1>1. /\ chain \in Seq(OutputBufferIds) /\ n \in 0..Len(chain)
      /\ busy' = SubSeq(chain, n + 1, Len(chain)) /\ out' = <<>> /\ UNCHANGED buf
  BY TypeParts, UpdateFacts
<1>2. n < Len(chain) => buf[chain[n + 1]].data # <<>>
  BY <1>1, DrainedFacts
<1> HIDE DEF chain, n
<1>3. busy' # <<>> => n < Len(chain) /\ Head(busy') = chain[n + 1]
  BY <1>1
<1> QED
  BY <1>1, <1>2, <1>3

LEMMA FrameHand ==
    ASSUME Ground, FrameInv, NoFlush, Submit \/ SubmitPostponed \/ BypassContext
    PROVE  FrameInv'
<1> USE DEF ctxVars, connVars, chainVars
<1>0. TypeOK /\ PhaseInv /\ OwnInv /\ WakeInv
  BY DEF Ground
<1>1. held \in Seq(OutputBufferIds \cup {FrameLink}) /\ out \in Seq(OutputBufferIds)
      /\ busy \in Seq(OutputBufferIds) /\ done \in BOOLEAN /\ trailerSent \in BOOLEAN
  BY <1>0 DEF TypeOK
<1>2. PICK chain : /\ \/ pc = "Submit" /\ chain = out
                      \/ pc = "Bypass" /\ chain = <<>>
                   /\ held' = Links(chain)
  BY DEF Submit, SubmitPostponed, BypassContext, Prepare, CallDownstream
<1>3. UNCHANGED <<buf, request, done, tlsBit, state>>
  BY DEF Submit, SubmitPostponed, BypassContext, Prepare, PreparedVars, CallDownstream, UpdateChains, driverVars
<1>4. /\ Distinct(held)' /\ held' \in Seq(OutputBufferIds \cup {FrameLink})
      /\ OwnLinks(held') = OwnLinks(held) \cup ToSet(chain)
      /\ \A b \in OwnLinks(held') : Due(b) /\ Due(b)'
      /\ \A b \in OutputBufferIds : buf'[b].data # <<>> => b \in ToSet(held')
      /\ ToSet(held) \cup ToSet(chain) \subseteq ToSet(held')
  BY <1>0, <1>2, <1>3, FrameHanded

\* The last mark goes down behind the trailer.
<1>5. \A b \in OwnLinks(held') : buf'[b].mark = "Finish" =>
        done' /\ (request'.stats_mode = "server_timing" => trailerSent')
  <2> SUFFICES ASSUME NEW b \in OwnLinks(held'), buf[b].mark = "Finish"
               PROVE  done /\ (request.stats_mode = "server_timing" => trailerSent')
    BY <1>3
  <2>1. CASE pc = "Submit"
    <3>1. Fresh = ToSet(chain)
      BY <1>2, <2>1 DEF Fresh, Begin
    <3>2. done
      <4>1. CASE b \in OwnLinks(held)
        BY <4>1 DEF FrameInv
      <4>2. CASE b \in Fresh
        BY <1>0, <2>1, <4>2 DEF FrameInv, PhaseInv
      <4> QED
        BY <1>4, <3>1, <4>1, <4>2
    <3>3. AddServerTiming(done)
      BY <2>1 DEF Submit, SubmitPostponed, BypassContext, Prepare
    <3> QED
      BY <1>1, <3>2, <3>3 DEF AddServerTiming
  <2>2. CASE pc = "Bypass"
    <3>1. b \in OwnLinks(held)
      BY <1>2, <1>4, <2>2 DEF ToSet
    <3>2. trailerSent' = trailerSent
      BY <2>2 DEF Submit, SubmitPostponed, BypassContext, Prepare
    <3> QED
      BY <3>1, <3>2 DEF FrameInv
  <2> QED
    BY <1>2, <2>1, <2>2

\* Nothing of it is refused.
<1>6. ASSUME Submit \/ BypassContext PROVE held' # <<>> \/ tlsBit
  <2>1. CASE chain # <<>>
    <3>1. chain[1] \in ToSet(chain)
      BY <1>1, <1>2, <2>1 DEF ToSet
    <3>2. chain[1] \in ToSet(held')
      BY <1>4, <3>1
    <3>3. held' = <<>> => ToSet(held') = {}
      BY DEF ToSet
    <3> QED
      BY <3>2, <3>3
  <2>2. CASE chain = <<>> /\ pc = "Submit"
    <3>1. busy # <<>>
      BY <1>2, <1>6, <2>2 DEF Submit, BypassContext
    <3>2. Head(busy) \in OutputBufferIds /\ buf[Head(busy)].data # <<>>
      BY <1>1, <2>2, <3>1 DEF FrameInv, Begin
    <3>3. Head(busy) \in ToSet(held')
      BY <1>3, <1>4, <3>2
    <3> QED
      BY <3>3 DEF ToSet
  <2>3. CASE chain = <<>> /\ pc = "Bypass"
    <3>1. writeBit \/ tlsBit
      BY <1>0, <2>3 DEF WakeInv
    <3>2. writeBit => held # <<>>
      BY <1>0, <2>3 DEF WakeInv
    <3>3. held # <<>> => held[1] \in ToSet(held)
      BY <1>1 DEF ToSet
    <3>4. held' = <<>> => ToSet(held') = {}
      BY DEF ToSet
    <3> QED
      BY <1>4, <3>1, <3>2, <3>3, <3>4
  <2> QED
    BY <1>2, <2>1, <2>2, <2>3
<1>7. ASSUME Submit \/ BypassContext PROVE ~Refused(held')
  <2>1. \A links \in Seq(OutputBufferIds \cup {FrameLink}) :
          (\A b \in OwnLinks(links) : Due(b)) /\ (links # <<>> \/ tlsBit) => ~Refused(links)
    BY DueNotRefused
  <2> QED
    BY <1>4, <1>6, <1>7, <2>1
<1>8. pc' \in {"Write", "Absorb", "WriteRaw"} \/ (pc' = "Idle" /\ SubmitPostponed)
  BY <1>2, <1>7 DEF Submit, SubmitPostponed, BypassContext, CallDownstream
<1>9. Fresh' = {} /\ OwnLinks(Waiting') \subseteq OwnLinks(held')
  <2>1. Fresh' = {}
    BY <1>8 DEF Fresh, Begin
  <2>2. held' # <<>> => ToSet(Tail(held')) \subseteq ToSet(held')
    <3> SUFFICES ASSUME held' # <<>> PROVE ToSet(Tail(held')) \subseteq ToSet(held')
      OBVIOUS
    <3>1. \A i \in DOMAIN Tail(held') : i + 1 \in DOMAIN held' /\ Tail(held')[i] = held'[i + 1]
      BY <1>4
    <3> QED
      BY <3>1 DEF ToSet
  <2> QED
    BY <2>1, <2>2 DEF Waiting, OwnLinks
<1>10. pc' \in Begin \/ (pc' = "Idle" /\ ~done') =>
        (busy' # <<>> => buf'[Head(busy')].data # <<>>)
  BY <1>0, <1>8, BusyHead DEF SubmitPostponed, Begin
<1>11. pc' \in {"Idle", "Bypass", "WriteRaw"} => out' = <<>>
  <2>1. CASE BypassContext
    BY <2>1 DEF BypassContext, FrameInv
  <2>2. CASE SubmitPostponed
    BY <1>0, <2>2, BusyHead DEF SubmitPostponed
  <2>3. CASE Submit
    BY <1>8, <2>3 DEF Submit, Prepare, SubmitPostponed, CallDownstream
  <2> QED
    BY <2>1, <2>2, <2>3
<1>12. WriterNeverRefuses'
  BY <1>8 DEF WriterNeverRefuses
<1> QED
  BY <1>4, <1>5, <1>9, <1>10, <1>11, <1>12 DEF FrameInv

\* The write filter takes a byte, or lets go of a link.
LEMMA FrameWrite ==
    ASSUME Ground, FrameInv, NoFlush, WriteByte \/ DropLink
    PROVE  FrameInv'
<1> USE DEF ctxVars, chainVars, connVars
<1> DEFINE S == OutputBufferIds \cup {FrameLink}
<1>0. TypeOK /\ PhaseInv /\ CodecInv
  BY DEF Ground
<1>1. /\ held \in Seq(S) /\ held # <<>> /\ Writing
      /\ buf \in [OutputBufferIds -> [data : Seq(Int), mark : OutputBoundary]]
  BY <1>0 DEF TypeOK, WriteByte, DropLink
<1>2. UNCHANGED <<pc, out, busy, done, trailerSent, request, state>>
  BY DEF WriteByte, DropLink, driverVars
<1>3. Fresh = {} /\ Fresh' = {} /\ pc \in {"Write", "WriteRaw", "Absorb"}
  BY <1>1, <1>2 DEF Writing, Fresh, Begin
<1>4. Distinct(held)
  BY DEF FrameInv
<1>5. /\ Tail(held) \in Seq(S) /\ Distinct(Tail(held)) /\ Head(held) \in S
      /\ ToSet(held) = ToSet(Tail(held)) \cup {Head(held)}
      /\ Head(held) # FrameLink => Head(held) \notin ToSet(Tail(held))
  <2> HIDE DEF S
  <2> QED
    BY <1>1, <1>4, DistinctTail
<1>6. /\ Waiting = Tail(held)
      /\ \A b \in OwnLinks(Tail(held)) : Due(b)
      /\ \A b \in OwnLinks(held) : buf[b].mark = "Finish" =>
           done /\ (request.stats_mode = "server_timing" => trailerSent)
      /\ \A b \in OutputBufferIds : buf[b].data # <<>> => b \in ToSet(held)
      /\ pc = "WriteRaw" => out = <<>>
  BY <1>1, <1>3 DEF Waiting, FrameInv
<1>7. OwnLinks(Tail(held)) \subseteq OwnLinks(held) /\ OwnLinks(held) \subseteq OutputBufferIds
  BY <1>0, <1>5, OwnLinksType DEF OwnLinks

\* Either a link goes away which has nothing left in it,
<1>8. CASE /\ held' = Tail(held) /\ UNCHANGED buf
           /\ Head(held) # FrameLink => buf[Head(held)].data = <<>>
  <2>1. OwnLinks(Waiting') \subseteq OwnLinks(Tail(held))
    <3>1. CASE Tail(held) = <<>>
      BY <1>1, <1>2, <1>8, <3>1 DEF Waiting, Writing, OwnLinks
    <3>2. CASE Tail(held) # <<>>
      <4>1. Waiting' = Tail(Tail(held))
        BY <1>1, <1>2, <1>8, <3>2 DEF Waiting, Writing
      <4>2. ToSet(Tail(Tail(held))) \subseteq ToSet(Tail(held))
        <5> DEFINE t == Tail(held)
        <5>1. t \in Seq(S) /\ t # <<>> /\ Distinct(t)
          BY <1>5, <3>2
        <5> HIDE DEF t, S
        <5>2. ToSet(t) = ToSet(Tail(t)) \cup {Head(t)}
          BY <5>1, DistinctTail
        <5> QED
          BY <5>2 DEF t
      <4> QED
        BY <4>1, <4>2 DEF OwnLinks
    <3> QED
      BY <3>1, <3>2
  <2>2. \A b \in OwnLinks(Waiting') : Due(b)'
    BY <1>6, <1>8, <2>1 DEF Due
  <2>3. \A b \in OwnLinks(held') : buf'[b].mark = "Finish" =>
           done' /\ (request'.stats_mode = "server_timing" => trailerSent')
    BY <1>2, <1>6, <1>7, <1>8
  <2>4. \A b \in OutputBufferIds : buf'[b].data # <<>> => b \in ToSet(held')
    <3>1. FrameLink \notin OutputBufferIds
      BY <1>0, OwnLinksType
    <3> QED
      BY <1>5, <1>6, <1>8, <3>1
  <2>5. Distinct(held)'
    BY <1>5, <1>8
  <2> QED
    BY <1>2, <1>3, <1>6, <2>2, <2>3, <2>4, <2>5 DEF FrameInv, WriterNeverRefuses, Begin

\* ... or a byte of the first one does.
<1>9. CASE /\ UNCHANGED held /\ Head(held) \in OutputBufferIds
           /\ buf[Head(held)].data # <<>>
           /\ buf' = [buf EXCEPT ![Head(held)] = [data |-> Tail(buf[Head(held)].data),
                                                 mark |-> buf[Head(held)].mark]]
  <2>1. /\ \A b \in OutputBufferIds : b # Head(held) => buf'[b] = buf[b]
        /\ \A b \in OutputBufferIds : buf'[b].mark = buf[b].mark
    BY <1>1, <1>9
  <2>2. Head(held) \notin OwnLinks(Tail(held)) /\ Head(held) \in ToSet(held)
    <3>1. FrameLink \notin OutputBufferIds
      BY <1>0, OwnLinksType
    <3> QED
      BY <1>5, <1>9, <3>1 DEF OwnLinks
  <2>3. Waiting' = Tail(held)
    BY <1>1, <1>2, <1>9 DEF Waiting, Writing
  <2>4. \A b \in OwnLinks(Tail(held)) : Due(b)'
    <3> SUFFICES ASSUME NEW b \in OwnLinks(Tail(held)) PROVE Due(b)'
      OBVIOUS
    <3>1. buf'[b] = buf[b] /\ Due(b)
      BY <1>6, <1>7, <2>1, <2>2
    <3> QED
      BY <3>1 DEF Due
  <2>5. \A b \in OwnLinks(held') : buf'[b].mark = "Finish" =>
           done' /\ (request'.stats_mode = "server_timing" => trailerSent')
    BY <1>2, <1>6, <1>7, <1>9, <2>1
  <2>6. \A b \in OutputBufferIds : buf'[b].data # <<>> => b \in ToSet(held')
    BY <1>6, <1>9, <2>1, <2>2
  <2>7. Distinct(held)'
    BY <1>4, <1>9
  <2> QED
    BY <1>2, <1>3, <1>6, <2>3, <2>4, <2>5, <2>6, <2>7 DEF FrameInv, WriterNeverRefuses, Begin
<1>10. CASE WriteByte
  BY <1>0, <1>8, <1>9, <1>10, WriteByteFacts
<1>11. CASE DropLink
  <2>1. held' = Tail(held) /\ UNCHANGED buf /\ HeadData = <<>>
    BY <1>11 DEF DropLink
  <2> QED
    BY <1>8, <2>1 DEF HeadData, LinkData
<1> QED
  BY <1>10, <1>11

\* The next filter returns.
LEMMA FrameReturn ==
    ASSUME Ground, FrameInv, NoFlush, WriteComplete \/ WriteBlocked \/ WriteAbsorbed
    PROVE  FrameInv'
<1> USE DEF ctxVars
<1>0. TypeOK /\ PhaseInv /\ held \in Seq(OutputBufferIds \cup {FrameLink})
  BY DEF Ground, TypeOK
<1>1. /\ pc \in {"Write", "WriteRaw", "Absorb"} /\ pc' = "Idle"
      /\ UNCHANGED <<held, done, trailerSent, request>>
      /\ held # <<>> => HeadData # <<>>
      /\ \/ UpdateChains
         \/ pc = "WriteRaw" /\ UNCHANGED <<out, busy, buf>>
  BY DEF WriteComplete, WriteBlocked, WriteAbsorbed, DownstreamReturns, chainVars
<1>2. Fresh = {} /\ Fresh' = {} /\ Waiting' = held /\ UNCHANGED buf
  BY <1>0, <1>1, BusyHead DEF Fresh, Begin, Waiting, Writing
<1>3. \A b \in OwnLinks(held) : Due(b)
  <2>1. CASE held = <<>>
    BY <2>1 DEF OwnLinks, ToSet
  <2>2. CASE held # <<>>
    <3>1. \A b \in OwnLinks(Tail(held)) : Due(b)
      BY <1>1, <2>2 DEF FrameInv, Waiting, Writing
    <3>2. Head(held) # FrameLink => Due(Head(held))
      BY <1>1, <2>2 DEF HeadData, LinkData, Due
    <3>3. ToSet(held) = ToSet(Tail(held)) \cup {Head(held)}
      <4> DEFINE S == OutputBufferIds \cup {FrameLink}
      <4>1. held \in Seq(S) /\ Distinct(held)
        BY <1>0 DEF FrameInv
      <4> HIDE DEF S
      <4> QED
        BY <2>2, <4>1, DistinctTail
    <3> QED
      BY <3>1, <3>2, <3>3 DEF OwnLinks
  <2> QED
    BY <2>1, <2>2
<1>4. \A b \in OwnLinks(Waiting') : Due(b)'
  BY <1>2, <1>3 DEF Due
<1>5. pc' \in Begin \/ (pc' = "Idle" /\ ~done') =>
        (busy' # <<>> => buf'[Head(busy')].data # <<>>)
  <2>1. pc = "WriteRaw" => done
    BY <1>0 DEF PhaseInv
  <2> QED
    BY <1>0, <1>1, <2>1, BusyHead DEF Begin
<1>6. out' = <<>>
  BY <1>0, <1>1, BusyHead DEF FrameInv
<1>7. /\ Distinct(held)'
      /\ \A b \in OwnLinks(held') : buf'[b].mark = "Finish" =>
           done' /\ (request'.stats_mode = "server_timing" => trailerSent')
      /\ \A b \in OutputBufferIds : buf'[b].data # <<>> => b \in ToSet(held')
  <2>1. pc # "Failed"
    BY <1>1
  <2> QED
    BY <1>1, <1>2, <2>1 DEF FrameInv
<1> QED
  BY <1>1, <1>2, <1>4, <1>5, <1>6, <1>7 DEF FrameInv, WriterNeverRefuses

LEMMA FrameStep ==
    ASSUME Ground, FrameInv, FlushInv', Next
    PROVE  FrameInv'
<1> SUFFICES ASSUME NoFlush PROVE FrameInv'
  BY RequestStays DEF FrameInv, NoFlush, Ground
<1>0. TypeOK /\ PhaseInv /\ ResumeInv /\ done \in BOOLEAN /\ trailerSent \in BOOLEAN
  BY DEF Ground, TypeOK
<1>1. /\ request' = request /\ (done => done') /\ (trailerSent => trailerSent')
      /\ (state = "Finished" => state' = "Finished")
  BY <1>0, RequestStays, FinishedStays, TrailersKept DEF AddServerTiming
<1>2. CASE Upstream \/ PostedWriteEvent \/ SocketWriteEvent
  <2>1. pc = "Idle" /\ UNCHANGED <<held, buf, out, busy>>
    BY <1>0, <1>2, EntryFacts DEF chainVars
  <2>2. \/ pc = "Idle" /\ pc' \in {"Idle", "Bypass"}
        \/ pc = "Idle" /\ pc' = "Compress" /\ ~done
    BY <1>0, <1>2, EntryFacts
  <2> QED
    BY <1>0, <1>1, <2>1, <2>2, FrameKept
<1>3. CASE Compress /\ ~\E r \in Driver!Results : DriveStep(r)
  <2>1. UNCHANGED <<held, buf, out, busy>>
    BY <1>3 DEF Compress, ResumeOperation, DriveHead, DriveInput, InputExhausted, OperationPaused, HeadPaused,
         StreamFinished, OperationComplete, HeadComplete, DriveExhaust, BuffersExhausted, chainVars, connVars
  <2>2. pc \in Begin /\ pc' \in Begin
    BY <1>3, ReturnFacts DEF Compress, ResumeOperation, DriveHead, DriveInput, InputExhausted, OperationPaused,
         HeadPaused, StreamFinished, OperationComplete, HeadComplete, DriveExhaust, BuffersExhausted, Begin
  <2> QED
    BY <1>0, <1>1, <2>1, <2>2, FrameKept
<1>4. CASE \E r \in Driver!Results : DriveStep(r)
  BY <1>4, FrameLend
<1>5. CASE NothingToSubmit
  <2>1. pc = "Submit" /\ pc' = "Idle" /\ out = <<>> /\ UNCHANGED <<held, buf, out, busy>>
    BY <1>5 DEF NothingToSubmit, Prepare, chainVars
  <2> QED
    BY <1>0, <1>1, <2>1, FrameKept
<1>6. CASE Fails
  <2>1. pc' = "Failed" /\ UNCHANGED <<held, buf, out, busy>>
    BY <1>6 DEF Fails, CompressionFails, WriteFails, chainVars, connVars
  <2> QED
    BY <1>0, <1>1, <2>1, FrameKept
<1> QED
  BY <1>2, <1>3, <1>4, <1>5, <1>6, FrameHand, FrameWrite, FrameReturn DEF Next, Callback, Hand, Write

-----------------------------------------------------------------------------
(* Lent buffers, the trailer and the write filter.                         *)

\* A flush that a framing filter adds bytes to.
FlushIsFramed == request.framing /\ ~NoFlush

FilterInv == BytesInv /\ FlushInv /\ FrameInv

LEMMA InitFilterInv == Init => FilterInv
<1> SUFFICES ASSUME Init PROVE FilterInv
  OBVIOUS
<1>1. BytesInv
  BY InitBytesInv
<1>2. /\ input = <<>> /\ pendingOp = "None" /\ operation # "Flush" /\ held = <<>> /\ pc = "Idle"
      /\ out = <<>> /\ busy = <<>>
      /\ \A b \in OutputBufferIds : buf[b].data = <<>> /\ buf[b].mark = "None"
  BY DEF Init, Driver!Init, EmptyBuffer
<1>3. FlushInv
  BY <1>2 DEF FlushInv
<1>4. FrameInv
  BY <1>2 DEF FrameInv, Distinct, OwnLinks, ToSet, Fresh, Begin, Waiting, Writing, WriterNeverRefuses
<1> QED
  BY <1>1, <1>3, <1>4 DEF FilterInv

LEMMA NextFilterInv == FilterInv /\ [Next]_vars => FilterInv'
<1> SUFFICES ASSUME FilterInv, [Next]_vars PROVE FilterInv'
  OBVIOUS
<1>1. BytesInv /\ BytesInv'
  BY NextBytesInv DEF FilterInv
<1>2. FlushInv /\ FrameInv /\ Ground
  BY <1>1 DEF FilterInv, BytesInv, IndInv, Ground
<1>3. CASE UNCHANGED vars
  <2>1. /\ UNCHANGED <<request, pc, input, pendingOp, operation, buf, held, out, busy, done, trailerSent>>
        /\ UNCHANGED state
    BY <1>3 DEF vars, ctxVars, connVars, chainVars, driverVars
  <2>2. FlushInv'
    BY <1>2, <2>1 DEF FlushInv, NoFlush
  <2>3. FrameInv'
    BY <1>2, <2>1 DEF FrameInv, NoFlush, Distinct, Due, Fresh, Waiting, Writing, WriterNeverRefuses
  <2> QED
    BY <1>1, <2>2, <2>3 DEF FilterInv
<1>4. CASE Next
  <2>1. FlushInv'
    BY <1>2, <1>4, FlushStep DEF Ground
  <2>2. FrameInv'
    BY <1>2, <1>4, <2>1, FrameStep
  <2> QED
    BY <1>1, <2>1, <2>2 DEF FilterInv
<1> QED
  BY <1>3, <1>4

LEMMA FilterInvHolds == Spec => []FilterInv
<1> QED
  BY InitFilterInv, NextFilterInv, PTL DEF Spec

\* The codec is never lent a buffer that something further down the chain still links:
\* the borrow behind OutputBuffer is the only access.  A flush behind a framing filter
\* is the exception, as BodyFilterFlush shows.
THEOREM LentBuffersAreUnlinked == Spec => [](~FlushIsFramed => LentBufferIsUnlinked)
<1>1. ASSUME FilterInv, ~FlushIsFramed, pc = "Drive" PROVE ToSet(free) \cap ToSet(held) = {}
  <2>1. /\ TypeOK /\ PhaseInv /\ OwnInv /\ LinkInv /\ SpareInv /\ FrameInv
    BY <1>1 DEF FilterInv, BytesInv, IndInv
  <2>2. ToSet(free) \cap ToSet(out) = {} /\ ToSet(free) \cap ToSet(busy) = {}
    BY <2>1 DEF OwnInv
  <2>3. CASE ~request.framing
    BY <1>1, <2>1, <2>2, <2>3 DEF LinkInv
  <2>4. CASE NoFlush
    <3>1. \A b \in ToSet(free) : b \notin OwnLinks(held)
      BY <1>1, <2>1, <2>2, <2>4, SpareUnlinked
    <3>2. FrameLink \notin ToSet(free)
      <4>1. \A i \in DOMAIN free : free[i] \in OutputBufferIds
        BY <2>1 DEF TypeOK
      <4>2. FrameLink \notin OutputBufferIds
        BY <2>1, OwnLinksType
      <4> QED
        BY <4>1, <4>2 DEF ToSet
    <3> QED
      BY <3>1, <3>2 DEF OwnLinks
  <2> QED
    BY <1>1, <2>3, <2>4 DEF FlushIsFramed
<1>2. FilterInv => (~FlushIsFramed => LentBufferIsUnlinked)
  BY <1>1 DEF LentBufferIsUnlinked
<1> QED
  BY <1>2, FilterInvHolds, PTL

\* The trailer is in place before the end of the response goes down, with the same
\* exception.
THEOREM TrailerIsFirst == Spec => [](~FlushIsFramed => TrailerBeforeLast)
<1>1. FilterInv => (~FlushIsFramed => TrailerBeforeLast)
  <2> SUFFICES ASSUME FilterInv, ~FlushIsFramed, request.stats_mode = "server_timing",
                      NEW i \in DOMAIN held, LinkMark(buf, held[i]) = "Finish"
               PROVE  trailerSent
    BY DEF TrailerBeforeLast
  <2>1. MarkInv /\ FrameInv
    BY DEF FilterInv, BytesInv, IndInv
  <2>2. CASE ~request.framing
    BY <2>1, <2>2 DEF MarkInv, TrailerBeforeLast
  <2>3. CASE NoFlush
    <3>1. held[i] \in OwnLinks(held) /\ buf[held[i]].mark = "Finish"
      BY DEF LinkMark, OwnLinks, ToSet
    <3> QED
      BY <2>1, <2>3, <3>1 DEF FrameInv
  <2> QED
    BY <2>2, <2>3 DEF FlushIsFramed
<1> QED
  BY <1>1, FilterInvHolds, PTL

\* The filter never hands the write filter a chain that it answers by failing the
\* request, with the same exception.
THEOREM WriterIsNeverRefused == Spec => [](~FlushIsFramed => WriterNeverRefuses)
<1>1. FilterInv => (~FlushIsFramed => WriterNeverRefuses)
  BY DEF FilterInv, BytesInv, IndInv, LiveInv, FrameInv, FlushIsFramed
<1> QED
  BY <1>1, FilterInvHolds, PTL

-----------------------------------------------------------------------------
(* The order of the stream.                                                *)

\* The response bytes among the bytes of a buffer or of the codec.
Keep == [x \in Int |-> IF x > 0 THEN <<x>> ELSE <<>>]
Plain(d) == FlatMap(Keep, d)

\* What a chain of links still has to deliver.
Items(contents) == [l \in OutputBufferIds \cup {FrameLink} |->
                      Plain(LinkData(contents, l)) \o MarkOf(LinkMark(contents, l))]

Content(contents, links) == FlatMap(Items(contents), links)

\* What pending upstream buffers ask for.
Asked == [b \in UpstreamBuffer |-> Run(b.first, b.size) \o MarkOf(b.op)]
Requested(s) == FlatMap(Asked, s)

LEMMA KeepType == \A x \in Int : Keep[x] \in Seq(Int)
<1>1. \A x \in Int : Keep[x] = IF x > 0 THEN <<x>> ELSE <<>>
  BY DEF Keep
<1>2. <<>> \in Seq(Int) /\ \A x \in Int : <<x>> \in Seq(Int)
  OBVIOUS
<1> QED
  BY <1>1, <1>2

LEMMA PlainFacts ==
    /\ \A d \in Seq(Int) : Plain(d) \in Seq(Int)
    /\ \A d, e \in Seq(Int) : Plain(d \o e) = Plain(d) \o Plain(e)
    /\ Plain(<<>>) = <<>> /\ Plain(<<Trailer>>) = <<>> /\ Plain(<<Frame>>) = <<>>
    /\ \A d \in Seq(Int) : d # <<>> => Plain(d) = Keep[Head(d)] \o Plain(Tail(d))
<1>1. ASSUME NEW d \in Seq(Int) PROVE Plain(d) \in Seq(Int)
  BY KeepType, FlatType DEF Plain
<1>2. ASSUME NEW d \in Seq(Int), NEW e \in Seq(Int) PROVE Plain(d \o e) = Plain(d) \o Plain(e)
  BY KeepType, FlatConcat, SMTT(30) DEF Plain
<1>3. Plain(<<>>) = <<>>
  BY FlatEmpty DEF Plain
<1>4. ASSUME NEW x \in Int, ~(x > 0) PROVE Plain(<<x>>) = <<>>
  <2>1. Keep[x] = <<>> /\ Keep[x] \in Seq(Int)
    BY <1>4, KeepType DEF Keep
  <2> QED
    BY <2>1, FlatOne DEF Plain
<1>5. Plain(<<Trailer>>) = <<>> /\ Plain(<<Frame>>) = <<>>
  BY <1>4 DEF Trailer, Frame
<1>6. ASSUME NEW d \in Seq(Int), d # <<>> PROVE Plain(d) = Keep[Head(d)] \o Plain(Tail(d))
  BY <1>6, KeepType, FlatHead DEF Plain
<1> QED
  BY <1>1, <1>2, <1>3, <1>5, <1>6

\* A run of bytes cut in two.
LEMMA RunSplit ==
    ASSUME NEW f \in Int, NEW n \in Nat, NEW k \in 0..n
    PROVE  Run(f, n) = Run(f, k) \o Run(f + k, n - k)
<1>1. k \in Nat /\ n - k \in Nat /\ f + k \in Int
  OBVIOUS
<1>2. Run(f, k) \in Seq(Int) /\ Len(Run(f, k)) = k /\ Run(f + k, n - k) \in Seq(Int)
      /\ Len(Run(f + k, n - k)) = n - k /\ Run(f, n) \in Seq(Int) /\ Len(Run(f, n)) = n
  BY <1>1, RunFacts
<1> DEFINE a == Run(f, k)
           z == Run(f + k, n - k)
           s == Run(f, n)
<1>3. /\ \A i \in 1..k : a[i] = f + i - 1
      /\ \A i \in 1..(n - k) : z[i] = (f + k) + i - 1
      /\ \A i \in 1..n : s[i] = f + i - 1
  BY DEF Run
<1> HIDE DEF a, z, s
<1>4. /\ a \in Seq(Int) /\ z \in Seq(Int) /\ s \in Seq(Int) /\ Len(a) = k /\ Len(z) = n - k
      /\ Len(s) = n
  BY <1>2 DEF a, z, s
<1>5. /\ a \o z \in Seq(Int) /\ Len(a \o z) = n
      /\ \A i \in 1..n : (a \o z)[i] = IF i <= k THEN a[i] ELSE z[i - k]
  <2>1. a \o z \in Seq(Int) /\ Len(a \o z) = Len(a) + Len(z)
        /\ \A i \in 1..(Len(a) + Len(z)) : (a \o z)[i] = IF i <= Len(a) THEN a[i] ELSE z[i - Len(a)]
    BY <1>4, ConcatProperties
  <2>2. Len(a) = k /\ Len(a) + Len(z) = n
    BY <1>1, <1>4
  <2> QED
    BY <2>1, <2>2
<1>6. \A i \in 1..n : (a \o z)[i] = s[i]
  <2> SUFFICES ASSUME NEW i \in 1..n PROVE (a \o z)[i] = s[i]
    OBVIOUS
  <2>1. CASE i <= k
    BY <1>1, <1>3, <1>5, <2>1
  <2>2. CASE ~(i <= k)
    <3>1. i - k \in 1..(n - k) /\ (f + k) + (i - k) - 1 = f + i - 1
      BY <1>1, <2>2
    <3> QED
      BY <1>3, <1>5, <2>2, <3>1
  <2> QED
    BY <2>1, <2>2
<1>7. a \o z = s
  BY <1>4, <1>5, <1>6, SeqEqual
<1> QED
  BY <1>7 DEF a, z, s

LEMMA RunEmpty == \A f \in Int : Run(f, 0) = <<>>
<1>1. ASSUME NEW f \in Int PROVE Run(f, 0) = <<>>
  <2>1. Run(f, 0) \in Seq(Int) /\ Len(Run(f, 0)) = 0
    BY RunFacts
  <2> QED
    BY <2>1, EmptySeq
<1> QED
  BY <1>1

\* Bytes of upstream are response bytes.
LEMMA PlainRun ==
    ASSUME NEW f \in Nat \ {0}, NEW n \in Nat
    PROVE  Plain(Run(f, n)) = Run(f, n)
<1> DEFINE T == {m \in 0..n : Plain(Run(f, m)) = Run(f, m)}
<1>1. 0 \in T
  BY RunEmpty, PlainFacts
<1>2. ASSUME NEW m \in 1..n, m - 1 \in T PROVE m \in T
  <2> DEFINE x == f + (m - 1)
  <2>1. m \in Nat /\ m - 1 \in 0..m /\ m - 1 \in Nat /\ m - (m - 1) = 1 /\ x \in Int /\ x > 0 /\ f \in Int
        /\ m \in 0..n
    OBVIOUS
  <2>2. Run(f, m) = Run(f, m - 1) \o Run(x, 1)
    <3> DEFINE k == m - 1
    <3>1. k \in 0..m /\ m - k = 1 /\ f + k = x
      BY <2>1
    <3> HIDE DEF k, x
    <3>2. Run(f, m) = Run(f, k) \o Run(f + k, m - k)
      BY <2>1, <3>1, RunSplit
    <3> QED
      BY <3>1, <3>2 DEF k
  <2> HIDE DEF x
  <2>3. Run(x, 1) = <<x>>
    <3>1. Run(x, 1) \in Seq(Int) /\ Len(Run(x, 1)) = 1
      BY <2>1, RunFacts
    <3>2. Run(x, 1)[1] = x
      <4>1. x + 1 - 1 = x /\ 1 \in 1..1
        BY <2>1
      <4> QED
        BY <4>1 DEF Run
    <3> QED
      BY <3>1, <3>2
  <2>4. Plain(<<x>>) = <<x>>
    <3>1. Keep[x] = <<x>> /\ Keep[x] \in Seq(Int)
      BY <2>1, KeepType DEF Keep
    <3> QED
      BY <3>1, FlatOne DEF Plain
  <2>5. Run(f, m - 1) \in Seq(Int) /\ Run(x, 1) \in Seq(Int)
    BY <2>1, RunFacts
  <2>6. Plain(Run(f, m)) = Plain(Run(f, m - 1)) \o Plain(Run(x, 1))
    BY <2>2, <2>5, PlainFacts
  <2>7. Plain(Run(f, m - 1)) = Run(f, m - 1)
    BY <1>2
  <2> QED
    BY <2>1, <2>2, <2>3, <2>4, <2>6, <2>7
<1> HIDE DEF T
<1>3. n \in T
  BY <1>1, <1>2, UpTo
<1> QED
  BY <1>3 DEF T

Buffers == [OutputBufferIds -> [data : Seq(Int), mark : OutputBoundary]]

\* The pieces of a chain of links, and of pending input.
LEMMA ItemsType ==
    ASSUME NEW contents \in Buffers
    PROVE  \A l \in OutputBufferIds \cup {FrameLink} :
             /\ LinkData(contents, l) \in Seq(Int)
             /\ Items(contents)[l] = Plain(LinkData(contents, l)) \o MarkOf(LinkMark(contents, l))
             /\ Items(contents)[l] \in Seq(Int)
<1> SUFFICES ASSUME NEW l \in OutputBufferIds \cup {FrameLink}
             PROVE  /\ LinkData(contents, l) \in Seq(Int)
                    /\ Items(contents)[l] = Plain(LinkData(contents, l)) \o MarkOf(LinkMark(contents, l))
                    /\ Items(contents)[l] \in Seq(Int)
  OBVIOUS
<1>1. \A b \in OutputBufferIds : contents[b].data \in Seq(Int)
  BY DEF Buffers
<1>2. LinkData(contents, l) \in Seq(Int)
  <2>1. CASE l = FrameLink
    <3>1. LinkData(contents, l) = <<Frame>> /\ Frame \in Int
      BY <2>1 DEF LinkData, Frame
    <3> QED
      BY <3>1
  <2>2. CASE l # FrameLink
    BY <1>1, <2>2 DEF LinkData
  <2> QED
    BY <2>1, <2>2
<1>3. Items(contents)[l] = Plain(LinkData(contents, l)) \o MarkOf(LinkMark(contents, l))
  BY DEF Items
<1>4. Plain(LinkData(contents, l)) \in Seq(Int) /\ MarkOf(LinkMark(contents, l)) \in Seq(Int)
  BY <1>2, PlainFacts, MarkOfType
<1>5. Items(contents)[l] \in Seq(Int)
  BY <1>3, <1>4, Joined
<1> QED
  BY <1>2, <1>3, <1>5

LEMMA FrameItems == ASSUME NEW contents PROVE Items(contents)[FrameLink] = <<>>
<1>1. Items(contents)[FrameLink] = Plain(<<Frame>>) \o MarkOf("None")
  BY DEF Items, LinkData, LinkMark
<1>2. Plain(<<Frame>>) = <<>> /\ MarkOf("None") = <<>> /\ <<>> \o <<>> = <<>>
  BY PlainFacts, Joined DEF MarkOf
<1> QED
  BY <1>1, <1>2

\* The content of a chain, and of a chain in two parts.
LEMMA ContentFacts ==
    ASSUME NEW contents \in Buffers
    PROVE  /\ \A s \in Seq(OutputBufferIds \cup {FrameLink}) : Content(contents, s) \in Seq(Int)
           /\ \A s, t \in Seq(OutputBufferIds \cup {FrameLink}) :
                Content(contents, s \o t) = Content(contents, s) \o Content(contents, t)
           /\ Content(contents, <<>>) = <<>> /\ Content(contents, <<FrameLink>>) = <<>>
           /\ \A s \in Seq(OutputBufferIds \cup {FrameLink}) :
                s # <<>> => Content(contents, s) = Items(contents)[Head(s)] \o Content(contents, Tail(s))
           /\ \A l \in OutputBufferIds \cup {FrameLink} : Content(contents, <<l>>) = Items(contents)[l]
<1> DEFINE A == OutputBufferIds \cup {FrameLink}
           g == Items(contents)
<1>1. \A l \in A : g[l] \in Seq(Int)
  BY ItemsType
<1>2. g[FrameLink] = <<>> /\ FrameLink \in A
  BY FrameItems
<1> HIDE DEF A, g
<1>3. ASSUME NEW s \in Seq(A) PROVE FlatMap(g, s) \in Seq(Int)
  BY <1>1, FlatType
<1>4. ASSUME NEW s \in Seq(A), NEW t \in Seq(A)
      PROVE  FlatMap(g, s \o t) = FlatMap(g, s) \o FlatMap(g, t)
  BY <1>1, FlatConcat
<1>5. ASSUME NEW s \in Seq(A), s # <<>> PROVE FlatMap(g, s) = g[Head(s)] \o FlatMap(g, Tail(s))
  BY <1>1, <1>5, FlatHead
<1>6. ASSUME NEW l \in A PROVE FlatMap(g, <<l>>) = g[l]
  BY <1>1, FlatOne
<1>7. FlatMap(g, <<>>) = <<>>
  BY FlatEmpty
<1> QED
  BY <1>2, <1>3, <1>4, <1>5, <1>6, <1>7 DEF Content, A, g

\* Only the buffers that a chain links matter to its content.
LEMMA ContentSame ==
    ASSUME NEW contents \in Buffers, NEW s \in Seq(OutputBufferIds \cup {FrameLink}), NEW others,
           \A l \in OutputBufferIds : l \in ToSet(s) => others[l] = contents[l]
    PROVE  Content(others, s) = Content(contents, s)
<1> DEFINE A == OutputBufferIds \cup {FrameLink}
           g == Items(contents)
           h == Items(others)
<1>1. \A l \in A : g[l] \in Seq(Int)
  BY ItemsType
<1>2. \A i \in DOMAIN s : s[i] \in A /\ s[i] \in ToSet(s)
  BY DEF ToSet
<1>3. ASSUME NEW i \in DOMAIN s PROVE h[s[i]] = g[s[i]]
  <2>1. CASE s[i] = FrameLink
    BY <2>1, FrameItems
  <2>2. CASE s[i] # FrameLink
    <3>1. s[i] \in OutputBufferIds /\ others[s[i]] = contents[s[i]]
      BY <1>2, <2>2
    <3>2. LinkData(others, s[i]) = LinkData(contents, s[i]) /\ LinkMark(others, s[i]) = LinkMark(contents, s[i])
      BY <3>1 DEF LinkData, LinkMark
    <3> QED
      BY <3>1, <3>2 DEF Items
  <2> QED
    BY <2>1, <2>2
<1> HIDE DEF A, g, h
<1>4. s \in Seq(A)
  BY DEF A
<1>5. FlatMap(h, s) = FlatMap(g, s)
  BY <1>1, <1>3, <1>4, FlatSame
<1> QED
  BY <1>5 DEF Content, g, h

LEMMA RequestedFacts ==
    /\ \A b \in UpstreamBuffer : Asked[b] = Run(b.first, b.size) \o MarkOf(b.op)
    /\ \A s \in Seq(UpstreamBuffer) : Requested(s) \in Seq(Int)
    /\ \A s \in Seq(UpstreamBuffer), b \in UpstreamBuffer :
         Requested(Append(s, b)) = Requested(s) \o Asked[b]
    /\ Requested(<<>>) = <<>>
    /\ \A s \in Seq(UpstreamBuffer) :
         s # <<>> => Requested(s) = Asked[Head(s)] \o Requested(Tail(s))
    /\ \A b \in UpstreamBuffer : Asked[b] \in Seq(Int)
<1> DEFINE A == UpstreamBuffer
           g == Asked
<1>0. ASSUME NEW b \in UpstreamBuffer PROVE Asked[b] = Run(b.first, b.size) \o MarkOf(b.op)
  BY DEF Asked
<1>1. ASSUME NEW b \in UpstreamBuffer PROVE Asked[b] \in Seq(Int)
  <2>1. b.first \in Int /\ b.size \in Nat
    BY DEF UpstreamBuffer
  <2>2. Run(b.first, b.size) \in Seq(Int) /\ MarkOf(b.op) \in Seq(Int)
    BY <2>1, RunFacts, MarkOfType
  <2> QED
    BY <1>0, <2>2, ConcatProperties, ZenonT(60)
<1>2. \A b \in A : g[b] \in Seq(Int)
  BY <1>1
<1> HIDE DEF A, g
<1>3. ASSUME NEW s \in Seq(A) PROVE FlatMap(g, s) \in Seq(Int)
  BY <1>2, FlatType
<1>4. ASSUME NEW s \in Seq(A), NEW b \in A PROVE FlatMap(g, Append(s, b)) = FlatMap(g, s) \o g[b]
  <2> DEFINE t == <<b>>
  <2>1. t \in Seq(A) /\ Append(s, b) = s \o t
    OBVIOUS
  <2>2. FlatMap(g, t) = g[b]
    BY <1>2, FlatOne
  <2> HIDE DEF t
  <2>3. FlatMap(g, s \o t) = FlatMap(g, s) \o FlatMap(g, t)
    BY <1>2, <2>1, FlatConcat
  <2> QED
    BY <2>1, <2>2, <2>3
<1>5. ASSUME NEW s \in Seq(A), s # <<>> PROVE FlatMap(g, s) = g[Head(s)] \o FlatMap(g, Tail(s))
  BY <1>2, <1>5, FlatHead
<1>7. FlatMap(g, <<>>) = <<>>
  BY FlatEmpty
<1> QED
  BY <1>0, <1>1, <1>3, <1>4, <1>5, <1>7 DEF Requested, A, g

\* What has not been handed over, what the codec was told, and what it was not.
Unsent == IF pc \in Begin THEN held \o out ELSE held
Emitted == state \in {"Flushed", "Finished"}
Rest ==
    IF pc = "Drive"
    THEN (IF pendingOp = "None" THEN Run(Head(input).first + offset, Head(input).size - offset) ELSE <<>>)
           \o ((IF Emitted THEN <<>> ELSE MarkOf(operation))
           \o Requested(IF pendingOp = "None" THEN Tail(input) ELSE input))
    ELSE (IF pendingOp = "None" THEN <<>> ELSE MarkOf(pendingOp)) \o Requested(input)

Sent == Content(buf, Unsent)
Inside == Sent \o (Plain(backlog) \o Rest)

\* Upstream's bytes and boundaries are, in order, those that went down, those in
\* buffers on their way, those in the codec, and those still to be shown to it.
StreamInv ==
    pc \notin {"Failed", "WriterError"} =>
      /\ accepted = delivered \o Inside
      /\ pc = "Drive" /\ state = "NeedsInput" => operation = "Continue"
      /\ pc = "Drive" /\ Emitted => backlog = <<>>

\* The parts of Rest while drive_input runs.
Left == IF pendingOp = "None" THEN Run(Head(input).first + offset, Head(input).size - offset) ELSE <<>>
Owed == IF Emitted THEN <<>> ELSE MarkOf(operation)
Later == IF pendingOp = "None" THEN Tail(input) ELSE input

LEMMA RestParts ==
    ASSUME TypeOK, ResumeInv
    PROVE  /\ pc = "Drive" => Rest = Left \o (Owed \o Requested(Later))
           /\ pc # "Drive" /\ pendingOp = "None" => Rest = Requested(input)
           /\ pc # "Drive" /\ pendingOp # "None" => Rest = MarkOf(pendingOp) \o Requested(input)
           /\ pc = "Drive" =>
                /\ Left \in Seq(Int) /\ Owed \in Seq(Int) /\ Requested(Later) \in Seq(Int)
                /\ Later \in Seq(UpstreamBuffer)
                /\ pendingOp = "None" => input # <<>> /\ Head(input) \in UpstreamBuffer
           /\ Rest \in Seq(Int)
<1>1. input \in Seq(UpstreamBuffer) /\ len \in Nat /\ offset \in 0..len
  BY FilterAssumption DEF TypeOK, Driver!TypeOK
<1>2. Requested(input) \in Seq(Int)
  BY <1>1, RequestedFacts
<1>3. CASE pc # "Drive"
  <2>1. CASE pendingOp = "None"
    <3>1. Rest = <<>> \o Requested(input)
      BY <1>3, <2>1 DEF Rest
    <3> QED
      BY <1>2, <1>3, <2>1, <3>1, Joined
  <2>2. CASE pendingOp # "None"
    <3>1. Rest = MarkOf(pendingOp) \o Requested(input) /\ MarkOf(pendingOp) \in Seq(Int)
      BY <1>3, <2>2, MarkOfType DEF Rest
    <3> QED
      BY <1>2, <1>3, <2>2, <3>1, Joined
  <2> QED
    BY <2>1, <2>2
<1>4. CASE pc = "Drive"
  <2>1. Rest = Left \o (Owed \o Requested(Later))
    BY <1>4 DEF Rest, Left, Owed, Later
  <2>2. Owed \in Seq(Int)
    BY MarkOfType, Joined DEF Owed
  <2>3. /\ Left \in Seq(Int) /\ Later \in Seq(UpstreamBuffer)
        /\ pendingOp = "None" => input # <<>> /\ Head(input) \in UpstreamBuffer
    <3>1. CASE pendingOp = "None"
      <4>1. input # <<>> /\ Head(input).size = len
        BY <1>4, <3>1 DEF ResumeInv
      <4>2. Head(input) \in UpstreamBuffer /\ Tail(input) \in Seq(UpstreamBuffer)
        BY <1>1, <4>1
      <4>3. Head(input).first \in Nat
        BY <4>2, FilterAssumption DEF UpstreamBuffer
      <4>4. Head(input).first + offset \in Int /\ Head(input).size - offset \in Nat
        BY <1>1, <4>1, <4>3
      <4>5. Left \in Seq(Int)
        BY <3>1, <4>4, RunFacts DEF Left
      <4> QED
        BY <3>1, <4>1, <4>2, <4>5 DEF Later
    <3>2. CASE pendingOp # "None"
      BY <1>1, <3>2, Joined DEF Left, Later
    <3> QED
      BY <3>1, <3>2
  <2>4. Requested(Later) \in Seq(Int)
    BY <2>3, RequestedFacts
  <2> HIDE DEF Later
  <2>5. Rest \in Seq(Int)
    BY <2>1, <2>2, <2>3, <2>4, Joined
  <2> QED
    BY <1>4, <2>1, <2>2, <2>3, <2>4, <2>5
<1> QED
  BY <1>3, <1>4

LEMMA InsideTypes ==
    ASSUME TypeOK, ResumeInv
    PROVE  /\ Unsent \in Seq(OutputBufferIds \cup {FrameLink})
           /\ Sent \in Seq(Int) /\ Plain(backlog) \in Seq(Int) /\ Rest \in Seq(Int)
           /\ Inside \in Seq(Int) /\ delivered \in Seq(Int) /\ accepted \in Seq(Int)
<1>1. /\ held \in Seq(OutputBufferIds \cup {FrameLink}) /\ out \in Seq(OutputBufferIds)
      /\ backlog \in Seq(Int) /\ delivered \in Seq(Int) /\ accepted \in Seq(Int)
  BY DEF TypeOK
<1>2. out \in Seq(OutputBufferIds \cup {FrameLink})
  BY <1>1
<1>3. Unsent \in Seq(OutputBufferIds \cup {FrameLink})
  BY <1>1, <1>2, ConcatProperties DEF Unsent
<1>4. Sent \in Seq(Int)
  <2>1. buf \in Buffers
    BY DEF TypeOK, Buffers
  <2> QED
    BY <1>3, <2>1, ContentFacts DEF Sent
<1>5. Plain(backlog) \in Seq(Int) /\ Rest \in Seq(Int)
  BY <1>1, PlainFacts, RestParts
<1>6. Inside \in Seq(Int)
  BY <1>4, <1>5, Joined DEF Inside
<1> QED
  BY <1>1, <1>3, <1>4, <1>5, <1>6

\* A buffer that may be lent is not on its way down, no buffer is linked twice, and
\* nothing waits to be handed over outside compress.
Apart ==
    /\ Distinct(held)
    /\ pc \in {"Idle", "Bypass", "WriteRaw"} => out = <<>>
    /\ pc = "Drive" /\ CanLend => Lent \notin ToSet(held) /\ Lent \notin ToSet(out)

LEMMA ApartHolds ==
    ASSUME FilterInv, ~FlushIsFramed
    PROVE  Apart
<1>1. /\ TypeOK /\ PhaseInv /\ OwnInv /\ LinkInv /\ LiveInv /\ SpareInv /\ FrameInv
  BY DEF FilterInv, BytesInv, IndInv
<1>2. ASSUME pc = "Drive", CanLend
      PROVE  /\ Lent \in OutputBufferIds /\ Lent # FrameLink
             /\ Lent \notin ToSet(out) /\ Lent \notin ToSet(busy)
  <2>1. Lent \in OutputBufferIds
    BY <1>1, <1>2, LendFacts
  <2>2. FrameLink \notin OutputBufferIds
    BY <1>1, OwnLinksType
  <2> QED
    BY <1>1, <1>2, <2>1, <2>2, LendOwn
<1>3. CASE ~request.framing
  <2>1. IsInjective(held) /\ (pc \in {"Idle", "Bypass", "WriteRaw"} => out = <<>>)
    BY <1>1, <1>3 DEF LiveInv
  <2>2. Distinct(held)
    BY <2>1 DEF Distinct, IsInjective
  <2>3. pc = "Drive" => held = busy
    BY <1>1, <1>3 DEF LinkInv
  <2> QED
    BY <1>2, <2>1, <2>2, <2>3 DEF Apart
<1>4. CASE NoFlush
  <2>1. Distinct(held) /\ (pc \in {"Idle", "Bypass", "WriteRaw"} => out = <<>>)
    BY <1>1, <1>4 DEF FrameInv
  <2>2. ASSUME pc = "Drive", CanLend PROVE Lent \notin ToSet(held)
    <3>1. Lent \notin OwnLinks(held)
      BY <1>1, <1>2, <1>4, <2>2, SpareUnlinked
    <3> QED
      BY <1>2, <2>2, <3>1 DEF OwnLinks
  <2> QED
    BY <1>2, <2>1, <2>2 DEF Apart
<1> QED
  BY <1>3, <1>4 DEF FlushIsFramed

\* Upstream's next buffer is what it adds to the stream.
LEMMA ArrivalOrder ==
    ASSUME TypeOK, ResumeInv, EndInv, InputInv, Upstream
    PROVE  \E x \in Seq(Int) : accepted' = accepted \o x /\ Rest' = Rest \o x
<1>1. PICK n \in 0..MaxBytes, op \in request.ops : UpstreamData(n, op)
  BY DEF Upstream
<1> DEFINE a == BytesIn(accepted)
           new == [id |-> arrivals + 1, first |-> a + 1, size |-> n, op |-> op]
           x == Run(a + 1, n) \o MarkOf(op)
<1>2. /\ a \in Nat /\ n \in Nat
      /\ new \in UpstreamBuffer /\ new.first = a + 1 /\ new.size = n /\ new.op = op
      /\ accepted' = accepted \o Run(a + 1, n) \o MarkOf(op)
      /\ input' = Append(input, new)
      /\ pc' = "Compress" /\ pc = "Idle"
      /\ UNCHANGED pendingOp
  BY <1>1, ArrivalAppends DEF UpstreamData, EnterFilter
<1> HIDE DEF new, a
<1>3. /\ accepted \in Seq(Int) /\ input \in Seq(UpstreamBuffer)
  BY DEF TypeOK
<1>4. Run(a + 1, n) \in Seq(Int) /\ MarkOf(op) \in Seq(Int)
  BY <1>2, RunFacts, MarkOfType
<1>5. x \in Seq(Int) /\ accepted' = accepted \o x
  BY <1>2, <1>3, <1>4, Joined, SMTT(30)
<1>6. Requested(input') = Requested(input) \o x
  BY <1>2, <1>3, RequestedFacts
<1>7. Requested(input) \in Seq(Int)
  BY <1>3, RequestedFacts
<1> DEFINE p == IF pendingOp = "None" THEN <<>> ELSE MarkOf(pendingOp)
<1>8. p \in Seq(Int)
  BY MarkOfType, Joined
<1>9. Rest = p \o Requested(input) /\ Rest' = p \o Requested(input')
  BY <1>2 DEF Rest, Requested
<1> DEFINE q == Requested(input)
<1> HIDE DEF x, p
<1>10. Rest' = Rest \o x
  <2>1. Rest = p \o q /\ Rest' = p \o (q \o x) /\ q \in Seq(Int)
    BY <1>6, <1>7, <1>9
  <2> HIDE DEF q
  <2>2. (p \o q) \o x = p \o (q \o x)
    BY <1>5, <1>8, <2>1, Joined
  <2> QED
    BY <2>1, <2>2
<1> QED
  BY <1>5, <1>10

\* A call of drive_input asks the codec for what comes next.
LEMMA StartOrder ==
    ASSUME TypeOK, ResumeInv, ResumeOperation \/ DriveHead
    PROVE  Rest' = Rest /\ pc' = "Drive" /\ state' = "Running"
<1>1. /\ pc = "Compress" /\ pc' = "Drive" /\ state' = "Running" /\ offset' = 0
      /\ UNCHANGED <<input, pendingOp>>
  BY DEF ResumeOperation, DriveHead, DriveInput, ctxVars
<1>2. input \in Seq(UpstreamBuffer)
  BY DEF TypeOK
<1>3. Requested(input) \in Seq(Int)
  BY <1>2, RequestedFacts
<1>4. CASE ResumeOperation
  <2>1. pendingOp # "None" /\ operation' = pendingOp
    BY <1>4 DEF ResumeOperation, DriveInput
  <2>2. Rest = MarkOf(pendingOp) \o Requested(input)
    BY <1>1, <2>1 DEF Rest
  <2>3. Rest' = <<>> \o (MarkOf(pendingOp) \o Requested(input))
    BY <1>1, <2>1 DEF Rest, Emitted, Requested
  <2>4. MarkOf(pendingOp) \in Seq(Int)
    BY MarkOfType
  <2> QED
    BY <1>1, <1>3, <2>2, <2>3, <2>4, Joined
<1>5. CASE DriveHead
  <2>1. pendingOp = "None" /\ input # <<>> /\ operation' = Head(input).op
    BY <1>5 DEF DriveHead, DriveInput
  <2>2. Head(input) \in UpstreamBuffer /\ Tail(input) \in Seq(UpstreamBuffer)
    BY <1>2, <2>1
  <2> DEFINE f == Head(input).first
             n == Head(input).size
             m == MarkOf(Head(input).op)
             z == Requested(Tail(input))
  <2>3. Rest = <<>> \o Requested(input)
    BY <1>1, <2>1 DEF Rest
  <2>4. Rest' = Run(f + 0, n - 0) \o (m \o z)
    BY <1>1, <2>1 DEF Rest, Emitted, Requested
  <2>5. f \in Nat /\ n \in Nat
    BY <2>2, FilterAssumption DEF UpstreamBuffer
  <2>6. Run(f, n) \in Seq(Int) /\ m \in Seq(Int)
    <3>1. m \in Seq(Int)
      BY MarkOfType
    <3> HIDE DEF f, n, m
    <3>2. Run(f, n) \in Seq(Int)
      BY <2>5, RunFacts
    <3> QED
      BY <3>1, <3>2
  <2>7. z \in Seq(Int) /\ Requested(input) = (Run(f, n) \o m) \o z
    <3>1. Asked[Head(input)] = Run(f, n) \o m
      BY <2>2, RequestedFacts
    <3>2. Requested(input) = Asked[Head(input)] \o z
      BY <1>2, <2>1, RequestedFacts
    <3>3. z \in Seq(Int)
      BY <2>2, RequestedFacts
    <3> QED
      BY <3>1, <3>2, <3>3
  <2> HIDE DEF f, n, m, z
  <2>8. f + 0 = f /\ n - 0 = n
    BY <2>5
  <2> DEFINE q == Run(f, n)
  <2>a. Run(f + 0, n - 0) = q
    BY <2>8
  <2>b. q \in Seq(Int)
    BY <2>6
  <2> HIDE DEF q
  <2>9. /\ Rest = <<>> \o ((q \o m) \o z) /\ Rest' = q \o (m \o z)
        /\ q \in Seq(Int) /\ m \in Seq(Int) /\ z \in Seq(Int)
    <3>1. Requested(input) = (q \o m) \o z
      BY <2>7 DEF q
    <3> QED
      BY <2>3, <2>4, <2>6, <2>7, <2>a, <2>b, <3>1
  <2>10. (q \o m) \o z = q \o (m \o z) /\ q \o m \in Seq(Int) /\ (q \o m) \o z \in Seq(Int)
    BY <2>9, Joined, SMTT(30)
  <2>11. <<>> \o ((q \o m) \o z) = (q \o m) \o z
    BY <2>10, Joined
  <2> QED
    BY <1>1, <2>9, <2>10, <2>11
<1> QED
  BY <1>4, <1>5

\* When a call of drive_input is over, what it has not shown to the codec is pending.
LEMMA AnswerOrder ==
    ASSUME TypeOK, ResumeInv, DP!DriverInv, InputInv, Answered, state = "NeedsInput" => operation = "Continue"
    PROVE  Rest' = Rest /\ pc' # "Drive"
<1>1. /\ pc = "Drive" /\ pc' # "Drive"
  BY DEF Answered, OperationPaused, OperationComplete, HeadPaused, HeadComplete, StreamFinished, ReturnPending
<1>2. /\ input \in Seq(UpstreamBuffer) /\ len \in Nat /\ offset \in 0..len /\ operation \in Operation
  BY FilterAssumption DEF TypeOK, Driver!TypeOK, Driver!Operation, Operation
<1>3. /\ state \in {"NeedsInput", "Flushed", "Finished"} => offset = len
      /\ state = "Finished" => operation = "Finish"
  BY DEF DP!DriverInv, DP!BoundaryHonest
<1>4. pendingOp # "None" => pendingOp = operation /\ len = 0
  BY <1>1 DEF ResumeInv
<1>5. pendingOp = "None" => input # <<>> /\ Head(input).op = operation /\ Head(input).size = len
  BY <1>1 DEF ResumeInv
<1>6. /\ Rest = Left \o (Owed \o Requested(Later))
      /\ Left \in Seq(Int) /\ Owed \in Seq(Int) /\ Requested(Later) \in Seq(Int)
      /\ Later \in Seq(UpstreamBuffer)
      /\ pendingOp = "None" => Head(input) \in UpstreamBuffer
  BY <1>1, RestParts
<1>7. state \in {"NeedsInput", "Flushed", "Finished"} => Owed = <<>>
  BY DEF Owed, Emitted, MarkOf
<1>8. offset = len \/ pendingOp # "None" => Left = <<>>
  <2>1. ASSUME offset = len, pendingOp = "None" PROVE Left = <<>>
    <3>1. Head(input).first \in Nat /\ Head(input).size - offset = 0
      BY <1>2, <1>5, <1>6, <2>1, FilterAssumption, SMTT(30) DEF UpstreamBuffer
    <3>2. Head(input).first + offset \in Int
      BY <1>2, <3>1
    <3> QED
      BY <2>1, <3>1, <3>2, RunEmpty DEF Left
  <2> QED
    BY <2>1 DEF Left
<1>9. Paused => Owed = MarkOf(operation)
  BY DEF Paused, Owed, Emitted
<1>10. /\ pendingOp' = "None" => Rest' = <<>> \o Requested(input')
       /\ pendingOp' # "None" => Rest' = MarkOf(pendingOp') \o Requested(input')
  BY <1>1 DEF Rest, Requested
<1>11. CASE OperationPaused
  <2>1. UNCHANGED <<input, pendingOp>> /\ pendingOp # "None" /\ Paused
    BY <1>11 DEF OperationPaused
  <2>2. Rest' = Owed \o Requested(Later)
    BY <1>4, <1>9, <1>10, <2>1 DEF Later
  <2> QED
    BY <1>1, <1>6, <1>8, <2>1, <2>2, Joined
<1>12. CASE OperationComplete
  <2>1. UNCHANGED input /\ pendingOp # "None" /\ pendingOp' = "None" /\ state \in {"NeedsInput", "Flushed"}
    BY <1>12 DEF OperationComplete
  <2>2. Rest' = <<>> \o Requested(Later) /\ Owed = <<>> /\ Left = <<>>
    BY <1>7, <1>8, <1>10, <2>1 DEF Later
  <2> QED
    BY <1>1, <1>6, <2>2, Joined
<1>13. CASE HeadPaused
  <2>0. pendingOp = "None" /\ Paused
    BY <1>13 DEF HeadPaused
  <2>1. CASE Consumed
    <3>1. input' = Tail(input) /\ pendingOp' = operation /\ offset = len
      BY <1>13, <2>1 DEF HeadPaused, Consumed
    <3>2. operation # "None"
      BY <1>2 DEF Operation
    <3>3. Rest' = Owed \o Requested(Later) /\ Left = <<>>
      BY <1>8, <1>9, <1>10, <2>0, <3>1, <3>2 DEF Later
    <3> QED
      BY <1>1, <1>6, <3>3, Joined
  <2>2. CASE ~Consumed
    <3> DEFINE h == [input[1] EXCEPT !.first = @ + offset, !.size = @ - offset]
    <3>1. /\ input' = [input EXCEPT ![1] = h]
          /\ pendingOp' = "None"
      BY <1>13, <2>2 DEF HeadPaused
    <3>2. /\ input # <<>> /\ input[1] = Head(input) /\ Head(input) \in UpstreamBuffer
          /\ Len(input) \in Nat /\ Tail(input) \in Seq(UpstreamBuffer)
      BY <1>2, <1>5, <1>6, <2>0
    <3>3. h.first = Head(input).first + offset /\ h.size = Head(input).size - offset /\ h.op = operation
      BY <1>5, <2>0, <3>2 DEF UpstreamBuffer
    <3>4. 1 \in DOMAIN input /\ Head(input).first + Head(input).size <= MaxBytes + 1
          /\ offset \in 0..Head(input).size
      BY <1>2, <1>5, <2>0, <3>2 DEF TypeOK
    <3>5. h \in UpstreamBuffer
      BY <3>2, <3>4, RestFacts
    <3> HIDE DEF h
    <3>6. input' = <<h>> \o Tail(input)
      BY <1>2, <3>1, <3>2, <3>5
    <3>7. input' \in Seq(UpstreamBuffer) /\ input' # <<>> /\ Head(input') = h /\ Tail(input') = Tail(input)
      BY <3>2, <3>5, <3>6
    <3>8. Requested(input') = Asked[h] \o Requested(Tail(input))
      BY <3>7, RequestedFacts
    <3>9. Asked[h] = Left \o Owed
      BY <1>9, <2>0, <3>3, <3>5, RequestedFacts DEF Left
    <3> DEFINE z == Requested(Later)
    <3>10. Rest' = <<>> \o ((Left \o Owed) \o z)
      BY <1>10, <2>0, <3>1, <3>8, <3>9 DEF Later
    <3>11. Rest = Left \o (Owed \o z) /\ Left \in Seq(Int) /\ Owed \in Seq(Int) /\ z \in Seq(Int)
      BY <1>6
    <3> HIDE DEF z
    <3>12. /\ (Left \o Owed) \o z = Left \o (Owed \o z)
           /\ Left \o Owed \in Seq(Int) /\ (Left \o Owed) \o z \in Seq(Int)
      BY <3>11, Joined, SMTT(30)
    <3>13. <<>> \o ((Left \o Owed) \o z) = (Left \o Owed) \o z
      BY <3>12, Joined
    <3> QED
      BY <1>1, <3>10, <3>11, <3>12, <3>13
  <2> QED
    BY <2>1, <2>2
<1>14. CASE HeadComplete
  <2>1. pendingOp = "None" /\ pendingOp' = "None" /\ input' = Tail(input) /\ state \in {"NeedsInput", "Flushed"}
    BY <1>14 DEF HeadComplete
  <2>2. Rest' = <<>> \o Requested(Later) /\ Owed = <<>> /\ Left = <<>>
    BY <1>3, <1>7, <1>8, <1>10, <2>1 DEF Later
  <2> QED
    BY <1>1, <1>6, <2>2, Joined
<1>15. CASE StreamFinished
  <2>1. state = "Finished" /\ input' = <<>> /\ pendingOp' = "None"
    BY <1>15 DEF StreamFinished
  <2>2. Later = <<>>
    <3>1. CASE pendingOp # "None"
      BY <1>3, <1>4, <2>1, <3>1 DEF InputInv, Later
    <3>2. CASE pendingOp = "None"
      <4>1. input # <<>> /\ input[1].op = "Finish" /\ BytesIn(accepted) \in Nat
        <5>1. input # <<>> /\ Head(input).op = "Finish"
          BY <1>3, <1>5, <2>1, <3>2
        <5>2. accepted \in Seq(Int) /\ Head(input) = input[1]
          BY <1>2, <5>1 DEF TypeOK
        <5> QED
          BY <5>1, <5>2, BytesInNat
      <4>2. Tail(input) = <<>>
        BY <1>2, <4>1, LeadsTail DEF InputInv
      <4> QED
        BY <3>2, <4>2 DEF Later
    <3> QED
      BY <3>1, <3>2
  <2>3. Rest' = <<>> \o Requested(Later) /\ Owed = <<>> /\ Left = <<>>
    BY <1>3, <1>7, <1>8, <1>10, <2>1, <2>2
  <2> QED
    BY <1>1, <1>6, <2>3, Joined
<1> QED
  BY <1>11, <1>12, <1>13, <1>14, <1>15 DEF Answered

\* One more byte of a buffer goes down.
LEMMA ItemTaken ==
    ASSUME NEW d \in Seq(Int), d # <<>>, NEW mark
    PROVE  /\ Keep[Head(d)] \in Seq(Int) /\ Plain(Tail(d)) \o MarkOf(mark) \in Seq(Int)
           /\ Plain(d) \o MarkOf(mark) = Keep[Head(d)] \o (Plain(Tail(d)) \o MarkOf(mark))
<1> DEFINE x == Keep[Head(d)]
           t == Plain(Tail(d))
           m == MarkOf(mark)
<1>1. x \in Seq(Int) /\ t \in Seq(Int) /\ m \in Seq(Int)
  <2>1. Head(d) \in Int /\ Tail(d) \in Seq(Int)
    OBVIOUS
  <2> QED
    BY <2>1, PlainFacts, KeepType, MarkOfType
<1>2. Plain(d) = x \o t
  BY PlainFacts
<1> HIDE DEF x, t, m
<1>3. (x \o t) \o m = x \o (t \o m) /\ t \o m \in Seq(Int)
  BY <1>1, JoinAssoc, SMTT(30)
<1> QED
  BY <1>1, <1>2, <1>3 DEF x, t, m

\* What a step of the codec says about the boundary it was asked for.
LEMMA StepOutcome ==
    ASSUME TypeOK, PhaseInv, ResumeInv, NEW r \in Driver!Results, DriveStep(r)
    PROVE  LET b == BoundaryOf(Driver!NextOperation, r.state) IN
           /\ pc = "Drive" /\ state = "Running"
           /\ UNCHANGED <<pc, operation, len, held, input, pendingOp, accepted, delivered>>
           /\ r.consumed \in Nat /\ offset + r.consumed <= len /\ offset' = offset + r.consumed
           /\ state' = "NeedsInput" => operation = "Continue"
           /\ b = "None" => state' \notin {"Flushed", "Finished"}
           /\ b # "None" =>
                /\ b = operation /\ offset' = len /\ state' \in {"Flushed", "Finished"}
                /\ backlog' = <<>>
<1> DEFINE op == Driver!NextOperation
           end == Driver!StepEnd
           avail == end - offset
           b == BoundaryOf(op, r.state)
           holds == CodecHolds(op, avail, r.consumed)
<1>1. /\ holds \in Seq(Int) /\ r.consumed \in Nat /\ r.produced \in Nat
  BY StepFacts
<1>2. /\ pc = "Drive" /\ Driver!Step(r) /\ AdapterAnswer(op, avail, r)
      /\ backlog' = SubSeq(holds, r.produced + 1, Len(holds))
      /\ UNCHANGED <<pc, held, input, pendingOp, accepted, delivered>>
  BY DEF DriveStep, connVars, upstreamVars
<1>3. /\ state = "Running" /\ offset' = offset + r.consumed /\ UNCHANGED <<operation, len>>
      /\ ValidProgress(op, avail, Capacity, r)
      /\ state' = Driver!AfterStep(b, r, offset + r.consumed)
  BY <1>2 DEF Driver!Step, Driver!MayStep, Driver!ValidProgress, ValidProgress, Driver!BoundaryOf, BoundaryOf,
       Driver!WithinBuffers, WithinBuffers, Driver!NotPremature, NotPremature, Driver!NotStalled, NotStalled
<1>4. /\ len \in Nat /\ offset \in 0..len /\ operation \in Operation /\ budget.bytes \in Nat
  BY FilterAssumption DEF TypeOK, Driver!TypeOK, Driver!Operation, Operation, Driver!WorkBudget
<1>5. end \in Nat /\ end <= len
  BY <1>4 DEF Driver!StepEnd, Driver!InputLimit, Driver!Available
<1>6. op = IF end = len THEN operation ELSE "Continue"
  BY DEF Driver!NextOperation, Driver!StepOperation
<1> HIDE DEF op, end, holds
<1>7. /\ r.consumed <= avail
      /\ op # "Continue" /\ r.state = "Complete" => r.consumed >= avail
  BY <1>3 DEF ValidProgress, WithinBuffers, NotPremature
<1>8. /\ r.state = "NeedsInput" => op = "Continue"
      /\ r.state = "Complete" => op # "Continue" /\ r.produced = Len(holds)
  BY <1>2 DEF AdapterAnswer, holds
<1>9. offset + r.consumed <= len
  BY <1>1, <1>4, <1>5, <1>7
<1>10. b = IF op # "Continue" /\ r.state = "Complete" THEN op ELSE "None"
  BY DEF BoundaryOf
<1> HIDE DEF b
<1>11. ASSUME b # "None"
       PROVE  /\ b = operation /\ offset' = len /\ state' \in {"Flushed", "Finished"} /\ backlog' = <<>>
  <2>1. op # "Continue" /\ r.state = "Complete" /\ b = op
    BY <1>10, <1>11
  <2>2. end = len /\ op = operation
    BY <1>6, <2>1
  <2>3. offset' = len
    BY <1>1, <1>3, <1>4, <1>7, <2>1, <2>2
  <2>4. state' \in {"Flushed", "Finished"}
    BY <1>3, <1>4, <2>1, <2>2 DEF Driver!AfterStep, Operation
  <2>5. r.produced = Len(holds)
    BY <1>8, <2>1
  <2>6. backlog' = SubSeq(holds, Len(holds) + 1, Len(holds))
    BY <1>2, <2>5
  <2>7. backlog' = <<>>
    BY <1>1, <2>6
  <2> QED
    BY <2>1, <2>2, <2>3, <2>4, <2>7
<1>12. ASSUME b = "None" PROVE state' \notin {"Flushed", "Finished"}
  BY <1>3, <1>12 DEF Driver!AfterStep
<1>13. ASSUME state' = "NeedsInput" PROVE operation = "Continue"
  <2>1. r.state = "NeedsInput" /\ offset + r.consumed = len
    BY <1>3, <1>13 DEF Driver!AfterStep
  <2>2. op = "Continue" /\ end = len
    BY <1>1, <1>4, <1>5, <1>7, <1>8, <2>1
  <2> QED
    BY <1>6, <2>2
<1> QED
  BY <1>1, <1>2, <1>3, <1>9, <1>11, <1>12, <1>13 DEF b, op

\* An iteration of the driver moves items from the head of what is to be shown to the
\* codec to its end, and from the codec's head into a buffer behind those on their way.
LEMMA StepOrder ==
    ASSUME TypeOK, PhaseInv, ResumeInv, CodecInv, Apart, NEW r \in Driver!Results, DriveStep(r),
           TypeOK', ResumeInv'
    PROVE  Inside' = Inside
<1> DEFINE op == Driver!NextOperation
           b == BoundaryOf(op, r.state)
           chunk == Chunk(r.consumed)
           seal == IF Seals(op, Driver!StepEnd - offset, r.consumed) THEN <<Trailer>> ELSE <<>>
<1>1. PICK d \in Seq(Codec) :
        /\ d \o backlog' = (backlog \o chunk) \o seal /\ backlog' \in Seq(Codec)
        /\ buf' = [buf EXCEPT ![Lent] = [data |-> d, mark |-> b]]
        /\ \/ out' = Append(out, Lent)
           \/ out' = out /\ d = <<>> /\ b = "None"
  BY DriveStepItems DEF CodecHolds
<1>2. /\ pc = "Drive" /\ state = "Running"
      /\ UNCHANGED <<pc, operation, len, held, input, pendingOp>>
      /\ r.consumed \in Nat /\ offset + r.consumed <= len /\ offset' = offset + r.consumed
      /\ b = "None" => state' \notin {"Flushed", "Finished"}
      /\ b # "None" =>
           /\ b = operation /\ offset' = len /\ state' \in {"Flushed", "Finished"}
           /\ backlog' = <<>>
  BY StepOutcome
<1> HIDE DEF op, b, chunk, seal
<1>3. /\ Lent \in OutputBufferIds /\ Lent \notin ToSet(held) /\ Lent \notin ToSet(out)
  BY <1>2, LendFacts DEF Apart, DriveStep
<1>4. /\ Codec \subseteq Int /\ d \in Seq(Int) /\ backlog' \in Seq(Int) /\ backlog \in Seq(Int)
  BY <1>1 DEF Codec, Trailer, CodecInv
<1>5. Sent' = Sent \o (Plain(d) \o MarkOf(b))
  <2> DEFINE A == OutputBufferIds \cup {FrameLink}
             links == held \o out
             item == Plain(d) \o MarkOf(b)
  <2>1. /\ held \in Seq(A) /\ out \in Seq(A) /\ pc \in Begin /\ pc' \in Begin /\ Lent \in A
        /\ buf \in Buffers /\ buf' \in Buffers
    <3>1. pc \in Begin /\ pc' \in Begin
      BY <1>2 DEF Begin
    <3>2. held \in Seq(A) /\ out \in Seq(OutputBufferIds) /\ buf \in Buffers
      BY DEF TypeOK, Buffers
    <3>3. buf' \in Buffers
      BY DEF TypeOK, Buffers
    <3> QED
      BY <1>3, <3>1, <3>2, <3>3
  <2>2. Sent = Content(buf, links) /\ Sent' = Content(buf', held \o out')
    BY <1>2, <2>1 DEF Sent, Unsent, Content, Items, LinkData, LinkMark
  <2>3. links \in Seq(A) /\ Lent \notin ToSet(links)
    BY <1>3, <2>1 DEF ToSet
  <2>4. \A l \in OutputBufferIds : l \in ToSet(links) => buf'[l] = buf[l]
    BY <1>1, <2>1, <2>3 DEF Buffers
  <2>5. Content(buf', links) = Content(buf, links)
    BY <2>1, <2>3, <2>4, ContentSame
  <2>6. CASE out' = Append(out, Lent)
    <3>1. held \o out' = links \o <<Lent>> /\ <<Lent>> \in Seq(A)
      BY <2>1, <2>6
    <3>2. Content(buf', links \o <<Lent>>) = Content(buf', links) \o Content(buf', <<Lent>>)
      BY <2>1, <2>3, <3>1, ContentFacts
    <3>3. Content(buf', <<Lent>>) = Items(buf')[Lent]
      BY <2>1, ContentFacts
    <3>4. buf'[Lent].data = d /\ buf'[Lent].mark = b /\ Lent # FrameLink
      BY <1>1, <1>3, <2>1, OwnLinksType DEF Buffers
    <3>5. Items(buf')[Lent] = item
      BY <2>1, <3>4 DEF Items, LinkData, LinkMark
    <3> QED
      BY <2>2, <2>5, <3>1, <3>2, <3>3, <3>5
  <2>7. CASE out' = out /\ d = <<>> /\ b = "None"
    <3>1. item = <<>>
      BY <2>7, PlainFacts, Joined DEF MarkOf
    <3>2. Content(buf, links) \in Seq(Int)
      BY <2>1, <2>3, ContentFacts
    <3>3. Content(buf, links) \o <<>> = Content(buf, links)
      BY <3>2, Joined
    <3> QED
      BY <2>2, <2>5, <2>7, <3>1, <3>3
  <2> QED
    BY <1>1, <2>6, <2>7
<1>6. /\ Rest = Left \o (Owed \o Requested(Later)) /\ Left \in Seq(Int)
      /\ Owed \in Seq(Int) /\ Requested(Later) \in Seq(Int)
      /\ pendingOp = "None" => input # <<>> /\ Head(input) \in UpstreamBuffer
  BY <1>2, RestParts
<1>7. len \in Nat /\ offset \in 0..len
  BY FilterAssumption DEF TypeOK, Driver!TypeOK
<1>8. chunk \in Seq(Int) /\ Plain(chunk) = chunk /\ Left = chunk \o Left' /\ Left' \in Seq(Int)
  <2>1. CASE pendingOp = "None"
    <3> DEFINE f == Head(input).first + offset
               n == Head(input).size - offset
               c == r.consumed
    <3>1. Head(input).size = len /\ Head(input).first \in Nat \ {0}
      BY <1>2, <1>6, <2>1, FilterAssumption DEF ResumeInv, UpstreamBuffer
    <3>2. /\ f \in Nat \ {0} /\ f \in Int /\ n \in Nat /\ c \in 0..n /\ c \in Nat /\ n - c \in Nat /\ f + c \in Int
          /\ f + c = Head(input).first + (offset + c) /\ n - c = Head(input).size - (offset + c)
      <4> DEFINE g == Head(input).first
                 k == Head(input).size
      <4>1. g \in Nat \ {0} /\ k = len
        BY <3>1
      <4>2. f = g + offset /\ n = k - offset /\ c \in Nat /\ offset + c <= len
        BY <1>2
      <4> HIDE DEF g, k, f, n, c
      <4>3. f \in Nat \ {0} /\ n \in Nat /\ c \in 0..n /\ n - c \in Nat /\ f + c \in Int
        BY <1>7, <4>1, <4>2
      <4>4. f + c = g + (offset + c) /\ n - c = k - (offset + c)
        BY <1>7, <4>1, <4>2
      <4> QED
        BY <4>2, <4>3, <4>4 DEF g, k, c
    <3>3. Left = Run(f, n) /\ chunk = Run(f, c) /\ Left' = Run(f + c, n - c)
      BY <1>2, <2>1, <3>2 DEF Left, chunk, Chunk
    <3> HIDE DEF f, n, c
    <3>4. Run(f, n) = Run(f, c) \o Run(f + c, n - c)
      BY <3>2, RunSplit
    <3>5. Plain(Run(f, c)) = Run(f, c)
      BY <3>2, PlainRun
    <3>6. Run(f, c) \in Seq(Int) /\ Run(f + c, n - c) \in Seq(Int)
      BY <3>2, RunFacts
    <3> QED
      BY <3>3, <3>4, <3>5, <3>6
  <2>2. CASE pendingOp # "None"
    <3>1. chunk = <<>> /\ Left = <<>> /\ Left' = <<>>
      BY <1>2, <2>2 DEF chunk, Chunk, Left
    <3> QED
      BY <3>1, PlainFacts, Joined
  <2> QED
    BY <2>1, <2>2
<1>9. Plain(d) \o Plain(backlog') = Plain(backlog) \o chunk
  <2>1. seal \in Seq(Int) /\ Plain(seal) = <<>>
    BY PlainFacts, Joined DEF seal, Trailer
  <2>2. backlog \o chunk \in Seq(Int)
    BY <1>4, <1>8, JoinAssoc
  <2>3. Plain((backlog \o chunk) \o seal) = Plain(backlog \o chunk) \o Plain(seal)
    BY <2>1, <2>2, PlainFacts
  <2>4. Plain(backlog \o chunk) = Plain(backlog) \o Plain(chunk)
    BY <1>4, <1>8, PlainFacts
  <2>5. Plain(d \o backlog') = Plain(d) \o Plain(backlog')
    BY <1>4, PlainFacts
  <2>6. Plain(backlog \o chunk) \in Seq(Int)
    BY <2>2, PlainFacts
  <2>7. Plain(backlog \o chunk) \o <<>> = Plain(backlog \o chunk)
    BY <2>6, JoinAssoc
  <2> QED
    BY <1>1, <1>8, <2>1, <2>3, <2>4, <2>5, <2>7
<1>10. Rest' = Left' \o (Owed' \o Requested(Later))
  BY <1>2 DEF Rest, Left, Owed, Later, Emitted, Requested
<1>11. \/ MarkOf(b) = <<>> /\ Owed' = Owed
       \/ MarkOf(b) = Owed /\ Owed' = <<>> /\ Left' = <<>> /\ Plain(backlog') = <<>>
  <2>1. CASE b = "None"
    BY <1>2, <2>1 DEF Owed, Emitted, MarkOf
  <2>2. CASE b # "None"
    <3>1. MarkOf(b) = Owed /\ Owed' = <<>>
      BY <1>2, <2>2 DEF Owed, Emitted
    <3>2. Plain(backlog') = <<>>
      BY <1>2, <2>2, PlainFacts
    <3>3. Left' = <<>>
      <4>1. CASE pendingOp = "None"
        <5>1. Head(input).size = len /\ Head(input).first \in Nat
          BY <1>2, <1>6, <4>1, FilterAssumption DEF ResumeInv, UpstreamBuffer
        <5>2. Left' = Run(Head(input).first + len, len - len)
          BY <1>2, <2>2, <4>1, <5>1 DEF Left
        <5>3. len - len = 0 /\ Head(input).first + len \in Int
          BY <1>7, <5>1
        <5> QED
          BY <5>2, <5>3, RunEmpty
      <4>2. CASE pendingOp # "None"
        BY <1>2, <4>2 DEF Left
      <4> QED
        BY <4>1, <4>2
    <3> QED
      BY <3>1, <3>2, <3>3
  <2> QED
    BY <2>1, <2>2
<1>12. Sent \in Seq(Int) /\ Plain(d) \in Seq(Int) /\ Plain(backlog) \in Seq(Int) /\ Plain(backlog') \in Seq(Int)
  BY <1>4, InsideTypes, PlainFacts
<1> DEFINE s == Sent
           p == Plain(d)
           e == Plain(backlog')
           q == Plain(backlog)
           l == Left'
           o == Owed
           w == Owed'
           z == Requested(Later)
           m == MarkOf(b)
<1>13. /\ Inside = s \o (q \o ((chunk \o l) \o (o \o z)))
       /\ Inside' = (s \o (p \o m)) \o (e \o (l \o (w \o z)))
  BY <1>5, <1>6, <1>8, <1>10 DEF Inside, Plain
<1>14. /\ s \in Seq(Int) /\ p \in Seq(Int) /\ q \in Seq(Int) /\ e \in Seq(Int)
       /\ chunk \in Seq(Int) /\ l \in Seq(Int) /\ o \in Seq(Int) /\ z \in Seq(Int)
       /\ p \o e = q \o chunk
       /\ \/ m = <<>> /\ w = o
          \/ m = o /\ w = <<>> /\ l = <<>> /\ e = <<>>
  BY <1>6, <1>8, <1>9, <1>11, <1>12
<1> HIDE DEF s, p, e, q, l, o, w, z, m
<1> DEFINE t == o \o z
           u == l \o t
           v == e \o u
           x == p \o o
<1>s. s \in Seq(Int)
  BY <1>14
<1>p. p \in Seq(Int)
  BY <1>14
<1>q. q \in Seq(Int)
  BY <1>14
<1>e. e \in Seq(Int)
  BY <1>14
<1>c. chunk \in Seq(Int)
  BY <1>14
<1>l. l \in Seq(Int)
  BY <1>14
<1>o. o \in Seq(Int)
  BY <1>14
<1>z. z \in Seq(Int)
  BY <1>14
<1>t. t \in Seq(Int)
  BY <1>o, <1>z, JoinAssoc
<1> HIDE DEF t
<1>u. u \in Seq(Int)
  BY <1>l, <1>t, JoinAssoc
<1> HIDE DEF u
<1>v. v \in Seq(Int)
  BY <1>e, <1>u, JoinAssoc
<1>x. x \in Seq(Int)
  BY <1>p, <1>o, JoinAssoc
<1> HIDE DEF v, x
<1>15. CASE m = <<>> /\ w = o
  <2>1. (s \o (p \o m)) \o (e \o (l \o (w \o z))) = (s \o p) \o v
    <3>1. p \o <<>> = p
      BY <1>p, JoinAssoc
    <3> QED
      BY <1>15, <3>1 DEF t, u, v
  <2>2. (s \o p) \o v = s \o (p \o v)
    BY <1>s, <1>p, <1>v, JoinAssoc, SMTT(30)
  <2>3. p \o v = (p \o e) \o u
    BY <1>p, <1>e, <1>u, JoinAssoc, SMTT(30) DEF v
  <2>4. (q \o chunk) \o u = q \o (chunk \o u)
    BY <1>q, <1>c, <1>u, JoinAssoc
  <2>5. (chunk \o l) \o t = chunk \o u
    BY <1>c, <1>l, <1>t, JoinAssoc, SMTT(30) DEF u
  <2>6. p \o e = q \o chunk
    BY <1>14
  <2> QED
    BY <1>13, <2>1, <2>2, <2>3, <2>4, <2>5, <2>6 DEF t
<1>16. CASE m = o /\ w = <<>> /\ l = <<>> /\ e = <<>>
  <2>1. (s \o (p \o m)) \o (e \o (l \o (w \o z))) = (s \o x) \o z
    <3>1. <<>> \o z = z
      BY <1>z, JoinAssoc
    <3> QED
      BY <1>16, <3>1 DEF x
  <2>2. (s \o x) \o z = s \o (x \o z)
    BY <1>s, <1>x, <1>z, JoinAssoc, SMTT(30)
  <2>3. x \o z = p \o t
    BY <1>p, <1>o, <1>z, JoinAssoc, SMTT(30) DEF x, t
  <2>4. p = q \o chunk
    <3>1. p \o e = q \o chunk
      BY <1>14
    <3>2. p \o <<>> = p
      BY <1>p, JoinAssoc
    <3> QED
      BY <1>16, <3>1, <3>2
  <2>5. (q \o chunk) \o t = q \o (chunk \o t)
    BY <1>q, <1>c, <1>t, JoinAssoc
  <2>6. chunk \o l = chunk
    <3>1. chunk \o <<>> = chunk
      BY <1>c, JoinAssoc
    <3> QED
      BY <1>16, <3>1
  <2> QED
    BY <1>13, <2>1, <2>2, <2>3, <2>4, <2>5, <2>6 DEF t
<1> QED
  BY <1>14, <1>15, <1>16

\* What another filter adds behind a batch is not part of the stream.
LEMMA LinksContent ==
    ASSUME TypeOK, NEW chain \in Seq(OutputBufferIds)
    PROVE  Content(buf, Links(chain)) = Content(buf, held \o chain)
<1> DEFINE A == OutputBufferIds \cup {FrameLink}
           s == held \o chain
           f == IF request.framing /\ \E i \in DOMAIN chain : buf[chain[i]].data # <<>>
                THEN <<FrameLink>> ELSE <<>>
<1>1. held \in Seq(A) /\ chain \in Seq(A) /\ buf \in Buffers
  BY DEF TypeOK, Buffers
<1>2. s \in Seq(A)
  BY <1>1, ConcatProperties
<1>3. f \in Seq(A) /\ (f = <<>> \/ f = <<FrameLink>>)
  <2>1. f = <<>> \/ f = <<FrameLink>>
    OBVIOUS
  <2> HIDE DEF f
  <2>2. <<>> \in Seq(A) /\ <<FrameLink>> \in Seq(A)
    OBVIOUS
  <2> QED
    BY <2>1, <2>2
<1>4. Links(chain) = s \o f
  BY DEF Links
<1> HIDE DEF s, f
<1>5. Content(buf, s \o f) = Content(buf, s) \o Content(buf, f)
  BY <1>1, <1>2, <1>3, ContentFacts
<1>6. Content(buf, f) = <<>>
  BY <1>1, <1>3, ContentFacts
<1>7. Content(buf, s) \in Seq(Int)
  BY <1>1, <1>2, ContentFacts
<1>8. Content(buf, s) \o <<>> = Content(buf, s)
  BY <1>7, JoinAssoc, Joined
<1> QED
  BY <1>4, <1>5, <1>6, <1>8 DEF s

\* Handing a batch over changes nothing about what is inside.
LEMMA HandOrder ==
    ASSUME TypeOK, Apart, Hand
    PROVE  /\ Sent' = Sent /\ Rest' = Rest /\ pc' # "Drive"
           /\ UNCHANGED <<accepted, delivered, backlog>>
<1>1. /\ pc \in {"Submit", "Bypass"} /\ pc' \in {"Idle", "Write", "WriteRaw", "Absorb", "WriterError"}
      /\ UNCHANGED <<input, pendingOp, accepted, delivered, backlog, buf>>
  BY DEF Hand, NothingToSubmit, Submit, SubmitPostponed, BypassContext, Prepare, PreparedVars, CallDownstream,
       UpdateChains, chainVars, ctxVars, upstreamVars, codecVars
<1>2. Rest' = Rest
  BY <1>1 DEF Rest, Requested
<1>3. pc' \notin Begin
  BY <1>1 DEF Begin
<1>4. held \in Seq(OutputBufferIds \cup {FrameLink}) /\ out \in Seq(OutputBufferIds)
  BY DEF TypeOK
<1>5. held \o <<>> = held
  BY <1>4, ConcatEmptySeq
<1>6. Sent' = Content(buf, held')
  BY <1>1, <1>3 DEF Sent, Unsent, Content, Items, LinkData, LinkMark
<1>7. CASE NothingToSubmit
  <2>1. pc = "Submit" /\ out = <<>> /\ held' = held
    BY <1>7 DEF NothingToSubmit, Prepare
  <2>2. Unsent = held'
    BY <1>5, <2>1 DEF Unsent
  <2> QED
    BY <1>1, <1>2, <1>6, <2>2 DEF Sent
<1>8. CASE Submit \/ SubmitPostponed
  <2>1. pc = "Submit" /\ held' = Links(out)
    BY <1>8 DEF Submit, SubmitPostponed, Prepare, CallDownstream
  <2>2. Unsent = held \o out
    BY <2>1 DEF Unsent, Begin
  <2> QED
    BY <1>1, <1>2, <1>4, <1>6, <2>1, <2>2, LinksContent DEF Sent
<1>9. CASE BypassContext
  <2>1. pc = "Bypass" /\ held' = Links(<<>>)
    BY <1>9 DEF BypassContext, CallDownstream
  <2>2. Unsent = held
    BY <2>1 DEF Unsent, Begin
  <2>3. <<>> \in Seq(OutputBufferIds)
    OBVIOUS
  <2>4. Content(buf, Links(<<>>)) = Content(buf, held \o <<>>)
    BY <2>3, LinksContent
  <2> QED
    BY <1>1, <1>2, <1>5, <1>6, <2>1, <2>2, <2>4 DEF Sent
<1> QED
  BY <1>7, <1>8, <1>9 DEF Hand

\* What the write filter takes is the head of what is inside.
LEMMA WriteOrder ==
    ASSUME TypeOK, CodecInv, Apart, WriteByte \/ DropLink
    PROVE  /\ \E x \in Seq(Int) : delivered' = delivered \o x /\ Sent = x \o Sent'
           /\ Rest' = Rest /\ pc' = pc /\ pc # "Drive"
           /\ UNCHANGED <<accepted, backlog>>
<1> DEFINE A == OutputBufferIds \cup {FrameLink}
<1>1. /\ pc \in {"Write", "WriteRaw", "Absorb"} /\ pc' = pc
      /\ held # <<>> /\ UNCHANGED <<input, pendingOp, accepted, backlog>>
  BY DEF WriteByte, DropLink, Writing, ctxVars, upstreamVars, codecVars
<1>2. Rest' = Rest
  BY <1>1 DEF Rest, Requested
<1>3. held \in Seq(A) /\ buf \in Buffers /\ delivered \in Seq(Int)
  BY DEF TypeOK, Buffers
<1>4. Head(held) \in A /\ Tail(held) \in Seq(A)
  BY <1>1, <1>3
<1>5. Sent = Content(buf, held) /\ Sent' = Content(buf', held')
  BY <1>1 DEF Sent, Unsent, Begin, Content, Items, LinkData, LinkMark
<1> DEFINE z == Content(buf, Tail(held))
<1>6. Sent = Items(buf)[Head(held)] \o z /\ z \in Seq(Int) /\ Items(buf)[Head(held)] \in Seq(Int)
  BY <1>1, <1>3, <1>4, <1>5, ContentFacts, ItemsType
<1>7. Items(buf)[Head(held)] = Plain(LinkData(buf, Head(held))) \o MarkOf(LinkMark(buf, Head(held)))
  BY <1>3, <1>4, ItemsType
<1>8. CASE DropLink
  <2> DEFINE x == MarkOf(LinkMark(buf, Head(held)))
  <2>1. /\ LinkData(buf, Head(held)) = <<>> /\ delivered' = delivered \o x
        /\ held' = Tail(held) /\ buf' = buf
    BY <1>8 DEF DropLink, HeadData, chainVars
  <2>2. x \in Seq(Int)
    BY MarkOfType
  <2>3. Items(buf)[Head(held)] = <<>> \o x
    BY <1>7, <2>1, PlainFacts
  <2> HIDE DEF x
  <2>4. <<>> \o x = x
    BY <2>2, Joined
  <2>5. Sent = x \o Sent'
    BY <1>5, <1>6, <2>1, <2>3, <2>4
  <2> QED
    BY <1>1, <1>2, <2>1, <2>2, <2>5
<1>9. CASE WriteByte
  <2>1. CASE Head(held) = FrameLink /\ UNCHANGED <<buf, written, delivered>> /\ held' = Tail(held)
    <3>1. Items(buf)[Head(held)] = <<>>
      BY <2>1, FrameItems
    <3>2. Sent = <<>> \o Sent' /\ delivered' = delivered
      BY <1>5, <1>6, <2>1, <3>1
    <3>3. delivered \o <<>> = delivered /\ <<>> \in Seq(Int)
      BY <1>3, Joined
    <3> QED
      BY <1>1, <1>2, <3>2, <3>3
  <2>2. CASE \E b \in OutputBufferIds :
               /\ b = Head(held) /\ buf[b].data # <<>> /\ UNCHANGED held
               /\ buf' = [buf EXCEPT ![b] = [data |-> Tail(buf[b].data), mark |-> buf[b].mark]]
               /\ written' = written + 1
               /\ delivered' = IF Head(buf[b].data) > 0 THEN Append(delivered, Head(buf[b].data))
                               ELSE delivered
    <3>1. PICK b \in OutputBufferIds :
               /\ b = Head(held) /\ buf[b].data # <<>> /\ UNCHANGED held
               /\ buf' = [buf EXCEPT ![b] = [data |-> Tail(buf[b].data), mark |-> buf[b].mark]]
               /\ delivered' = IF Head(buf[b].data) > 0 THEN Append(delivered, Head(buf[b].data))
                               ELSE delivered
      BY <2>2
    <3> DEFINE d == buf[b].data
               m == MarkOf(buf[b].mark)
               x == Keep[Head(d)]
               y == Plain(Tail(d)) \o m
    <3>2. b # FrameLink /\ d \in Seq(Int) /\ d # <<>> /\ Head(d) \in Int /\ Tail(d) \in Seq(Int)
      BY <1>3, <3>1, OwnLinksType DEF Buffers
    <3>3. Items(buf)[b] = Plain(d) \o m
      BY <1>7, <3>1, <3>2 DEF LinkData, LinkMark
    <3>4. x \in Seq(Int) /\ y \in Seq(Int) /\ Plain(d) \o m = x \o y
      BY <3>2, ItemTaken
    <3>5. /\ buf'[b].data = Tail(d) /\ buf'[b].mark = buf[b].mark
          /\ \A l \in OutputBufferIds : l # b => buf'[l] = buf[l]
          /\ buf' \in Buffers
      <4>1. buf[b] \in [data : Seq(Int), mark : OutputBoundary]
        BY <1>3 DEF Buffers
      <4>2. [data |-> Tail(d), mark |-> buf[b].mark] \in [data : Seq(Int), mark : OutputBoundary]
        BY <3>2, <4>1
      <4> QED
        BY <1>3, <3>1, <4>2 DEF Buffers
    <3>6. Items(buf')[b] = y
      BY <3>2, <3>5 DEF Items, LinkData, LinkMark
    <3>7. Content(buf', Tail(held)) = z
      <4>1. b \notin ToSet(Tail(held))
        BY <1>1, <1>3, <3>1, <3>2, DistinctTail DEF Apart
      <4>2. \A l \in OutputBufferIds : l \in ToSet(Tail(held)) => buf'[l] = buf[l]
        BY <3>5, <4>1
      <4> QED
        BY <1>3, <1>4, <4>2, ContentSame
    <3>8. Sent' = y \o z
      <4>1. Content(buf', held) = Items(buf')[Head(held)] \o Content(buf', Tail(held))
        BY <1>1, <1>3, <3>5, ContentFacts
      <4> QED
        BY <1>5, <3>1, <3>6, <3>7, <4>1
    <3>9. Sent = (x \o y) \o z
      BY <1>6, <3>1, <3>3, <3>4
    <3>10. delivered' = delivered \o x
      <4>1. CASE Head(d) > 0
        <5>1. x = <<Head(d)>>
          BY <3>2, <4>1 DEF Keep
        <5>2. delivered' = Append(delivered, Head(d))
          BY <3>1, <4>1
        <5>3. Append(delivered, Head(d)) = delivered \o <<Head(d)>>
          BY <1>3, <3>2, AppendIsConcat
        <5> QED
          BY <5>1, <5>2, <5>3
      <4>2. CASE ~(Head(d) > 0)
        <5>1. x = <<>>
          BY <3>2, <4>2 DEF Keep
        <5>2. delivered' = delivered
          BY <3>1, <4>2
        <5>3. delivered \o <<>> = delivered
          BY <1>3, JoinAssoc, Joined
        <5> QED
          BY <5>1, <5>2, <5>3
      <4> QED
        BY <4>1, <4>2
    <3>11. x \in Seq(Int)
      BY <3>4
    <3>12. y \in Seq(Int)
      BY <3>4
    <3>13. z \in Seq(Int)
      BY <1>6
    <3> HIDE DEF d, m, x, y, z, A
    <3>14. (x \o y) \o z = x \o (y \o z)
      BY <3>11, <3>12, <3>13, JoinAssoc
    <3> QED
      BY <1>1, <1>2, <3>8, <3>9, <3>10, <3>11, <3>14
  <2> QED
    BY <1>9, <2>1, <2>2, WriteByteFacts
<1> QED
  BY <1>8, <1>9

\* Upstream or a write event enters the callback: nothing waits to be handed over then.
LEMMA EnterOrder ==
    ASSUME TypeOK, Apart, Upstream \/ PostedWriteEvent \/ SocketWriteEvent
    PROVE  /\ Sent' = Sent /\ pc' \notin {"Drive", "Failed", "WriterError"}
           /\ UNCHANGED <<delivered, backlog>>
           /\ ~Upstream => Rest' = Rest /\ UNCHANGED accepted
<1>1. /\ pc = "Idle" /\ pc' \in {"Idle", "Bypass", "Compress"}
      /\ UNCHANGED <<held, out, buf, pendingOp, delivered, backlog>>
  BY EntryFacts DEF chainVars, codecVars
<1>2. out = <<>> /\ held \in Seq(OutputBufferIds \cup {FrameLink})
  BY <1>1 DEF Apart, TypeOK
<1>3. held \o <<>> = held
  BY <1>2, ConcatEmptySeq
<1>4. Unsent = held /\ Unsent' = held
  BY <1>1, <1>2, <1>3 DEF Unsent, Begin
<1>5. Sent' = Sent
  BY <1>1, <1>4 DEF Sent, Content, Items, LinkData, LinkMark
<1>6. ASSUME ~Upstream PROVE Rest' = Rest /\ UNCHANGED accepted
  <2>1. UNCHANGED <<input, accepted>>
    <3>1. ReenterIfBuffered /\ UNCHANGED upstreamVars
      BY <1>6 DEF PostedWriteEvent, SocketWriteEvent
    <3>2. EnterFilter(input) \/ UNCHANGED input
      <4>1. CASE TRUE \in {gzipBit, writeBit, tlsBit}
        BY <3>1, <4>1, Zenon DEF ReenterIfBuffered
      <4>2. CASE TRUE \notin {gzipBit, writeBit, tlsBit}
        <5>1. UNCHANGED <<pc, input>>
          BY <3>1, <4>2, Zenon DEF ReenterIfBuffered
        <5> QED
          BY <5>1
      <4> QED
        BY <4>1, <4>2, Zenon
    <3>3. UNCHANGED input
      BY <3>2 DEF EnterFilter
    <3> QED
      BY <3>1, <3>3 DEF upstreamVars
  <2> QED
    BY <1>1, <2>1 DEF Rest, Requested
<1> QED
  BY <1>1, <1>5, <1>6

\* compress without a call of the codec hands nothing over and takes nothing in.
LEMMA CompressOrder ==
    ASSUME TypeOK, Compress, ~\E r \in Driver!Results : DriveStep(r)
    PROVE  Sent' = Sent /\ UNCHANGED <<accepted, delivered, backlog>>
<1>1. UNCHANGED <<held, buf, out, accepted, delivered, backlog>>
  BY DEF Compress, ResumeOperation, DriveHead, DriveInput, InputExhausted, OperationPaused, HeadPaused,
       StreamFinished, OperationComplete, HeadComplete, DriveExhaust, BuffersExhausted, chainVars, connVars,
       codecVars, upstreamVars
<1>2. pc \in Begin /\ pc' \in Begin
  BY ReturnFacts DEF Compress, ResumeOperation, DriveHead, DriveInput, InputExhausted, OperationPaused,
       HeadPaused, StreamFinished, OperationComplete, HeadComplete, DriveExhaust, BuffersExhausted, Begin
<1>3. Unsent' = Unsent
  BY <1>1, <1>2 DEF Unsent
<1> QED
  BY <1>1, <1>3 DEF Sent, Content, Items, LinkData, LinkMark

\* Nor do the ends of the loop that call no codec, and the end of the pending input.
LEMMA StopOrder ==
    ASSUME TypeOK, InputExhausted \/ DriveExhaust \/ BuffersExhausted
    PROVE  /\ Rest' = Rest
           /\ pc' = "Drive" => state' \in {"BudgetExhausted", "OutputFailed"}
<1>1. CASE InputExhausted
  <2>1. pc = "Compress" /\ pc' = "Submit" /\ UNCHANGED <<input, pendingOp>>
    BY <1>1 DEF InputExhausted, ReturnPending
  <2> QED
    BY <2>1 DEF Rest, Requested
<1>2. CASE DriveExhaust \/ BuffersExhausted
  <2>1. /\ pc = "Drive" /\ pc' = "Drive" /\ UNCHANGED <<input, pendingOp, operation, offset>>
        /\ state = "Running" /\ state' \in {"BudgetExhausted", "OutputFailed"}
    BY <1>2 DEF DriveExhaust, BuffersExhausted, Driver!Exhaust, Driver!OutputFailure, Driver!MayStep, ctxVars
  <2>2. ~Emitted /\ ~Emitted'
    BY <2>1 DEF Emitted
  <2> QED
    BY <2>1, <2>2 DEF Rest, Requested
<1> QED
  BY <1>1, <1>2

\* The next filter returns.
LEMMA ReturnOrder ==
    ASSUME TypeOK, WriteComplete \/ WriteBlocked \/ WriteAbsorbed
    PROVE  /\ Sent' = Sent /\ Rest' = Rest /\ pc' # "Drive"
           /\ UNCHANGED <<accepted, delivered, backlog>>
<1>1. /\ pc \in {"Write", "WriteRaw", "Absorb"} /\ pc' = "Idle"
      /\ UNCHANGED <<held, buf, input, pendingOp, accepted, delivered, backlog>>
  BY DEF WriteComplete, WriteBlocked, WriteAbsorbed, DownstreamReturns, UpdateChains, chainVars, ctxVars, codecVars,
       upstreamVars
<1>2. Unsent = held /\ Unsent' = held
  BY <1>1 DEF Unsent, Begin
<1>3. Sent' = Sent
  BY <1>1, <1>2 DEF Sent, Content, Items, LinkData, LinkMark
<1> QED
  BY <1>1, <1>3 DEF Rest, Requested

\* What is on its way is a stream after a step too.
SentTyped == Sent \in Seq(Int)

LEMMA SentTypeNext == TypeOK' => SentTyped'
<1>1. TypeOK => SentTyped
  <2> SUFFICES ASSUME TypeOK PROVE Sent \in Seq(Int)
    BY DEF SentTyped
  <2> DEFINE A == OutputBufferIds \cup {FrameLink}
  <2>1. held \in Seq(A) /\ out \in Seq(A) /\ buf \in Buffers
    BY DEF TypeOK, Buffers
  <2> HIDE DEF A
  <2>2. Unsent \in Seq(A)
    BY <2>1, ConcatProperties DEF Unsent
  <2> QED
    BY <2>1, <2>2, ContentFacts DEF Sent, A
<1> QED
  BY <1>1, PTL

\* Every step but a failure adds to the end of what upstream handed over and of what is
\* inside, or takes from the head of what is inside and adds it to what went down.
LEMMA OrderMoves ==
    ASSUME FilterInv, FilterInv', ~FlushIsFramed, StreamInv, Next
    PROVE  /\ pc \notin {"Failed", "WriterError"}
           /\ \/ pc' = "Failed" /\ UNCHANGED <<accepted, delivered>>
              \/ /\ ~Ended /\ UNCHANGED delivered
                 /\ \E x \in Seq(Int) : accepted' = accepted \o x /\ Inside' = Inside \o x
              \/ /\ UNCHANGED accepted
                 /\ \E x \in Seq(Int) : delivered' = delivered \o x /\ Inside = x \o Inside'
           /\ pc' \in {"Failed", "WriterError"} => UNCHANGED <<accepted, delivered>>
           /\ pc' = "Drive" =>
                /\ state' = "NeedsInput" => operation' = "Continue"
                /\ Emitted' => backlog' = <<>>
<1>1. /\ TypeOK /\ PhaseInv /\ ResumeInv /\ DP!DriverInv /\ EndInv /\ InputInv /\ CodecInv /\ Apart
      /\ TypeOK' /\ ResumeInv'
  BY ApartHolds DEF FilterInv, BytesInv, IndInv
<1>2. /\ Sent \in Seq(Int) /\ Plain(backlog) \in Seq(Int) /\ Rest \in Seq(Int) /\ Inside \in Seq(Int)
      /\ delivered \in Seq(Int)
  BY <1>1, InsideTypes
<1>3. pc \notin {"Failed", "WriterError"}
  <2>1. CASE Upstream \/ PostedWriteEvent \/ SocketWriteEvent
    BY <1>1, <2>1, EntryFacts
  <2>2. CASE Callback \/ Fails
    BY <2>2 DEF Callback, Fails, Compress, Hand, Write, ResumeOperation, DriveHead, InputExhausted, DriveStep,
         DriveExhaust, BuffersExhausted, OperationPaused, OperationComplete, HeadPaused, HeadComplete, StreamFinished,
         NothingToSubmit, Submit, SubmitPostponed, Prepare, BypassContext, WriteByte, DropLink, Writing, WriteComplete,
         WriteBlocked, WriteAbsorbed, CompressionFails, WriteFails
  <2> QED
    BY <2>1, <2>2 DEF Next
<1>4. ASSUME Inside' = Inside, UNCHANGED <<accepted, delivered>>
      PROVE  \E x \in Seq(Int) : delivered' = delivered \o x /\ Inside = x \o Inside'
  <2>1. delivered \o <<>> = delivered /\ <<>> \o Inside = Inside /\ <<>> \in Seq(Int)
    BY <1>2, Joined
  <2> QED
    BY <1>4, <2>1
<1>5. ASSUME Sent' = Sent, Rest' = Rest, UNCHANGED backlog PROVE Inside' = Inside
  BY <1>5 DEF Inside, Plain
<1>6. CASE Upstream
  <2>1. /\ Sent' = Sent /\ pc' # "Drive" /\ UNCHANGED <<delivered, backlog>>
        /\ pc' \notin {"Failed", "WriterError"}
    BY <1>1, <1>6, EnterOrder
  <2>2. PICK x \in Seq(Int) : accepted' = accepted \o x /\ Rest' = Rest \o x
    BY <1>1, <1>6, ArrivalOrder
  <2>3. ~Ended
    BY <1>6 DEF Upstream, UpstreamData
  <2> DEFINE s == Sent
             q == Plain(backlog)
             z == Rest
  <2>4. Inside = s \o (q \o z) /\ Inside' = s \o (q \o (z \o x))
    BY <2>1, <2>2 DEF Inside, Plain
  <2>5. s \in Seq(Int) /\ q \in Seq(Int) /\ z \in Seq(Int)
    BY <1>2
  <2> HIDE DEF s, q, z
  <2>6. (q \o z) \o x = q \o (z \o x) /\ q \o z \in Seq(Int)
    BY <2>5, JoinAssoc
  <2> DEFINE t == q \o z
  <2>7. t \in Seq(Int)
    BY <2>6
  <2> HIDE DEF t
  <2>8. (s \o t) \o x = s \o (t \o x)
    BY <2>5, <2>7, JoinAssoc, SMTT(30)
  <2>9. Inside' = Inside \o x
    BY <2>4, <2>6, <2>8 DEF t
  <2> QED
    BY <1>3, <2>1, <2>2, <2>3, <2>9
<1>7. CASE ~Upstream /\ (PostedWriteEvent \/ SocketWriteEvent)
  <2>1. /\ Sent' = Sent /\ pc' # "Drive" /\ UNCHANGED <<delivered, backlog, accepted>> /\ Rest' = Rest
    BY <1>1, <1>7, EnterOrder
  <2> QED
    BY <1>3, <1>4, <1>5, <2>1
<1>8. CASE \E r \in Driver!Results : DriveStep(r)
  <2>1. PICK r \in Driver!Results : DriveStep(r)
    BY <1>8
  <2>2. Inside' = Inside
    BY <1>1, <2>1, StepOrder
  <2>3. /\ UNCHANGED <<accepted, delivered, operation>>
        /\ state' = "NeedsInput" => operation = "Continue"
        /\ Emitted' => backlog' = <<>>
    BY <1>1, <2>1, StepOutcome DEF Emitted
  <2> QED
    BY <1>3, <1>4, <2>2, <2>3
<1>9. CASE Compress /\ ~\E r \in Driver!Results : DriveStep(r)
  <2>1. Sent' = Sent /\ UNCHANGED <<accepted, delivered, backlog>>
    BY <1>1, <1>9, CompressOrder
  <2>2. CASE ResumeOperation \/ DriveHead
    <3>1. Rest' = Rest /\ pc' = "Drive" /\ state' = "Running"
      BY <1>1, <2>2, StartOrder
    <3> QED
      BY <1>3, <1>4, <1>5, <2>1, <3>1 DEF Emitted
  <2>3. CASE InputExhausted \/ DriveExhaust \/ BuffersExhausted
    <3>1. Rest' = Rest /\ (pc' = "Drive" => state' \in {"BudgetExhausted", "OutputFailed"})
      BY <1>1, <2>3, StopOrder
    <3> QED
      BY <1>3, <1>4, <1>5, <2>1, <3>1 DEF Emitted
  <2>4. CASE Answered
    <3>1. pc = "Drive"
      BY <2>4 DEF Answered, OperationPaused, OperationComplete, HeadPaused, HeadComplete, StreamFinished
    <3>2. state = "NeedsInput" => operation = "Continue"
      BY <3>1 DEF StreamInv
    <3>3. Rest' = Rest /\ pc' # "Drive"
      BY <1>1, <2>4, <3>2, AnswerOrder
    <3> QED
      BY <1>3, <1>4, <1>5, <2>1, <3>3
  <2> QED
    BY <1>9, <2>2, <2>3, <2>4 DEF Compress, Answered
<1>10. CASE Hand
  <2>1. /\ Sent' = Sent /\ Rest' = Rest /\ pc' # "Drive"
        /\ UNCHANGED <<accepted, delivered, backlog>>
    BY <1>1, <1>10, HandOrder
  <2> QED
    BY <1>3, <1>4, <1>5, <2>1
<1>11. CASE WriteByte \/ DropLink
  <2>1. /\ Rest' = Rest /\ pc' # "Drive" /\ UNCHANGED <<pc, accepted, backlog>>
        /\ \E x \in Seq(Int) : delivered' = delivered \o x /\ Sent = x \o Sent'
    BY <1>1, <1>11, WriteOrder
  <2>2. PICK x \in Seq(Int) : delivered' = delivered \o x /\ Sent = x \o Sent'
    BY <2>1
  <2> DEFINE s == Sent'
             z == Plain(backlog) \o Rest
  <2>3. Inside = (x \o s) \o z /\ Inside' = s \o z
    BY <2>1, <2>2 DEF Inside, Plain
  <2>4. s \in Seq(Int)
    BY <1>1, SentTypeNext DEF SentTyped
  <2>5. z \in Seq(Int)
    BY <1>2, Joined
  <2> HIDE DEF s, z
  <2>6. (x \o s) \o z = x \o (s \o z)
    BY <2>4, <2>5, JoinAssoc
  <2> QED
    BY <1>3, <2>1, <2>2, <2>3, <2>6
<1>12. CASE WriteComplete \/ WriteBlocked \/ WriteAbsorbed
  <2>1. /\ Sent' = Sent /\ Rest' = Rest /\ pc' # "Drive"
        /\ UNCHANGED <<accepted, delivered, backlog>>
    BY <1>1, <1>12, ReturnOrder
  <2> QED
    BY <1>3, <1>4, <1>5, <2>1
<1>13. CASE Fails
  <2>1. pc' = "Failed" /\ UNCHANGED <<accepted, delivered>>
    BY <1>13 DEF Fails, CompressionFails, WriteFails, connVars, upstreamVars
  <2> QED
    BY <1>3, <2>1
<1> QED
  BY <1>6, <1>7, <1>8, <1>9, <1>10, <1>11, <1>12, <1>13 DEF Next, Callback, Write

InsideTyped == Inside \in Seq(Int) /\ delivered \in Seq(Int) /\ accepted \in Seq(Int)

LEMMA InsideTypeNext == TypeOK' /\ ResumeInv' => InsideTyped'
<1>1. TypeOK /\ ResumeInv => InsideTyped
  BY InsideTypes DEF InsideTyped
<1> QED
  BY <1>1, PTL

LEMMA InitStreamInv == Init => StreamInv
<1> SUFFICES ASSUME Init PROVE StreamInv
  OBVIOUS
<1>1. /\ pc = "Idle" /\ input = <<>> /\ pendingOp = "None" /\ held = <<>> /\ backlog = <<>>
      /\ accepted = <<>> /\ delivered = <<>>
  BY DEF Init
<1>2. Sent = <<>>
  BY <1>1, FlatEmpty DEF Sent, Content, Unsent, Begin
<1>3. Plain(backlog) = <<>>
  BY <1>1, PlainFacts
<1>4. Rest = <<>> \o <<>>
  BY <1>1, RequestedFacts DEF Rest
<1>5. <<>> \o <<>> = <<>>
  BY Joined
<1> QED
  BY <1>1, <1>2, <1>3, <1>4, <1>5 DEF StreamInv, Inside

LEMMA NextStreamInv ==
    ASSUME FilterInv, FilterInv', ~FlushIsFramed, StreamInv, Next
    PROVE  StreamInv'
<1>1. /\ \/ pc' = "Failed" /\ UNCHANGED <<accepted, delivered>>
         \/ /\ UNCHANGED delivered
            /\ \E x \in Seq(Int) : accepted' = accepted \o x /\ Inside' = Inside \o x
         \/ /\ UNCHANGED accepted
            /\ \E x \in Seq(Int) : delivered' = delivered \o x /\ Inside = x \o Inside'
      /\ pc' = "Drive" /\ state' = "NeedsInput" => operation' = "Continue"
      /\ pc' = "Drive" /\ Emitted' => backlog' = <<>>
  BY OrderMoves
<1>2. TypeOK /\ ResumeInv /\ TypeOK' /\ ResumeInv'
  BY DEF FilterInv, BytesInv, IndInv
<1>3. Inside \in Seq(Int) /\ delivered \in Seq(Int) /\ Inside' \in Seq(Int)
  BY <1>2, InsideTypes, InsideTypeNext DEF InsideTyped
<1>4. accepted = delivered \o Inside
  BY OrderMoves DEF StreamInv
<1>5. pc' # "Failed" => accepted' = delivered' \o Inside'
  <2>1. CASE \E x \in Seq(Int) : UNCHANGED delivered /\ accepted' = accepted \o x /\ Inside' = Inside \o x
    <3>1. PICK x \in Seq(Int) : UNCHANGED delivered /\ accepted' = accepted \o x /\ Inside' = Inside \o x
      BY <2>1
    <3>2. (delivered \o Inside) \o x = delivered \o (Inside \o x)
      BY <1>3, JoinAssoc, SMTT(30)
    <3> QED
      BY <1>4, <3>1, <3>2
  <2>2. CASE \E x \in Seq(Int) : UNCHANGED accepted /\ delivered' = delivered \o x /\ Inside = x \o Inside'
    <3>1. PICK x \in Seq(Int) : UNCHANGED accepted /\ delivered' = delivered \o x /\ Inside = x \o Inside'
      BY <2>2
    <3> DEFINE z == Inside'
    <3>2. z \in Seq(Int) /\ Inside = x \o z
      BY <1>3, <3>1
    <3> HIDE DEF z
    <3>3. (delivered \o x) \o z = delivered \o (x \o z)
      BY <1>3, <3>2, JoinAssoc, SMTT(30)
    <3> QED
      BY <1>4, <3>1, <3>2, <3>3 DEF z
  <2> QED
    BY <1>1, <2>1, <2>2
<1> QED
  BY <1>1, <1>5 DEF StreamInv

\* A stream is a prefix of itself with more behind it, and a strict one unless that is
\* nothing.
LEMMA PrefixOfJoin ==
    ASSUME NEW a \in Seq(Int), NEW b \in Seq(Int)
    PROVE  /\ Stream!IsPrefix(a, a \o b)
           /\ a \o b = a \/ Stream!IsStrictPrefix(a, a \o b)
<1>1. /\ a \o b \in Seq(Int) /\ Len(a \o b) = Len(a) + Len(b)
      /\ \A i \in 1..Len(a) : (a \o b)[i] = a[i]
  BY ConcatProperties
<1>2. Len(a) \in Nat /\ Len(b) \in Nat /\ Len(a) <= Len(a \o b)
  BY <1>1
<1>3. Stream!IsPrefix(a, a \o b)
  BY <1>1, <1>2 DEF Stream!IsPrefix
<1> QED
  BY <1>3 DEF Stream!IsStrictPrefix

\* The invariant under which every step of the filter is one of the stream it promises.
OrderInv == FilterInv /\ ~FlushIsFramed /\ StreamInv

LEMMA NextOrderInv == OrderInv /\ [Next]_vars => OrderInv'
<1> SUFFICES ASSUME OrderInv, [Next]_vars PROVE OrderInv'
  OBVIOUS
<1>1. FilterInv /\ FilterInv'
  BY NextFilterInv DEF OrderInv
<1>2. CASE UNCHANGED vars
  <2>1. /\ UNCHANGED <<request, pc, accepted, delivered, state, operation, offset, backlog, held, out, buf, input>>
        /\ UNCHANGED pendingOp
    BY <1>2 DEF vars, upstreamVars, connVars, driverVars, codecVars, chainVars, ctxVars
  <2>2. ~FlushIsFramed'
    BY <2>1 DEF OrderInv, FlushIsFramed, NoFlush
  <2>3. Unsent' = Unsent /\ Emitted' = Emitted
    BY <2>1 DEF Unsent, Emitted
  <2>4. Sent' = Sent
    BY <2>1, <2>3 DEF Sent, Content, Items, LinkData, LinkMark
  <2>5. Rest' = Rest
    BY <2>1, <2>3 DEF Rest, Requested
  <2>6. Inside' = Inside
    BY <2>1, <2>4, <2>5 DEF Inside, Plain
  <2> QED
    BY <1>1, <2>1, <2>2, <2>3, <2>6 DEF OrderInv, StreamInv
<1>3. CASE Next
  <2>1. TypeOK
    BY <1>1 DEF FilterInv, BytesInv, IndInv
  <2>2. ~FlushIsFramed'
    BY <1>3, <2>1, RequestStays DEF OrderInv, FlushIsFramed, NoFlush
  <2>3. StreamInv'
    BY <1>1, <1>3, NextStreamInv DEF OrderInv
  <2> QED
    BY <1>1, <2>2, <2>3 DEF OrderInv
<1> QED
  BY <1>2, <1>3

LEMMA StepsAreOrdered == OrderInv /\ OrderInv' /\ [Next]_vars => [Stream!Next]_(Stream!vars)
<1> SUFFICES ASSUME OrderInv, OrderInv', [Next]_vars PROVE [Stream!Next]_(Stream!vars)
  OBVIOUS
<1> DEFINE gone == pc \in {"Failed", "WriterError"}
<1>1. CASE UNCHANGED vars
  <2>1. UNCHANGED <<accepted, delivered, pc>>
    BY <1>1 DEF vars, upstreamVars, connVars
  <2> QED
    BY <2>1 DEF Stream!vars
<1>2. CASE Next
  <2>1. /\ ~gone
        /\ \/ pc' = "Failed" /\ UNCHANGED <<accepted, delivered>>
           \/ /\ ~Ended /\ UNCHANGED delivered
              /\ \E x \in Seq(Int) : accepted' = accepted \o x
           \/ /\ UNCHANGED accepted
              /\ \E x \in Seq(Int) : delivered' = delivered \o x
        /\ gone' => UNCHANGED <<accepted, delivered>>
    BY <1>2, OrderMoves DEF OrderInv
  <2>2. TypeOK /\ ResumeInv /\ TypeOK' /\ ResumeInv'
    BY DEF OrderInv, FilterInv, BytesInv, IndInv
  <2>3. /\ accepted \in Seq(Int) /\ delivered \in Seq(Int)
        /\ delivered' \in Seq(Int) /\ Inside' \in Seq(Int)
    BY <2>2, InsideTypes, InsideTypeNext DEF InsideTyped
  <2>4. CASE gone'
    BY <2>1, <2>4 DEF Stream!Next, Stream!Abort
  <2>5. CASE ~gone' /\ ~Ended /\ UNCHANGED delivered /\ \E x \in Seq(Int) : accepted' = accepted \o x
    <3>1. accepted' = accepted \/ Stream!IsStrictPrefix(accepted, accepted')
      BY <2>3, <2>5, PrefixOfJoin
    <3>2. CASE accepted' = accepted
      BY <2>1, <2>5, <3>2 DEF Stream!vars
    <3>3. CASE Stream!IsStrictPrefix(accepted, accepted')
      BY <2>1, <2>5, <3>3 DEF Stream!Next, Stream!Accept, Stream!Ended, Ended
    <3> QED
      BY <3>1, <3>2, <3>3
  <2>6. CASE ~gone' /\ UNCHANGED accepted /\ \E x \in Seq(Int) : delivered' = delivered \o x
    <3>1. delivered' = delivered \/ Stream!IsStrictPrefix(delivered, delivered')
      BY <2>3, <2>6, PrefixOfJoin
    <3>2. accepted = delivered' \o Inside'
      BY <2>6 DEF OrderInv, StreamInv
    <3>3. Stream!IsPrefix(delivered', accepted)
      BY <2>3, <3>2, PrefixOfJoin
    <3>4. CASE delivered' = delivered
      BY <2>1, <2>6, <3>4 DEF Stream!vars
    <3>5. CASE Stream!IsStrictPrefix(delivered, delivered')
      BY <2>1, <2>6, <3>3, <3>5 DEF Stream!Next, Stream!Deliver
    <3> QED
      BY <3>1, <3>4, <3>5
  <2> QED
    BY <2>1, <2>4, <2>5, <2>6
<1> QED
  BY <1>1, <1>2

\* Upstream's bytes and boundaries go down in order and exactly once: every step of the
\* filter is a step of the stream it promises, or invisible there.  The same exception
\* is made: a flush without bytes may go missing behind a framing filter.
THEOREM StreamIsOrdered == Spec /\ ~FlushIsFramed => Ordered
<1>1. Init => Stream!Init
  BY DEF Init, Stream!Init
<1>2. Init /\ ~FlushIsFramed => OrderInv
  BY InitFilterInv, InitStreamInv DEF OrderInv
<1>3. Spec /\ ~FlushIsFramed => []OrderInv
  BY <1>2, NextOrderInv, PTL DEF Spec
<1> QED
  BY <1>1, <1>3, StepsAreOrdered, PTL DEF Spec, Ordered, Stream!Safety
=============================================================================
