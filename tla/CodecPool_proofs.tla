-------------------------- MODULE CodecPool_proofs --------------------------
(***************************************************************************)
(* Proofs about the encoder pool, for every number of requests, encoders   *)
(* and keys and every pool size.                                           *)
(*                                                                         *)
(* The promises depend on each other: an encoder taken from the pool may   *)
(* be reset without touching another response only because nobody else     *)
(* owns it.  PoolInv is their conjunction, with what is known of encoders  *)
(* nobody owns.                                                            *)
(***************************************************************************)
EXTENDS CodecPool, SequenceTheorems, TLAPS

Pooled(c) == \E i \in DOMAIN pool : pool[i].codec = c
Serving(c) == \E r \in Requests : InUse(r) /\ codecOf[r] = c

UnbornIsClean == \A c \in Codecs : life[c] = "Unborn" => residue[c] = {}
ServingHasKey == \A r \in Requests : InUse(r) => keyOf[r] \in Keys
PoisonedIsDropped == \A c \in poisoned : life[c] = "Dropped"

PoolInv ==
    /\ TypeOK
    /\ OneOwner
    /\ OwnDataOnly
    /\ KeyMatches
    /\ ServingHasKey
    /\ UnbornIsClean
    /\ PoisonedIsDropped

-----------------------------------------------------------------------------
(* Vec::swap_remove.                                                       *)

LEMMA IntervalLength ==
    ASSUME NEW m \in Nat, NEW n \in Nat, 1..m = 1..n
    PROVE  m = n
<1>1. ASSUME m < n PROVE FALSE
  <2>1. n \in 1..n /\ n \notin 1..m
    BY <1>1
  <2> QED
    BY <2>1
<1>2. ASSUME n < m PROVE FALSE
  <2>1. m \in 1..m /\ m \notin 1..n
    BY <1>2
  <2> QED
    BY <2>1
<1> QED
  BY <1>1, <1>2

\* It removes exactly the entry at i: every other entry is still there, once.
LEMMA SwapRemoveFacts ==
    ASSUME NEW S, NEW s \in Seq(S), NEW i \in DOMAIN s
    PROVE
      LET t == SwapRemove(s, i) IN
      /\ t \in Seq(S)
      /\ Len(t) = Len(s) - 1
      /\ \A j \in DOMAIN t : /\ j \in 1..(Len(s) - 1)
                           /\ t[j] = IF j = i THEN s[Len(s)] ELSE s[j]
      /\ \A m \in DOMAIN s : m # i => \E j \in DOMAIN t : t[j] = s[m]
<1> SUFFICES
      ASSUME NEW t, t = SwapRemove(s, i)
      PROVE  /\ t \in Seq(S)
             /\ Len(t) = Len(s) - 1
             /\ \A j \in DOMAIN t : /\ j \in 1..(Len(s) - 1)
                                  /\ t[j] = IF j = i THEN s[Len(s)] ELSE s[j]
             /\ \A m \in DOMAIN s : m # i => \E j \in DOMAIN t : t[j] = s[m]
  OBVIOUS
<1> DEFINE n == Len(s) - 1
<1>1. Len(s) \in Nat /\ DOMAIN s = 1..Len(s) /\ i \in 1..Len(s) /\ n \in Nat
  OBVIOUS
<1>2. t \in [1..n -> S] /\ \A j \in 1..n : t[j] = IF j = i THEN s[Len(s)] ELSE s[j]
  BY <1>1 DEF SwapRemove
<1>3. t \in Seq(S)
  BY <1>1, <1>2, SeqDef
<1>4. Len(t) = n /\ DOMAIN t = 1..n
  <2>1. DOMAIN t = 1..n
    BY <1>2
  <2>2. Len(t) \in Nat /\ DOMAIN t = 1..Len(t)
    BY <1>3, LenProperties
  <2> HIDE DEF n
  <2>3. Len(t) = n
    BY <1>1, <2>1, <2>2, IntervalLength
  <2> QED
    BY <2>1, <2>3
<1>5. ASSUME NEW m \in DOMAIN s, m # i
      PROVE  \E j \in DOMAIN t : t[j] = s[m]
  <2>1. CASE m = Len(s)
    <3>1. i \in 1..n /\ t[i] = s[m]
      BY <1>1, <1>2, <1>5, <2>1
    <3> QED
      BY <1>4, <3>1
  <2>2. CASE m # Len(s)
    <3>1. m \in 1..n /\ t[m] = s[m]
      BY <1>1, <1>2, <1>5, <2>2
    <3> QED
      BY <1>4, <3>1
  <2> QED
    BY <2>1, <2>2
<1> QED
  BY <1>2, <1>3, <1>4, <1>5

\* What taking the entry at i out of the pool does to the pool's promises.
LEMMA TakeFacts ==
    ASSUME TypeOK, OneOwner, NEW i \in DOMAIN pool, pool' = SwapRemove(pool, i)
    PROVE  /\ pool' \in Seq(Entry)
           /\ Len(pool') <= MaxIdle
           /\ pool[i] \in Entry
           /\ \A j, k \in DOMAIN pool' : pool'[j].codec = pool'[k].codec => j = k
           /\ \A c \in Codecs : Pooled(c)' <=> Pooled(c) /\ c # pool[i].codec
           /\ \A j \in DOMAIN pool' : \E m \in DOMAIN pool : m # i /\ pool'[j] = pool[m]
<1>1. /\ pool \in Seq(Entry) /\ Len(pool) <= MaxIdle /\ MaxIdle \in Nat
      /\ pool[i] \in Entry /\ i \in 1..Len(pool) /\ Len(pool) \in Nat
      /\ DOMAIN pool = 1..Len(pool)
  BY PoolAssumption DEF TypeOK
<1>2. /\ pool' \in Seq(Entry)
      /\ Len(pool') = Len(pool) - 1
      /\ \A j \in DOMAIN pool' : /\ j \in 1..(Len(pool) - 1)
                               /\ pool'[j] = IF j = i THEN pool[Len(pool)] ELSE pool[j]
      /\ \A m \in DOMAIN pool : m # i => \E j \in DOMAIN pool' : pool'[j] = pool[m]
  <2> DEFINE t == SwapRemove(pool, i)
  <2>1. /\ t \in Seq(Entry)
        /\ Len(t) = Len(pool) - 1
        /\ \A j \in DOMAIN t : /\ j \in 1..(Len(pool) - 1)
                             /\ t[j] = IF j = i THEN pool[Len(pool)] ELSE pool[j]
        /\ \A m \in DOMAIN pool : m # i => \E j \in DOMAIN t : t[j] = pool[m]
    BY <1>1, SwapRemoveFacts, ZenonT(60)
  <2>2. pool' = t
    OBVIOUS
  <2> HIDE DEF t
  <2> QED
    BY <2>1, <2>2
<1>3. \A j, k \in DOMAIN pool : pool[j].codec = pool[k].codec => j = k
  BY DEF OneOwner
<1>4. Len(pool') <= MaxIdle
  BY <1>1, <1>2
<1>5. \A j, k \in DOMAIN pool' : pool'[j].codec = pool'[k].codec => j = k
  BY <1>1, <1>2, <1>3
<1>6. \A j \in DOMAIN pool' : \E m \in DOMAIN pool : m # i /\ pool'[j] = pool[m]
  BY <1>1, <1>2
<1>7. ASSUME NEW c \in Codecs
      PROVE  Pooled(c)' <=> Pooled(c) /\ c # pool[i].codec
  BY <1>2, <1>3, <1>6 DEF Pooled
<1> QED
  BY <1>1, <1>2, <1>4, <1>5, <1>6, <1>7

\* The entries of the pool are encoders with keys.
LEMMA PoolEntry ==
    ASSUME TypeOK, NEW i \in DOMAIN pool
    PROVE  pool[i] \in Entry /\ pool[i].key \in Keys /\ pool[i].codec \in Codecs
<1>1. pool \in Seq(Entry) /\ i \in 1..Len(pool)
  BY LenProperties DEF TypeOK
<1>2. pool[i] \in Entry
  BY <1>1, ElementOfSeq
<1> QED
  BY <1>2 DEF Entry

-----------------------------------------------------------------------------
(* PoolInv holds initially and every action preserves it.                  *)

\* At the start nobody owns an encoder and none has been built.
LEMMA InitPoolInv == Init => PoolInv
<1> SUFFICES ASSUME Init PROVE PoolInv
  OBVIOUS
<1> USE PoolAssumption DEF Init
<1>1. TypeOK
  BY DEF TypeOK, Phases
<1>2. OneOwner
  BY DEF OneOwner, InUse
<1>3. OwnDataOnly /\ KeyMatches /\ ServingHasKey /\ UnbornIsClean /\ PoisonedIsDropped
  BY DEF OwnDataOnly, KeyMatches, ServingHasKey, UnbornIsClean, PoisonedIsDropped, InUse
<1> QED
  BY <1>1, <1>2, <1>3 DEF PoolInv

\* A pooled encoder handed to a new request leaves the pool, and resetting it
\* clears nobody else's state.
LEMMA ReuseInv ==
    ASSUME PoolInv, NEW r \in Requests, NEW k \in Keys, Reuse(r, k)
    PROVE  PoolInv'
<1> USE DEF PoolInv
<1>1. PICK i \in DOMAIN pool :
        /\ FirstMatch(i, k)
        /\ pool' = SwapRemove(pool, i)
        /\ residue' = [residue EXCEPT ![pool[i].codec] = {}]
        /\ Plan(r, k, pool[i].codec)
  BY DEF Reuse
<1> DEFINE c == pool[i].codec
<1>2. /\ pool' \in Seq(Entry) /\ Len(pool') <= MaxIdle
      /\ pool[i] \in Entry /\ pool[i].key = k /\ c \in Codecs
      /\ \A j, m \in DOMAIN pool' : pool'[j].codec = pool'[m].codec => j = m
      /\ \A d \in Codecs : Pooled(d)' <=> Pooled(d) /\ d # c
      /\ \A j \in DOMAIN pool' : \E m \in DOMAIN pool : m # i /\ pool'[j] = pool[m]
  BY <1>1, TakeFacts DEF Entry, FirstMatch
<1>3. /\ phase' = [phase EXCEPT ![r] = "Planned"]
      /\ keyOf' = [keyOf EXCEPT ![r] = k]
      /\ codecOf' = [codecOf EXCEPT ![r] = c]
      /\ residue' = [residue EXCEPT ![c] = {}]
      /\ phase[r] = "New"
      /\ UNCHANGED <<life, made, poisoned>>
  BY <1>1 DEF Plan, Reuse
<1>4. \A q \in Requests : /\ InUse(q)' <=> q = r \/ InUse(q)
                          /\ codecOf'[q] = IF q = r THEN c ELSE codecOf[q]
                          /\ keyOf'[q] = IF q = r THEN k ELSE keyOf[q]
  BY <1>3 DEF InUse, TypeOK
<1>5. ~InUse(r) /\ Pooled(c) /\ \A q \in Requests : InUse(q) => codecOf[q] # c
  BY <1>1, <1>3 DEF InUse, Pooled, OneOwner
<1>6. \A d \in Codecs : residue'[d] = IF d = c THEN {} ELSE residue[d]
  BY <1>2, <1>3 DEF TypeOK
<1>7. made[c] = k
  BY <1>2 DEF KeyMatches, ServingHasKey
<1> HIDE DEF c
<1>8. TypeOK'
  BY <1>2, <1>3 DEF TypeOK, Phases
<1>9. OneOwner'
  <2>1. \A q \in Requests : InUse(q)' =>
          /\ codecOf'[q] \in Codecs
          /\ \A p \in Requests : InUse(p)' /\ codecOf'[p] = codecOf'[q] => p = q
          /\ \A j \in DOMAIN pool' : pool'[j].codec # codecOf'[q]
    <3>1. \A j \in DOMAIN pool' : \E m \in DOMAIN pool : m # i /\ pool'[j].codec = pool[m].codec
      BY <1>2
    <3>2. \A m \in DOMAIN pool : m # i => pool[m].codec # c
      BY DEF OneOwner, c
    <3> QED
      BY <1>2, <1>4, <1>5, <3>1, <3>2 DEF OneOwner
  <2>2. \A d \in Codecs : life'[d] = "Alive" <=> Pooled(d)' \/ Serving(d)'
    <3> SUFFICES ASSUME NEW d \in Codecs
                 PROVE  life[d] = "Alive" <=> Pooled(d)' \/ Serving(d)'
      BY <1>3
    <3>1. life[d] = "Alive" <=> Pooled(d) \/ Serving(d)
      BY DEF OneOwner, Pooled, Serving
    <3>2. Serving(d)' <=> d = c \/ Serving(d)
      BY <1>4, <1>5 DEF Serving
    <3> QED
      BY <1>2, <1>5, <3>1, <3>2
  <2> QED
    BY <1>2, <2>1, <2>2 DEF OneOwner, Pooled, Serving
<1>10. OwnDataOnly'
  BY <1>2, <1>4, <1>5, <1>6 DEF OwnDataOnly, OneOwner
<1>11. KeyMatches' /\ ServingHasKey'
  BY <1>2, <1>3, <1>4, <1>7 DEF KeyMatches, ServingHasKey
<1>12. UnbornIsClean' /\ PoisonedIsDropped'
  BY <1>3, <1>6 DEF UnbornIsClean, PoisonedIsDropped
<1> QED
  BY <1>8, <1>9, <1>10, <1>11, <1>12

\* A fresh encoder is owned by nobody before and has seen no data.
LEMMA BuildInv ==
    ASSUME PoolInv, NEW r \in Requests, NEW k \in Keys, Build(r, k)
    PROVE  PoolInv'
<1> USE DEF PoolInv
<1>1. PICK c \in Codecs :
        /\ life[c] = "Unborn"
        /\ life' = [life EXCEPT ![c] = "Alive"]
        /\ made' = [made EXCEPT ![c] = k]
        /\ Plan(r, k, c)
  BY DEF Build
<1>2. /\ phase' = [phase EXCEPT ![r] = "Planned"]
      /\ keyOf' = [keyOf EXCEPT ![r] = k]
      /\ codecOf' = [codecOf EXCEPT ![r] = c]
      /\ phase[r] = "New"
      /\ UNCHANGED <<pool, residue, poisoned>>
  BY <1>1 DEF Plan, Build
<1>3. /\ \A q \in Requests : /\ InUse(q)' <=> q = r \/ InUse(q)
                             /\ codecOf'[q] = IF q = r THEN c ELSE codecOf[q]
                             /\ keyOf'[q] = IF q = r THEN k ELSE keyOf[q]
      /\ \A d \in Codecs : /\ life'[d] = IF d = c THEN "Alive" ELSE life[d]
                           /\ made'[d] = IF d = c THEN k ELSE made[d]
  BY <1>1, <1>2 DEF InUse, TypeOK
<1>4. /\ ~InUse(r) /\ residue[c] = {} /\ c \notin poisoned
      /\ ~Pooled(c) /\ \A q \in Requests : InUse(q) => codecOf[q] # c
  BY <1>1, <1>2 DEF InUse, Pooled, OneOwner, UnbornIsClean, PoisonedIsDropped
<1>5. \A i \in DOMAIN pool : pool[i].codec \in Codecs
  BY PoolEntry
<1>6. TypeOK'
  BY <1>1, <1>2 DEF TypeOK, Phases
<1>7. OneOwner'
  <2>1. \A q \in Requests : InUse(q)' =>
          /\ codecOf'[q] \in Codecs
          /\ \A p \in Requests : InUse(p)' /\ codecOf'[p] = codecOf'[q] => p = q
          /\ \A i \in DOMAIN pool : pool[i].codec # codecOf'[q]
    BY <1>3, <1>4 DEF OneOwner, Pooled
  <2>2. \A d \in Codecs : life'[d] = "Alive" <=> Pooled(d) \/ Serving(d)'
    <3> SUFFICES ASSUME NEW d \in Codecs
                 PROVE  life'[d] = "Alive" <=> Pooled(d) \/ Serving(d)'
      OBVIOUS
    <3>1. life[d] = "Alive" <=> Pooled(d) \/ Serving(d)
      BY DEF OneOwner, Pooled, Serving
    <3>2. Serving(d)' <=> d = c \/ Serving(d)
      BY <1>3, <1>4 DEF Serving
    <3> QED
      BY <1>3, <1>4, <3>1, <3>2
  <2>3. \A i, j \in DOMAIN pool : pool[i].codec = pool[j].codec => i = j
    BY DEF OneOwner
  <2> QED
    BY <1>2, <2>1, <2>2, <2>3 DEF OneOwner, Pooled, Serving
<1>8. OwnDataOnly'
  BY <1>2, <1>3, <1>4 DEF OwnDataOnly
<1>9. KeyMatches' /\ ServingHasKey'
  BY <1>2, <1>3, <1>4, <1>5 DEF KeyMatches, ServingHasKey, Pooled, OneOwner
<1>10. UnbornIsClean' /\ PoisonedIsDropped'
  BY <1>2, <1>3, <1>4 DEF UnbornIsClean, PoisonedIsDropped, TypeOK
<1> QED
  BY <1>6, <1>7, <1>8, <1>9, <1>10

\* The encoder whose reset failed leaves the pool for good, the one built
\* instead is nobody else's.
LEMMA RecoverInv ==
    ASSUME PoolInv, NEW r \in Requests, NEW k \in Keys, Recover(r, k)
    PROVE  PoolInv'
<1> USE DEF PoolInv
<1>1. PICK i \in DOMAIN pool, c \in Codecs :
        /\ life[c] = "Unborn"
        /\ pool' = SwapRemove(pool, i)
        /\ poisoned' = poisoned \cup {pool[i].codec}
        /\ life' = [life EXCEPT ![pool[i].codec] = "Dropped", ![c] = "Alive"]
        /\ made' = [made EXCEPT ![c] = k]
        /\ Plan(r, k, c)
  BY DEF Recover
<1> DEFINE x == pool[i].codec
<1>2. /\ pool' \in Seq(Entry) /\ Len(pool') <= MaxIdle /\ x \in Codecs
      /\ \A j, m \in DOMAIN pool' : pool'[j].codec = pool'[m].codec => j = m
      /\ \A d \in Codecs : Pooled(d)' <=> Pooled(d) /\ d # x
      /\ \A j \in DOMAIN pool' : \E m \in DOMAIN pool : m # i /\ pool'[j] = pool[m]
  BY <1>1, TakeFacts, PoolEntry
<1>3. /\ phase' = [phase EXCEPT ![r] = "Planned"]
      /\ keyOf' = [keyOf EXCEPT ![r] = k]
      /\ codecOf' = [codecOf EXCEPT ![r] = c]
      /\ phase[r] = "New"
      /\ residue' = residue
  BY <1>1 DEF Plan, Recover
<1>4. Pooled(x) /\ life[x] = "Alive" /\ x # c
  BY <1>1, <1>2 DEF OneOwner, Pooled
<1>5. /\ \A q \in Requests : /\ InUse(q)' <=> q = r \/ InUse(q)
                             /\ codecOf'[q] = IF q = r THEN c ELSE codecOf[q]
                             /\ keyOf'[q] = IF q = r THEN k ELSE keyOf[q]
      /\ \A d \in Codecs : /\ life'[d] = IF d = c THEN "Alive"
                                         ELSE IF d = x THEN "Dropped" ELSE life[d]
                           /\ made'[d] = IF d = c THEN k ELSE made[d]
  BY <1>1, <1>2, <1>3, <1>4 DEF InUse, TypeOK
<1>6. /\ ~InUse(r) /\ residue[c] = {} /\ c \notin poisoned
      /\ ~Pooled(c) /\ \A q \in Requests : InUse(q) => codecOf[q] # c /\ codecOf[q] # x
  BY <1>1, <1>3 DEF InUse, Pooled, OneOwner, UnbornIsClean, PoisonedIsDropped
<1>7. \A j \in DOMAIN pool' : /\ pool'[j].codec \in Codecs
                              /\ pool'[j].codec # c /\ pool'[j].codec # x
                              /\ \E m \in DOMAIN pool : pool'[j] = pool[m]
  BY <1>1, <1>2, <1>6, PoolEntry DEF OneOwner, Pooled
<1>8. poisoned' = poisoned \cup {x}
  BY <1>1
<1>9. TypeOK'
  BY <1>1, <1>2, <1>3 DEF TypeOK, Phases
<1> HIDE DEF x
<1>10. OneOwner'
  <2>1. \A q \in Requests : InUse(q)' =>
          /\ codecOf'[q] \in Codecs
          /\ \A p \in Requests : InUse(p)' /\ codecOf'[p] = codecOf'[q] => p = q
          /\ \A j \in DOMAIN pool' : pool'[j].codec # codecOf'[q]
    BY <1>5, <1>6, <1>7 DEF OneOwner
  <2>2. \A d \in Codecs : life'[d] = "Alive" <=> Pooled(d)' \/ Serving(d)'
    <3> SUFFICES ASSUME NEW d \in Codecs
                 PROVE  life'[d] = "Alive" <=> Pooled(d)' \/ Serving(d)'
      OBVIOUS
    <3>1. life[d] = "Alive" <=> Pooled(d) \/ Serving(d)
      BY DEF OneOwner, Pooled, Serving
    <3>2. Serving(d)' <=> d = c \/ Serving(d)
      BY <1>5, <1>6 DEF Serving
    <3>3. ~Serving(x)
      BY <1>6 DEF Serving
    <3> QED
      BY <1>2, <1>4, <1>5, <1>6, <3>1, <3>2, <3>3
  <2> QED
    BY <1>2, <2>1, <2>2 DEF OneOwner, Pooled, Serving
<1>11. OwnDataOnly'
  BY <1>3, <1>5, <1>6 DEF OwnDataOnly
<1>12. KeyMatches' /\ ServingHasKey'
  BY <1>5, <1>6, <1>7 DEF KeyMatches, ServingHasKey, OneOwner
<1>13. UnbornIsClean' /\ PoisonedIsDropped'
  BY <1>2, <1>3, <1>4, <1>5, <1>6, <1>8 DEF UnbornIsClean, PoisonedIsDropped, TypeOK
<1> QED
  BY <1>9, <1>10, <1>11, <1>12, <1>13

\* A response that fails while it is planned takes no encoder; at most a
\* poisoned one is lost.
LEMMA ConstructionFailsInv ==
    ASSUME PoolInv, NEW r \in Requests, NEW k \in Keys, ConstructionFails(r, k)
    PROVE  PoolInv'
<1> USE DEF PoolInv
<1>1. /\ phase' = [phase EXCEPT ![r] = "Closed"]
      /\ phase[r] = "New"
      /\ UNCHANGED <<made, residue, keyOf, codecOf>>
  BY DEF ConstructionFails
<1>2. \A q \in Requests : InUse(q)' <=> InUse(q)
  BY <1>1 DEF InUse, TypeOK
<1>3. phase' \in [Requests -> Phases]
  BY <1>1 DEF TypeOK, Phases
<1>4. CASE UNCHANGED <<pool, poisoned, life>>
  BY <1>1, <1>2, <1>3, <1>4
     DEF TypeOK, OneOwner, OwnDataOnly, KeyMatches, ServingHasKey, UnbornIsClean, PoisonedIsDropped
<1>5. CASE \E i \in DOMAIN pool :
             /\ FirstMatch(i, k)
             /\ pool' = SwapRemove(pool, i)
             /\ poisoned' = poisoned \cup {pool[i].codec}
             /\ life' = [life EXCEPT ![pool[i].codec] = "Dropped"]
  <2>1. PICK i \in DOMAIN pool :
             /\ pool' = SwapRemove(pool, i)
             /\ poisoned' = poisoned \cup {pool[i].codec}
             /\ life' = [life EXCEPT ![pool[i].codec] = "Dropped"]
    BY <1>5
  <2> DEFINE x == pool[i].codec
  <2>2. /\ pool' \in Seq(Entry) /\ Len(pool') <= MaxIdle /\ x \in Codecs
        /\ \A j, m \in DOMAIN pool' : pool'[j].codec = pool'[m].codec => j = m
        /\ \A d \in Codecs : Pooled(d)' <=> Pooled(d) /\ d # x
        /\ \A j \in DOMAIN pool' : \E m \in DOMAIN pool : m # i /\ pool'[j] = pool[m]
    BY <2>1, TakeFacts, PoolEntry
  <2>3. Pooled(x) /\ ~Serving(x) /\ life[x] = "Alive"
    BY <2>2 DEF OneOwner, Pooled, Serving
  <2>4. \A d \in Codecs : life'[d] = IF d = x THEN "Dropped" ELSE life[d]
    BY <2>1, <2>2 DEF TypeOK
  <2>5. poisoned' = poisoned \cup {x}
    BY <2>1
  <2>6. TypeOK'
    BY <1>1, <1>3, <2>1, <2>2 DEF TypeOK
  <2> HIDE DEF x
  <2>7. OneOwner'
    <3>1. \A q \in Requests : InUse(q)' =>
            /\ codecOf'[q] \in Codecs
            /\ \A p \in Requests : InUse(p)' /\ codecOf'[p] = codecOf'[q] => p = q
            /\ \A j \in DOMAIN pool' : pool'[j].codec # codecOf'[q]
      BY <1>1, <1>2, <2>2 DEF OneOwner
    <3>2. \A d \in Codecs : Serving(d)' <=> Serving(d)
      BY <1>1, <1>2 DEF Serving
    <3>3. \A d \in Codecs : life[d] = "Alive" <=> Pooled(d) \/ Serving(d)
      BY DEF OneOwner, Pooled, Serving
    <3>4. \A d \in Codecs : life'[d] = "Alive" <=> Pooled(d)' \/ Serving(d)'
      BY <2>2, <2>3, <2>4, <3>2, <3>3
    <3> QED
      BY <2>2, <3>1, <3>4 DEF OneOwner, Pooled, Serving
  <2>8. OwnDataOnly' /\ KeyMatches' /\ ServingHasKey'
    BY <1>1, <1>2, <2>2, SMTT(30) DEF OwnDataOnly, KeyMatches, ServingHasKey
  <2>9. UnbornIsClean' /\ PoisonedIsDropped'
    BY <1>1, <2>2, <2>4, <2>5 DEF UnbornIsClean, PoisonedIsDropped, TypeOK
  <2> QED
    BY <2>6, <2>7, <2>8, <2>9
<1> QED
  BY <1>4, <1>5 DEF ConstructionFails

\* Installing the plan moves the encoder from one owner to itself.
LEMMA InstallInv ==
    ASSUME PoolInv, NEW r \in Requests, Install(r)
    PROVE  PoolInv'
<1> USE DEF PoolInv
<1>1. /\ phase' = [phase EXCEPT ![r] = "Compressing"]
      /\ phase[r] = "Planned"
      /\ UNCHANGED <<pool, life, made, residue, poisoned, keyOf, codecOf>>
  BY DEF Install
<1>2. \A q \in Requests : InUse(q)' <=> InUse(q)
  BY <1>1 DEF InUse, TypeOK
<1>3. phase' \in [Requests -> Phases]
  BY <1>1 DEF TypeOK, Phases
<1> QED
  BY <1>1, <1>2, <1>3
     DEF TypeOK, OneOwner, OwnDataOnly, KeyMatches, ServingHasKey, UnbornIsClean, PoisonedIsDropped

\* A plan that is given up takes its encoder with it.
LEMMA GiveUpInv ==
    ASSUME PoolInv, NEW r \in Requests, GiveUp(r)
    PROVE  PoolInv'
<1> USE DEF PoolInv
<1> DEFINE c == codecOf[r]
<1>1. /\ phase' = [phase EXCEPT ![r] = "Closed"]
      /\ phase[r] = "Planned"
      /\ life' = [life EXCEPT ![c] = "Dropped"]
      /\ codecOf' = [codecOf EXCEPT ![r] = NoCodec]
      /\ UNCHANGED <<pool, made, residue, poisoned, keyOf>>
  BY DEF GiveUp
<1>2. InUse(r) /\ c \in Codecs /\ ~Pooled(c)
  BY <1>1 DEF InUse, OneOwner, Pooled
<1>3. /\ \A q \in Requests : /\ InUse(q)' <=> InUse(q) /\ q # r
                             /\ q # r => codecOf'[q] = codecOf[q]
                             /\ InUse(q) /\ q # r => codecOf[q] # c
      /\ \A d \in Codecs : life'[d] = IF d = c THEN "Dropped" ELSE life[d]
  BY <1>1, <1>2 DEF InUse, TypeOK, OneOwner
<1>4. TypeOK'
  BY <1>1, <1>2 DEF TypeOK, Phases
<1> HIDE DEF c
<1>5. OneOwner'
  <2>1. \A d \in Codecs : Serving(d)' <=> Serving(d) /\ d # c
    BY <1>2, <1>3 DEF Serving, OneOwner, c
  <2>2. \A d \in Codecs : life[d] = "Alive" <=> Pooled(d) \/ Serving(d)
    BY DEF OneOwner, Pooled, Serving
  <2>3. \A d \in Codecs : life'[d] = "Alive" <=> Pooled(d) \/ Serving(d)'
    BY <1>2, <1>3, <2>1, <2>2
  <2>4. \A q \in Requests : InUse(q)' =>
          /\ codecOf'[q] \in Codecs
          /\ \A p \in Requests : InUse(p)' /\ codecOf'[p] = codecOf'[q] => p = q
          /\ \A j \in DOMAIN pool : pool[j].codec # codecOf'[q]
    BY <1>3 DEF OneOwner
  <2>5. \A i, j \in DOMAIN pool : pool[i].codec = pool[j].codec => i = j
    BY DEF OneOwner
  <2> QED
    BY <1>1, <2>3, <2>4, <2>5 DEF OneOwner, Pooled, Serving
<1>6. OwnDataOnly' /\ KeyMatches' /\ ServingHasKey'
  BY <1>1, <1>3 DEF OwnDataOnly, KeyMatches, ServingHasKey
<1>7. UnbornIsClean' /\ PoisonedIsDropped'
  BY <1>1, <1>2, <1>3 DEF UnbornIsClean, PoisonedIsDropped, TypeOK
<1> QED
  BY <1>4, <1>5, <1>6, <1>7

\* Response data enters only the encoder of its own response.
LEMMA CompressInv ==
    ASSUME PoolInv, NEW r \in Requests, Compress(r)
    PROVE  PoolInv'
<1> USE DEF PoolInv
<1> DEFINE c == codecOf[r]
<1>1. /\ phase[r] = "Compressing"
      /\ residue' = [residue EXCEPT ![c] = @ \cup {r}]
      /\ UNCHANGED <<pool, life, made, poisoned, phase, keyOf, codecOf>>
  BY DEF Compress
<1>2. InUse(r) /\ c \in Codecs /\ life[c] = "Alive"
  BY <1>1 DEF InUse, OneOwner
<1>3. \A d \in Codecs : residue'[d] = IF d = c THEN residue[d] \cup {r} ELSE residue[d]
  BY <1>1, <1>2 DEF TypeOK
<1>4. residue' \in [Codecs -> SUBSET Requests]
  BY <1>1, <1>2 DEF TypeOK
<1>5. TypeOK' /\ OneOwner' /\ KeyMatches' /\ ServingHasKey' /\ PoisonedIsDropped'
  BY <1>1, <1>4 DEF TypeOK, OneOwner, KeyMatches, ServingHasKey, PoisonedIsDropped, InUse
<1>6. OwnDataOnly'
  <2> SUFFICES ASSUME NEW q \in Requests, InUse(q)
               PROVE  residue'[codecOf[q]] \subseteq {q}
    BY <1>1 DEF OwnDataOnly, InUse
  <2>1. codecOf[q] \in Codecs /\ residue[codecOf[q]] \subseteq {q} /\ (codecOf[q] = c => q = r)
    BY <1>2 DEF OneOwner, OwnDataOnly
  <2> QED
    BY <1>3, <2>1
<1>7. UnbornIsClean'
  BY <1>1, <1>2, <1>3 DEF UnbornIsClean
<1> QED
  BY <1>5, <1>6, <1>7

\* Releasing moves the encoder from the request to the pool, under the key it was
\* built for, or drops it when the pool is full.
LEMMA CleanupInv ==
    ASSUME PoolInv, NEW r \in Requests, Cleanup(r)
    PROVE  PoolInv'
<1> USE DEF PoolInv
<1> DEFINE c == codecOf[r]
           e == [key |-> keyOf[r], codec |-> c]
<1>1. /\ phase' = [phase EXCEPT ![r] = "Closed"]
      /\ phase[r] = "Compressing"
      /\ codecOf' = [codecOf EXCEPT ![r] = NoCodec]
      /\ UNCHANGED <<made, residue, poisoned, keyOf>>
  BY DEF Cleanup
<1>2. InUse(r) /\ c \in Codecs /\ ~Pooled(c) /\ life[c] = "Alive" /\ made[c] = keyOf[r]
  BY <1>1 DEF InUse, OneOwner, Pooled, KeyMatches
<1>3. \A q \in Requests : /\ InUse(q)' <=> InUse(q) /\ q # r
                          /\ q # r => codecOf'[q] = codecOf[q]
                          /\ InUse(q) /\ q # r => codecOf[q] # c
  BY <1>1, <1>2 DEF InUse, TypeOK, OneOwner
<1>4. /\ phase' \in [Requests -> Phases]
      /\ codecOf' \in [Requests -> Codecs \cup {NoCodec}]
  BY <1>1 DEF TypeOK, Phases
<1>5. \A d \in Codecs : Serving(d)' <=> Serving(d) /\ d # c
  BY <1>2, <1>3 DEF Serving
<1>6. \A d \in Codecs : life[d] = "Alive" <=> Pooled(d) \/ Serving(d)
  BY DEF OneOwner, Pooled, Serving
<1>7. \A i, j \in DOMAIN pool : pool[i].codec = pool[j].codec => i = j
  BY DEF OneOwner
<1>8. CASE Len(pool) < MaxIdle /\ pool' = Append(pool, e) /\ UNCHANGED life
  <2>1. e \in Entry
    BY <1>2 DEF Entry, ServingHasKey
  <2>2. /\ pool' \in Seq(Entry) /\ Len(pool') = Len(pool) + 1 /\ Len(pool) \in Nat
        /\ DOMAIN pool = 1..Len(pool) /\ DOMAIN pool' = 1..(Len(pool) + 1)
        /\ \A j \in DOMAIN pool : pool'[j] = pool[j]
        /\ pool'[Len(pool) + 1] = e
    BY <1>8, <2>1, AppendProperties, LenProperties DEF TypeOK
  <2>3. e.codec = c /\ e.key = keyOf[r]
    OBVIOUS
  <2> HIDE DEF c, e
  <2>4. TypeOK'
    BY <1>1, <1>4, <1>8, <2>2, PoolAssumption DEF TypeOK
  <2>5. \A d \in Codecs : Pooled(d)' <=> Pooled(d) \/ d = c
    BY <2>2, <2>3 DEF Pooled
  <2>6. \A j \in DOMAIN pool' : \/ pool'[j] = e /\ j = Len(pool) + 1
                                \/ j \in DOMAIN pool /\ pool'[j] = pool[j]
    BY <2>2
  <2>7. \A i \in DOMAIN pool : pool[i].codec # c
    BY <1>2 DEF Pooled
  <2>8. OneOwner'
    <3>1. \A i, j \in DOMAIN pool' : pool'[i].codec = pool'[j].codec => i = j
      BY <1>7, <2>3, <2>6, <2>7
    <3>2. \A q \in Requests : InUse(q)' =>
            /\ codecOf'[q] \in Codecs
            /\ \A p \in Requests : InUse(p)' /\ codecOf'[p] = codecOf'[q] => p = q
            /\ \A j \in DOMAIN pool' : pool'[j].codec # codecOf'[q]
      BY <1>3, <2>3, <2>6 DEF OneOwner
    <3>3. \A d \in Codecs : life'[d] = "Alive" <=> Pooled(d)' \/ Serving(d)'
      BY <1>2, <1>5, <1>6, <1>8, <2>5
    <3> QED
      BY <3>1, <3>2, <3>3 DEF OneOwner, Pooled, Serving
  <2>9. OwnDataOnly' /\ KeyMatches' /\ ServingHasKey'
    BY <1>1, <1>2, <1>3, <2>3, <2>6 DEF OwnDataOnly, KeyMatches, ServingHasKey
  <2>10. UnbornIsClean' /\ PoisonedIsDropped'
    BY <1>1, <1>8 DEF UnbornIsClean, PoisonedIsDropped
  <2> QED
    BY <2>4, <2>8, <2>9, <2>10
<1>9. CASE Len(pool) >= MaxIdle /\ life' = [life EXCEPT ![c] = "Dropped"] /\ UNCHANGED pool
  <2>1. \A d \in Codecs : life'[d] = IF d = c THEN "Dropped" ELSE life[d]
    BY <1>2, <1>9 DEF TypeOK
  <2>2. TypeOK'
    BY <1>1, <1>2, <1>4, <1>9 DEF TypeOK
  <2> HIDE DEF c, e
  <2>3. OneOwner'
    <3>1. \A q \in Requests : InUse(q)' =>
            /\ codecOf'[q] \in Codecs
            /\ \A p \in Requests : InUse(p)' /\ codecOf'[p] = codecOf'[q] => p = q
            /\ \A j \in DOMAIN pool : pool[j].codec # codecOf'[q]
      BY <1>3 DEF OneOwner
    <3>2. \A d \in Codecs : life'[d] = "Alive" <=> Pooled(d) \/ Serving(d)'
      BY <1>2, <1>5, <1>6, <2>1
    <3> QED
      BY <1>7, <1>9, <3>1, <3>2 DEF OneOwner, Pooled, Serving
  <2>4. OwnDataOnly' /\ KeyMatches' /\ ServingHasKey'
    BY <1>1, <1>3, <1>9 DEF OwnDataOnly, KeyMatches, ServingHasKey
  <2>5. UnbornIsClean' /\ PoisonedIsDropped'
    BY <1>1, <1>2, <2>1 DEF UnbornIsClean, PoisonedIsDropped, TypeOK
  <2> QED
    BY <2>2, <2>3, <2>4, <2>5
<1> QED
  BY <1>8, <1>9 DEF Cleanup

-----------------------------------------------------------------------------
(* The theorems.                                                           *)

LEMMA NextPoolInv == PoolInv /\ [Next]_vars => PoolInv'
<1> SUFFICES ASSUME PoolInv, [Next]_vars PROVE PoolInv'
  OBVIOUS
<1>1. CASE Next
  <2>1. PICK r \in Requests :
          \/ \E k \in Keys : Reuse(r, k) \/ Build(r, k) \/ Recover(r, k) \/ ConstructionFails(r, k)
          \/ Install(r)
          \/ GiveUp(r)
          \/ Compress(r)
          \/ Cleanup(r)
    BY <1>1 DEF Next
  <2> QED
    BY <2>1, ReuseInv, BuildInv, RecoverInv, ConstructionFailsInv, InstallInv, GiveUpInv,
       CompressInv, CleanupInv
<1>2. CASE UNCHANGED vars
  BY <1>2 DEF PoolInv, TypeOK, OneOwner, OwnDataOnly, KeyMatches, ServingHasKey,
              UnbornIsClean, PoisonedIsDropped, InUse, vars
<1> QED
  BY <1>1, <1>2

LEMMA PoolInvariant == Spec => []PoolInv
BY InitPoolInv, NextPoolInv, PTL DEF Spec

\* The pool never grows past MAX_IDLE, and every part of the state keeps its
\* type, for every number of requests, encoders and keys.
THEOREM TypeCorrect == Spec => []TypeOK
<1>1. PoolInv => TypeOK
  BY DEF PoolInv
<1> QED
  BY <1>1, PoolInvariant, PTL

\* No two requests ever share an encoder, nor a request and the pool, nor two
\* entries of the pool, and no live encoder is lost.
THEOREM EncodersHaveOneOwner == Spec => []OneOwner
<1>1. PoolInv => OneOwner
  BY DEF PoolInv
<1> QED
  BY <1>1, PoolInvariant, PTL

\* No response is compressed by an encoder that still holds data of another one.
THEOREM ResponsesDoNotMix == Spec => []OwnDataOnly
<1>1. PoolInv => OwnDataOnly
  BY DEF PoolInv
<1> QED
  BY <1>1, PoolInvariant, PTL

\* Every response is compressed with the coding, level and window of its own key.
THEOREM KeysMatch == Spec => []KeyMatches
<1>1. PoolInv => KeyMatches
  BY DEF PoolInv
<1> QED
  BY <1>1, PoolInvariant, PTL

\* An encoder whose reset failed never serves a response or idles in the pool
\* again: it is not alive, and everything that is owned is.
THEOREM PoisonIsContained == Spec => []PoisonContained
<1>1. PoolInv => PoisonContained
  BY PoolEntry DEF PoolInv, OneOwner, PoisonedIsDropped, PoisonContained
<1> QED
  BY <1>1, PoolInvariant, PTL
=============================================================================
