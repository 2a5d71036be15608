----------------------------- MODULE CodecPool -----------------------------
(***************************************************************************)
(* The worker-local pool of idle encoders                                  *)
(* (crates/ngx-compress-module/src/filter/{worker,select,context}.rs).     *)
(* A header filter callback plans a response with an encoder, reused from  *)
(* the pool or built, and then installs it in the request context or gives *)
(* the response up; body filter callbacks feed it; when the request's pool *)
(* is destroyed, at whatever point of the response, the cleanup handler    *)
(* offers the encoder to the pool again.                                   *)
(*                                                                         *)
(* Planning and installing belong to one callback of a single-threaded     *)
(* worker: nothing else happens while a request is "Planned".              *)
(***************************************************************************)
EXTENDS Naturals, Sequences

CONSTANTS
    Requests,
    Codecs,     \* identities of encoder instances; each is built at most once
    Keys,       \* CodecKey: coding, level and window
    NoCodec, NoKey,
    MaxIdle     \* MAX_IDLE, 8 in the code

ASSUME PoolAssumption ==
    /\ NoCodec \notin Codecs
    /\ NoKey \notin Keys
    /\ MaxIdle \in Nat

VARIABLES
    pool,       \* POOL: idle encoders with the keys they were released under
    life,       \* of each encoder: "Unborn", "Alive" or "Dropped"
    made,       \* the parameters an encoder was constructed with
    residue,    \* history: the requests whose data an encoder's state contains
    poisoned,   \* history: the encoders whose reset failed
    phase,      \* of each request
    keyOf,      \* RequestCtx.key (Plan.key before that)
    codecOf     \* RequestCtx.codec (Plan.codec before that)

vars == <<pool, life, made, residue, poisoned, phase, keyOf, codecOf>>

Entry == [key : Keys, codec : Codecs]
Phases == {"New", "Planned", "Compressing", "Closed"}

TypeOK ==
    /\ pool \in Seq(Entry)
    /\ Len(pool) <= MaxIdle
    /\ life \in [Codecs -> {"Unborn", "Alive", "Dropped"}]
    /\ made \in [Codecs -> Keys \cup {NoKey}]
    /\ residue \in [Codecs -> SUBSET Requests]
    /\ poisoned \subseteq Codecs
    /\ phase \in [Requests -> Phases]
    /\ keyOf \in [Requests -> Keys \cup {NoKey}]
    /\ codecOf \in [Requests -> Codecs \cup {NoCodec}]

Init ==
    /\ pool = <<>>
    /\ life = [c \in Codecs |-> "Unborn"]
    /\ made = [c \in Codecs |-> NoKey]
    /\ residue = [c \in Codecs |-> {}]
    /\ poisoned = {}
    /\ phase = [r \in Requests |-> "New"]
    /\ keyOf = [r \in Requests |-> NoKey]
    /\ codecOf = [r \in Requests |-> NoCodec]

-----------------------------------------------------------------------------
(* CodecPool::acquire and release.                                         *)

WorkerFree == \A r \in Requests : phase[r] # "Planned"

\* Mutant: any idle encoder will do.
FirstMatchAnyKey(i, k) == i \in DOMAIN pool /\ i = 1

\* Iterator::position: the first entry with this key.
FirstMatch(i, k) ==
    /\ i \in DOMAIN pool
    /\ pool[i].key = k
    /\ \A j \in 1..(i - 1) : pool[j].key # k

NoMatch(k) == \A i \in DOMAIN pool : pool[i].key # k

\* Mutant: the last entry is removed wherever the match was.
PopLast(s, i) == SubSeq(s, 1, Len(s) - 1)

\* Vec::swap_remove: the last entry takes the place of the one removed.
SwapRemove(s, i) == [j \in 1..(Len(s) - 1) |-> IF j = i THEN s[Len(s)] ELSE s[j]]

Plan(r, k, c) ==
    /\ phase' = [phase EXCEPT ![r] = "Planned"]
    /\ keyOf' = [keyOf EXCEPT ![r] = k]
    /\ codecOf' = [codecOf EXCEPT ![r] = c]

\* Mutant: the encoder is handed out as it came back.
ReuseWithoutReset(r, k) ==
    /\ WorkerFree
    /\ phase[r] = "New"
    /\ \E i \in DOMAIN pool :
         /\ FirstMatch(i, k)
         /\ pool' = SwapRemove(pool, i)
         /\ Plan(r, k, pool[i].codec)
    /\ UNCHANGED <<life, made, residue, poisoned>>

\* A pooled encoder whose reset succeeds.
Reuse(r, k) ==
    /\ WorkerFree
    /\ phase[r] = "New"
    /\ \E i \in DOMAIN pool :
         /\ FirstMatch(i, k)
         /\ pool' = SwapRemove(pool, i)
         /\ residue' = [residue EXCEPT ![pool[i].codec] = {}]
         /\ Plan(r, k, pool[i].codec)
    /\ UNCHANGED <<life, made, poisoned>>

\* construct: a fresh encoder for the same parameters the key was made from.
Build(r, k) ==
    /\ WorkerFree
    /\ phase[r] = "New"
    /\ NoMatch(k)
    /\ \E c \in Codecs :
         /\ life[c] = "Unborn"
         /\ life' = [life EXCEPT ![c] = "Alive"]
         /\ made' = [made EXCEPT ![c] = k]
         /\ Plan(r, k, c)
    /\ UNCHANGED <<pool, residue, poisoned>>

\* Mutant: the error of reset is ignored.
RecoverWithPoisoned(r, k) ==
    /\ WorkerFree
    /\ phase[r] = "New"
    /\ \E i \in DOMAIN pool :
         /\ FirstMatch(i, k)
         /\ pool' = SwapRemove(pool, i)
         /\ poisoned' = poisoned \cup {pool[i].codec}
         /\ Plan(r, k, pool[i].codec)
    /\ UNCHANGED <<life, made, residue>>

\* A pooled encoder whose reset fails is dropped and a fresh one takes over.
Recover(r, k) ==
    /\ WorkerFree
    /\ phase[r] = "New"
    /\ \E i \in DOMAIN pool, c \in Codecs :
         /\ FirstMatch(i, k)
         /\ life[c] = "Unborn"
         /\ pool' = SwapRemove(pool, i)
         /\ poisoned' = poisoned \cup {pool[i].codec}
         /\ life' = [life EXCEPT ![pool[i].codec] = "Dropped", ![c] = "Alive"]
         /\ made' = [made EXCEPT ![c] = k]
         /\ Plan(r, k, c)
    /\ UNCHANGED residue

\* No encoder can be constructed: the response is passed on unencoded.  A pooled
\* encoder whose reset had failed just before is lost as well.
ConstructionFails(r, k) ==
    /\ WorkerFree
    /\ phase[r] = "New"
    /\ phase' = [phase EXCEPT ![r] = "Closed"]
    /\ \/ NoMatch(k) /\ UNCHANGED <<pool, poisoned, life>>
       \/ \E i \in DOMAIN pool :
            /\ FirstMatch(i, k)
            /\ pool' = SwapRemove(pool, i)
            /\ poisoned' = poisoned \cup {pool[i].codec}
            /\ life' = [life EXCEPT ![pool[i].codec] = "Dropped"]
    /\ UNCHANGED <<made, residue, keyOf, codecOf>>

-----------------------------------------------------------------------------
(* The request.                                                            *)

Install(r) ==
    /\ phase[r] = "Planned"
    /\ phase' = [phase EXCEPT ![r] = "Compressing"]
    /\ UNCHANGED <<pool, life, made, residue, poisoned, keyOf, codecOf>>

\* A header or the context cannot be allocated: the plan is dropped with its
\* encoder, which does not go back to the pool.
GiveUp(r) ==
    /\ phase[r] = "Planned"
    /\ phase' = [phase EXCEPT ![r] = "Closed"]
    /\ life' = [life EXCEPT ![codecOf[r]] = "Dropped"]
    /\ codecOf' = [codecOf EXCEPT ![r] = NoCodec]
    /\ UNCHANGED <<pool, made, residue, poisoned, keyOf>>

Compress(r) ==
    /\ WorkerFree
    /\ phase[r] = "Compressing"
    /\ residue' = [residue EXCEPT ![codecOf[r]] = @ \cup {r}]
    /\ UNCHANGED <<pool, life, made, poisoned, phase, keyOf, codecOf>>

\* Mutant: one idle encoder too many is kept.
CleanupOverflowing(r) ==
    /\ WorkerFree
    /\ phase[r] = "Compressing"
    /\ phase' = [phase EXCEPT ![r] = "Closed"]
    /\ codecOf' = [codecOf EXCEPT ![r] = NoCodec]
    /\ Len(pool) <= MaxIdle
    /\ pool' = Append(pool, [key |-> keyOf[r], codec |-> codecOf[r]])
    /\ UNCHANGED <<life, made, residue, poisoned, keyOf>>

\* The cleanup handler, after a complete or an abandoned response: release.
Cleanup(r) ==
    /\ WorkerFree
    /\ phase[r] = "Compressing"
    /\ phase' = [phase EXCEPT ![r] = "Closed"]
    /\ codecOf' = [codecOf EXCEPT ![r] = NoCodec]
    /\ \/ /\ Len(pool) < MaxIdle
          /\ pool' = Append(pool, [key |-> keyOf[r], codec |-> codecOf[r]])
          /\ UNCHANGED life
       \/ /\ Len(pool) >= MaxIdle
          /\ life' = [life EXCEPT ![codecOf[r]] = "Dropped"]
          /\ UNCHANGED pool
    /\ UNCHANGED <<made, residue, poisoned, keyOf>>

Next ==
    \E r \in Requests :
        \/ \E k \in Keys : Reuse(r, k) \/ Build(r, k) \/ Recover(r, k) \/ ConstructionFails(r, k)
        \/ Install(r)
        \/ GiveUp(r)
        \/ Compress(r)
        \/ Cleanup(r)

Spec == Init /\ [][Next]_vars

-----------------------------------------------------------------------------
(* What the pool promises.                                                 *)

InUse(r) == phase[r] \in {"Planned", "Compressing"}

\* An encoder has one owner: no two requests, no request and the pool, and no two
\* entries of the pool share one, and a live encoder is not leaked.  "Do not share
\* mutable codec state between workers or requests."
OneOwner ==
    /\ \A i, j \in DOMAIN pool : pool[i].codec = pool[j].codec => i = j
    /\ \A r \in Requests : InUse(r) =>
         /\ codecOf[r] \in Codecs
         /\ \A q \in Requests : InUse(q) /\ codecOf[q] = codecOf[r] => q = r
         /\ \A i \in DOMAIN pool : pool[i].codec # codecOf[r]
    /\ \A c \in Codecs : life[c] = "Alive" <=>
         \/ \E i \in DOMAIN pool : pool[i].codec = c
         \/ \E r \in Requests : InUse(r) /\ codecOf[r] = c

\* An encoder serving a response holds no data of any other response, however the
\* responses it served before ended.
OwnDataOnly == \A r \in Requests : InUse(r) => residue[codecOf[r]] \subseteq {r}

\* A response is encoded with the coding, level and window it negotiated, also
\* when the encoder comes from the pool.
KeyMatches ==
    /\ \A i \in DOMAIN pool : made[pool[i].codec] = pool[i].key
    /\ \A r \in Requests : InUse(r) => made[codecOf[r]] = keyOf[r]

\* "A poisoned codec can never return to the pool or reach another request."
PoisonContained ==
    /\ \A i \in DOMAIN pool : pool[i].codec \notin poisoned
    /\ \A r \in Requests : InUse(r) => codecOf[r] \notin poisoned
=============================================================================
