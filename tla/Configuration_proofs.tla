------------------------ MODULE Configuration_proofs ------------------------
(***************************************************************************)
(* What Configuration says of every configuration file: any tree of        *)
(* blocks, any lines in any of them, any set of modules.                   *)
(*                                                                         *)
(* The file is read line by line and inherited block by block, so the      *)
(* inductive invariant follows both: a block that has not inherited yet    *)
(* holds, for each field, what the last of its own lines says (OwnRead),   *)
(* and one that has holds what the deciding line on the way to it says     *)
(* (PathRead).  No line that decides is ever looked for: each step names   *)
(* it, the line just read or the one the parent took.                      *)
(***************************************************************************)
EXTENDS Configuration, TLAPS

-----------------------------------------------------------------------------
(* Options.                                                                *)

LEMMA OrElseDomain ==
    ASSUME NEW c, NEW d
    PROVE  DOMAIN OrElse(c, d) = DOMAIN c \cup DOMAIN d
BY DEF OrElse

LEMMA OrElseValue ==
    ASSUME NEW c, NEW d, NEW f \in DOMAIN c \cup DOMAIN d
    PROVE  OrElse(c, d)[f] = IF f \in DOMAIN c THEN c[f] ELSE d[f]
BY DEF OrElse

LEMMA OrElseLegal ==
    ASSUME NEW c, NEW d,
           DOMAIN c \subseteq Field /\ \A f \in DOMAIN c : c[f] \in Values(f),
           DOMAIN d \subseteq Field /\ \A f \in DOMAIN d : d[f] \in Values(f)
    PROVE  /\ DOMAIN OrElse(c, d) \subseteq Field
           /\ \A f \in DOMAIN OrElse(c, d) : OrElse(c, d)[f] \in Values(f)
<1> DEFINE both == OrElse(c, d)
<1>1. DOMAIN both = DOMAIN c \cup DOMAIN d
  BY OrElseDomain
<1>2. \A f \in DOMAIN both : both[f] = IF f \in DOMAIN c THEN c[f] ELSE d[f]
  BY <1>1, OrElseValue
<1> HIDE DEF both
<1>3. ASSUME NEW f \in DOMAIN both PROVE both[f] \in Values(f)
  BY <1>1, <1>2
<1> QED
  BY <1>1, <1>3 DEF both

\* explicit directive > profile preset > built-in default, for every configuration.
LEMMA CompleteValue ==
    ASSUME NEW c, NEW f \in DOMAIN Default
    PROVE  Complete(c)[f] =
             IF f \in DOMAIN c THEN c[f]
             ELSE IF f \in DOMAIN Preset(ProfileOf(c)) THEN Preset(ProfileOf(c))[f]
             ELSE Default[f]
<1> DEFINE preset == Preset(ProfileOf(c))
           explicit == OrElse(c, preset)
<1>1. Complete(c) = OrElse(explicit, Default)
  BY DEF Complete
<1>2. DOMAIN explicit = DOMAIN c \cup DOMAIN preset
  BY OrElseDomain
<1>3. f \in DOMAIN explicit => explicit[f] = IF f \in DOMAIN c THEN c[f] ELSE preset[f]
  BY <1>2, OrElseValue
<1> HIDE DEF preset, explicit
<1>4. Complete(c)[f] = IF f \in DOMAIN explicit THEN explicit[f] ELSE Default[f]
  BY <1>1, OrElseValue
<1>5. Complete(c)[f] = IF f \in DOMAIN c THEN c[f]
                       ELSE IF f \in DOMAIN preset THEN preset[f] ELSE Default[f]
  BY <1>2, <1>3, <1>4
<1> QED
  BY <1>5 DEF preset

LEMMA FieldsHaveDefaults == Field = DOMAIN Default
BY DEF Field, Default

\* No preset turns compression on.
LEMMA EnabledValue ==
    ASSUME NEW c
    PROVE  Resolve(c).enabled = IF "enable" \in DOMAIN c THEN c["enable"] ELSE FALSE
<1>1. "enable" \notin DOMAIN Preset(ProfileOf(c))
  BY DEF Preset, Unset
<1>2. "enable" \in DOMAIN Default
  BY DEF Default
<1>3. Default["enable"] = FALSE
  BY DEF Default
<1>4. Complete(c)["enable"] = IF "enable" \in DOMAIN c THEN c["enable"] ELSE FALSE
  BY <1>1, <1>2, <1>3, CompleteValue, Zenon
<1>5. Resolve(c).enabled = Complete(c).enable
  BY DEF Resolve
<1> QED
  BY <1>4, <1>5, Zenon

LEMMA ProfileValue ==
    ASSUME NEW c
    PROVE  ProfileOf(c) = IF "profile" \in DOMAIN c THEN c["profile"] ELSE Default.profile
<1>1. "profile" \in DOMAIN Default
  BY DEF Default
<1>2. Default["profile"] = Default.profile
  OBVIOUS
<1>3. OrElse(c, Default)["profile"] =
        IF "profile" \in DOMAIN c THEN c["profile"] ELSE Default["profile"]
  BY <1>1, OrElseValue
<1> QED
  BY <1>2, <1>3, Zenon DEF ProfileOf

-----------------------------------------------------------------------------
(* The file.                                                               *)

\* What the lines t of a block say of f by themselves: nothing, or v.
OwnSilent(t, f) == \A i \in DOMAIN t : f \notin DOMAIN Effect(t[i])
OwnSays(t, f, v) ==
    \E i \in DOMAIN t :
        /\ f \in DOMAIN Effect(t[i])
        /\ \A j \in DOMAIN t : f \in DOMAIN Effect(t[j]) => j <= i
        /\ v = Effect(t[i])[f]

\* What the lines on the path to the block say of f.
PathSilent(b, f) == Settings(b, f) = {}
PathSays(b, f, v) ==
    \E p \in Settings(b, f) :
        /\ \A q \in Settings(b, f) : Overrides(p, q)
        /\ v = Effect(LineAt(b, p))[f]

TextTyped == DOMAIN text = Block /\ \A b \in Block : text[b] \in Seq(Lines[b])

LEMMA PathFacts ==
    ASSUME BlockAssumption, NEW b \in Block
    PROVE  /\ Len(Path[b]) \in Nat \ {0}
           /\ DOMAIN Path[b] = 1..Len(Path[b])
           /\ Path[b][Len(Path[b])] = b
           /\ b \in Outermost => Len(Path[b]) = 1
           /\ b \notin Outermost =>
                /\ Parent(b) \in Block
                /\ Len(Path[b]) = Len(Path[Parent(b)]) + 1
                /\ \A n \in DOMAIN Path[Parent(b)] :
                     n \in DOMAIN Path[b] /\ Path[b][n] = Path[Parent(b)][n]
<1>1. Path[b] \in Seq(Block) /\ Path[b] # <<>>
  BY DEF BlockAssumption
<1>2. Len(Path[b]) \in Nat \ {0} /\ DOMAIN Path[b] = 1..Len(Path[b])
  BY <1>1
<1>3. Path[b][Len(Path[b])] = b
  BY DEF BlockAssumption
<1>4. ASSUME b \notin Outermost
      PROVE  /\ Parent(b) \in Block
             /\ Len(Path[b]) = Len(Path[Parent(b)]) + 1
             /\ \A n \in DOMAIN Path[Parent(b)] :
                  n \in DOMAIN Path[b] /\ Path[b][n] = Path[Parent(b)][n]
  <2>1. Len(Path[b]) # 1
    BY <1>4 DEF Outermost
  <2>2. Parent(b) \in Block
    BY <1>1, <1>2, <2>1 DEF Parent
  <2> DEFINE above == Path[Parent(b)]
  <2>3. Path[b] = Append(above, b) /\ above \in Seq(Block)
    BY <1>4, <2>2 DEF BlockAssumption
  <2> HIDE DEF above
  <2>4. Len(Path[b]) = Len(above) + 1 /\ Len(above) \in Nat /\ DOMAIN above = 1..Len(above)
    BY <2>3
  <2>5. ASSUME NEW n \in DOMAIN above PROVE n \in DOMAIN Path[b] /\ Path[b][n] = above[n]
    BY <1>2, <2>3, <2>4, <2>5
  <2> QED
    BY <2>2, <2>4, <2>5 DEF above
<1> QED
  BY <1>2, <1>3, <1>4 DEF Outermost

LEMMA PlaceFacts ==
    ASSUME BlockAssumption, TextTyped, NEW b \in Block, NEW p
    PROVE  p \in Places(b) <=>
             \E n \in DOMAIN Path[b] : \E i \in DOMAIN text[Path[b][n]] : p = <<n, i>>
BY DEF Places

\* The last line of the block itself decides.
LEMMA OwnSaysPathSays ==
    ASSUME BlockAssumption, TextTyped, NEW b \in Block, NEW f, NEW v, OwnSays(text[b], f, v)
    PROVE  PathSays(b, f, v)
<1>1. PICK i \in DOMAIN text[b] :
        /\ f \in DOMAIN Effect(text[b][i])
        /\ \A j \in DOMAIN text[b] : f \in DOMAIN Effect(text[b][j]) => j <= i
        /\ v = Effect(text[b][i])[f]
  BY DEF OwnSays
<1> DEFINE last == Len(Path[b])
           p == <<last, i>>
<1>2. last \in Nat \ {0} /\ DOMAIN Path[b] = 1..last /\ Path[b][last] = b
  BY PathFacts
<1>3. p \in Places(b) /\ LineAt(b, p) = text[b][i]
  BY <1>2, PlaceFacts DEF LineAt
<1>4. p \in Settings(b, f)
  BY <1>1, <1>3 DEF Settings
<1>5. ASSUME NEW q \in Settings(b, f) PROVE Overrides(p, q)
  <2>1. q \in Places(b) /\ f \in DOMAIN Effect(LineAt(b, q))
    BY DEF Settings
  <2>2. PICK n \in DOMAIN Path[b] : \E j \in DOMAIN text[Path[b][n]] : q = <<n, j>>
    BY <2>1, PlaceFacts
  <2>3. PICK j \in DOMAIN text[Path[b][n]] : q = <<n, j>>
    BY <2>2
  <2>4. CASE n = last
    <3>1. LineAt(b, q) = text[b][j] /\ j \in DOMAIN text[b]
      BY <1>2, <2>3, <2>4 DEF LineAt
    <3>2. j <= i
      BY <1>1, <2>1, <3>1
    <3> QED
      BY <2>3, <2>4, <3>2 DEF Overrides
  <2>5. CASE n # last
    BY <1>2, <2>3, <2>5 DEF Overrides
  <2> QED
    BY <2>4, <2>5
<1> QED
  BY <1>1, <1>3, <1>4, <1>5 DEF PathSays

\* A block that says nothing has the settings of its parent.
LEMMA InheritedSettings ==
    ASSUME BlockAssumption, TextTyped, NEW b \in Block \ Outermost, NEW f, OwnSilent(text[b], f)
    PROVE  /\ Settings(b, f) = Settings(Parent(b), f)
           /\ \A p \in Settings(b, f) : LineAt(b, p) = LineAt(Parent(b), p)
<1> DEFINE up == Parent(b)
<1>1. /\ up \in Block /\ Len(Path[up]) \in Nat \ {0} /\ Len(Path[b]) = Len(Path[up]) + 1
      /\ DOMAIN Path[up] = 1..Len(Path[up]) /\ DOMAIN Path[b] = 1..Len(Path[b])
      /\ Path[b][Len(Path[b])] = b
      /\ \A n \in DOMAIN Path[up] : n \in DOMAIN Path[b] /\ Path[b][n] = Path[up][n]
  BY PathFacts
<1> HIDE DEF up
<1>0. up \in Block
  BY <1>1
<1>2. ASSUME NEW n \in DOMAIN Path[up], NEW i \in DOMAIN text[Path[b][n]]
      PROVE  LineAt(b, <<n, i>>) = LineAt(up, <<n, i>>)
  BY <1>1 DEF LineAt
<1>3. ASSUME NEW p \in Settings(b, f)
      PROVE  p \in Settings(up, f) /\ LineAt(b, p) = LineAt(up, p)
  <2>1. p \in Places(b) /\ f \in DOMAIN Effect(LineAt(b, p))
    BY DEF Settings
  <2>2. PICK n \in DOMAIN Path[b] : \E i \in DOMAIN text[Path[b][n]] : p = <<n, i>>
    BY <2>1, PlaceFacts
  <2>3. PICK i \in DOMAIN text[Path[b][n]] : p = <<n, i>>
    BY <2>2
  <2>4. n # Len(Path[b])
    BY <1>1, <2>1, <2>3 DEF OwnSilent, LineAt
  <2>5. n \in DOMAIN Path[up]
    BY <1>1, <2>4
  <2>6. LineAt(b, p) = LineAt(up, p)
    BY <1>2, <2>3, <2>5
  <2>7. p \in Places(up)
    BY <1>1, <2>3, <2>5, PlaceFacts
  <2> QED
    BY <2>1, <2>6, <2>7 DEF Settings
<1>4. ASSUME NEW p \in Settings(up, f) PROVE p \in Settings(b, f)
  <2>1. p \in Places(up) /\ f \in DOMAIN Effect(LineAt(up, p))
    BY DEF Settings
  <2>2. PICK n \in DOMAIN Path[up] : \E i \in DOMAIN text[Path[up][n]] : p = <<n, i>>
    BY <1>0, <2>1, PlaceFacts, SMTT(30)
  <2>3. PICK i \in DOMAIN text[Path[up][n]] : p = <<n, i>>
    BY <2>2
  <2>4. LineAt(b, p) = LineAt(up, p)
    BY <1>1, <1>2, <2>3
  <2>5. p \in Places(b)
    BY <1>1, <2>3, PlaceFacts
  <2> QED
    BY <2>1, <2>4, <2>5 DEF Settings
<1> QED
  BY <1>3, <1>4 DEF up

LEMMA InheritedSays ==
    ASSUME BlockAssumption, TextTyped, NEW b \in Block \ Outermost, NEW f, OwnSilent(text[b], f)
    PROVE  /\ PathSilent(Parent(b), f) => PathSilent(b, f)
           /\ \A v : PathSays(Parent(b), f, v) => PathSays(b, f, v)
BY InheritedSettings DEF PathSilent, PathSays

LEMMA OutermostSilent ==
    ASSUME BlockAssumption, TextTyped, NEW b \in Outermost, NEW f, OwnSilent(text[b], f)
    PROVE  PathSilent(b, f)
<1>1. b \in Block /\ DOMAIN Path[b] = {1} /\ Path[b][1] = b
  <2>1. b \in Block /\ Len(Path[b]) = 1
    BY DEF Outermost
  <2>2. DOMAIN Path[b] = 1..1 /\ Path[b][1] = b
    BY <2>1, PathFacts
  <2> QED
    BY <2>1, <2>2
<1>2. ASSUME NEW p \in Settings(b, f) PROVE FALSE
  <2>1. p \in Places(b) /\ f \in DOMAIN Effect(LineAt(b, p))
    BY DEF Settings
  <2>2. PICK n \in DOMAIN Path[b] : \E i \in DOMAIN text[Path[b][n]] : p = <<n, i>>
    BY <1>1, <2>1, PlaceFacts
  <2> QED
    BY <1>1, <2>1, <2>2 DEF OwnSilent, LineAt
<1> QED
  BY <1>2 DEF PathSilent

\* The file's answer is the deciding line's.
LEMMA PathSaysSays ==
    ASSUME BlockAssumption, TextTyped, NEW b \in Block, NEW f, NEW v, NEW default
    PROVE  /\ PathSays(b, f, v) => Says(b, f, default) = v
           /\ PathSilent(b, f) => Says(b, f, default) = default
<1>1. ASSUME PathSays(b, f, v) PROVE Says(b, f, default) = v
  <2>1. PICK p \in Settings(b, f) :
          /\ \A q \in Settings(b, f) : Overrides(p, q)
          /\ v = Effect(LineAt(b, p))[f]
    BY <1>1 DEF PathSays
  <2> DEFINE d == Deciding(Settings(b, f))
  <2>2. d \in Settings(b, f) /\ \A q \in Settings(b, f) : Overrides(d, q)
    BY <2>1 DEF Deciding
  <2>3. ASSUME NEW s \in Settings(b, f) PROVE \E n \in Nat, i \in Nat : s = <<n, i>>
    <3>1. PICK n \in DOMAIN Path[b] : \E i \in DOMAIN text[Path[b][n]] : s = <<n, i>>
      BY PlaceFacts DEF Settings
    <3>2. PICK i \in DOMAIN text[Path[b][n]] : s = <<n, i>>
      BY <3>1
    <3>3. n \in Nat /\ Path[b][n] \in Block
      BY PathFacts DEF BlockAssumption
    <3>4. text[Path[b][n]] \in Seq(Lines[Path[b][n]])
      BY <3>3 DEF TextTyped
    <3>5. i \in Nat
      BY <3>4
    <3> QED
      BY <3>2, <3>3, <3>5
  <2>4. d = p
    <3>1. PICK n \in Nat, i \in Nat : d = <<n, i>>
      BY <2>2, <2>3
    <3>2. PICK m \in Nat, j \in Nat : p = <<m, j>>
      BY <2>3
    <3>3. Overrides(d, p) /\ Overrides(p, d)
      BY <2>1, <2>2
    <3> HIDE DEF d
    <3>4. n = m /\ i = j
      BY <3>1, <3>2, <3>3 DEF Overrides
    <3> QED
      BY <3>1, <3>2, <3>4
  <2> HIDE DEF d
  <2>5. Says(b, f, default) = Effect(LineAt(b, d))[f]
    BY <2>1, Zenon DEF Says, d
  <2> QED
    BY <2>1, <2>4, <2>5
<1>2. ASSUME PathSilent(b, f) PROVE Says(b, f, default) = default
  BY <1>2 DEF Says, PathSilent
<1> QED
  BY <1>1, <1>2

-----------------------------------------------------------------------------
(* Reading a line.                                                         *)

\* What a block holds, this module's fields and the flag of NGINX's gzip together.
Held(c, g) == OrElse(IF g = "unset" THEN Unset ELSE Some("builtin_gzip", g = "on"), c)

\* The configuration c holds, for field f, what the last of the lines t says.
Agree(t, c, f) ==
    /\ f \in DOMAIN c => OwnSays(t, f, c[f])
    /\ f \notin DOMAIN c => OwnSilent(t, f)

\* A line decides what it sets and leaves the rest of its block alone.
LEMMA AppendAgrees ==
    ASSUME NEW S, NEW t \in Seq(S), NEW line \in S, NEW c, NEW f, Agree(t, c, f)
    PROVE  Agree(Append(t, line), OrElse(Effect(line), c), f)
<1> DEFINE n == Len(t)
           u == Append(t, line)
           e == Effect(line)
           d == OrElse(e, c)
<1>1. /\ DOMAIN u = 1..(n + 1) /\ DOMAIN t = 1..n /\ n \in Nat
      /\ \A i \in DOMAIN t : u[i] = t[i]
      /\ u[n + 1] = line
  OBVIOUS
<1>2. DOMAIN d = DOMAIN e \cup DOMAIN c
  BY OrElseDomain
<1>3. f \in DOMAIN e => d[f] = e[f]
  BY OrElseValue
<1>4. f \in DOMAIN c /\ f \notin DOMAIN e => d[f] = c[f]
  BY OrElseValue
<1>5. e = Effect(line)
  OBVIOUS
<1> HIDE DEF n, u, d, e
<1>6. CASE f \in DOMAIN e
  <2>1. n + 1 \in DOMAIN u /\ Effect(u[n + 1]) = e
    BY <1>1, <1>5
  <2>2. \A j \in DOMAIN u : j <= n + 1
    BY <1>1
  <2>3. OwnSays(u, f, e[f])
    BY <1>6, <2>1, <2>2 DEF OwnSays
  <2> QED
    BY <1>2, <1>3, <1>6, <2>3 DEF Agree, d, e, u
<1>7. CASE f \notin DOMAIN e
  <2>1. ASSUME f \in DOMAIN c PROVE OwnSays(u, f, c[f])
    <3>1. PICK i \in DOMAIN t :
            /\ f \in DOMAIN Effect(t[i])
            /\ \A j \in DOMAIN t : f \in DOMAIN Effect(t[j]) => j <= i
            /\ c[f] = Effect(t[i])[f]
      BY <2>1 DEF Agree, OwnSays
    <3>2. i \in DOMAIN u /\ u[i] = t[i]
      BY <1>1
    <3>3. ASSUME NEW j \in DOMAIN u, f \in DOMAIN Effect(u[j]) PROVE j <= i
      BY <1>1, <1>5, <1>7, <3>1, <3>3
    <3> QED
      BY <3>1, <3>2, <3>3 DEF OwnSays
  <2>2. ASSUME f \notin DOMAIN c PROVE OwnSilent(u, f)
    BY <1>1, <1>5, <1>7, <2>2 DEF Agree, OwnSilent
  <2> QED
    BY <1>2, <1>4, <1>7, <2>1, <2>2 DEF Agree, d, e, u
<1> QED
  BY <1>6, <1>7

LEMMA AppendTyped ==
    ASSUME NEW S, NEW t \in Seq(S), NEW line \in S
    PROVE  Append(t, line) \in Seq(S)
OBVIOUS

\* Settings of different fields do not disturb each other.
LEMMA OrElseSwap ==
    ASSUME NEW a, NEW g, NEW c, \A f \in DOMAIN a : f \notin DOMAIN g
    PROVE  OrElse(g, OrElse(a, c)) = OrElse(a, OrElse(g, c))
BY DEF OrElse

LEMMA OrElseUnset ==
    ASSUME NEW a, NEW c
    PROVE  OrElse(a, OrElse(Unset, c)) = OrElse(a, c)
BY DEF OrElse, Unset

LEMMA HeldField ==
    ASSUME NEW c, NEW g, NEW f \in Field
    PROVE  /\ f \in DOMAIN Held(c, g) <=> f \in DOMAIN c
           /\ f \in DOMAIN c => Held(c, g)[f] = c[f]
<1> DEFINE own == IF g = "unset" THEN Unset ELSE Some("builtin_gzip", g = "on")
<1>1. f \notin DOMAIN own
  BY DEF Field, Unset, Some
<1>2. Held(c, g) = OrElse(own, c)
  BY DEF Held
<1> HIDE DEF own
<1>3. DOMAIN OrElse(own, c) = DOMAIN own \cup DOMAIN c
  BY OrElseDomain
<1>4. f \in DOMAIN c => OrElse(own, c)[f] = c[f]
  BY <1>1, OrElseValue
<1> QED
  BY <1>1, <1>2, <1>3, <1>4

LEMMA GzipIsNoField == "builtin_gzip" \notin Field
BY DEF Field

LEMMA HeldNoGzip ==
    ASSUME NEW c, DOMAIN c \subseteq Field
    PROVE  "builtin_gzip" \notin DOMAIN Held(c, "unset")
<1>1. Held(c, "unset") = OrElse(Unset, c)
  BY DEF Held
<1>2. DOMAIN OrElse(Unset, c) = DOMAIN Unset \cup DOMAIN c /\ DOMAIN Unset = {}
  BY OrElseDomain DEF Unset
<1> QED
  BY <1>1, <1>2, GzipIsNoField

LEMMA HeldGzip ==
    ASSUME NEW t, NEW c, NEW g, g # "unset", Agree(t, Held(c, g), "builtin_gzip")
    PROVE  OwnSays(t, "builtin_gzip", g = "on")
<1> DEFINE own == Some("builtin_gzip", g = "on")
<1>1. DOMAIN own = {"builtin_gzip"}
  BY DEF Some
<1>2. own["builtin_gzip"] = (g = "on")
  BY Zenon DEF Some
<1>3. Held(c, g) = OrElse(own, c)
  BY Zenon DEF Held
<1> HIDE DEF own
<1>4. DOMAIN OrElse(own, c) = DOMAIN own \cup DOMAIN c
  BY OrElseDomain
<1>5. OrElse(own, c)["builtin_gzip"] = own["builtin_gzip"]
  BY <1>1, OrElseValue
<1>6. "builtin_gzip" \in DOMAIN Held(c, g)
  BY <1>1, <1>3, <1>4
<1>7. Held(c, g)["builtin_gzip"] = (g = "on")
  BY <1>2, <1>3, <1>5, Zenon
<1>8. OwnSays(t, "builtin_gzip", Held(c, g)["builtin_gzip"])
  BY <1>6 DEF Agree
<1> QED
  BY <1>7, <1>8, Zenon

LEMMA SamePaths ==
    ASSUME text' = text, NEW b, NEW f
    PROVE  Settings(b, f)' = Settings(b, f) /\ \A p : LineAt(b, p)' = LineAt(b, p)
BY DEF Settings, Places, LineAt

-----------------------------------------------------------------------------
(* The invariant.                                                          *)

Typed ==
    /\ phase \in {"read", "merge", "serve", "failed"}
    /\ build \in Builds
    /\ TextTyped
    /\ DOMAIN conf = Block
    /\ flag \in [Block -> {"unset", "on", "off"}]
    /\ merged \subseteq Block
    /\ descriptor \in {0, FindBuiltinGzip}
    /\ phase = "read" => merged = {}
    /\ phase = "merge" => Outermost \subseteq merged
    /\ phase = "serve" => merged = Block /\ descriptor = FindBuiltinGzip
    /\ \A b \in Block : flag[b] = "on" => FindBuiltinGzip # 0

ValuesLegal ==
    \A b \in Block :
        DOMAIN conf[b] \subseteq Field /\ \A f \in DOMAIN conf[b] : conf[b][f] \in Values(f)

OwnRead ==
    \A b \in Block \ merged : \A f \in Field \cup {"builtin_gzip"} :
        Agree(text[b], Held(conf[b], flag[b]), f)

PathAgree(b, f) ==
    /\ f \in DOMAIN conf[b] => PathSays(b, f, conf[b][f])
    /\ f \notin DOMAIN conf[b] => PathSilent(b, f)

FlagAgree(b) ==
    \/ flag[b] # "unset" /\ PathSays(b, "builtin_gzip", flag[b] = "on")
    \/ flag[b] # "on" /\ PathSilent(b, "builtin_gzip")

PathRead == \A b \in merged : FlagAgree(b) /\ \A f \in Field : PathAgree(b, f)

\* Postconfiguration and the requests behind it.
ServingFacts ==
    /\ phase # "serve" =>
         expected = {} /\ warned = {} /\ outcome = NoRequest /\ \A b \in Block : logged[b] = 0
    /\ expected \subseteq {b \in Block : EnabledIn(b) /\ RuntimeConflict(b)}
    /\ warned \subseteq {b \in Block \ expected : EnabledIn(b) /\ RuntimeConflict(b)}
    /\ logged = [b \in Block |-> IF b \in warned THEN 1 ELSE 0]
    /\ outcome # NoRequest =>
         \E b \in Block :
            outcome = <<b, Disabled(b)>> /\ (Disabled(b) => b \in expected \cup warned)

ConfigInv == Typed /\ ValuesLegal /\ OwnRead /\ PathRead /\ ServingFacts

LEMMA EffectOfLine ==
    ASSUME InputAssumption, NEW b \in Block, NEW line \in Lines[b]
    PROVE  /\ line[1] = "gzip" =>
                /\ line[2] \in {"on", "off"}
                /\ DOMAIN Effect(line) = {"builtin_gzip"}
                /\ Effect(line)["builtin_gzip"] = (line[2] = "on")
           /\ line[1] # "gzip" => Effect(line) = Assignment(line)
BY DEF InputAssumption, Effect, Some

\* An accepted line sets fields, to values in their ranges.
LEMMA AssignmentLegal ==
    ASSUME InputAssumption, NEW b \in Block, NEW line \in Lines[b],
           line[1] # "gzip", Valid(line)
    PROVE  /\ DOMAIN Assignment(line) \subseteq Field
           /\ \A f \in DOMAIN Assignment(line) : Assignment(line)[f] \in Values(f)
<1>1. line[1] \in DOMAIN Slot \cup {"compress"}
  BY DEF InputAssumption
<1>2. CASE line[1] = "compress"
  <2> DEFINE switch == Some("enable", line[2] # "off")
             tier == IF line[2] = "off" THEN Unset ELSE Some("profile", ProfileNamed(line[2]))
  <2>1. line[2] \in {"off", "on", "fast", "balanced"}
    BY <1>2 DEF Valid
  <2>2. Assignment(line) = OrElse(switch, tier)
    BY <1>2 DEF Assignment
  <2>3. DOMAIN switch = {"enable"} /\ switch["enable"] \in BOOLEAN
    BY Zenon DEF Some
  <2>4. /\ DOMAIN tier \subseteq {"profile"}
        /\ "profile" \in DOMAIN tier => tier["profile"] \in {"custom", "fast", "balanced"}
    BY <2>1 DEF Some, Unset, ProfileNamed
  <2> HIDE DEF switch, tier
  <2> DEFINE both == OrElse(switch, tier)
  <2>a. DOMAIN both = DOMAIN switch \cup DOMAIN tier
    BY OrElseDomain
  <2>b. \A f \in DOMAIN both : both[f] = IF f \in DOMAIN switch THEN switch[f] ELSE tier[f]
    BY <2>a, OrElseValue
  <2> HIDE DEF both
  <2>5. DOMAIN both \subseteq {"enable", "profile"}
    BY <2>3, <2>4, <2>a
  <2>6. "enable" \in DOMAIN both /\ both["enable"] = switch["enable"]
    BY <2>3, <2>a, <2>b
  <2>7. "profile" \in DOMAIN both =>
          "profile" \in DOMAIN tier /\ both["profile"] = tier["profile"]
    BY <2>3, <2>a, <2>b
  <2>8. Values("enable") = BOOLEAN /\ Values("profile") = {"custom", "fast", "balanced"}
    BY DEF Values, FlagField
  <2>9. {"enable", "profile"} \subseteq Field
    BY DEF Field
  <2>c. Assignment(line) = both
    BY <2>2 DEF both
  <2>d. \A f \in DOMAIN both : both[f] \in Values(f)
    <3>1. both["enable"] \in Values("enable")
      BY <2>3, <2>6, <2>8, Zenon
    <3>2. "profile" \in DOMAIN both => both["profile"] \in Values("profile")
      BY <2>4, <2>7, <2>8
    <3> QED
      BY <2>5, <3>1, <3>2
  <2>e. DOMAIN both \subseteq Field
    BY <2>5, <2>9
  <2> QED
    BY <2>c, <2>d, <2>e
<1>3. CASE line[1] # "compress"
  <2> DEFINE slot == Slot[line[1]]
  <2>1. slot \in Field
    BY <1>1, <1>3 DEF Slot, Field
  <2> HIDE DEF slot
  <2>2. CASE slot \in FlagField
    <3> DEFINE on == line[2] = "on"
    <3>1. Values(slot) = BOOLEAN
      BY <2>2 DEF Values, FlagField
    <3>2. Assignment(line) = Some(slot, on)
      BY <1>3, <2>2, Zenon DEF Assignment, slot
    <3>3. on \in BOOLEAN
      BY Zenon
    <3> HIDE DEF on
    <3> QED
      BY <2>1, <3>1, <3>2, <3>3 DEF Some
  <2>3. CASE slot \notin FlagField
    <3>1. Assignment(line) = Some(slot, line[2]) /\ line[2] \in Values(slot)
      BY <1>3, <2>3 DEF Assignment, Valid, slot
    <3> QED
      BY <2>1, <3>1 DEF Some
  <2> QED
    BY <2>2, <2>3
<1> QED
  BY <1>2, <1>3

-----------------------------------------------------------------------------
(* Steps that read the file.                                               *)

LEMMA ConfigInitInv == Init => ConfigInv
<1> SUFFICES ASSUME Init PROVE ConfigInv
  OBVIOUS
<1>1. Typed
  BY DEF Init, Typed, TextTyped
<1>2. ValuesLegal
  BY DEF Init, ValuesLegal, Unset
<1>3. OwnRead
  <2> SUFFICES ASSUME NEW b \in Block, NEW f \in Field \cup {"builtin_gzip"}
               PROVE  Agree(text[b], Held(conf[b], flag[b]), f)
    BY DEF OwnRead
  <2>1. text[b] = <<>> /\ Held(conf[b], flag[b]) = OrElse(Unset, Unset)
    BY DEF Init, Held
  <2>2. DOMAIN OrElse(Unset, Unset) = {}
    BY DEF OrElse, Unset
  <2>3. OwnSilent(<<>>, f)
    BY DEF OwnSilent
  <2> QED
    BY <2>1, <2>2, <2>3 DEF Agree
<1>4. PathRead
  BY DEF Init, PathRead
<1>5. ServingFacts
  BY DEF Init, ServingFacts
<1> QED
  BY <1>1, <1>2, <1>3, <1>4, <1>5 DEF ConfigInv

\* While the file is read nothing has been asked yet.
LEMMA ReadKeeps ==
    ASSUME ConfigInv, NEW b \in Block, NEW line, Read(b, line)
    PROVE  /\ merged = {} /\ merged' = {}
           /\ phase' # "serve" => ServingFacts'
           /\ FindBuiltinGzip' = FindBuiltinGzip
           /\ build' \in Builds /\ descriptor' \in {0, FindBuiltinGzip'}
<1>1. phase = "read" /\ merged = {}
  BY DEF ConfigInv, Typed, Read
<1>2. UNCHANGED <<build, merged, descriptor, expected, warned, logged, outcome>>
  BY DEF Read, serveVars
<1>3. expected = {} /\ warned = {} /\ outcome = NoRequest /\ \A c \in Block : logged[c] = 0
  BY <1>1 DEF ConfigInv, ServingFacts
<1>4. logged = [c \in Block |-> 0]
  BY <1>3 DEF ConfigInv, ServingFacts
<1>5. phase' # "serve" => ServingFacts'
  BY <1>2, <1>3, <1>4 DEF ServingFacts
<1> QED
  BY <1>1, <1>2, <1>5 DEF ConfigInv, Typed, FindBuiltinGzip


\* The lines that are accepted, of either module.
LEMMA LineRead ==
    ASSUME ConfigInv, NEW b \in Block, NEW line \in Lines[b], Read(b, line),
           text' = [text EXCEPT ![b] = Append(@, line)],
           \A c \in Block \ {b} : conf'[c] = conf[c] /\ flag'[c] = flag[c],
           Held(conf'[b], flag'[b]) = OrElse(Effect(line), Held(conf[b], flag[b]))
    PROVE  TextTyped' /\ OwnRead' /\ PathRead'
<1>1. merged = {} /\ merged' = {}
  BY ReadKeeps
<1>2. TextTyped
  BY DEF ConfigInv, Typed
<1>3. text'[b] = Append(text[b], line) /\ text[b] \in Seq(Lines[b])
  BY <1>2 DEF TextTyped
<1>4. \A c \in Block \ {b} : text'[c] = text[c]
  BY <1>2 DEF TextTyped
<1>5. TextTyped'
  <2>1. DOMAIN text' = Block
    BY <1>2 DEF TextTyped
  <2>2. ASSUME NEW c \in Block PROVE text'[c] \in Seq(Lines[c])
    <3>1. CASE c = b
      <4>1. Append(text[b], line) \in Seq(Lines[b])
        BY <1>3, AppendTyped
      <4> QED
        BY <1>3, <3>1, <4>1
    <3>2. CASE c # b
      BY <1>2, <1>4, <3>2 DEF TextTyped
    <3> QED
      BY <3>1, <3>2
  <2> QED
    BY <2>1, <2>2 DEF TextTyped
<1>6. ASSUME NEW c \in Block, NEW f \in Field \cup {"builtin_gzip"}
      PROVE  Agree(text'[c], Held(conf'[c], flag'[c]), f)
  <2>1. Agree(text[c], Held(conf[c], flag[c]), f)
    BY <1>1 DEF ConfigInv, OwnRead
  <2>2. CASE c = b
    <3>1. Agree(Append(text[b], line), OrElse(Effect(line), Held(conf[b], flag[b])), f)
      BY <1>3, <2>1, <2>2, AppendAgrees
    <3> QED
      BY <1>3, <2>2, <3>1
  <2>3. CASE c # b
    BY <1>4, <2>1, <2>3
  <2> QED
    BY <2>2, <2>3
<1>7. OwnRead'
  BY <1>6 DEF OwnRead
<1>8. PathRead'
  BY <1>1 DEF PathRead
<1> QED
  BY <1>5, <1>7, <1>8

LEMMA CompressLineInv ==
    ASSUME InputAssumption, ConfigInv,
           NEW b \in Block, NEW line \in Lines[b], CompressLine(b, line)
    PROVE  ConfigInv'
<1> DEFINE set == Assignment(line)
           own == IF flag[b] = "unset" THEN Unset ELSE Some("builtin_gzip", flag[b] = "on")
<1>1. /\ line[1] # "gzip" /\ Valid(line) /\ DOMAIN conf = Block
      /\ conf' = [conf EXCEPT ![b] = OrElse(set, conf[b])]
      /\ phase = "read" /\ phase' = phase /\ flag' = flag /\ Read(b, line)
      /\ text' = [text EXCEPT ![b] = Append(@, line)]
  BY DEF CompressLine, Read, ConfigInv, Typed, Apply
<1>2. /\ merged = {} /\ merged' = {} /\ FindBuiltinGzip' = FindBuiltinGzip
      /\ build' \in Builds /\ descriptor' \in {0, FindBuiltinGzip'} /\ ServingFacts'
  BY <1>1, ReadKeeps
<1>3. Effect(line) = set
  BY <1>1, EffectOfLine
<1>4. DOMAIN set \subseteq Field /\ \A f \in DOMAIN set : set[f] \in Values(f)
  BY <1>1, AssignmentLegal
<1>5. conf'[b] = OrElse(set, conf[b]) /\ \A c \in Block \ {b} : conf'[c] = conf[c]
  BY <1>1
<1>6. Held(conf'[b], flag'[b]) = OrElse(Effect(line), Held(conf[b], flag[b]))
  <2>1. \A f \in DOMAIN set : f \notin DOMAIN own
    BY <1>4 DEF Field, Unset, Some
  <2>2. Held(conf[b], flag[b]) = OrElse(own, conf[b])
    BY DEF Held
  <2>3. Held(conf'[b], flag'[b]) = OrElse(own, OrElse(set, conf[b]))
    BY <1>1, <1>5, Zenon DEF Held
  <2> HIDE DEF own, set
  <2>4. OrElse(own, OrElse(set, conf[b])) = OrElse(set, OrElse(own, conf[b]))
    BY <2>1, OrElseSwap
  <2> QED
    BY <1>3, <2>2, <2>3, <2>4
<1> HIDE DEF set, own
<1>7. TextTyped' /\ OwnRead' /\ PathRead'
  BY <1>1, <1>5, <1>6, LineRead
<1>8. Typed'
  <2>1. DOMAIN conf' = Block
    BY <1>1
  <2> QED
    BY <1>1, <1>2, <1>7, <2>1 DEF ConfigInv, Typed
<1>9. ValuesLegal'
  <2> SUFFICES ASSUME NEW c \in Block
               PROVE  /\ DOMAIN conf'[c] \subseteq Field
                      /\ \A f \in DOMAIN conf'[c] : conf'[c][f] \in Values(f)
    BY DEF ValuesLegal
  <2>1. DOMAIN conf[c] \subseteq Field /\ \A f \in DOMAIN conf[c] : conf[c][f] \in Values(f)
    BY DEF ConfigInv, ValuesLegal
  <2>2. CASE c = b
    BY <1>4, <1>5, <2>1, <2>2, OrElseLegal
  <2>3. CASE c # b
    BY <1>5, <2>1, <2>3
  <2> QED
    BY <2>2, <2>3
<1> QED
  BY <1>2, <1>7, <1>8, <1>9 DEF ConfigInv

LEMMA GzipLineInv ==
    ASSUME InputAssumption, ConfigInv,
           NEW b \in Block, NEW line \in Lines[b], GzipLine(b, line)
    PROVE  ConfigInv'
<1>1. /\ line[1] = "gzip" /\ FindBuiltinGzip # 0 /\ flag[b] = "unset"
      /\ flag' = [flag EXCEPT ![b] = line[2]]
      /\ phase = "read" /\ phase' = phase /\ conf' = conf /\ Read(b, line)
      /\ text' = [text EXCEPT ![b] = Append(@, line)]
  BY DEF GzipLine, GzipKnown, Read
<1>2. /\ merged = {} /\ merged' = {} /\ FindBuiltinGzip' = FindBuiltinGzip
      /\ build' \in Builds /\ descriptor' \in {0, FindBuiltinGzip'} /\ ServingFacts'
  BY <1>1, ReadKeeps
<1>3. line[2] \in {"on", "off"}
  BY <1>1, EffectOfLine
<1>4. flag \in [Block -> {"unset", "on", "off"}]
  BY DEF ConfigInv, Typed
<1>5. flag'[b] = line[2] /\ \A c \in Block \ {b} : flag'[c] = flag[c]
  BY <1>1, <1>4
<1>6. Held(conf'[b], flag'[b]) = OrElse(Effect(line), Held(conf[b], flag[b]))
  <2>1. Effect(line) = Some("builtin_gzip", line[2] = "on")
    BY <1>1, Zenon DEF Effect
  <2>2. Held(conf'[b], flag'[b]) = OrElse(Effect(line), conf[b])
    <3>1. flag'[b] # "unset"
      BY <1>3, <1>5
    <3> QED
      BY <1>1, <1>5, <2>1, <3>1, Zenon DEF Held
  <2>3. Held(conf[b], flag[b]) = OrElse(Unset, conf[b])
    BY <1>1 DEF Held
  <2>4. OrElse(Effect(line), OrElse(Unset, conf[b])) = OrElse(Effect(line), conf[b])
    BY OrElseUnset
  <2> QED
    BY <2>2, <2>3, <2>4
<1>7. TextTyped' /\ OwnRead' /\ PathRead'
  BY <1>1, <1>5, <1>6, LineRead
<1>8. Typed'
  <2>1. flag' \in [Block -> {"unset", "on", "off"}]
    BY <1>1, <1>3, <1>4
  <2>2. \A c \in Block : flag'[c] = "on" => FindBuiltinGzip' # 0
    BY <1>1, <1>2, <1>5 DEF ConfigInv, Typed
  <2> QED
    BY <1>1, <1>2, <1>7, <2>1, <2>2 DEF ConfigInv, Typed
<1>9. ValuesLegal'
  BY <1>1 DEF ConfigInv, ValuesLegal
<1> QED
  BY <1>2, <1>7, <1>8, <1>9 DEF ConfigInv

\* The lines and what the blocks made of them are left alone by every later step.
LEMMA SameFile ==
    ASSUME ConfigInv, UNCHANGED <<text, conf, flag, merged>>
    PROVE  TextTyped' /\ ValuesLegal' /\ OwnRead' /\ PathRead'
<1>1. TextTyped' /\ ValuesLegal'
  BY DEF ConfigInv, Typed, TextTyped, ValuesLegal
<1>2. OwnRead'
  BY DEF ConfigInv, OwnRead
<1>3. ASSUME NEW b \in merged', NEW f \in Field PROVE PathAgree(b, f)'
  <2>1. PathAgree(b, f)
    BY <1>3 DEF ConfigInv, PathRead
  <2> QED
    BY <2>1, SamePaths DEF PathAgree, PathSays, PathSilent
<1>4. ASSUME NEW b \in merged' PROVE FlagAgree(b)'
  <2>1. FlagAgree(b)
    BY <1>4 DEF ConfigInv, PathRead
  <2> QED
    BY <2>1, SamePaths DEF FlagAgree, PathSays, PathSilent
<1> QED
  BY <1>1, <1>2, <1>3, <1>4 DEF PathRead

LEMMA RejectedLineInv ==
    ASSUME ConfigInv, NEW b \in Block, NEW line \in Lines[b], RejectedLine(b, line)
    PROVE  ConfigInv'
<1>1. Read(b, line) /\ phase' = "failed" /\ UNCHANGED <<text, conf, flag>>
  BY DEF RejectedLine
<1>2. /\ merged = {} /\ merged' = {} /\ FindBuiltinGzip' = FindBuiltinGzip
      /\ build' \in Builds /\ descriptor' \in {0, FindBuiltinGzip'} /\ ServingFacts'
  BY <1>1, ReadKeeps
<1>3. TextTyped' /\ ValuesLegal' /\ OwnRead' /\ PathRead'
  BY <1>1, <1>2, SameFile
<1>4. Typed'
  BY <1>1, <1>2, <1>3 DEF ConfigInv, Typed
<1> QED
  BY <1>2, <1>3, <1>4 DEF ConfigInv

-----------------------------------------------------------------------------
(* Steps that inherit.                                                     *)

\* What a block said by itself is what its path says, as far as it said anything.
LEMMA OwnPath ==
    ASSUME BlockAssumption, ConfigInv, NEW b \in Block \ merged
    PROVE  /\ \A f \in Field :
                /\ f \in DOMAIN conf[b] => PathSays(b, f, conf[b][f])
                /\ f \notin DOMAIN conf[b] => OwnSilent(text[b], f)
           /\ flag[b] # "unset" => PathSays(b, "builtin_gzip", flag[b] = "on")
           /\ flag[b] = "unset" => OwnSilent(text[b], "builtin_gzip")
<1>1. TextTyped /\ DOMAIN conf[b] \subseteq Field
  BY DEF ConfigInv, Typed, ValuesLegal
<1>2. \A f \in Field \cup {"builtin_gzip"} : Agree(text[b], Held(conf[b], flag[b]), f)
  BY DEF ConfigInv, OwnRead
<1>3. ASSUME NEW f \in Field
      PROVE  /\ f \in DOMAIN conf[b] => PathSays(b, f, conf[b][f])
             /\ f \notin DOMAIN conf[b] => OwnSilent(text[b], f)
  <2>1. Agree(text[b], Held(conf[b], flag[b]), f)
    BY <1>2
  <2>2. /\ f \in DOMAIN Held(conf[b], flag[b]) <=> f \in DOMAIN conf[b]
        /\ f \in DOMAIN conf[b] => Held(conf[b], flag[b])[f] = conf[b][f]
    BY HeldField
  <2>3. /\ f \in DOMAIN conf[b] => OwnSays(text[b], f, conf[b][f])
        /\ f \notin DOMAIN conf[b] => OwnSilent(text[b], f)
    BY <2>1, <2>2 DEF Agree
  <2> QED
    BY <1>1, <2>3, OwnSaysPathSays
<1>4. Agree(text[b], Held(conf[b], flag[b]), "builtin_gzip")
  BY <1>2
<1>5. ASSUME flag[b] # "unset" PROVE PathSays(b, "builtin_gzip", flag[b] = "on")
  <2>1. OwnSays(text[b], "builtin_gzip", flag[b] = "on")
    BY <1>4, <1>5, HeldGzip, Zenon
  <2> QED
    BY <1>1, <2>1, OwnSaysPathSays
<1>6. ASSUME flag[b] = "unset" PROVE OwnSilent(text[b], "builtin_gzip")
  BY <1>1, <1>4, <1>6, HeldNoGzip DEF Agree
<1> QED
  BY <1>3, <1>5, <1>6

LEMMA EndOfFileInv ==
    ASSUME BlockAssumption, ConfigInv, EndOfFile
    PROVE  ConfigInv'
<1>1. /\ phase = "read" /\ phase' = "merge" /\ merged = {} /\ merged' = Outermost
      /\ UNCHANGED <<build, text, conf, flag, descriptor, expected, warned, logged, outcome>>
  BY DEF EndOfFile, readVars, serveVars, ConfigInv, Typed
<1>2. TextTyped /\ Outermost \subseteq Block
  BY DEF ConfigInv, Typed, Outermost
<1>3. Typed'
  BY <1>1, <1>2 DEF ConfigInv, Typed, TextTyped, FindBuiltinGzip
<1>4. ValuesLegal' /\ OwnRead'
  BY <1>1 DEF ConfigInv, ValuesLegal, OwnRead
<1>5. ASSUME NEW b \in Outermost, NEW f \in Field PROVE PathAgree(b, f)'
  <2>1. PathAgree(b, f)
    BY <1>1, <1>2, OwnPath, OutermostSilent DEF PathAgree
  <2> QED
    BY <1>1, <2>1, SamePaths DEF PathAgree, PathSays, PathSilent
<1>6. ASSUME NEW b \in Outermost PROVE FlagAgree(b)'
  <2>1. FlagAgree(b)
    BY <1>1, <1>2, OwnPath, OutermostSilent DEF FlagAgree
  <2> QED
    BY <1>1, <2>1, SamePaths DEF FlagAgree, PathSays, PathSilent
<1>7. PathRead'
  BY <1>1, <1>5, <1>6 DEF PathRead
<1>8. ServingFacts'
  BY <1>1 DEF ConfigInv, ServingFacts
<1> QED
  BY <1>3, <1>4, <1>7, <1>8 DEF ConfigInv

LEMMA MergeInv ==
    ASSUME BlockAssumption, ConfigInv, NEW b \in Block, Merge(b)
    PROVE  ConfigInv'
<1> DEFINE up == Parent(b)
<1>1. /\ phase = "merge" /\ phase' = "merge" /\ b \notin merged /\ up \in merged
      /\ merged' = merged \cup {b}
      /\ UNCHANGED <<build, text, descriptor, expected, warned, logged, outcome>>
  BY DEF Merge, readVars, serveVars
<1>2. /\ TextTyped /\ DOMAIN conf = Block /\ flag \in [Block -> {"unset", "on", "off"}]
      /\ merged \subseteq Block /\ b \notin Outermost
  BY <1>1 DEF ConfigInv, Typed
<1>3. /\ conf'[b] = OrElse(conf[b], conf[up]) /\ DOMAIN conf' = Block
      /\ \A c \in Block \ {b} : conf'[c] = conf[c]
  BY <1>2 DEF Merge, Inherit
<1>4. /\ flag'[b] = InheritFlag(flag[b], flag[up])
      /\ \A c \in Block \ {b} : flag'[c] = flag[c]
      /\ flag' \in [Block -> {"unset", "on", "off"}]
  <2>1. InheritFlag(flag[b], flag[up]) \in {"unset", "on", "off"}
    BY <1>1, <1>2 DEF InheritFlag
  <2> QED
    BY <1>2, <2>1 DEF Merge
<1> HIDE DEF up
<1>5. PathRead
  BY DEF ConfigInv
<1>6. Typed'
  <2>1. TextTyped' /\ FindBuiltinGzip' = FindBuiltinGzip
    BY <1>1, <1>2 DEF TextTyped, FindBuiltinGzip
  <2>2. \A c \in Block : flag'[c] = "on" => FindBuiltinGzip # 0
    <3>1. \A c \in Block : flag[c] = "on" => FindBuiltinGzip # 0
      BY DEF ConfigInv, Typed
    <3> QED
      BY <1>1, <1>2, <1>4, <3>1 DEF InheritFlag
  <2> QED
    BY <1>1, <1>2, <1>3, <1>4, <2>1, <2>2 DEF ConfigInv, Typed
<1>7. ValuesLegal'
  <2> SUFFICES ASSUME NEW c \in Block
               PROVE  /\ DOMAIN conf'[c] \subseteq Field
                      /\ \A f \in DOMAIN conf'[c] : conf'[c][f] \in Values(f)
    BY DEF ValuesLegal
  <2>1. \A d \in Block :
          DOMAIN conf[d] \subseteq Field /\ \A f \in DOMAIN conf[d] : conf[d][f] \in Values(f)
    BY DEF ConfigInv, ValuesLegal
  <2>2. CASE c = b
    <3> DEFINE both == OrElse(conf[b], conf[up])
    <3>1. /\ DOMAIN conf[b] \subseteq Field /\ \A f \in DOMAIN conf[b] : conf[b][f] \in Values(f)
          /\ DOMAIN conf[up] \subseteq Field
          /\ \A f \in DOMAIN conf[up] : conf[up][f] \in Values(f)
      BY <1>1, <1>2, <2>1
    <3>2. DOMAIN both \subseteq Field /\ \A f \in DOMAIN both : both[f] \in Values(f)
      BY <3>1, OrElseLegal
    <3>3. conf'[c] = both
      BY <1>3, <2>2
    <3> HIDE DEF both
    <3> QED
      BY <3>2, <3>3
  <2>3. CASE c # b
    BY <1>3, <2>1, <2>3
  <2> QED
    BY <2>2, <2>3
<1>8. OwnRead'
  BY <1>1, <1>3, <1>4 DEF ConfigInv, OwnRead
<1>9. ASSUME NEW c \in merged', NEW f \in Field PROVE PathAgree(c, f)'
  <2>1. /\ f \in DOMAIN conf'[c] => PathSays(c, f, conf'[c][f])
        /\ f \notin DOMAIN conf'[c] => PathSilent(c, f)
    <3>1. CASE c # b
      <4>1. c \in merged /\ conf'[c] = conf[c]
        BY <1>1, <1>2, <1>3, <1>9, <3>1
      <4>2. PathAgree(c, f)
        BY <1>5, <4>1 DEF PathRead
      <4> QED
        BY <4>1, <4>2 DEF PathAgree
    <3>2. CASE c = b
      <4> DEFINE own == conf[b]
                 above == conf[up]
      <4>1. /\ f \in DOMAIN own => PathSays(b, f, own[f])
            /\ f \notin DOMAIN own => OwnSilent(text[b], f)
        BY <1>1, OwnPath
      <4>2. /\ f \in DOMAIN above => PathSays(up, f, above[f])
            /\ f \notin DOMAIN above => PathSilent(up, f)
        BY <1>1, <1>5 DEF PathRead, PathAgree
      <4> HIDE DEF own, above
      <4>3. conf'[c] = OrElse(own, above)
        BY <1>3, <3>2 DEF own, above
      <4>4. DOMAIN OrElse(own, above) = DOMAIN own \cup DOMAIN above
        BY OrElseDomain
      <4>5. f \in DOMAIN own \cup DOMAIN above =>
              OrElse(own, above)[f] = IF f \in DOMAIN own THEN own[f] ELSE above[f]
        BY OrElseValue
      <4>6. CASE f \in DOMAIN own
        BY <3>2, <4>1, <4>3, <4>4, <4>5, <4>6
      <4>7. CASE f \notin DOMAIN own
        <5>1. /\ PathSilent(up, f) => PathSilent(b, f)
              /\ \A v : PathSays(up, f, v) => PathSays(b, f, v)
          BY <1>2, <4>1, <4>7, InheritedSays DEF up
        <5> QED
          BY <3>2, <4>2, <4>3, <4>4, <4>5, <4>7, <5>1
      <4> QED
        BY <4>6, <4>7
    <3> QED
      BY <3>1, <3>2
  <2>2. Settings(c, f)' = Settings(c, f) /\ \A p : LineAt(c, p)' = LineAt(c, p)
    BY <1>1, SamePaths
  <2> QED
    BY <2>1, <2>2 DEF PathAgree, PathSays, PathSilent
<1>10. ASSUME NEW c \in merged' PROVE FlagAgree(c)'
  <2>1. \/ flag'[c] # "unset" /\ PathSays(c, "builtin_gzip", flag'[c] = "on")
        \/ flag'[c] # "on" /\ PathSilent(c, "builtin_gzip")
    <3>1. CASE c # b
      <4>1. c \in merged /\ flag'[c] = flag[c]
        BY <1>1, <1>2, <1>4, <1>10, <3>1
      <4>2. FlagAgree(c)
        BY <1>5, <4>1 DEF PathRead
      <4> QED
        BY <4>1, <4>2, Zenon DEF FlagAgree
    <3>2. CASE c = b /\ flag[b] # "unset"
      <4>1. flag'[c] = flag[b]
        BY <1>4, <3>2 DEF InheritFlag
      <4>2. PathSays(b, "builtin_gzip", flag[b] = "on")
        BY <1>1, <3>2, OwnPath, Zenon
      <4> QED
        BY <3>2, <4>1, <4>2, Zenon
    <3>3. CASE c = b /\ flag[b] = "unset"
      <4>1. OwnSilent(text[b], "builtin_gzip")
        BY <1>1, <3>3, OwnPath, Zenon
      <4>2. /\ PathSilent(up, "builtin_gzip") => PathSilent(b, "builtin_gzip")
            /\ \A v : PathSays(up, "builtin_gzip", v) => PathSays(b, "builtin_gzip", v)
        BY <1>2, <4>1, InheritedSays DEF up
      <4>3. FlagAgree(up)
        BY <1>1, <1>5 DEF PathRead
      <4>4. CASE flag[up] # "unset" /\ PathSays(up, "builtin_gzip", flag[up] = "on")
        <5>1. flag'[c] = flag[up]
          BY <1>4, <3>3, <4>4 DEF InheritFlag
        <5>2. PathSays(b, "builtin_gzip", flag[up] = "on")
          BY <4>2, <4>4, Zenon
        <5> QED
          BY <3>3, <4>4, <5>1, <5>2, Zenon
      <4>5. CASE flag[up] # "on" /\ PathSilent(up, "builtin_gzip")
        <5>1. flag'[c] # "on"
          BY <1>4, <3>3, <4>5 DEF InheritFlag
        <5> QED
          BY <3>3, <4>2, <4>5, <5>1, Zenon
      <4> QED
        BY <4>3, <4>4, <4>5, Zenon DEF FlagAgree
    <3> QED
      BY <3>1, <3>2, <3>3
  <2>2. /\ Settings(c, "builtin_gzip")' = Settings(c, "builtin_gzip")
        /\ \A p : LineAt(c, p)' = LineAt(c, p)
    BY <1>1, SamePaths
  <2> QED
    BY <2>1, <2>2 DEF FlagAgree, PathSays, PathSilent
<1>11. PathRead'
  BY <1>9, <1>10 DEF PathRead
<1>12. ServingFacts'
  BY <1>1, <1>2 DEF ConfigInv, ServingFacts
<1> QED
  BY <1>6, <1>7, <1>8, <1>11, <1>12 DEF ConfigInv

-----------------------------------------------------------------------------
(* Steps that look for conflicts.                                          *)

LEMMA DiscoverInv ==
    ASSUME ConfigInv, NEW kept \in Queues, Discover(kept)
    PROVE  ConfigInv'
<1>1. /\ phase = "merge" /\ merged = Block /\ phase' = "serve" /\ descriptor' = FindBuiltinGzip
      /\ UNCHANGED <<build, text, conf, flag, merged, warned, logged, outcome>>
  BY DEF Discover, readVars, serveVars
<1>2. TextTyped' /\ ValuesLegal' /\ OwnRead' /\ PathRead'
  BY <1>1, SameFile
<1>3. Typed'
  BY <1>1, <1>2 DEF ConfigInv, Typed, FindBuiltinGzip
<1>4. /\ warned = {} /\ outcome = NoRequest /\ \A b \in Block : logged[b] = 0
      /\ logged = [b \in Block |-> IF b \in warned THEN 1 ELSE 0]
  BY <1>1 DEF ConfigInv, ServingFacts
<1>5. expected' \subseteq {b \in Block : EnabledIn(b)' /\ RuntimeConflict(b)'}
  <2> SUFFICES ASSUME NEW b \in expected' PROVE b \in Block /\ EnabledIn(b)' /\ RuntimeConflict(b)'
    OBVIOUS
  <2>1. b \in Block /\ descriptor' # 0 /\ EnabledIn(b) /\ flag[b] = "on"
    BY DEF Discover, Inspected, Conflicts
  <2>2. EnabledIn(b)' = EnabledIn(b)
    BY <1>1 DEF EnabledIn
  <2> QED
    BY <1>1, <2>1, <2>2 DEF RuntimeConflict
<1>6. ServingFacts'
  BY <1>1, <1>4, <1>5 DEF ServingFacts
<1> QED
  BY <1>2, <1>3, <1>6 DEF ConfigInv

LEMMA PostconfigurationFailsInv ==
    ASSUME ConfigInv, PostconfigurationFails
    PROVE  ConfigInv'
<1>1. /\ phase = "merge" /\ phase' = "failed"
      /\ UNCHANGED <<build, text, conf, flag, merged, descriptor, expected,
                     warned, logged, outcome>>
  BY DEF PostconfigurationFails, readVars, serveVars
<1>2. TextTyped' /\ ValuesLegal' /\ OwnRead' /\ PathRead'
  BY <1>1, SameFile
<1>3. Typed'
  BY <1>1, <1>2 DEF ConfigInv, Typed, FindBuiltinGzip
<1>4. ServingFacts'
  BY <1>1 DEF ConfigInv, ServingFacts
<1> QED
  BY <1>2, <1>3, <1>4 DEF ConfigInv

\* A request is kept out where both are on, and there the scan or a worker has said so.
LEMMA RequestInv ==
    ASSUME ConfigInv, NEW b \in Block, Request(b)
    PROVE  ConfigInv'
<1>1. /\ phase = "serve" /\ outcome' = <<b, Disabled(b)>>
      /\ UNCHANGED <<phase, build, text, conf, flag, merged, descriptor, expected>>
  BY DEF Request, readVars
<1>2. TextTyped' /\ ValuesLegal' /\ OwnRead' /\ PathRead'
  BY <1>1, SameFile
<1>3. Typed'
  BY <1>1, <1>2 DEF ConfigInv, Typed, FindBuiltinGzip
<1>4. \A c \in Block :
        /\ EnabledIn(c)' = EnabledIn(c) /\ RuntimeConflict(c)' = RuntimeConflict(c)
        /\ Disabled(c)' = Disabled(c)
  BY <1>1 DEF EnabledIn, RuntimeConflict, Disabled
<1>5. /\ expected \subseteq {c \in Block : EnabledIn(c) /\ RuntimeConflict(c)}
      /\ warned \subseteq {c \in Block \ expected : EnabledIn(c) /\ RuntimeConflict(c)}
      /\ logged = [c \in Block |-> IF c \in warned THEN 1 ELSE 0]
  BY DEF ConfigInv, ServingFacts
<1>6. ASSUME Disabled(b) PROVE EnabledIn(b) /\ RuntimeConflict(b)
  BY <1>5, <1>6 DEF Disabled, Conflicts
<1>7. CASE EnabledIn(b) /\ Mismatch(b) /\ b \notin warned
  <2>1. warned' = warned \cup {b} /\ logged' = [logged EXCEPT ![b] = @ + 1]
    BY <1>7 DEF Request
  <2>2. RuntimeConflict(b) /\ b \notin expected
    <3>1. ~(RuntimeConflict(b) <=> b \in expected)
      BY <1>7 DEF Mismatch
    <3>2. b \in expected => RuntimeConflict(b)
      BY <1>5
    <3> QED
      BY <3>1, <3>2
  <2>3. warned' \subseteq {c \in Block \ expected : EnabledIn(c) /\ RuntimeConflict(c)}
    BY <1>5, <1>7, <2>1, <2>2
  <2>4. logged' = [c \in Block |-> IF c \in warned' THEN 1 ELSE 0]
    BY <1>5, <1>7, <2>1
  <2> QED
    BY <1>1, <1>2, <1>3, <1>4, <1>5, <2>1, <2>3, <2>4 DEF ConfigInv, ServingFacts
<1>8. CASE ~(EnabledIn(b) /\ Mismatch(b) /\ b \notin warned)
  <2>1. UNCHANGED <<warned, logged>>
    BY <1>8 DEF Request
  <2>2. ASSUME Disabled(b) PROVE b \in expected \cup warned
    <3>1. RuntimeConflict(b) /\ EnabledIn(b)
      BY <1>6, <2>2
    <3>2. CASE b \notin expected
      <4>1. Mismatch(b)
        BY <3>1, <3>2 DEF Mismatch, RuntimeConflict
      <4> QED
        BY <1>8, <3>1, <4>1
    <3> QED
      BY <3>2
  <2> QED
    BY <1>1, <1>2, <1>3, <1>4, <1>5, <2>1, <2>2 DEF ConfigInv, ServingFacts
<1> QED
  BY <1>7, <1>8

LEMMA ConfigStepInv ==
    ASSUME BlockAssumption, InputAssumption, ConfigInv, [Next]_vars
    PROVE  ConfigInv'
<1>1. CASE ReadLine
  BY <1>1, CompressLineInv, GzipLineInv, RejectedLineInv DEF ReadLine
<1>2. CASE EndOfFile
  BY <1>2, EndOfFileInv
<1>3. CASE \E b \in Block : Merge(b)
  BY <1>3, MergeInv
<1>4. CASE \E kept \in Queues : Discover(kept)
  BY <1>4, DiscoverInv
<1>5. CASE PostconfigurationFails
  BY <1>5, PostconfigurationFailsInv
<1>6. CASE \E b \in Block : Request(b)
  BY <1>6, RequestInv
<1>7. CASE UNCHANGED vars
  <2>1. UNCHANGED <<phase, build, text, conf, flag, merged, descriptor, expected,
                    warned, logged, outcome>>
    BY <1>7 DEF vars
  <2>2. TextTyped' /\ ValuesLegal' /\ OwnRead' /\ PathRead'
    BY <2>1, SameFile
  <2>3. Typed'
    BY <2>1, <2>2 DEF ConfigInv, Typed, FindBuiltinGzip
  <2>4. ServingFacts'
    BY <2>1 DEF ConfigInv, ServingFacts, EnabledIn, RuntimeConflict, Disabled
  <2> QED
    BY <2>2, <2>3, <2>4 DEF ConfigInv
<1> QED
  BY <1>1, <1>2, <1>3, <1>4, <1>5, <1>6, <1>7 DEF Next

\* Every configuration NGINX loads, and every request it serves with one, keeps what
\* the blocks hold in agreement with what the file says.
THEOREM ConfigInvariant ==
    ASSUME BlockAssumption, InputAssumption
    PROVE  Spec => []ConfigInv
<1>1. ConfigInv /\ [Next]_vars => ConfigInv'
  BY ConfigStepInv
<1> QED
  BY <1>1, ConfigInitInv, PTL DEF Spec

-----------------------------------------------------------------------------
(* What follows.                                                           *)

\* Configuration fields, flags and warnings stay in their types for any file.
THEOREM TypeCorrect ==
    ASSUME BlockAssumption, InputAssumption
    PROVE  Spec => []TypeOK
<1>1. ConfigInv => TypeOK
  <2> SUFFICES ASSUME ConfigInv PROVE TypeOK
    OBVIOUS
  <2>1. /\ expected \subseteq Block /\ warned \subseteq Block
        /\ logged \in [Block -> Nat]
    BY DEF ConfigInv, ServingFacts
  <2>2. outcome \in (Block \X BOOLEAN) \cup {NoRequest}
    <3>1. CASE outcome # NoRequest
      <4>1. PICK b \in Block : outcome = <<b, Disabled(b)>>
        BY <3>1 DEF ConfigInv, ServingFacts
      <4>2. Disabled(b) \in BOOLEAN
        BY Zenon DEF Disabled, Conflicts
      <4> QED
        BY <4>1, <4>2
    <3> QED
      BY <3>1
  <2> QED
    BY <2>1, <2>2 DEF ConfigInv, Typed, TextTyped, ValuesLegal, TypeOK
<1> QED
  BY <1>1, ConfigInvariant, PTL

\* explicit directive > profile preset > built-in default holds in every block of every
\* file once it has inherited, whatever the nesting and the order of the lines.
THEOREM PrecedenceHolds ==
    ASSUME BlockAssumption, InputAssumption
    PROVE  Spec => []Precedence
<1>1. ConfigInv => Precedence
  <2> SUFFICES ASSUME ConfigInv, NEW b \in merged, NEW f \in Field
               PROVE  LET preset == Preset(Says(b, "profile", Default.profile))
                      IN  Complete(conf[b])[f] =
                            Says(b, f, IF f \in DOMAIN preset THEN preset[f] ELSE Default[f])
    BY DEF Precedence
  <2>1. b \in Block /\ TextTyped /\ \A g \in Field : PathAgree(b, g)
    BY DEF ConfigInv, Typed, PathRead
  <2>2. Says(b, "profile", Default.profile) = ProfileOf(conf[b])
    <3>1. "profile" \in Field
      BY DEF Field
    <3>2. PathAgree(b, "profile")
      BY <2>1, <3>1
    <3> DEFINE default == Default.profile
    <3>3. ProfileOf(conf[b]) = IF "profile" \in DOMAIN conf[b] THEN conf[b]["profile"] ELSE default
      BY ProfileValue
    <3> HIDE DEF default
    <3>4. Says(b, "profile", default) =
            IF "profile" \in DOMAIN conf[b] THEN conf[b]["profile"] ELSE default
      <4>1. CASE "profile" \in DOMAIN conf[b]
        <5>1. PathSays(b, "profile", conf[b]["profile"])
          BY <3>2, <4>1 DEF PathAgree
        <5>2. Says(b, "profile", default) = conf[b]["profile"]
          BY <2>1, <5>1, PathSaysSays
        <5> QED
          BY <4>1, <5>2
      <4>2. CASE "profile" \notin DOMAIN conf[b]
        <5>1. PathSilent(b, "profile")
          BY <3>2, <4>2 DEF PathAgree
        <5>2. Says(b, "profile", default) = default
          BY <2>1, <5>1, PathSaysSays
        <5> QED
          BY <4>2, <5>2
      <4> QED
        BY <4>1, <4>2
    <3> QED
      BY <3>3, <3>4 DEF default
  <2> DEFINE preset == Preset(ProfileOf(conf[b]))
             default == IF f \in DOMAIN preset THEN preset[f] ELSE Default[f]
  <2>3. Complete(conf[b])[f] = IF f \in DOMAIN conf[b] THEN conf[b][f] ELSE default
    BY FieldsHaveDefaults, CompleteValue
  <2> HIDE DEF default
  <2>4. Says(b, f, default) = IF f \in DOMAIN conf[b] THEN conf[b][f] ELSE default
    BY <2>1, PathSaysSays, ZenonT(60) DEF PathAgree
  <2> QED
    BY <2>2, <2>3, <2>4 DEF default
<1> QED
  BY <1>1, ConfigInvariant, PTL

LEMMA ServedConflict ==
    ASSUME BlockAssumption, ConfigInv, phase = "serve", NEW b \in Block
    PROVE  EnabledIn(b) /\ RuntimeConflict(b) <=> InConflict(b)
<1>1. b \in merged /\ TextTyped /\ descriptor = FindBuiltinGzip
  BY DEF ConfigInv, Typed
<1>2. EnabledIn(b) = Says(b, "enable", FALSE)
  <2>1. "enable" \in Field
    BY DEF Field
  <2>2. PathAgree(b, "enable")
    BY <1>1, <2>1 DEF ConfigInv, PathRead
  <2>3. Says(b, "enable", FALSE) =
          IF "enable" \in DOMAIN conf[b] THEN conf[b]["enable"] ELSE FALSE
    BY <1>1, <2>2, PathSaysSays DEF PathAgree
  <2> QED
    BY <2>3, EnabledValue, Zenon DEF EnabledIn
<1>3. FlagAgree(b)
  BY <1>1 DEF ConfigInv, PathRead
<1>4. Says(b, "builtin_gzip", FALSE) <=> flag[b] = "on"
  <2>1. CASE PathSays(b, "builtin_gzip", flag[b] = "on")
    <3> DEFINE on == flag[b] = "on"
    <3>1. PathSays(b, "builtin_gzip", on)
      BY <2>1
    <3> HIDE DEF on
    <3>2. Says(b, "builtin_gzip", FALSE) = on
      BY <1>1, <3>1, PathSaysSays
    <3> QED
      BY <3>2, Zenon DEF on
  <2>2. CASE flag[b] # "on" /\ PathSilent(b, "builtin_gzip")
    <3>1. Says(b, "builtin_gzip", FALSE) = FALSE
      BY <1>1, <2>2, PathSaysSays, Zenon
    <3> QED
      BY <2>2, <3>1, Zenon
  <2> QED
    BY <1>3, <2>1, <2>2, Zenon DEF FlagAgree
<1>5. flag[b] = "on" => descriptor # 0
  BY <1>1 DEF ConfigInv, Typed
<1> QED
  BY <1>2, <1>4, <1>5, Zenon DEF InConflict, RuntimeConflict

\* Whatever the scan at start came across, exactly the requests in locations with both
\* compressors on are left alone.
THEOREM RequestsFailClosed ==
    ASSUME BlockAssumption, InputAssumption
    PROVE  Spec => []FailsClosed
<1>1. ConfigInv => FailsClosed
  <2> SUFFICES ASSUME ConfigInv, outcome # NoRequest
               PROVE  outcome[2] <=> InConflict(outcome[1])
    BY DEF FailsClosed
  <2>1. PICK b \in Block : outcome = <<b, Disabled(b)>>
    BY DEF ConfigInv, ServingFacts
  <2>2. outcome[1] = b /\ (outcome[2] <=> Disabled(b))
    BY <2>1
  <2>3. Disabled(b) <=> EnabledIn(b) /\ RuntimeConflict(b)
    BY DEF ConfigInv, ServingFacts, Disabled, Conflicts
  <2>4. phase = "serve"
    BY DEF ConfigInv, ServingFacts
  <2> QED
    BY <2>2, <2>3, <2>4, ServedConflict
<1> QED
  BY <1>1, ConfigInvariant, PTL

\* No location is left uncompressed in silence.
THEOREM ConflictsAnnounced ==
    ASSUME BlockAssumption, InputAssumption
    PROVE  Spec => []ConflictAnnounced
<1>1. ConfigInv => ConflictAnnounced
  <2> SUFFICES ASSUME ConfigInv, outcome # NoRequest, outcome[2]
               PROVE  outcome[1] \in expected \/ logged[outcome[1]] = 1
    BY DEF ConflictAnnounced
  <2>1. PICK b \in Block :
          outcome = <<b, Disabled(b)>> /\ (Disabled(b) => b \in expected \cup warned)
    BY DEF ConfigInv, ServingFacts
  <2>2. outcome[1] = b /\ (outcome[2] <=> Disabled(b))
    BY <2>1
  <2>3. b \in warned => logged[b] = 1
    BY DEF ConfigInv, ServingFacts
  <2> QED
    BY <2>1, <2>2, <2>3
<1> QED
  BY <1>1, ConfigInvariant, PTL

\* No warning is unfounded and none is repeated.
THEOREM WarningsAreJustified ==
    ASSUME BlockAssumption, InputAssumption
    PROVE  Spec => []WarningsJustified
<1>1. ConfigInv => WarningsJustified
  <2> SUFFICES ASSUME ConfigInv PROVE WarningsJustified
    OBVIOUS
  <2>1. /\ expected \subseteq {b \in Block : EnabledIn(b) /\ RuntimeConflict(b)}
        /\ warned \subseteq {b \in Block \ expected : EnabledIn(b) /\ RuntimeConflict(b)}
        /\ \A b \in Block : logged[b] = IF b \in warned THEN 1 ELSE 0
    BY DEF ConfigInv, ServingFacts
  <2>2. expected \cup warned # {} => phase = "serve"
    BY DEF ConfigInv, ServingFacts
  <2>3. ASSUME NEW b \in expected \cup warned PROVE InConflict(b)
    BY <2>1, <2>2, ServedConflict
  <2> QED
    BY <2>1, <2>3 DEF WarningsJustified
<1> QED
  BY <1>1, ConfigInvariant, PTL
=============================================================================
