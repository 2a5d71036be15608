----------------------------- MODULE Negotiation -----------------------------
(***************************************************************************)
(* Content negotiation as pure operators (crates/ngx-compress-core:        *)
(* negotiation.rs, static_policy.rs, eligibility.rs, mime.rs, and the      *)
(* server's priority order from config/resolve.rs).  A header field is a   *)
(* sequence of list items, each a token with its parameters; the words of  *)
(* a token, a name or a type are values of small sets.                     *)
(***************************************************************************)
EXTENDS Integers, FiniteSets, SequencesExt

Coding == {"gzip", "deflate", "br", "zstd", "identity"}
Token == Coding \cup {"*", "unknown"}

\* `None` stands for Option::None of a quality.
None == -1
QualityMax == 1000
QualityValue == 0..QualityMax

Larger(a, b) == IF a >= b THEN a ELSE b

(***************************************************************************)
(* Accept-Encoding.                                                        *)
(***************************************************************************)
\* A weight's text: what stands before the point and the digits behind it; 10
\* stands for a byte that is not a digit.
Weight == [whole : {"0", "1", "other"}, fraction : Seq(0..10)]

\* A parameter is a weight, another name with a value, or has no value at all.
Parameter == [kind : {"q"}, weight : Weight] \cup [kind : {"other", "bare"}]
ListItem == [token : Token, params : Seq(Parameter)]

Digit(w, i) == IF i <= Len(w.fraction) THEN w.fraction[i] ELSE 0

ParseQuality(w) ==
    IF Len(w.fraction) > 3 \/ \E i \in DOMAIN w.fraction : w.fraction[i] > 9 THEN None
    ELSE IF w.whole = "0" THEN 100 * Digit(w, 1) + 10 * Digit(w, 2) + Digit(w, 3)
    ELSE IF w.whole = "1" /\ \A i \in DOMAIN w.fraction : w.fraction[i] = 0 THEN QualityMax
    ELSE None

\* A parameter that cannot be read makes the whole item invalid; the last weight counts.
ParameterQuality(quality, p) ==
    IF quality = None \/ p.kind = "bare" THEN None
    ELSE IF p.kind = "q" THEN ParseQuality(p.weight) ELSE quality

ItemQuality(item) == FoldLeft(ParameterQuality, QualityMax, item.params)

Absent ==
    [quality |-> [c \in Coding |-> None], wildcard |-> None, field_present |-> FALSE]

\* Mutant: the last of several items for one coding counts.
ParseItemOverwriting(parsed, item) ==
    LET q == ItemQuality(item) IN
    IF q = None THEN parsed
    ELSE IF item.token = "*" THEN [parsed EXCEPT !.wildcard = q]
    ELSE IF item.token \in Coding THEN [parsed EXCEPT !.quality[item.token] = q]
    ELSE parsed

ParseItem(parsed, item) ==
    LET q == ItemQuality(item) IN
    IF q = None THEN parsed
    ELSE IF item.token = "*" THEN [parsed EXCEPT !.wildcard = Larger(@, q)]
    ELSE IF item.token \in Coding THEN [parsed EXCEPT !.quality[item.token] = Larger(@, q)]
    ELSE parsed

Parse(items) == FoldLeft(ParseItem, [Absent EXCEPT !.field_present = TRUE], items)

\* Module::accept_encoding: all field lines as one list, nothing at all as absent.
AcceptEncoding(items) == IF items = <<>> THEN Absent ELSE Parse(items)

Quality(accept, c) ==
    IF accept.quality[c] # None THEN accept.quality[c]
    ELSE IF c = "identity" THEN IF accept.wildcard = 0 THEN 0 ELSE QualityMax
    ELSE IF ~accept.field_present \/ accept.wildcard = None THEN 0
    ELSE accept.wildcard

(***************************************************************************)
(* Negotiation among the codings the server has.                           *)
(***************************************************************************)
\* Iterator::filter, for a set of codings.
Only(s, codings) ==
    FoldLeft(LAMBDA kept, c : IF c \in codings THEN Append(kept, c) ELSE kept, <<>>, s)

\* Mutant: an equally preferred coding replaces an earlier one.
BetterOrEqual(accept, selected, c) ==
    IF selected # "NotAcceptable" /\ Quality(accept, c) < Quality(accept, selected)
    THEN selected
    ELSE IF Quality(accept, c) > 0 THEN c ELSE selected

Better(accept, selected, c) ==
    IF selected # "NotAcceptable" /\ Quality(accept, c) <= Quality(accept, selected)
    THEN selected
    ELSE IF Quality(accept, c) > 0 THEN c ELSE selected

NegotiateAvailable(accept, preference, available) ==
    FoldLeft(LAMBDA selected, c : Better(accept, selected, c), "NotAcceptable",
             Only(preference, available))

\* resolve_priority: an explicit prefix completed by the profile's order; the array
\* ends with identity.
DefaultPriority(profile) ==
    IF profile = "fast" THEN <<"zstd", "gzip", "br", "deflate">>
                        ELSE <<"zstd", "br", "gzip", "deflate">>

ResolvePriority(profile, explicit) ==
    Append(FoldLeft(LAMBDA s, c : IF c \in ToSet(s) THEN s ELSE Append(s, c), <<>>,
                    explicit \o DefaultPriority(profile)),
           "identity")

(***************************************************************************)
(* Sidecar candidates.                                                     *)
(***************************************************************************)
SidecarCoding == {"zstd", "br", "gzip"}

\* Mutant: candidates stay in server order.
InsertByQualityLast(accept, s, c) == Append(s, c)

\* sort_by_key(Reverse(quality)) is stable: behind every candidate at least as good.
InsertByQuality(accept, s, c) ==
    InsertAt(s, 1 + Cardinality({i \in DOMAIN s : Quality(accept, s[i]) >= Quality(accept, c)}), c)

StaticCandidates(mode, accept, preference) ==
    LET kept == Only(preference, SidecarCoding)
    IN  IF mode = "on"
        THEN FoldLeft(LAMBDA s, c : InsertByQuality(accept, s, c), <<>>, kept)
        ELSE kept

Accepted(mode, accept, c) ==
    \/ mode = "always"
    \/ Quality(accept, c) > 0 /\ Quality(accept, c) >= Quality(accept, "identity")

(***************************************************************************)
(* Eligibility.                                                            *)
(***************************************************************************)
\* An allow-list replaces the built-in one; "*" matches every type.
Compressible(type, types) == "*" \in types \/ type \in types

\* Mutant: a response that is not a 200 is eligible too.
EligibleAnyStatus(config, main_response, response) ==
    /\ config.enabled
    /\ main_response
    /\ ~response.recorded
    /\ response.length < 0 \/ response.length >= config.min_length
    /\ Compressible(response.type, config.types)

Eligible(config, main_response, response) ==
    /\ config.enabled
    /\ main_response
    /\ response.status = 200
    /\ ~response.recorded
    /\ response.length < 0 \/ response.length >= config.min_length
    /\ Compressible(response.type, config.types)
=============================================================================
