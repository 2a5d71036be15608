---------------------------- MODULE Representation ----------------------------
(***************************************************************************)
(* Which representation of a response a client gets, and under which       *)
(* headers: the static sidecar handler (static_file/), the header filter   *)
(* (filter/runtime.rs, header.rs, select.rs) and the built-in gzip check   *)
(* (gzip.rs), for one client request whose page may include a subrequest.  *)
(* NGINX's other handlers, its error pages, its own gzip filter and the    *)
(* SSI filter are modelled from how this module meets them.                *)
(***************************************************************************)
EXTENDS LocationConfig

CONSTANTS
    Configs,    \* what locations may be configured to: Resolve and the flag of NGINX's gzip
    Headers,    \* Accept-Encoding fields, as sequences of list items
    Responses   \* what the other content handlers answer

Request == {"main", "sub"}
Nothing == "none"

ContentCoding == Coding \ {"identity"}
\* "opaque" is a type that is not UTF-8, "none" one not set yet.
ContentType == BuiltinTypes \cup {"opaque", "none"}
Header == [status : {0, 200, 404, 406, 500}, type : ContentType, length : Int,
           encodings : Seq(ContentCoding), recorded : BOOLEAN, vary : BOOLEAN, cleared : BOOLEAN]

\* An answer has at most one coding and says so where NGINX looks for it.
ASSUME ResponseAssumption ==
    /\ Responses \subseteq Header
    /\ \A answer \in Responses :
          /\ Len(answer.encodings) <= 1
          /\ answer.recorded <=> answer.encodings # <<>>
          /\ ~answer.cleared

\* A field is a list of items; a location has encoders for content codings, and its
\* order is one that resolve_priority builds.
ASSUME NegotiationAssumption ==
    /\ Headers \subseteq Seq(ListItem)
    /\ \A c \in Configs :
          /\ {c.enabled, c.vary, c.builtin_gzip} \subseteq BOOLEAN
          /\ DOMAIN c.codecs \subseteq ContentCoding
          /\ \E profile \in {"custom", "fast", "balanced"}, explicit \in PriorityPrefix \cup {<<>>} :
                c.priority = ResolvePriority(profile, explicit)

VARIABLES
    config,     \* the location configuration of each request
    header,     \* the client's Accept-Encoding; a subrequest shares it
    pc,         \* how far each request is
    candidates, \* sidecars the handler has yet to probe
    found,      \* history: sidecars that exist
    missing,    \* history: sidecars probed in vain
    sidecar,    \* the sidecar a request was answered with
    refused,    \* history: which handler answered 406
    response,   \* headers_out
    body,       \* codings of the bytes the handler or upstream supplies
    context,    \* the coding of the installed RequestCtx
    builtin,    \* NGINX's own gzip filter took the main response
    included    \* the main response has taken in the subrequest's

vars == <<config, header, pc, candidates, found, missing, sidecar, refused, response,
          body, context, builtin, included>>

accept == AcceptEncoding(header)

NoResponse ==
    [status |-> 0, type |-> "none", length |-> -1, encodings |-> <<>>, recorded |-> FALSE,
     vary |-> FALSE, cleared |-> FALSE]

Init ==
    /\ config \in [Request -> Configs]
    /\ header \in Headers
    /\ pc = [main |-> "content", sub |-> "idle"]
    /\ candidates = [r \in Request |-> <<>>]
    /\ found = [r \in Request |-> {}]
    /\ missing = [r \in Request |-> {}]
    /\ sidecar = [r \in Request |-> Nothing]
    /\ refused = [r \in Request |-> Nothing]
    /\ response = [r \in Request |-> NoResponse]
    /\ body = [r \in Request |-> <<>>]
    /\ context = [r \in Request |-> Nothing]
    /\ builtin = FALSE
    /\ included = FALSE

Goto(r, l) == pc' = [pc EXCEPT ![r] = l]

\* disabled_for_request: the configuration-time and the request-time reading of the
\* built-in gzip agree.
Disabled(r) == config[r].enabled /\ config[r].builtin_gzip

Available(r, c) == c = "identity" \/ c \in DOMAIN config[r].codecs

Negotiated(r) ==
    NegotiateAvailable(accept, config[r].priority, {c \in Coding : Available(r, c)})

(***************************************************************************)
(* The static handler.                                                     *)
(***************************************************************************)
unchangedByHandler == <<config, header, body, context, builtin, included>>

\* A method other than GET or HEAD, or a URI naming a directory, is not servable.
Serves(r, servable) == config[r].static_mode # "off" /\ ~Disabled(r) /\ servable

Decline(r, servable) ==
    /\ pc[r] = "content"
    /\ ~Serves(r, servable)
    /\ Goto(r, "upstream")
    /\ UNCHANGED <<candidates, found, missing, sidecar, refused, response>>
    /\ UNCHANGED unchangedByHandler

StartProbing(r, servable) ==
    /\ pc[r] = "content"
    /\ Serves(r, servable)
    /\ candidates' = [candidates EXCEPT
                        ![r] = StaticCandidates(config[r].static_mode, accept, config[r].priority)]
    /\ Goto(r, "probing")
    /\ UNCHANGED <<found, missing, sidecar, refused, response>>
    /\ UNCHANGED unchangedByHandler

VariesByAccept(r) == config[r].static_mode = "on" /\ config[r].vary

\* Mutant: only a sidecar that is sent makes the response vary.
MarkVaryWhenSent(r, c) == VariesByAccept(r) /\ Accepted(config[r].static_mode, accept, c)

MarkVary(r, c) == VariesByAccept(r)

\* 406, with Vary where it can be had.
Rejected(headers, varies) == [headers EXCEPT !.vary = @ \/ varies, !.status = 406]

\* fail(): 500 with the headers as they are; so is a request body that cannot be
\* discarded.
Fails(r, headers) ==
    /\ response' = [response EXCEPT ![r] = [headers EXCEPT !.status = 500]]
    /\ Goto(r, "error")
    /\ UNCHANGED <<sidecar, refused>>

\* send_file: Content-Encoding is on the list before the ETag and the buffer are
\* allocated.
SendFile(r, c, headers) ==
    LET labelled == [headers EXCEPT !.encodings = Append(@, c), !.recorded = TRUE,
                                    !.status = 200, !.type = "text/html", !.length = 500]
    IN  /\ \/ /\ response' = [response EXCEPT ![r] = labelled]
              /\ sidecar' = [sidecar EXCEPT ![r] = c]
              /\ body' = [body EXCEPT ![r] = <<c>>]
              /\ Goto(r, "header")
              /\ UNCHANGED refused
           \/ /\ \E sent \in {headers, labelled} : Fails(r, sent)
              /\ UNCHANGED body
        /\ UNCHANGED <<config, header, context, builtin, included>>

Probe(r) ==
    LET c == Head(candidates[r]) IN
    /\ pc[r] = "probing"
    /\ candidates[r] # <<>>
    /\ candidates' = [candidates EXCEPT ![r] = Tail(@)]
    /\ \/ /\ missing' = [missing EXCEPT ![r] = @ \cup {c}]
          /\ UNCHANGED <<pc, found, sidecar, refused, response>>
          /\ UNCHANGED unchangedByHandler
       \/ /\ Fails(r, response[r])
          /\ UNCHANGED <<found, missing>>
          /\ UNCHANGED unchangedByHandler
       \/ LET marked == [response[r] EXCEPT !.vary = @ \/ MarkVary(r, c)] IN
          /\ found' = [found EXCEPT ![r] = @ \cup {c}]
          /\ UNCHANGED missing
          /\ \/ /\ Accepted(config[r].static_mode, accept, c)
                /\ SendFile(r, c, marked)
             \/ /\ ~Accepted(config[r].static_mode, accept, c)
                /\ response' = [response EXCEPT ![r] = marked]
                /\ UNCHANGED <<pc, sidecar, refused>>
                /\ UNCHANGED unchangedByHandler
             \/ /\ MarkVary(r, c) /\ ~response[r].vary
                /\ Fails(r, response[r])
                /\ UNCHANGED unchangedByHandler

RuntimeAcceptable(r) ==
    config[r].enabled /\ Negotiated(r) \notin {"identity", "NotAcceptable"}

\* Mutant: runtime compression is forgotten as a fallback.
FallbackAcceptableIdentity(r) ==
    config[r].static_mode = "always" \/ Quality(accept, "identity") > 0

FallbackAcceptable(r) ==
    \/ config[r].static_mode = "always"
    \/ Quality(accept, "identity") > 0
    \/ RuntimeAcceptable(r)

\* No candidate is left: the ordinary handlers or 406.
ProbeEnd(r) ==
    /\ pc[r] = "probing"
    /\ candidates[r] = <<>>
    /\ \/ /\ FallbackAcceptable(r)
          /\ Goto(r, "upstream")
          /\ UNCHANGED <<sidecar, refused, response>>
       \/ /\ ~FallbackAcceptable(r)
          /\ response' = [response EXCEPT ![r] = Rejected(@, VariesByAccept(r))]
          /\ refused' = [refused EXCEPT ![r] = "static"]
          /\ Goto(r, "error")
          /\ UNCHANGED sidecar
       \/ /\ ~FallbackAcceptable(r)
          /\ VariesByAccept(r) /\ ~response[r].vary
          /\ Fails(r, response[r])
    /\ UNCHANGED <<candidates, found, missing>>
    /\ UNCHANGED unchangedByHandler

(***************************************************************************)
(* Around the module: other content handlers and NGINX's error pages.      *)
(***************************************************************************)
unchangedAround ==
    <<config, header, candidates, found, missing, sidecar, refused, context, builtin, included>>

\* An upstream may have encoded its response, and then says so.
Original(r) ==
    /\ pc[r] = "upstream"
    /\ \E answer \in Responses :
          /\ r = "sub" => answer.encodings = <<>>
          /\ response' = [response EXCEPT ![r] = [answer EXCEPT !.vary = response[r].vary]]
          /\ body' = [body EXCEPT ![r] = answer.encodings]
    /\ Goto(r, "header")
    /\ UNCHANGED unchangedAround

\* ngx_http_special_response_handler replaces type and length, keeps the other
\* headers and sends the header again.
SpecialResponse(r) ==
    /\ pc[r] = "error"
    /\ response' = [response EXCEPT ![r] = [@ EXCEPT !.type = "text/html", !.length = 150]]
    /\ body' = [body EXCEPT ![r] = <<>>]
    /\ Goto(r, "header")
    /\ UNCHANGED unchangedAround

(***************************************************************************)
(* The header filter.                                                      *)
(***************************************************************************)
\* prefetch_header has no snapshot for a content type that is not UTF-8.
Readable(r) == response[r].type # "opaque"

Considers(r) ==
    /\ config[r].enabled
    /\ ~Disabled(r)
    /\ Readable(r)
    /\ Eligible(config[r], r = "main", response[r])

\* Mutant: identity is taken for a coding like any other.
EncodesAny(r) == Considers(r) /\ Negotiated(r) # "NotAcceptable"

Encodes(r) == Considers(r) /\ Negotiated(r) \notin {"identity", "NotAcceptable"}

\* The next header filters, one of which may fail; NGINX's gzip filter is the first of them and skips a
\* response whose Content-Encoding is recorded.
BuiltinGzips(r, headers) ==
    /\ config[r].builtin_gzip
    /\ r = "main"
    /\ headers.status = 200
    /\ ~headers.recorded
    /\ Quality(accept, "gzip") > 0

Downstream(r, headers) ==
    /\ builtin' = (builtin \/ BuiltinGzips(r, headers))
    /\ response' = [response EXCEPT ![r] =
                      IF BuiltinGzips(r, headers)
                      THEN [headers EXCEPT !.encodings = Append(@, "gzip"), !.recorded = TRUE]
                      ELSE headers]
    /\ \E next \in {IF r = "main" THEN "body" ELSE "done", "closed"} : Goto(r, next)

unchangedByFilter ==
    <<config, header, candidates, found, missing, sidecar, body, included>>

\* pass(): not considered, identity selected, or a codec, header or Vary that could
\* not be had, which leaves no trace.
Pass(r) ==
    /\ pc[r] = "header"
    /\ Considers(r) => Negotiated(r) # "NotAcceptable"
    /\ Downstream(r, response[r])
    /\ UNCHANGED <<refused, context>>
    /\ UNCHANGED unchangedByFilter

Reject(r) ==
    /\ pc[r] = "header"
    /\ Considers(r)
    /\ Negotiated(r) = "NotAcceptable"
    /\ \E added \in {config[r].vary, FALSE} :
          response' = [response EXCEPT ![r] = Rejected(@, added)]
    /\ refused' = [refused EXCEPT ![r] = "runtime"]
    /\ Goto(r, "error")
    /\ UNCHANGED <<context, builtin>>
    /\ UNCHANGED unchangedByFilter

WithVary(r) == [response[r] EXCEPT !.vary = @ \/ config[r].vary]

\* prepare_encoded_response: the length, ranges and a strong ETag go.
Prepared(r) ==
    [WithVary(r) EXCEPT !.encodings = Append(@, Negotiated(r)), !.length = -1, !.cleared = TRUE]

\* Content-Encoding cannot be added after Vary has been.
EncodingNotAdded(r) ==
    /\ pc[r] = "header"
    /\ Encodes(r)
    /\ Downstream(r, WithVary(r))
    /\ UNCHANGED <<refused, context>>
    /\ UNCHANGED unchangedByFilter

\* Mutant: a context that cannot be installed lets the response pass.
InstallFailsPassing(r) ==
    /\ pc[r] = "header"
    /\ Encodes(r)
    /\ Downstream(r, Prepared(r))
    /\ UNCHANGED <<refused, context>>
    /\ UNCHANGED unchangedByFilter

\* NGX_ERROR: the connection is closed.
InstallFails(r) ==
    /\ pc[r] = "header"
    /\ Encodes(r)
    /\ response' = [response EXCEPT ![r] = Prepared(r)]
    /\ Goto(r, "closed")
    /\ UNCHANGED <<refused, context, builtin>>
    /\ UNCHANGED unchangedByFilter

Compress(r) ==
    /\ pc[r] = "header"
    /\ Encodes(r)
    /\ context' = [context EXCEPT ![r] = Negotiated(r)]
    /\ Downstream(r, Prepared(r))
    /\ UNCHANGED refused
    /\ UNCHANGED unchangedByFilter

(***************************************************************************)
(* The body.  The SSI filter runs before the compression filter: what the  *)
(* subrequest sends passes through the main request's body filters.        *)
(***************************************************************************)
Include ==
    /\ pc["main"] = "body"
    /\ pc["sub"] = "idle"
    /\ body["main"] = <<>>
    /\ response["main"].status = 200
    /\ included' = TRUE
    /\ Goto("sub", "content")
    /\ UNCHANGED <<config, header, candidates, found, missing, sidecar, refused, response,
                   body, context, builtin>>

Deliver ==
    /\ pc["main"] = "body"
    /\ pc["sub"] \in {"idle", "done"}
    /\ Goto("main", "done")
    /\ UNCHANGED <<config, header, candidates, found, missing, sidecar, refused, response,
                   body, context, builtin, included>>

Next ==
    \/ \E r \in Request :
          \/ \E servable \in BOOLEAN : Decline(r, servable) \/ StartProbing(r, servable)
          \/ Probe(r)
          \/ ProbeEnd(r)
          \/ Original(r)
          \/ SpecialResponse(r)
          \/ Pass(r)
          \/ Reject(r)
          \/ EncodingNotAdded(r)
          \/ InstallFails(r)
          \/ Compress(r)
    \/ Include
    \/ Deliver

Spec == Init /\ [][Next]_vars
FairSpec == Spec /\ WF_vars(Next)

(***************************************************************************)
(* A reference reading of the field, by sets: the largest weight of the    *)
(* well-formed items that name a coding, else of the wildcards; identity   *)
(* is acceptable unless it, or everything, is excluded.                    *)
(***************************************************************************)
WellFormedWeight(w) ==
    /\ Len(w.fraction) <= 3 /\ \A i \in DOMAIN w.fraction : w.fraction[i] \in 0..9
    /\ w.whole = "0" \/ (w.whole = "1" /\ ToSet(w.fraction) \subseteq {0})

\* The digits behind the point are tenths, hundredths and thousandths.
Thousandths(digits) ==
    MapThenSumSet(LAMBDA i : digits[i] * <<100, 10, 1>>[i], DOMAIN digits)

WeightOf(w) == (IF w.whole = "1" THEN 1000 ELSE 0) + Thousandths(w.fraction)

WellFormedItem(item) ==
    \A i \in DOMAIN item.params :
        /\ item.params[i].kind # "bare"
        /\ item.params[i].kind = "q" => WellFormedWeight(item.params[i].weight)

LastWeight(item) ==
    LET weights == {i \in DOMAIN item.params : item.params[i].kind = "q"}
    IN  IF weights = {} THEN 1000 ELSE WeightOf(item.params[Max(weights)].weight)

WeightsFor(token) ==
    {LastWeight(header[i]) : i \in
        {j \in DOMAIN header : header[j].token = token /\ WellFormedItem(header[j])}}

ClientWeight(c) ==
    IF WeightsFor(c) # {} THEN Max(WeightsFor(c))
    ELSE IF c = "identity" THEN IF WeightsFor("*") # {} /\ Max(WeightsFor("*")) = 0 THEN 0 ELSE 1000
    ELSE IF WeightsFor("*") # {} THEN Max(WeightsFor("*")) ELSE 0

(***************************************************************************)
(* Properties.                                                             *)
(***************************************************************************)
Line == {"idle", "content", "probing", "upstream", "header", "error", "body", "done", "closed"}

TypeOK ==
    /\ config \in [Request -> Configs]
    /\ header \in Headers
    /\ pc \in [Request -> Line]
    /\ \A r \in Request :
          /\ ToSet(candidates[r]) \subseteq SidecarCoding
          /\ found[r] \subseteq SidecarCoding /\ missing[r] \subseteq SidecarCoding
          /\ found[r] \cap missing[r] = {}
          /\ sidecar[r] \in found[r] \cup {Nothing}
          /\ refused[r] \in {"static", "runtime", Nothing}
          /\ context[r] \in DOMAIN config[r].codecs \cup {Nothing}
          /\ response[r].status \in {0, 200, 404, 406, 500}
          /\ ToSet(response[r].encodings) \cup ToSet(body[r]) \subseteq Coding \ {"identity"}
    /\ builtin \in BOOLEAN
    /\ included \in BOOLEAN

Done == pc["main"] = "done"

\* The codings of the bytes of one request as the client receives them.
Applied == (IF context["main"] = Nothing THEN <<>> ELSE <<context["main"]>>)
           \o (IF builtin THEN <<"gzip">> ELSE <<>>)
Delivered(r) == body[r] \o Applied

Fragments == {"main"} \cup (IF included THEN {"sub"} ELSE {})

\* A handler failed behind add_content_encoding: the page announces a sidecar that was
\* found and accepted (NoLoneEncoding).
LoneEncoding ==
    /\ response["main"].status = 500
    /\ \E c \in found["main"] :
          /\ Accepted(config["main"].static_mode, accept, c)
          /\ response["main"].encodings = <<c>>

\* Every page that is sent, of any status, announces exactly the coding of its bytes, at
\* most one, whichever of sidecar, upstream, this module or NGINX's gzip applied it and
\* whichever step of the header filter failed; the only exception is the plain page
\* behind a LoneEncoding.  Headers that describe the unencoded bytes are gone exactly
\* when this module encodes.  An included part has the page's coding, behind its own
\* sidecar's if it was answered with one (NeverDoubleCompressed).
HeadMatchesBody ==
    Done =>
        /\ \/ Delivered("main") = response["main"].encodings
           \/ Delivered("main") = <<>> /\ LoneEncoding
        /\ Len(response["main"].encodings) <= 1
        /\ response["main"].cleared <=> context["main"] # Nothing
        /\ included => Delivered("sub") =
              (IF sidecar["sub"] = Nothing THEN <<>> ELSE <<sidecar["sub"]>>)
                  \o response["main"].encodings

\* With compress_vary, Vary is on what this module encoded and, where the static handler
\* negotiates, on what it decided (a sidecar existed, also when identity won, or it
\* answered 406) and on a page that announces a coding its bytes lack.  Nothing is said
\* where identity won at request time, of the header filter's 406, of another 500 or of
\* what a subrequest negotiated.
Decided ==
    \/ /\ response["main"].status # 500
       /\ found["main"] # {} \/ refused["main"] = "static"
    \/ Delivered("main") # response["main"].encodings

CacheSafe ==
    LET c == config["main"] IN
        Done /\ c.vary /\ (context["main"] # Nothing \/ (c.static_mode = "on" /\ Decided))
            => response["main"].vary

\* Runtime compression uses an available coding no other available coding is
\* preferred to, and the server's order breaks ties; a negotiated sidecar is at
\* least as welcome as identity, and every better one was looked for in vain.
Position(r, c) == CHOOSE i \in DOMAIN config[r].priority : config[r].priority[i] = c
Preferred(r, c, d) ==
    \/ ClientWeight(c) > ClientWeight(d)
    \/ ClientWeight(c) = ClientWeight(d) /\ Position(r, c) < Position(r, d)

BestRepresentation ==
    \A r \in Request :
        /\ context[r] # Nothing =>
              /\ ClientWeight(context[r]) > 0
              /\ \A d \in DOMAIN config[r].codecs \cup {"identity"} :
                    d # context[r] => Preferred(r, context[r], d)
        /\ sidecar[r] # Nothing /\ config[r].static_mode = "on" =>
              /\ ClientWeight(sidecar[r]) > 0
              /\ ClientWeight(sidecar[r]) >= ClientWeight("identity")
              /\ \A d \in SidecarCoding : Preferred(r, d, sidecar[r]) => d \in missing[r]

\* 406 is answered only to a client that excludes identity, every coding this
\* location compresses to and every sidecar that exists.
RefusalJustified ==
    \A r \in Request : refused[r] # Nothing =>
        /\ ClientWeight("identity") = 0
        /\ config[r].enabled => \A c \in DOMAIN config[r].codecs : ClientWeight(c) = 0
        /\ config[r].static_mode = "on" => \A c \in found[r] : ClientWeight(c) = 0

\* Every request is answered: the error page of a 406 is not itself refused by the
\* header filter it passes through.
Settles == <>(pc["main"] \in {"done", "closed"} \/ pc["sub"] = "closed")

\* "The module never double-compresses" (docs/design.md, section 3): what it encodes
\* at request time was not encoded before, in no part of the page.
NeverDoubleCompressed ==
    Done /\ context["main"] # Nothing => \A r \in Fragments : body[r] = <<>>

\* "[A]n extra Vary is harmless, while a lone encoding is not" (runtime.rs): an
\* announced encoding has been applied.
NoLoneEncoding == Done /\ response["main"].encodings # <<>> => Delivered("main") # <<>>
=============================================================================
