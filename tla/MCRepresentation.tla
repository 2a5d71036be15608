-------------------------- MODULE MCRepresentation --------------------------
(* Locations that compress, serve sidecars, do both, or meet the built-in     *)
(* gzip, and fields with ties, wildcards, exclusions, duplicates and items    *)
(* that cannot be read.                                                       *)
EXTENDS Representation, TLC

\* A location as its lines leave it, with NGINX's gzip off or on.
Location(lines, gzip) ==
    Resolve(FoldLeft(Apply, Unset, lines)) @@ [builtin_gzip |-> gzip]

GzipOnly == <<<<"compress", "on">>, <<"compress_gzip", "on">>, <<"compress_static", "on">>>>

MCConfigs ==
    {Location(<<<<"compress", "balanced">>>>, FALSE),
     Location(<<<<"compress", "balanced">>, <<"compress_zstd", "off">>,
                <<"compress_static", "on">>>>, FALSE),
     Location(Append(GzipOnly, <<"compress_static", "always">>), FALSE),
     Location(Append(GzipOnly, <<"compress", "off">>), TRUE),
     Location(GzipOnly, TRUE),
     Location(<<<<"compress", "fast">>, <<"compress_brotli", "off">>,
                <<"compress_priority", <<"br">>>>, <<"compress_vary", "off">>,
                <<"compress_types", {"*"}>>, <<"compress_static", "on">>>>, FALSE)}

Item(token, params) == [token |-> token, params |-> params]
Q(whole, fraction) == [kind |-> "q", weight |-> [whole |-> whole, fraction |-> fraction]]
Plain(token) == Item(token, <<>>)
Rated(token, fraction) == Item(token, <<Q("0", fraction)>>)

MCHeaders ==
    {<<>>,
     <<Plain("gzip"), Plain("br"), Plain("zstd")>>,
     <<Rated("br", <<5>>), Rated("gzip", <<8>>), Rated("identity", <<1>>)>>,
     <<Rated("*", <<0>>)>>,
     <<Rated("identity", <<0>>), Rated("gzip", <<0, 0, 1>>)>>,
     <<Rated("gzip", <<9>>), Rated("br", <<5>>), Rated("gzip", <<2>>), Rated("identity", <<1>>)>>,
     <<Item("gzip", <<Q("1", <<5>>)>>), Item("br", <<[kind |-> "bare"]>>),
       Rated("zstd", <<3>>), Plain("unknown"), Rated("identity", <<0>>)>>,
     <<Rated("*", <<5>>), Rated("identity", <<0>>), Item("gzip", <<Q("0", <<>>), Q("1", <<0>>)>>)>>}

Answer(status, type, length, encodings) ==
    [status |-> status, type |-> type, length |-> length, encodings |-> encodings,
     recorded |-> encodings # <<>>, vary |-> FALSE, cleared |-> FALSE]

MCResponses ==
    {Answer(200, "text/html", -1, <<>>),
     Answer(200, "text/html", 10, <<>>),
     Answer(200, "opaque", 500, <<>>),
     Answer(200, "text/html", 500, <<"br">>),
     Answer(404, "text/html", 500, <<>>)}
=============================================================================
