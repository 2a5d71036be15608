-------------------------- MODULE MCConfiguration --------------------------
(***************************************************************************)
(* One server with a prefix location around an `if`, and a regex location  *)
(* with a limit_except.  Every directive occurs in some block, with values *)
(* at both ends of its range and just outside of it.                       *)
(***************************************************************************)
EXTENDS Configuration

MCBlock == {"http", "server", "prefix", "if", "regex", "except"}

MCPath ==
    [http |-> <<"http">>,
     server |-> <<"http", "server">>,
     prefix |-> <<"http", "server", "prefix">>,
     if |-> <<"http", "server", "prefix", "if">>,
     regex |-> <<"http", "server", "regex">>,
     except |-> <<"http", "server", "regex", "except">>]

MCKind ==
    [http |-> "http", server |-> "server", prefix |-> "prefix", if |-> "if",
     regex |-> "regex", except |-> "limit_except"]

MCLines ==
    [http |->
       {<<"compress", "on">>, <<"compress", "fast">>, <<"compress", "max">>, <<"gzip", "on">>,
        <<"compress_gzip_comp_level", 1>>, <<"compress_gzip_comp_level", 0>>,
        <<"compress_priority", <<"gzip", "br">>>>, <<"compress_priority", <<"br", "br">>>>,
        <<"compress_priority", <<"identity">>>>, <<"compress_buffers", <<4, 4096>>>>,
        <<"compress_buffers", <<0, 4096>>>>},
     server |->
       {<<"compress", "balanced">>, <<"compress", "off">>, <<"gzip", "off">>, <<"gzip", "on">>,
        <<"compress_zstd_comp_level", -7>>, <<"compress_zstd_comp_level", 23>>,
        <<"compress_brotli_window", 24>>, <<"compress_brotli_window", 9>>,
        <<"compress_types", {"*"}>>, <<"compress_types", {}>>,
        <<"compress_static", "always">>, <<"compress_static", "maybe">>},
     prefix |->
       {<<"compress", "on">>, <<"gzip", "off">>, <<"compress_min_length", 0>>,
        <<"compress_min_length", -1>>, <<"compress_gzip_comp_level", 9>>,
        <<"compress_gzip_comp_level", 10>>, <<"compress_zstd", "off">>,
        <<"compress_zstd", "yes">>, <<"compress_brotli_comp_level", 11>>,
        <<"compress_brotli_comp_level", 12>>, <<"compress_vary", "off">>},
     if |-> {<<"gzip", "on">>, <<"gzip", "off">>},
     regex |->
       {<<"compress", "off">>, <<"compress", "fast">>, <<"gzip", "off">>,
        <<"compress_deflate", "on">>, <<"compress_deflate_comp_level", 9>>,
        <<"compress_stats", "variables">>, <<"compress_stats", "all">>,
        <<"compress_gzip", "off">>, <<"compress_brotli", "on">>},
     except |-> {}]

MCMaxLines == 3
MCBuilds == {<<"none">>, <<"other", "flag">>}
=============================================================================
