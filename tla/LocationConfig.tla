--------------------------- MODULE LocationConfig ---------------------------
(***************************************************************************)
(* One location's configuration as pure operators                          *)
(* (crates/ngx-compress-module/src/config and registration/conf.rs): what  *)
(* a directive line sets, what a block inherits, and what the request path *)
(* sees once presets and defaults are filled in.                           *)
(*                                                                         *)
(* CompressConfig is a struct of Options.  Here it is a function whose     *)
(* domain is the set of the fields that are Some.  A line is a pair        *)
(* <<directive, argument>>; letter case and number syntax are abstracted,  *)
(* and an argument that does not parse is any value outside of the         *)
(* directive's range.                                                      *)
(***************************************************************************)
EXTENDS Negotiation

RuntimeCoding == {"gzip", "deflate", "br", "zstd"}
FlagField == {"gzip", "deflate", "brotli", "zstd", "vary"}

\* The field each directive other than `compress` sets.
Slot ==
    [compress_static |-> "static_mode", compress_gzip |-> "gzip",
     compress_gzip_comp_level |-> "gzip_level", compress_deflate |-> "deflate",
     compress_deflate_comp_level |-> "deflate_level", compress_brotli |-> "brotli",
     compress_brotli_comp_level |-> "brotli_level", compress_brotli_window |-> "brotli_window",
     compress_zstd |-> "zstd", compress_zstd_comp_level |-> "zstd_level",
     compress_min_length |-> "min_length", compress_vary |-> "vary",
     compress_stats |-> "stats_mode", compress_buffers |-> "buffers",
     compress_types |-> "types", compress_priority |-> "priority"]

Field ==
    {"enable", "profile", "static_mode", "gzip", "gzip_level", "deflate", "deflate_level",
     "brotli", "brotli_level", "brotli_window", "zstd", "zstd_level", "min_length", "vary",
     "buffers", "stats_mode", "types", "priority"}

\* set_priority: one to four runtime codings, none of them twice.
PriorityPrefix ==
    {s \in UNION {[1..n -> RuntimeCoding] : n \in 1..4} : IsInjective(s)}

\* What a field may hold when it is set.
Values(f) ==
    CASE f \in FlagField \cup {"enable"} -> BOOLEAN
      [] f = "profile" -> {"custom", "fast", "balanced"}
      [] f = "static_mode" -> {"off", "on", "always"}
      [] f = "stats_mode" -> {"off", "variables", "server_timing"}
      [] f \in {"gzip_level", "deflate_level"} -> 1..9
      [] f = "brotli_level" -> 0..11
      [] f = "brotli_window" -> 10..24
      [] f = "zstd_level" -> -7..22
      [] f = "min_length" -> Nat
      [] f = "buffers" -> (Nat \ {0}) \X (Nat \ {0})
      [] f = "types" -> (SUBSET STRING) \ {{}}
      [] f = "priority" -> PriorityPrefix

\* Mutant: nothing of a priority list is checked.
ValidAnyPriority(line) ==
    IF line[1] = "compress" THEN line[2] \in {"off", "on", "fast", "balanced"}
    ELSE IF Slot[line[1]] \in FlagField THEN line[2] \in {"on", "off"}
    ELSE line[1] = "compress_priority" \/ line[2] \in Values(Slot[line[1]])

\* Whether apply accepts a line of this module.
Valid(line) ==
    IF line[1] = "compress" THEN line[2] \in {"off", "on", "fast", "balanced"}
    ELSE IF Slot[line[1]] \in FlagField THEN line[2] \in {"on", "off"}
    ELSE line[2] \in Values(Slot[line[1]])

\* CompressConfig::default: nothing is set.
Unset == [f \in {} |-> FALSE]
Some(field, value) == [f \in {field} |-> value]

\* Option::or in every field.
OrElse(c, d) ==
    [f \in DOMAIN c \cup DOMAIN d |-> IF f \in DOMAIN c THEN c[f] ELSE d[f]]

\* `compress on` selects the tier without a preset, `compress off` selects none.
ProfileNamed(word) == IF word = "on" THEN "custom" ELSE word

Assignment(line) ==
    IF line[1] = "compress"
    THEN OrElse(Some("enable", line[2] # "off"),
                IF line[2] = "off" THEN Unset ELSE Some("profile", ProfileNamed(line[2])))
    ELSE Some(Slot[line[1]],
              IF Slot[line[1]] \in FlagField THEN line[2] = "on" ELSE line[2])

\* apply: a later line of the same block overrides an earlier one.
Apply(c, line) == OrElse(Assignment(line), c)

\* merge: what the child leaves unset it takes from its parent, field by field.
Inherit(child, parent) == OrElse(child, parent)

-----------------------------------------------------------------------------
Preset(profile) ==
    CASE profile = "fast" ->
           [gzip |-> TRUE, brotli |-> TRUE, zstd |-> TRUE, min_length |-> 256, gzip_level |-> 4,
            deflate_level |-> 4, brotli_level |-> 4, brotli_window |-> 18, zstd_level |-> 3]
      [] profile = "balanced" ->
           [gzip |-> TRUE, brotli |-> TRUE, zstd |-> TRUE, min_length |-> 256, gzip_level |-> 6,
            deflate_level |-> 6, brotli_level |-> 5, brotli_window |-> 22, zstd_level |-> 6]
      [] OTHER -> Unset

\* The types compressed when none are listed, as far as the instances tell types apart.
BuiltinTypes == {"text/html", "text/plain", "application/json", "image/svg+xml"}

Default ==
    [enable |-> FALSE, profile |-> "custom", static_mode |-> "off", vary |-> TRUE,
     stats_mode |-> "off", min_length |-> 20, buffers |-> <<16, 8192>>, types |-> BuiltinTypes,
     priority |-> <<>>, gzip |-> FALSE, deflate |-> FALSE, brotli |-> FALSE, zstd |-> FALSE,
     gzip_level |-> 6, deflate_level |-> 6, brotli_level |-> 6, brotli_window |-> 22,
     zstd_level |-> 3]

ProfileOf(c) == OrElse(c, Default)["profile"]

\* Mutant: the preset overrides an explicit directive.
CompletePresetFirst(c) == OrElse(OrElse(Preset(ProfileOf(c)), c), Default)

\* explicit directive > profile preset > built-in default.
Complete(c) == OrElse(OrElse(c, Preset(ProfileOf(c))), Default)

\* The codings a location has an encoder for, each with that encoder's parameters.
Codecs(full) ==
    LET On(coding) == full[IF coding = "br" THEN "brotli" ELSE coding]
    IN [coding \in {c \in RuntimeCoding : On(c)} |->
          CASE coding = "gzip" -> <<full.gzip_level>>
            [] coding = "deflate" -> <<full.deflate_level>>
            [] coding = "br" -> <<full.brotli_level, full.brotli_window>>
            [] coding = "zstd" -> <<full.zstd_level>>]

Resolve(c) ==
    LET full == Complete(c) IN
    [enabled |-> full.enable, min_length |-> full.min_length, vary |-> full.vary,
     buffers |-> full.buffers, stats_mode |-> full.stats_mode,
     static_mode |-> full.static_mode, types |-> full.types, codecs |-> Codecs(full),
     priority |-> ResolvePriority(full.profile, full.priority)]
=============================================================================
