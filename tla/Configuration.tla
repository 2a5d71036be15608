--------------------------- MODULE Configuration ---------------------------
(***************************************************************************)
(* From nginx.conf to a request: the directives of a configuration are     *)
(* read into one CompressConfig per block, blocks inherit from the ones    *)
(* around them, postconfiguration looks for locations where both this      *)
(* module and NGINX's gzip are on, and each request is checked again       *)
(* (crates/ngx-compress-module/src/{config,registration,gzip.rs} and       *)
(* crates/ngx-compress-ffi/src/module_conf.rs).                            *)
(*                                                                         *)
(* External, modelled from how the code relies on it: NGINX's parser, the  *)
(* order in which it merges, its gzip module's own flag, and which of its  *)
(* lists of locations still exist when postconfiguration runs.             *)
(***************************************************************************)
EXTENDS LocationConfig

CONSTANTS
    Block,      \* the blocks of the configuration file
    Path,       \* the blocks around each block, outermost first, and itself
    Kind,       \* what each block is
    Lines,      \* the lines each block may contain
    MaxLines,   \* bound: lines in the file
    Builds,     \* which modules NGINX is built with: what each calls `gzip`
    Queues      \* whether the queue of prefix locations outlives NGINX's location trees

Location == {"prefix", "regex", "named"}
BlockKind == {"http", "server", "if", "limit_except"} \cup Location
Parent(b) == Path[b][Len(Path[b]) - 1]
Outermost == {b \in Block : Len(Path[b]) = 1}

ASSUME BlockAssumption ==
    /\ Path \in [Block -> Seq(Block)]
    /\ \A b \in Block :
         /\ Path[b] # <<>> /\ Path[b][Len(Path[b])] = b
         /\ b \notin Outermost => Path[b] = Append(Path[Parent(b)], b)
    /\ Kind \in [Block -> BlockKind]
    /\ \A b \in Block : Kind[b] = "http" <=> b \in Outermost

ASSUME InputAssumption ==
    /\ MaxLines \in Nat
    /\ \A build \in Builds : build \in Seq({"none", "flag", "other"})
    /\ Queues \subseteq BOOLEAN
    /\ DOMAIN Lines = Block
    /\ \A b \in Block : \A line \in Lines[b] :
         IF line[1] = "gzip" THEN line[2] \in {"on", "off"}
                             ELSE line[1] \in DOMAIN Slot \cup {"compress"}

VARIABLES
    phase,      \* "read", "merge", "scan", "serve", or "failed"
    build,      \* the modules NGINX is built with
    text,       \* history: the accepted lines of each block
    conf,       \* CompressConfig of each block
    flag,       \* the gzip module's own flag of each block
    merged,     \* the blocks that have inherited
    descriptor, \* MainConfig.builtin_gzip, or 0
    expected,   \* the blocks with gzip_conflict_expected, each of which was reported
    warned,     \* the blocks with gzip_runtime_warned
    logged,     \* history: how often a mismatch was logged for each block
    outcome     \* the block of the latest request and whether it was disabled there

vars == <<phase, build, text, conf, flag, merged, descriptor, expected, warned, logged, outcome>>
readVars == <<build, text>>
serveVars == <<warned, logged, outcome>>

NoRequest == <<>>

Init ==
    /\ phase = "read"
    /\ build \in Builds
    /\ text = [b \in Block |-> <<>>]
    /\ conf = [b \in Block |-> Unset]
    /\ flag = [b \in Block |-> "unset"]
    /\ merged = {}
    /\ descriptor = 0
    /\ expected = {}
    /\ warned = {}
    /\ logged = [b \in Block |-> 0]
    /\ outcome = NoRequest

-----------------------------------------------------------------------------
(* Reading the file.                                                       *)

LinesRead == Cardinality(UNION {{b} \X (DOMAIN text[b]) : b \in Block})

\* The contexts in the directive tables of this module and of NGINX's gzip.
Allowed(b, line) ==
    Kind[b] \in {"http", "server"} \cup Location \cup (IF line[1] = "gzip" THEN {"if"} ELSE {})

\* The parser hands each line to the module that has the directive.
Read(b, line) ==
    /\ phase = "read"
    /\ LinesRead < MaxLines
    /\ Allowed(b, line)
    /\ UNCHANGED <<build, merged, descriptor, expected, serveVars>>

CompressLine(b, line) ==
    /\ Read(b, line)
    /\ line[1] # "gzip"
    /\ Valid(line)
    /\ conf' = [conf EXCEPT ![b] = Apply(@, line)]
    /\ text' = [text EXCEPT ![b] = Append(@, line)]
    /\ UNCHANGED <<phase, flag>>

\* find_builtin_gzip: the first HTTP module whose `gzip` is a flag of a location.
FindBuiltinGzip ==
    LET found == {i \in DOMAIN build : build[i] = "flag"}
    IN  IF found = {} THEN 0 ELSE CHOOSE i \in found : \A j \in found : i <= j

\* ngx_conf_set_flag_slot accepts the directive once per block.
GzipKnown(b) == FindBuiltinGzip # 0 /\ flag[b] = "unset"

GzipLine(b, line) ==
    /\ Read(b, line)
    /\ line[1] = "gzip"
    /\ GzipKnown(b)
    /\ flag' = [flag EXCEPT ![b] = line[2]]
    /\ text' = [text EXCEPT ![b] = Append(@, line)]
    /\ UNCHANGED <<phase, conf>>

\* An error in any line rejects the file.
RejectedLine(b, line) ==
    /\ Read(b, line)
    /\ IF line[1] = "gzip" THEN ~GzipKnown(b) ELSE ~Valid(line)
    /\ phase' = "failed"
    /\ UNCHANGED <<text, conf, flag>>

EndOfFile ==
    /\ phase = "read"
    /\ phase' = "merge"
    /\ merged' = Outermost
    /\ UNCHANGED <<readVars, conf, flag, descriptor, expected, serveVars>>

-----------------------------------------------------------------------------
(* Inheritance: NGINX merges a block when the one around it is merged.     *)

InheritFlag(child, parent) ==
    IF child # "unset" THEN child ELSE IF parent # "unset" THEN parent ELSE "off"

Merge(b) ==
    /\ phase = "merge"
    /\ b \notin merged
    /\ Parent(b) \in merged
    /\ conf' = [conf EXCEPT ![b] = Inherit(@, conf[Parent(b)])]
    /\ flag' = [flag EXCEPT ![b] = InheritFlag(@, flag[Parent(b)])]
    /\ merged' = merged \cup {b}
    /\ UNCHANGED <<phase, readVars, descriptor, expected, serveVars>>

-----------------------------------------------------------------------------
(* postconfiguration.                                                      *)

\* disabled_reason
Conflicts(enabled, builtin) == enabled /\ builtin

EnabledIn(b) == Resolve(conf[b]).enabled

\* The scan starts at each server and descends through the lists of regex and named
\* locations and through the queue of the others.  NGINX has no list of `if` blocks.
Reaches(kind, kept) == kind \in {"regex", "named", "limit_except"} \/ (kind = "prefix" /\ kept)

Inspected(kept) ==
    {b \in Block \ Outermost : \A i \in 3..Len(Path[b]) : Reaches(Kind[Path[b][i]], kept)}

\* Mutant: every location compression is on in is reported.
DiscoverByEnable(kept) ==
    /\ phase = "merge"
    /\ merged = Block
    /\ phase' = "serve"
    /\ descriptor' = FindBuiltinGzip
    /\ expected' = {b \in Inspected(kept) : descriptor' # 0 /\ EnabledIn(b)}
    /\ UNCHANGED <<readVars, conf, flag, merged, serveVars>>

\* discover_and_warn records and reports every conflict it comes across.
Discover(kept) ==
    /\ phase = "merge"
    /\ merged = Block
    /\ phase' = "serve"
    /\ descriptor' = FindBuiltinGzip
    /\ expected' = {b \in Inspected(kept) :
                      descriptor' # 0 /\ Conflicts(EnabledIn(b), flag[b] = "on")}
    /\ UNCHANGED <<readVars, conf, flag, merged, serveVars>>

\* A structure the scan needs is missing, or the filters cannot be installed.
PostconfigurationFails ==
    /\ phase = "merge"
    /\ merged = Block
    /\ phase' = "failed"
    /\ UNCHANGED <<readVars, conf, flag, merged, descriptor, expected, serveVars>>

-----------------------------------------------------------------------------
(* Requests.                                                               *)

RuntimeConflict(b) == descriptor # 0 /\ flag[b] = "on"

\* Mutants: only a conflict that has disappeared is logged; what postconfiguration
\* found decides alone.
MismatchGone(b) == descriptor # 0 /\ ~RuntimeConflict(b) /\ b \in expected
DisabledAsExpected(b) == Conflicts(EnabledIn(b), b \in expected)

Mismatch(b) == descriptor # 0 /\ ~(RuntimeConflict(b) <=> b \in expected)
Disabled(b) == Conflicts(EnabledIn(b), RuntimeConflict(b) \/ b \in expected)

\* disabled_for_request, for a request that ended up in block b.  A worker has its own
\* copy of the configuration, and so of gzip_runtime_warned: one stands for all.
Request(b) ==
    /\ phase = "serve"
    /\ b \notin Outermost
    /\ outcome' = <<b, Disabled(b)>>
    /\ IF EnabledIn(b) /\ Mismatch(b) /\ b \notin warned
       THEN /\ warned' = warned \cup {b}
            /\ logged' = [logged EXCEPT ![b] = @ + 1]
       ELSE UNCHANGED <<warned, logged>>
    /\ UNCHANGED <<phase, readVars, conf, flag, merged, descriptor, expected>>

-----------------------------------------------------------------------------
ReadLine ==
    \E b \in Block : \E line \in Lines[b] :
        CompressLine(b, line) \/ GzipLine(b, line) \/ RejectedLine(b, line)

Next ==
    \/ ReadLine
    \/ EndOfFile
    \/ \E b \in Block : Merge(b)
    \/ \E kept \in Queues : Discover(kept)
    \/ PostconfigurationFails
    \/ \E b \in Block : Request(b)

Spec == Init /\ [][Next]_vars

-----------------------------------------------------------------------------
(* What the file says, read without any inheritance.                       *)

Effect(line) ==
    IF line[1] = "gzip" THEN Some("builtin_gzip", line[2] = "on") ELSE Assignment(line)

\* The lines in and around block b, by depth and position, and those that set f.
Places(b) == UNION {{n} \X (DOMAIN text[Path[b][n]]) : n \in DOMAIN Path[b]}
LineAt(b, p) == text[Path[b][p[1]]][p[2]]
Settings(b, f) == {p \in Places(b) : f \in DOMAIN Effect(LineAt(b, p))}

Overrides(p, q) == p[1] > q[1] \/ (p[1] = q[1] /\ p[2] >= q[2])

\* The innermost block that sets f decides, and in it the last line.
Deciding(settings) == CHOOSE p \in settings : \A q \in settings : Overrides(p, q)

Says(b, f, default) ==
    LET settings == Settings(b, f)
        p == Deciding(settings)
    IN  IF settings = {} THEN default ELSE Effect(LineAt(b, p))[f]

\* Compression and NGINX's gzip are both on in block b.
InConflict(b) == Says(b, "enable", FALSE) /\ Says(b, "builtin_gzip", FALSE)

-----------------------------------------------------------------------------
TypeOK ==
    /\ phase \in {"read", "merge", "serve", "failed"}
    /\ build \in Builds
    /\ DOMAIN text = Block
    /\ \A b \in Block : text[b] \in Seq(Lines[b])
    /\ DOMAIN conf = Block
    /\ \A b \in Block :
         DOMAIN conf[b] \subseteq Field /\ \A f \in DOMAIN conf[b] : conf[b][f] \in Values(f)
    /\ flag \in [Block -> {"unset", "on", "off"}]
    /\ merged \subseteq Block
    /\ descriptor \in {0, FindBuiltinGzip}
    /\ expected \subseteq Block
    /\ warned \subseteq Block
    /\ logged \in [Block -> Nat]
    /\ outcome \in (Block \X BOOLEAN) \cup {NoRequest}

\* "explicit compress_* directive > profile preset > built-in default, independent of
\* directive order" (docs/directives.md), through any nesting of blocks and wherever
\* the lines stand: a block that is not yet merged has not been asked.
Precedence ==
    phase = "merge" => \A b \in merged :
        LET preset == Preset(Says(b, "profile", Default.profile))
            full == Complete(conf[b])
        IN  \A f \in Field :
              full[f] = Says(b, f, IF f \in DOMAIN preset THEN preset[f] ELSE Default[f])

\* The module stays out of a request exactly where the file turns both compressors
\* on, whichever locations the scan at start came across.
FailsClosed == outcome # NoRequest => (outcome[2] <=> InConflict(outcome[1]))

\* A location that compression is kept out of never is so silently: the conflict was
\* reported at start, or the worker that serves it has logged it.
ConflictAnnounced ==
    outcome # NoRequest /\ outcome[2] => outcome[1] \in expected \/ logged[outcome[1]] = 1

\* Neither warning is raised where the file has no conflict, and no worker repeats
\* itself or what was reported at start.
WarningsJustified ==
    /\ \A b \in expected : InConflict(b)
    /\ \A b \in Block :
         /\ logged[b] <= 1
         /\ logged[b] = 1 => InConflict(b) /\ b \notin expected

\* "During nginx -t, startup, and reload the module emits one warning per conflicting
\* effective configuration" (docs/directives.md).  The scan does not reach them all.
ConflictsReported ==
    phase = "serve" => \A b \in Block \ Outermost : InConflict(b) => b \in expected
=============================================================================
