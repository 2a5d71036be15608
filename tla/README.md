# A TLA+ model of ngx-compress-rs

ngx-compress-rs is an NGINX module that compresses responses: a header filter decides whether
and how, a body filter streams the response through an encoder, and a static handler serves
precompressed sidecar files. The server-independent decisions live in a safe Rust core, the
encoders in adapters, the NGINX state in a filter crate over a thin FFI layer.

All paths below are relative to `src/`; `core` is `crates/ngx-compress-core/src`, `module` is
`crates/ngx-compress-module/src`, `codecs` is `crates/ngx-compress-codecs/src`, `ffi` is
`crates/ngx-compress-ffi`.

## Inventory

| Component | State | Operations | Correct when |
|---|---|---|---|
| Streaming driver (`core/stream`, `core/progress.rs`, `core/codec.rs`) | offset in the buffer, the callback's `WorkBudget` | `drive_input`, `checked_step`, `validate_progress` | a boundary is emitted once, behind the last byte; the loop ends; consumed bytes are never offered again |
| Body filter (`module/filter/runtime.rs`, `buffer.rs`, `input.rs`, `context.rs`) | `RequestCtx`: pending input, pending operation, free/out/busy chains, done | `body_filter`, `compress`, `resume_operation`, `append_input`, `free_buf` | the stream stays ordered and complete, buffers are bounded and not reused early, pending work always has a wakeup |
| Event glue (`ffi/c/event.c`) | the connection's buffered bits, posted events | `set_buffered`, `post_write_if_ready` | as above |
| Codec pool (`module/filter/worker.rs`, `select.rs`, `context.rs`) | idle encoders by key | `acquire`, `release`, `build`, `construct`, `cleanup` | one owner, clean state, right parameters |
| Codec adapters (`codecs`) | encoder state, gzip framing | `step`, `reset` | the progress contract is kept, the format is complete |
| Header filter (`module/filter/runtime.rs`, `header.rs`) | response headers, the context | `header_filter` | encoding headers and encoded body go together |
| Negotiation (`core/negotiation.rs`, `eligibility.rs`, `mime.rs`) | none | `parse`, `negotiate_available` | the client's best acceptable coding |
| Static sidecars (`module/static_file`, `core/static_policy.rs`) | none | the content handler | right file, right headers |
| Configuration (`module/config`, `registration`, `gzip.rs`) | location configurations, the conflicts found at start and the ones logged | directives, `merge`, `resolve`, the scan at start, the check of each request | inheritance and defaults as documented; never two compressors, never silently none |
| Statistics, variables, logging (`core/stats.rs`, `module/filter/variables.rs`, `observability.rs`) | counters of the request | `record`, the `Server-Timing` trailer, formatting | the numbers are those of the bytes, reported once |
| FFI glue (`ffi/src`, `ffi/c`) | the built-in gzip's descriptor | `discover`, chain and header helpers, panic guards | see where it is used |

How they interact: every request reads the resolved configuration of its location and stands back
where NGINX's own gzip is on as well; the header filter negotiates, takes an encoder from the pool
and installs a
context; body-filter callbacks, started by upstream data or by write events, call the driver,
which calls the adapter and borrows output buffers from the filter through a callback; the
filter hands its `out` chain to the next body filter, which may keep links to it; when the
request's memory pool is destroyed the cleanup handler returns the encoder to the pool.

What makes it hard: the stream is cut into callbacks by two budgets (64 KiB of input, 32 codec
calls) and by output backpressure, at any byte; buffers are shared with the filters downstream;
the next callback only comes if somebody asked for it; encoders outlive requests, including
abandoned ones. A worker is one thread, so the interleavings are those of callbacks, write
events and requests, not of instructions.

## Modules

**`StreamContract`** holds the pure decisions of the core: the answers an encoder may give and
which of them `validate_progress` accepts, the budget arithmetic, which operation is presented
with a prefix, and which boundary an output buffer carries. Byte strings are lengths.

**`StreamDriver`** is `drive_input`. One `Step` is one iteration of its loop with the codec call,
the check of the answer and the decision about the buffer in it. The codec is arbitrary: it may
answer any counts (one past the limit stands for all impossible ones) and any state. `Drive`,
`Retry`, `Suspend` and `EndCallback` are the caller, which continues an interrupted buffer with
the unconsumed suffix and the same operation.

**`OrderedStream`** is the abstract promise of a response body filter: what upstream handed over
goes down in order and exactly once, and nothing is held back behind a boundary for ever.

**`BodyFilter`** is one compressed response. `pc` places the worker inside a callback:
`UpstreamData`, `PostedWriteEvent` and `SocketWriteEvent` start one, `ResumeOperation` and
`DriveHead` call the driver, `DriveStep` is a driver iteration with `free_buf`, `commit`, `append`
and `recycle`, `HeadPaused` ... `StreamFinished` are what `compress` does with the outcome, and
`Prepare` with `NothingToSubmit`/`Submit` and `DownstreamReturns` is the rest of
`body_filter_with_ctx`. It uses the actions of `StreamDriver` through `INSTANCE`. External parts
are modelled from how the code relies on them: the codec as a FIFO that may delay output and adds
a trailer when it finishes; the write filter, which writes byte by byte and may stop anywhere; the
event loop. What differs from request to request is one record, `request`: whether a later filter
adds bytes of its own behind a batch (`framing`, as chunked encoding does), whether small writes are
held back (`postpone`), whether unflushed bytes may be absorbed by the TLS record buffer (`tls`),
which operations upstream asks for (`ops`), and `compress_stats`. `RecordStats` is the accounting in
the driver's callback and `AddServerTiming` the trailer put into the response when the stream ends.

**`CodecPool`** is the worker's pool with all requests of a worker. `Reuse`, `Build`, `Recover` and
`ConstructionFails` are the four ways through `build`/`acquire`; `Install` and `GiveUp` finish the
header callback; `Compress` leaves the response's data in the encoder; `Cleanup` may come at any
point of a response. `residue`, `poisoned` and `made` are histories.

**`CodecAdapters`** is the layer the driver calls: `step` and `reset` of gzip, deflate, zstd, both
brotli adapters and identity. The encoder library below is arbitrary within what its manual
promises (`LibraryResult`: it stops early only when the output is full, it says "drained" only when
it holds nothing back; `MarkerParts`: deflate ends a flush with a marker of five bytes, and begins
another one when it is asked to flush again), and `misused` records a call its manual forbids. Gzip
is cut into `GzipHeader`, `GzipTrailer`, `GzipBody` and `GzipEnd` by the paths of its `step`; zstd
into the call that only feeds and the one that goes on to `flush`/`finish`. The caller presents work
as `drive_input` does. `Reset` may come at any point, as from the pool.

**`LocationConfig`** is a location's configuration as operators: the slot and the range of each
directive, `Apply`, `Inherit`, the presets, the defaults and `Resolve`. The Rust struct of
`Option`s is a function on the set of its `Some` fields.

**`Configuration`** goes from the file to a request: `CompressLine`, `GzipLine` and `RejectedLine`
read one line of one block, `Merge` lets a block inherit once the block around it has,
`Discover` is the scan of postconfiguration for locations with both compressors on, and `Request`
is `disabled_for_request` in the block the request ended up in. `text` keeps the accepted lines, so
that the properties can read the file without any inheritance. External: NGINX's parser, the order
in which it merges, its gzip module's flag, and which lists of locations still exist when
postconfiguration runs (`Queues`).

**`Negotiation`** has no state: parsing of `Accept-Encoding` items and weights, `quality`,
`negotiate_available`, the priority order, the sidecar candidates with their stable sort, and
eligibility. A token, a name or a MIME type is a value; a weight keeps its digits, because what
counts as a weight is what the code decides.

**`Representation`** follows one client request, and a subrequest its page may include, through
the static handler, the header filter and NGINX's error pages. `response` is `headers_out`,
`body` the codings of the bytes a handler supplies, `context` the coding of the installed
`RequestCtx`; `Delivered` puts them together in the order of NGINX's filters. `Probe` is one
iteration of `probe_and_serve`, over a location resolved by `LocationConfig`, and finds or misses a
file freely; `Pass`, `Reject`, `EncodingNotAdded`, `InstallFails` and `Compress` are the exits of
`header_filter_inner`.
External: the other content handlers (`Original`), `ngx_http_special_response_handler`, which sends
an error page through the same header filter with the headers it finds, NGINX's own gzip filter
behind this one, and SSI, whose output passes the main request's body filters.

`*_proofs` hold the proofs, and `ChainLemmas` what they share about chains, sequences and folds. The
body filter has two such modules: `BodyFilter_proofs`, about control and ownership, and on top of it
`BodyFilterStream_proofs`, about the bytes.

`MC*` modules give the constants their values. Definitions with a comment *Mutant* are not part of
a model: each is a plausible error in the definition it stands before, and shows that a property
can notice it.

## Runs

| Run | Question | Result |
|---|---|---|
| `StreamDriver` | type, `BoundaryHonest`, `BoundaryNeverWithdrawn`, `NoSpin`, `CallReturns` | hold |
| `BodyFilter` | type, `BuffersConserved`, `LentBufferIsUnlinked`, `BufferedBitHonest`, `PlainWorkHasWakeup`, `TrailerBeforeLast`, `StatsExact`, `TrailerTotals`, `WriterNeverRefuses`, `DriverProtocol`, `Ordered` | hold |
| `BodyFilterLiveness` | `BoundariesDelivered` over a plain connection | holds |
| `BodyFilterTls` | is there always a wakeup with TLS? | no: finding 1 |
| `BodyFilterFlush` | are lent buffers unlinked with framing and flushes? | no: finding 2 |
| `CodecPool` | type, `OneOwner`, `OwnDataOnly`, `KeyMatches`, `PoisonContained` | hold |
| `CodecAdapters` | type, `AnswersTrusted`, `BoundaryAnswers`, `FramesWellFormed`, `LibraryContract`, `FlushEnds` | hold |
| `Representation` | type, `HeadMatchesBody`, `CacheSafe`, `BestRepresentation`, `RefusalJustified`, `Settles` | hold |
| `RepresentationSubrequest` | is nothing ever compressed twice? | no: finding 3 |
| `RepresentationLateFailure` | is an announced coding always applied? | no: finding 4 |
| `Configuration` | type, `Precedence`, `FailsClosed`, `ConflictAnnounced`, `WarningsJustified` | hold |
| `ConfigurationWarnings` | is every conflict reported at start? | no: finding 5 |

`BodyFilter` runs over a plain connection with every operation, one with TLS and postponement, and
one with framing as well behind an upstream that does not flush; the two runs that fail show what is
left out there. `PlainWorkHasWakeup` and `BufferedBitHonest` relate pending work to what will call
the filter again; `StatsExact` and `TrailerTotals` relate the counters to the bytes that crossed the
filter at whatever point the response ended.

`Ordered` is the refinement `BodyFilter => OrderedStream!Safety`; `DriverProtocol` is the
refinement to `StreamDriver` without its fairness, that is, that the filter keeps the protocol the
driver's proofs assume of a caller; `BoundariesDelivered` is the liveness of `OrderedStream`.

### Bounds

- `StreamDriver`: 3 bytes and 3 steps per callback, output buffers of 2 bytes, upstream buffers of
  up to 5 bytes. Buffers are shorter than, equal to and longer than the allowance, either
  allowance can run out first, and a boundary can need several steps and several callbacks.
- `BodyFilter`: the three kinds of request above, 2 output buffers of 2 bytes, 2 bytes and 3 steps
  per callback, 4 response bytes in at most 3 upstream buffers (2 in the liveness run). Two buffers
  are the least with which one can be busy while the other is lent; four bytes plus a trailer exceed
  the buffers' capacity, so exhaustion happens; three arrivals let one be pending, one be
  re-delivered and one be new.
- `CodecPool`: 4 requests, 4 encoders, 2 keys, 2 idle places: hits, misses, removal from the
  middle and a full pool all happen. Requests, encoders and keys are symmetric; no liveness is
  checked there.
- `CodecAdapters`: a header and a trailer of two bytes each and output buffers of 1, 2, 3 and 5
  bytes, so that each section is split, fits exactly, or shares a buffer with the next, and a flush
  marker fills buffers exactly (1, 5) or does not (2, 3); responses of up to 3 bytes, enough for
  input left over in two consecutive calls.
- `Configuration`: a server with a prefix location around an `if` and a regex location with a
  `limit_except`; files of up to 3 lines, which is a line in each block of a path, or a block that
  says something twice. Every directive occurs, with values at both ends of its range and just
  outside. NGINX is built without its gzip module, or with another module's directive of that name
  in front of it. Locations are merged in every order the nesting allows; the queue of prefix
  locations survives or does not.
- `Representation`: six locations (runtime only, sidecars only behind the built-in gzip, both,
  `always`, the conflict, another priority without `Vary`), one for each of the two requests
  independently; eight fields with ties, wildcards, exclusions, repeated, unreadable and unknown
  items; five upstream answers (eligible, too short, unreadable type, already encoded, not a 200).

Deadlock checking is off where the system may stop: a finished or abandoned response.

### Fairness

`StreamDriver` assumes weak fairness of `Iterate`: the loop runs inside one callback of a process
that keeps executing. `BodyFilter` assumes that a callback that was entered goes on
(`Callback`), that the event loop serves posted events, and that a client that leaves the socket
full reads on (`SocketWriteEvent`); the failure actions and upstream get no fairness at all.
`Representation` assumes weak fairness of `Next`: every handler and filter call returns, and the
upstream answers. `CodecAdapters` assumes weak fairness of `AnyStep`, for `FlushEnds`
alone: the filter drives a pending operation again as soon as a buffer is free. `CodecPool` and
`Configuration` are safety only.

## Proofs

`StreamDriver_proofs` proves, for every budget, capacity and buffer length, and for an arbitrary
codec: `TypeCorrect`, `BoundariesAreHonest`, `BoundariesAreNotWithdrawn`, `LoopNeverSpins`. The
inductive invariant adds to type and `BoundaryHonest` what the histories mean: a boundary operation
is only presented together with the whole remainder of the buffer, and from then on the remainder
fits the rest of the byte allowance, so the budget cannot cut it again; in a later callback the
allowance is fresh and the suffix is no longer than before. It assumes `DriverAssumption`
(positive allowances and capacity), which the code fixes by constants and by `set_buffers`.

`CodecPool_proofs` proves, for every number of requests, encoders, keys and every pool size:
`TypeCorrect`, `EncodersHaveOneOwner`, `ResponsesDoNotMix`, `KeysMatch`, `PoisonIsContained`. The
properties need each other: resetting an encoder is harmless only because nobody else owns it, so
`PoolInv` is their conjunction with three facts about encoders nobody owns (an unborn one is clean,
a poisoned one is dropped, a served request has a key). `SwapRemoveFacts` states what
`Vec::swap_remove` does to a sequence.

`CodecAdapters_proofs` proves, for headers, trailers, output buffers and responses of any length and
over every library that keeps its contract: `TypeCorrect`, `AnswersAreTrusted`,
`BoundariesAreAnswered`, `LibraryIsCalledProperly`, `FramesAreWellFormed`. `AdapterInv` adds three
parts to the properties: `CountInv` (the library holds no more than was accepted), `GzipInv` (what
gzip's positions mean for the wire: no body before the header is out, no trailer before the deflate
stream has ended, `crc` counts what was accepted) and `StreamInv` (a boundary begun inside the
library is the very thing the driver presents next). The last is why no library is called wrongly:
without it a second `Finish` with new input could reach zstd's ended frame. `StepKeepsInv` says once
what an answer and the library's new state must satisfy; each way through `step` has a lemma that
establishes it. It assumes `AdapterAssumption` (non-empty header, trailer and buffers), which the
code's constants and `set_buffers` guarantee, and the driver's half of the contract, which
`BoundariesAreNotWithdrawn` proves of `StreamDriver`.

`Configuration_proofs` proves, for every tree of blocks, every set of lines, every build and any
number of lines: `TypeCorrect`, `PrecedenceHolds`, `RequestsFailClosed`, `ConflictsAnnounced`,
`WarningsAreJustified`. `ConfigInv` says what a block knows: before it inherits, what its own lines
say (`OwnRead`); afterwards, what the innermost line on its path says (`PathRead`). `Deciding` is a
choice among the lines that set a field, so the step of a merge shows that the deciding line of a
child is its own last one or else the deciding line of its parent. `ServingFacts` carries the
warnings through the requests. It assumes that the blocks form trees and that only known directives
reach the module (`BlockAssumption`, `InputAssumption`), both the parser's doing.

`BodyFilter_proofs` proves, for any number and size of buffers, any budget and any response:
`TypeCorrect`, `BuffersAreConserved`, `BufferedBitIsHonest`, `DriverProtocolKept`,
`PlainWorkIsWoken`. `IndInv` says in which phase the callback is and what the driver reported in it
(`PhaseInv`), and that an interrupted operation is the head's, or all that is left of a consumed
buffer (`ResumeInv`). With it each step of the filter is a step of `StreamDriver` that keeps the
caller's side of the contract, so the invariant of `StreamDriver_proofs` can be used inside. On top
stand who owns each buffer (`OwnInv`), what the socket may link (`LinkInv`), what the buffered bit
covers (`BitInv`), what the end of the response leaves (`EndInv`, `MarkInv`), and who wakes the
filter (`WakeInv`).

`BodyFilterStream_proofs` proves for the same constants where every byte is: `StatsAreExact`,
`TrailerHasTotals`, `LentBuffersAreUnlinked`, `TrailerIsFirst`, `WriterIsNeverRefused` and the
refinement `StreamIsOrdered`. It adds to `IndInv`, in this order:

- `InputInv`: the pending upstream buffers are contiguous and end where the response has got to;
  `CodecInv`, `SpareInv`: only the codec's output is in buffers, and none in one that can be lent.
- `CountInv` and `TrailInv`: input counted plus input pending is what was accepted, output counted is
  what is in buffers (`BufferedBytes`, a set of places, so that moving bytes between chains cannot
  change it) plus what was `written`; the trailer's totals are final once sent.
- `FlushInv` and `FrameInv`: behind a framing filter, what each link further down is good for. The
  theorems that rest on them are guarded by `~FlushIsFramed`: with framing behind an upstream that
  flushes the three properties really fail (finding 2), and everything else is covered.
- `StreamInv`: what upstream has asked for so far is what went down (`delivered`), what is in output
  buffers in the order of the chains (`Sent`), what the codec holds (`backlog`) and what is still to
  be shown to it (`Rest`), one behind the other. `Sent` and `Rest` unfold chains of any length, so
  they are folds; `FlatMap` in `ChainLemmas` gets its equations from an explicit induction on the
  length, which needs no theorem with an operator parameter.

`OrderInv` is the conjunction. Each lemma of a step says which bytes it moves from one part of the
sum to the next; `StepsAreOrdered` then maps a step to `Accept`, to a series of deliveries or to a
stutter of `OrderedStream`. `delivered` and `written` are histories that no guard of the model reads.

`Representation_proofs` proves, for every configuration, request header and upstream answer:
`TypeCorrect`, `HeadsMatchBodies`, `CachesAreSafe`, `ChoiceIsBest`, `RefusalsAreJustified`.
`RepresentationInv` follows a response through the handlers: a candidate is probed once and only a
found one is served (`Probed`); the five parts of `HeadInv` say what the head announces before a
handler answers (`Fresh`), before the header filter has run (`Unfiltered`), when it runs
(`Announced`), on an error page (`Bare`) and from then on (`Matched`); an including page, and a part
without a sidecar, carry no coding of their own (`Embedded`); and `Varies` is `CacheSafe` short of
the error pages. The proof goes by the frame of the other request (`MainFrame`, `SubFrame`) and then
action by action.

`PageInv` adds what `HeadMatchesBody` and `CacheSafe` say of a failure and of a fragment. A 500
(`FailedPage`) is neither encoded nor includes anything, and announces what its body has unless a
handler failed behind `add_content_encoding`: then the lone coding is that of a sidecar that was
found and accepted, and `Vary` had been added before (`Marked`). A part answered with a sidecar
(`Spliced`) has that sidecar's bytes and is past the handlers. Both were checked with TLC first.

What the two theorems do not say: `HeadMatchesBody` lets the page of finding 4 announce a coding its
bytes lack, and gives a part answered with a sidecar both codings, which is finding 3. `CacheSafe`
says nothing where identity won at request time (no `Vary` is added), of the header filter's 406
(which may get none), of a 500 that announces nothing or what its body has, or of what a subrequest
negotiated (its headers are not sent).

What was chosen rests on what the folds of `Negotiation` compute, and the first part of the module
proves that for lists of any length: `QualityIsWeight` says that a field is read as the sets of
`ClientWeight` read it, whatever its items and their order; `ResolvePriorityFacts`, that each coding
is listed once; `NegotiateFacts`, that `NegotiateAvailable` returns the first of the best.
`SortedFacts` says that inserting by quality is a stable sort, and `StaticCandidatesFacts` that the
candidates are each kind of sidecar once, the preferred first. The community modules define a fold
as a `CHOOSE` over functions on index sets; `FoldLeftExists` in `ChainLemmas` shows once that such a
function exists, by an explicit induction on the cardinality. Each fold then gets its values along
the list (`...Along`) and an induction on the place in it.

`ChoiceInv` is the inductive invariant on top: the candidates left are in order and, with those
found and missing, all there are (`InOrder`); a handler stops at a sidecar the client accepts
(`Stops`); nothing is refused before that (`Unrefused`); `BestCoding`, `BestSidecar` and `Refusable`
are the two properties in terms of `Quality`. `Stops` is the part a refusal needs: when the header
filter refuses, no acceptable sidecar was found earlier. It was checked with TLC on the instance of
`Representation` before it was proved.

Assumed are shapes only: `NegotiationAssumption` (a field is a list of items, a location's order is
one that `ResolvePriority` builds, its encoders are for content codings) and `ResponseAssumption`
(what upstream answers).

Only model-checked: liveness (`CallReturns`, `BoundariesDelivered`, `FlushEnds`, `Settles`), which
the prover has no rules for.

## Findings

1. *Stall over TLS.* `module/filter/runtime.rs:286` posts a continuation only after `NGX_OK`. When
   the TLS layer absorbed the batch the result is `NGX_AGAIN` on a ready socket: nothing will wake
   the request (`docs/design.md:43-46` promises it resumes).
   The same happens with `postpone_output`: `ffi/c/event.c:22` does not post while another
   buffered bit is set, and the write filter leaves a stale one when it postpones a small batch
   after a write event (a kind with `postpone` in place of `tls` shows it).
2. *Empty flush buffer reused while linked.* `ngx_chain_update_chains` reclaims a zero-byte buffer
   although the write filter may still link it behind another filter's unsent bytes;
   `module/filter/buffer.rs:27-28` requires the lent buffer to be accessed by nobody else.
3. *Sidecar of a subrequest compressed again.* The static handler does not check that it serves the
   main request (`module/static_file/mod.rs:94`; the header filter does, `runtime.rs:313`). An SSI
   include whose file has a sidecar is spliced into the page as compressed bytes and encoded with
   it; without runtime compression it arrives as compressed bytes in a plain page.
   `docs/design.md:119`: "The module never double-compresses."
4. *Error page with a coding.* `send_file` adds `Content-Encoding` before the ETag and the buffers
   are allocated (`module/static_file/sidecar.rs:181-192`); a failure there sends NGINX's plain
   error page under that header, which `runtime.rs:127-128` calls harmful.
5. *Conflicts that start does not report.* `docs/directives.md:156-157` has one warning per
   conflicting configuration during `nginx -t` and at startup (`docs/installation.md:193-194` as
   well). `registration/gzip.rs:124` descends through `clcf->locations`, which NGINX has emptied
   into its location trees by then, and never sees an `if` block. Compression stays off there
   (`FailsClosed`) and the first request of each worker logs it (`ConflictAnnounced`). The build
   test (`docker/build-and-test.sh:665`) looks for one warning, which the server's gives.

Seen while modelling, without a run: `compress_buffers` takes any positive size
(`module/registration/conf.rs:173`), but `derive_state` recognises the end of a flush only by room
left over and zlib answers another flush with another marker, so that with buffers of one or five
bytes deflate and gzip flush for ever (`FlushEnds` without its last condition shows it); the driver
takes `NeedsInput` for the completion of a flush or
finish (`core/stream/mod.rs:226`; `docs/architecture.md:52` wants completion reported explicitly),
and `BoundaryAnswers` shows that no adapter in the tree answers so; `docs/directives.md` gives
`compress_brotli_window` sizes up to 16m, the code bits from 10 to 24; when the name or the value of
the trailer cannot be allocated, an unwritten entry stays in the list
(`module/filter/variables.rs:93-101`, the entry `Unwritten` of `trailers`); cleanup pools an encoder
as it is, resetting it when it is
next acquired, while `docs/design.md:122-123` has the reset at cleanup (`OwnDataOnly` holds all the
same); `docs/directives.md:72` says `text/html` is always in `compress_types`, but an explicit list
replaces the built-in one (`core/mime.rs:25-33`); a 406 of the header filter is sent without `Vary`
when the header cannot be allocated (`runtime.rs:187`), unlike the static handler's; a response
left as it is because identity won the negotiation gets no `Vary`; the static handler declines in
favour of runtime compression before it is known whether the response is eligible for it.

## Not modelled, and the plan

In this order:

1. `CodecAdapters` as the refinement of the abstract adapter of `BodyFilter`.
2. `Representation` composed with `CodecPool`: an encoder taken and not installed.

Left out for good: the encoders themselves, memory safety of the FFI layer, logging, timing,
the formatting of variables, the dictionary codings (no configuration offers them), build scripts,
benchmarks, fuzzers and the Perl test-suite.
