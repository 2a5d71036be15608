---------------------------- MODULE CodecAdapters ----------------------------
(***************************************************************************)
(* The in-tree StreamingCodec adapters (crates/ngx-compress-codecs and     *)
(* crates/ngx-compress-brotli-sys): gzip, which frames a raw deflate       *)
(* stream by hand, deflate, zstd, both brotli adapters and identity, each  *)
(* over an encoder library of which only its calling contract is known.    *)
(* A step is one call of StreamingCodec::step; the caller presents work    *)
(* the way drive_input does (StreamDriver).                                *)
(***************************************************************************)
EXTENDS StreamContract

CONSTANTS
    HeaderBytes,   \* GZIP_HEADER.len()
    TrailerBytes,  \* the length of the CRC32/ISIZE trailer
    Capacities,    \* sizes an output buffer may have
    MaxBytes       \* bound on the bytes of one response

ASSUME AdapterAssumption ==
    /\ HeaderBytes \in Nat \ {0}
    /\ TrailerBytes \in Nat \ {0}
    /\ Capacities \subseteq Nat \ {0}
    /\ MaxBytes \in Nat

Kind == {"gzip", "deflate", "zstd", "br", "identity"}

VARIABLES
    kind,      \* which adapter this is
    gzip,      \* Gzip's own fields; crc and trailer are byte counts (ISIZE)
    backend,   \* the library: accepted bytes it still holds, where its stream is
    marker,    \* deflate: bytes of a flush marker still to be written, or 0
    size,      \* the size of the response's output buffers
    stream,    \* "open", "complete", "failed" (a step returned Err) or "dropped"
    pending,   \* the boundary and remaining input the driver presents again
    call,      \* the last call and its answer
    accepted,  \* history: bytes consumed since the stream began
    wire,      \* history: what the stream has on the wire
    misused    \* history: the library was called outside its contract

vars == <<kind, gzip, backend, marker, size, stream, pending, call, accepted, wire, misused>>

NoWork == [op |-> "None", avail |-> 0]
NoCall == [op |-> "None", avail |-> 0, capacity |-> 0,
           result |-> [consumed |-> 0, produced |-> 0, state |-> "NeedsInput"]]

FreshGzip ==
    [header_pos |-> 0, body_done |-> FALSE, crc |-> 0, trailer |-> 0, trailer_pos |-> 0]
FreshBackend == [held |-> 0, phase |-> "open"]
EmptyWire == [header |-> 0, body |-> FALSE, trailer |-> 0]

Init ==
    /\ kind \in Kind
    /\ gzip = FreshGzip
    /\ backend = FreshBackend
    /\ marker = 0
    /\ size \in Capacities
    /\ stream = "open"
    /\ pending = NoWork
    /\ call = NoCall
    /\ accepted = 0
    /\ wire = EmptyWire
    /\ misused = FALSE

(***************************************************************************)
(* The encoder library.  It stops early only because the output is full,   *)
(* and it reports a flush or finish as drained only when nothing is held.  *)
(***************************************************************************)
LibraryResult(op, n, capacity, held) ==
    {r \in [consumed : 0..n, produced : 0..capacity, released : 0..(held + n),
            drained : BOOLEAN] :
        /\ r.released <= held + r.consumed
        /\ r.released > 0 => r.produced > 0
        /\ r.consumed < n => r.produced = capacity
        /\ r.drained => op # "Continue" /\ r.consumed = n /\ r.released = held + n
        /\ op # "Continue" /\ ~r.drained => r.produced = capacity}

\* A flush or finish that was begun has to be repeated, without new input, until
\* it is drained; an ended stream takes no more calls.
InBoundary == [flushing |-> "Flush", ending |-> "Finish"]
Misuses(op, n) ==
    \/ backend.phase = "ended"
    \/ backend.phase \in {"flushing", "ending"} /\ (op # InBoundary[backend.phase] \/ n > 0)

PhaseAfter(op, taken, drained) ==
    IF op = "Continue" \/ ~taken THEN "open"
    ELSE IF op = "Flush" THEN IF drained THEN "open" ELSE "flushing"
    ELSE IF drained THEN "ended" ELSE "ending"

LibraryAfter(op, n, r) ==
    [held |-> backend.held + r.consumed - r.released,
     phase |-> PhaseAfter(op, r.consumed = n, r.drained)]

(***************************************************************************)
(* What an answer does to the caller.                                      *)
(***************************************************************************)
Answer(op, avail, capacity, consumed, produced, state) ==
    /\ call' = [op |-> op, avail |-> avail, capacity |-> capacity,
                result |-> [consumed |-> consumed, produced |-> produced, state |-> state]]
    /\ pending' = IF op # "Continue" /\ state = "NeedsOutput"
                  THEN [op |-> op, avail |-> avail - consumed] ELSE NoWork
    /\ stream' = IF op = "Finish" /\ state = "Complete" THEN "complete" ELSE "open"
    /\ accepted' = accepted + consumed

\* The driver repeats a boundary that is not complete with exactly what is left of
\* its input (BoundaryNeverWithdrawn of StreamDriver); after an ordinary
\* continuation anything may follow.
Presents(op, avail) ==
    /\ stream = "open"
    /\ IF pending = NoWork THEN accepted + avail <= MaxBytes
                           ELSE pending = [op |-> op, avail |-> avail]

(***************************************************************************)
(* Flate.                                                                  *)
(***************************************************************************)
\* Mutant: a full output buffer no longer holds back completion.
DeriveStateEager(op, input_drained, output_full, ended) ==
    IF ended THEN "Complete"
    ELSE IF op = "Continue" THEN IF input_drained THEN "NeedsInput" ELSE "NeedsOutput"
    ELSE "Complete"

\* Mutant: only the end of the stream completes a boundary.
DeriveStateAtEnd(op, input_drained, output_full, ended) ==
    IF ended THEN "Complete"
    ELSE IF op = "Continue" /\ input_drained THEN "NeedsInput" ELSE "NeedsOutput"

DeriveState(op, input_drained, output_full, ended) ==
    IF ended THEN "Complete"
    ELSE IF op = "Continue" THEN IF input_drained THEN "NeedsInput" ELSE "NeedsOutput"
    ELSE IF output_full THEN "NeedsOutput" ELSE "Complete"

Ended(op, r) == op = "Finish" /\ r.drained

\* deflate ends a sync flush with an empty stored block.
MarkerBytes == 5
MarkerLeft == IF marker = 0 THEN MarkerBytes ELSE marker

\* How many of the bytes produced belong to the marker.  It follows when everything
\* accepted is out, and a flush that is called again once it is out begins another.
\* In front of the first one there may be the header of a zlib stream.
MarkerParts(op, avail, r) ==
    LET emptied == r.consumed = avail /\ r.released = backend.held + avail IN
    {w \in 0..MarkerLeft :
        /\ w <= r.produced
        /\ w > 0 => op = "Flush" /\ emptied /\ (r.released > 0 => w < r.produced)
        /\ op = "Flush" =>
             /\ r.drained <=> emptied /\ w = MarkerLeft
             /\ r.produced > 0 => r.released > 0 \/ w > 0
             /\ backend.held + avail = 0 /\ wire.body => w = r.produced}

FlateRun(op, avail, room, r) ==
    /\ \E w \in MarkerParts(op, avail, r) :
          marker' = IF w = 0 THEN marker ELSE MarkerLeft - w
    /\ backend' = LibraryAfter(op, avail, r)
    /\ misused' = (misused \/ Misuses(op, avail))

DeflateStep(op, avail, capacity) ==
    /\ kind = "deflate"
    /\ \E r \in LibraryResult(op, avail, capacity, backend.held) :
          /\ FlateRun(op, avail, capacity, r)
          /\ Answer(op, avail, capacity, r.consumed, r.produced,
                    DeriveState(op, r.consumed = avail, r.produced = capacity, Ended(op, r)))
          /\ wire' = [wire EXCEPT !.body = @ \/ r.produced > 0]
    /\ UNCHANGED <<kind, gzip>>

(***************************************************************************)
(* Gzip.                                                                   *)
(***************************************************************************)
\* copy_into: how much of `n` bytes fits into `room`.
Fit(n, room) == IF n <= room THEN n ELSE room

HeaderFit(capacity) == Fit(HeaderBytes - gzip.header_pos, capacity)
\* Mutant: the trailer is copied from its beginning every time.
TrailerFitWhole(room) == Fit(TrailerBytes, room)

TrailerFit(room) == Fit(TrailerBytes - gzip.trailer_pos, room)
HeaderDone(capacity) == gzip.header_pos + HeaderFit(capacity) = HeaderBytes
TrailerState(trailer_pos) == IF trailer_pos = TrailerBytes THEN "Complete" ELSE "NeedsOutput"

GzipHeader(op, avail, capacity) ==
    /\ kind = "gzip"
    /\ ~HeaderDone(capacity)
    /\ gzip' = [gzip EXCEPT !.header_pos = @ + HeaderFit(capacity)]
    /\ wire' = [wire EXCEPT !.header = @ + HeaderFit(capacity)]
    /\ Answer(op, avail, capacity, 0, HeaderFit(capacity), "NeedsOutput")
    /\ UNCHANGED <<kind, backend, marker, misused>>

GzipTrailer(op, avail, capacity) ==
    LET room == capacity - HeaderFit(capacity)
        written == TrailerFit(room)
    IN  /\ kind = "gzip"
        /\ HeaderDone(capacity)
        /\ gzip.body_done
        /\ gzip' = [gzip EXCEPT !.header_pos = HeaderBytes, !.trailer_pos = @ + written]
        /\ wire' = [wire EXCEPT !.header = @ + HeaderFit(capacity), !.trailer = @ + written]
        /\ Answer(op, avail, capacity, 0, HeaderFit(capacity) + written,
                  TrailerState(gzip.trailer_pos + written))
        /\ UNCHANGED <<kind, backend, marker, misused>>

GzipBody(op, avail, capacity) ==
    LET room == capacity - HeaderFit(capacity)
    IN  /\ kind = "gzip"
        /\ HeaderDone(capacity)
        /\ ~gzip.body_done
        /\ \E r \in LibraryResult(op, avail, room, backend.held) :
              /\ ~Ended(op, r)
              /\ FlateRun(op, avail, room, r)
              /\ gzip' = [gzip EXCEPT !.header_pos = HeaderBytes, !.crc = @ + r.consumed]
              /\ wire' = [header |-> wire.header + HeaderFit(capacity),
                          body |-> wire.body \/ r.produced > 0,
                          trailer |-> wire.trailer]
              /\ Answer(op, avail, capacity, r.consumed, HeaderFit(capacity) + r.produced,
                        DeriveState(op, r.consumed = avail,
                                    HeaderFit(capacity) + r.produced = capacity, FALSE))
        /\ UNCHANGED kind

\* The call in which the deflate stream ends: the trailer is computed from what has
\* been consumed including this call, and as much of it as fits follows at once.
GzipEnd(op, avail, capacity) ==
    LET room == capacity - HeaderFit(capacity)
    IN  /\ kind = "gzip"
        /\ HeaderDone(capacity)
        /\ ~gzip.body_done
        /\ \E r \in LibraryResult(op, avail, room, backend.held) :
              LET written == TrailerFit(room - r.produced) IN
              /\ Ended(op, r)
              /\ FlateRun(op, avail, room, r)
              /\ gzip' = [header_pos |-> HeaderBytes, body_done |-> TRUE,
                          crc |-> gzip.crc + r.consumed, trailer |-> gzip.crc + r.consumed,
                          trailer_pos |-> gzip.trailer_pos + written]
              /\ wire' = [header |-> wire.header + HeaderFit(capacity),
                          body |-> wire.body \/ r.produced > 0,
                          trailer |-> wire.trailer + written]
              /\ Answer(op, avail, capacity, r.consumed,
                        HeaderFit(capacity) + r.produced + written,
                        TrailerState(gzip.trailer_pos + written))
        /\ UNCHANGED kind

(***************************************************************************)
(* Zstd: the input goes through `run`, the boundary through `flush` or     *)
(* `finish` into what room `run` left.                                     *)
(***************************************************************************)
\* Mutant: `run` is called with empty input too.
FeedsRunAlways(avail) == TRUE

FeedsRun(avail) == avail > 0

ZstdFeed(op, avail, capacity) ==
    /\ kind = "zstd"
    /\ FeedsRun(avail)
    /\ \E r \in LibraryResult("Continue", avail, capacity, backend.held) :
          /\ op = "Continue" \/ r.consumed < avail
          /\ backend' = LibraryAfter("Continue", avail, r)
          /\ wire' = [wire EXCEPT !.body = @ \/ r.produced > 0]
          /\ Answer(op, avail, capacity, r.consumed, r.produced,
                    IF r.consumed < avail THEN "NeedsOutput" ELSE "NeedsInput")
    /\ misused' = (misused \/ Misuses("Continue", avail))
    /\ UNCHANGED <<kind, gzip, marker>>

ZstdIdle(op, avail, capacity) ==
    /\ kind = "zstd"
    /\ ~FeedsRun(avail)
    /\ op = "Continue"
    /\ Answer(op, avail, capacity, 0, 0, "NeedsInput")
    /\ UNCHANGED <<kind, gzip, backend, marker, wire, misused>>

DrainState(drained) == IF drained THEN "Complete" ELSE "NeedsOutput"

\* `run` on the input, if there is any and all of it is accepted, then the boundary.
ZstdFed(avail, capacity) ==
    IF FeedsRun(avail)
    THEN {r \in LibraryResult("Continue", avail, capacity, backend.held) : r.consumed = avail}
    ELSE {[consumed |-> 0, produced |-> 0, released |-> 0, drained |-> FALSE]}

ZstdBoundary(op, avail, capacity) ==
    /\ kind = "zstd"
    /\ op # "Continue"
    /\ \E r \in ZstdFed(avail, capacity) :
          LET fed == backend.held + avail - r.released IN
          \E d \in LibraryResult(op, 0, capacity - r.produced, fed) :
             /\ backend' = [held |-> fed - d.released, phase |-> PhaseAfter(op, TRUE, d.drained)]
             /\ wire' = [wire EXCEPT !.body = @ \/ r.produced + d.produced > 0]
             /\ Answer(op, avail, capacity, avail, r.produced + d.produced,
                       DrainState(d.drained))
    /\ misused' = (misused \/ (FeedsRun(avail) /\ Misuses("Continue", avail)) \/ Misuses(op, 0))
    /\ UNCHANGED <<kind, gzip, marker>>

(***************************************************************************)
(* Brotli, vendored and system.                                            *)
(***************************************************************************)
\* Mutant: input the library has not taken does not ask for output.
BrotliStateIgnoringInput(op, avail, r) ==
    IF Ended(op, r) THEN "Complete"
    ELSE IF op = "Continue" THEN "NeedsInput"
    ELSE IF ~r.drained THEN "NeedsOutput" ELSE "Complete"

BrotliState(op, avail, r) ==
    IF Ended(op, r) THEN "Complete"
    ELSE IF r.consumed < avail THEN "NeedsOutput"
    ELSE IF op = "Continue" THEN "NeedsInput"
    ELSE IF ~r.drained THEN "NeedsOutput" ELSE "Complete"

BrotliStep(op, avail, capacity) ==
    /\ kind = "br"
    /\ backend.phase # "null"
    /\ \E r \in LibraryResult(op, avail, capacity, backend.held) :
          /\ backend' = LibraryAfter(op, avail, r)
          /\ wire' = [wire EXCEPT !.body = @ \/ r.produced > 0]
          /\ Answer(op, avail, capacity, r.consumed, r.produced, BrotliState(op, avail, r))
    /\ misused' = (misused \/ Misuses(op, avail))
    /\ UNCHANGED <<kind, gzip, marker>>

(***************************************************************************)
(* Identity.                                                               *)
(***************************************************************************)
IdentityStep(op, avail, capacity) ==
    LET moved == Fit(avail, capacity)
        state == IF moved < avail THEN "NeedsOutput"
                 ELSE IF op = "Continue" THEN "NeedsInput" ELSE "Complete"
    IN  /\ kind = "identity"
        /\ Answer(op, avail, capacity, moved, moved, state)
        /\ wire' = [wire EXCEPT !.body = @ \/ moved > 0]
        /\ UNCHANGED <<kind, gzip, backend, marker, misused>>

(***************************************************************************)
(* Failures and reuse.                                                     *)
(***************************************************************************)
\* The library reports an error, or libbrotli never gave an instance.
StepFails ==
    /\ stream = "open"
    /\ kind # "identity"
    /\ stream' = "failed"
    /\ pending' = NoWork
    /\ UNCHANGED <<kind, gzip, backend, marker, size, call, accepted, wire, misused>>

\* The next response may have buffers of another size.
NewStream ==
    /\ marker' = 0
    /\ size' \in Capacities
    /\ stream' = "open"
    /\ pending' = NoWork
    /\ call' = NoCall
    /\ accepted' = 0
    /\ wire' = EmptyWire

\* Mutant: a response cut off inside its trailer leaves its position behind.
ResetKeepingTrailer ==
    /\ stream # "dropped"
    /\ backend' = FreshBackend
    /\ gzip' = [FreshGzip EXCEPT !.trailer_pos = gzip.trailer_pos]
    /\ NewStream
    /\ UNCHANGED <<kind, misused>>

\* The pool resets an encoder whose response may have stopped anywhere.
Reset ==
    /\ stream # "dropped"
    /\ backend' = FreshBackend
    /\ gzip' = FreshGzip
    /\ NewStream
    /\ UNCHANGED <<kind, misused>>

\* zstd cannot rebuild its context; libbrotli gives no new instance.
ResetFails ==
    /\ stream # "dropped"
    /\ kind \in {"zstd", "br"}
    /\ backend' = [held |-> 0, phase |-> "null"]
    /\ stream' = "dropped"
    /\ pending' = NoWork
    /\ UNCHANGED <<kind, gzip, marker, size, call, accepted, wire, misused>>

Step(op, avail, capacity) ==
    /\ Presents(op, avail)
    /\ UNCHANGED size
    /\ \/ DeflateStep(op, avail, capacity)
       \/ GzipHeader(op, avail, capacity)
       \/ GzipTrailer(op, avail, capacity)
       \/ GzipBody(op, avail, capacity)
       \/ GzipEnd(op, avail, capacity)
       \/ ZstdFeed(op, avail, capacity)
       \/ ZstdIdle(op, avail, capacity)
       \/ ZstdBoundary(op, avail, capacity)
       \/ BrotliStep(op, avail, capacity)
       \/ IdentityStep(op, avail, capacity)

\* Every step is given an empty buffer.
AnyStep == \E op \in Operation, avail \in 0..MaxBytes : Step(op, avail, size)

Next ==
    \/ AnyStep
    \/ StepFails
    \/ Reset
    \/ ResetFails

Spec == Init /\ [][Next]_vars

\* The filter drives an operation that is pending as soon as a buffer is free.
FairSpec == Spec /\ WF_vars(AnyStep)

(***************************************************************************)
(* Properties.                                                             *)
(***************************************************************************)
GzipFields ==
    [header_pos : 0..HeaderBytes, body_done : BOOLEAN, crc : 0..MaxBytes,
     trailer : 0..MaxBytes, trailer_pos : 0..TrailerBytes]
Library ==
    [held : 0..MaxBytes, phase : {"open", "flushing", "ending", "ended", "null"}]
Work == [op : Operation, avail : 0..MaxBytes] \cup {NoWork}
Call ==
    [op : Operation, avail : 0..MaxBytes, capacity : Capacities,
     result : [consumed : 0..MaxBytes, produced : Nat, state : StepState]] \cup {NoCall}
Wire == [header : 0..HeaderBytes, body : BOOLEAN, trailer : 0..TrailerBytes]

TypeOK ==
    /\ kind \in Kind
    /\ gzip \in GzipFields
    /\ backend \in Library
    /\ marker \in 0..MarkerBytes
    /\ size \in Capacities
    /\ stream \in {"open", "complete", "failed", "dropped"}
    /\ pending \in Work
    /\ call \in Call
    /\ accepted \in 0..MaxBytes
    /\ wire \in Wire
    /\ misused \in BOOLEAN

\* Every answer of an in-tree adapter is one validate_progress accepts: the driver
\* never fails a response over an adapter's own bookkeeping, whatever the size of
\* the output buffer and whichever of the gzip sections it falls into.
AnswersTrusted ==
    call # NoCall => ValidProgress(call.op, call.avail, call.capacity, call.result)

\* No in-tree adapter forgets a boundary: it answers a flush or finish with
\* NeedsOutput or Complete, and with Complete only when nothing it was given is
\* still inside the library.
BoundaryAnswers ==
    call.op \in {"Flush", "Finish"} =>
        /\ call.result.state # "NeedsInput"
        /\ call.result.state = "Complete" => backend.held = 0

\* A gzip stream is a whole header, the deflate body and a whole trailer that counts
\* every byte of the response, however the sections were cut by output buffers and
\* wherever the encoder's previous response was broken off.
FramesWellFormed ==
    kind = "gzip" =>
        /\ wire.body \/ wire.trailer > 0 \/ accepted > 0 => wire.header = HeaderBytes
        /\ wire.trailer > 0 => backend.phase = "ended" /\ gzip.trailer = accepted
        /\ stream = "complete" => wire.trailer = TrailerBytes /\ gzip.trailer = accepted

\* A library is never called after its stream has ended, and a flush or finish it
\* has begun is repeated as the same call without new input (zstd would start
\* another frame, libbrotli refuses).
LibraryContract == ~misused

\* A flush given to deflate or gzip ends.  derive_state knows that it has only from a
\* byte of room that is left over, and deflate writes another marker when it is asked
\* again: buffers a marker fills exactly, which set_buffers accepts, are flushed into
\* for ever, and only those.
FlushEnds ==
    /\ kind \in {"gzip", "deflate"} /\ pending.op = "Flush" /\ MarkerBytes % size # 0
    ~> pending.op # "Flush"
=============================================================================
