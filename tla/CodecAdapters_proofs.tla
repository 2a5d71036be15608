------------------------ MODULE CodecAdapters_proofs ------------------------
(***************************************************************************)
(* Proofs about the codec adapters for gzip headers and trailers of any    *)
(* length, output buffers of any sizes and responses of any length, over   *)
(* every library that keeps its contract.                                  *)
(*                                                                         *)
(* No property is inductive alone.  That a gzip frame is whole depends on  *)
(* what the adapter's fields mean for the wire (GzipInv); that a boundary  *)
(* is not disturbed depends on where the library's stream is and on what   *)
(* the driver will present again (StreamInv); and both need the counts to  *)
(* agree (CountInv).                                                       *)
(***************************************************************************)
EXTENDS CodecAdapters, TLAPS

\* What the library holds was accepted, and a response stays within its bound.
CountInv ==
    /\ backend.held <= accepted
    /\ pending # NoWork => pending.op \in {"Flush", "Finish"}
    /\ pending # NoWork => accepted + pending.avail <= MaxBytes
    /\ backend.phase = "ended" => backend.held = 0
    /\ kind = "identity" => backend = FreshBackend

\* Gzip's fields and the wire: the body starts behind the header, the trailer
\* behind the end of the body, and the trailer counts what was accepted.
GzipInv ==
    /\ kind # "gzip" => gzip = FreshGzip /\ wire.header = 0 /\ wire.trailer = 0
    /\ kind = "gzip" =>
          /\ wire.header = gzip.header_pos
          /\ wire.trailer = gzip.trailer_pos
          /\ gzip.crc = accepted
          /\ gzip.body_done <=> backend.phase = "ended"
          /\ gzip.body_done => gzip.trailer = accepted /\ gzip.header_pos = HeaderBytes
          /\ ~gzip.body_done => gzip.trailer_pos = 0
          /\ gzip.header_pos # HeaderBytes => ~wire.body /\ accepted = 0 /\ backend = FreshBackend
          /\ stream = "complete" => gzip.trailer_pos = TrailerBytes

\* A boundary begun inside the library is what the driver presents next.
StreamInv ==
    stream = "open" =>
        /\ backend.phase = "flushing" => pending = [op |-> "Flush", avail |-> 0]
        /\ backend.phase = "ending" => pending = [op |-> "Finish", avail |-> 0]
        /\ backend.phase = "ended" =>
              kind = "gzip" /\ pending = [op |-> "Finish", avail |-> 0]

AdapterInv ==
    /\ TypeOK
    /\ CountInv
    /\ GzipInv
    /\ StreamInv
    /\ AnswersTrusted
    /\ BoundaryAnswers
    /\ LibraryContract

-----------------------------------------------------------------------------
(* The library.                                                            *)

\* What one library call does to the counts.
LEMMA LibraryFacts ==
    ASSUME NEW op \in Operation, NEW n \in Nat, NEW capacity \in Nat, NEW held \in Nat,
           NEW r \in LibraryResult(op, n, capacity, held)
    PROVE  /\ r.consumed \in 0..n
           /\ r.produced \in 0..capacity
           /\ r.released \in 0..(held + r.consumed)
           /\ r.drained \in BOOLEAN
           /\ r.consumed < n => r.produced = capacity
           /\ r.drained => op # "Continue" /\ r.consumed = n /\ r.released = held + n
           /\ op # "Continue" /\ ~r.drained => r.produced = capacity
BY DEF LibraryResult

Moved(op, n, r) ==
    /\ backend' \in Library
    /\ backend'.held <= accepted + r.consumed
    /\ backend'.held = backend.held + r.consumed - r.released
    /\ r.drained => backend'.held = 0
    /\ backend'.phase = "ended" <=> op = "Finish" /\ r.drained
    /\ backend'.phase = "flushing" <=> op = "Flush" /\ r.consumed = n /\ ~r.drained
    /\ backend'.phase = "ending" <=> op = "Finish" /\ r.consumed = n /\ ~r.drained

\* Where a library call leaves the library.
LEMMA LibraryAfterFacts ==
    ASSUME TypeOK, CountInv, NEW op \in Operation, NEW n \in Nat, NEW capacity \in Nat,
           accepted + n <= MaxBytes,
           NEW r \in LibraryResult(op, n, capacity, backend.held),
           backend' = LibraryAfter(op, n, r)
    PROVE  Moved(op, n, r)
<1>1. backend.held \in 0..accepted /\ accepted \in 0..MaxBytes
      BY AdapterAssumption DEF TypeOK, CountInv, Library
<1>2. /\ r.consumed \in 0..n
      /\ r.released \in 0..(backend.held + r.consumed)
      /\ r.drained \in BOOLEAN
      /\ r.drained => op # "Continue" /\ r.consumed = n /\ r.released = backend.held + n
      BY <1>1, LibraryFacts, AdapterAssumption
<1> QED
    BY <1>1, <1>2, AdapterAssumption DEF Moved, LibraryAfter, PhaseAfter, Library, Operation

-----------------------------------------------------------------------------
(* The caller's side of a step.                                            *)

\* Work is only presented to an open stream, and it is what is pending.
LEMMA PresentsFacts ==
    ASSUME TypeOK, CountInv, NEW op \in Operation, NEW avail \in 0..MaxBytes,
           Presents(op, avail)
    PROVE  /\ stream = "open"
           /\ accepted + avail <= MaxBytes
           /\ pending # NoWork => pending.op = op /\ pending.avail = avail /\ op # "Continue"
BY AdapterAssumption DEF TypeOK, CountInv, Presents, Work

Answered(op, avail, capacity, consumed, produced, state) ==
    /\ accepted' = accepted + consumed /\ accepted' \in 0..MaxBytes
    /\ pending' \in Work
    /\ pending' # NoWork => op \in {"Flush", "Finish"}
    /\ pending' # NoWork => pending' = [op |-> op, avail |-> avail - consumed]
    /\ op # "Continue" /\ state = "NeedsOutput"
          => pending' = [op |-> op, avail |-> avail - consumed]
    /\ pending' # NoWork => accepted' + pending'.avail <= MaxBytes
    /\ call' \in Call /\ call'.op = op /\ call'.avail = avail
    /\ call'.capacity = capacity /\ call'.result.consumed = consumed
    /\ call'.result.produced = produced /\ call'.result.state = state
    /\ stream' = IF op = "Finish" /\ state = "Complete" THEN "complete" ELSE "open"

\* What an answer means for the history, the next presentation and the record of it.
LEMMA AnswerFacts ==
    ASSUME TypeOK, CountInv, NEW op \in Operation, NEW avail \in 0..MaxBytes,
           NEW capacity \in Capacities, Presents(op, avail),
           NEW consumed \in 0..avail, NEW produced \in Nat, NEW state \in StepState,
           Answer(op, avail, capacity, consumed, produced, state)
    PROVE  Answered(op, avail, capacity, consumed, produced, state)
<1>1. accepted + avail <= MaxBytes /\ accepted \in 0..MaxBytes
      BY PresentsFacts DEF TypeOK
<1>2. accepted' = accepted + consumed /\ accepted' \in 0..MaxBytes
      BY <1>1, AdapterAssumption DEF Answer
<1>3. call' = [op |-> op, avail |-> avail, capacity |-> capacity,
               result |-> [consumed |-> consumed, produced |-> produced, state |-> state]]
      BY DEF Answer
<1>4. consumed \in 0..MaxBytes
      BY AdapterAssumption
<1>5. call' \in Call
      BY <1>3, <1>4 DEF Call
<1>6. pending' = IF op # "Continue" /\ state = "NeedsOutput"
                 THEN [op |-> op, avail |-> avail - consumed] ELSE NoWork
      BY DEF Answer
<1>7. avail - consumed \in 0..MaxBytes
      BY AdapterAssumption
<1>8. pending' \in Work
      BY <1>6, <1>7 DEF Work
<1>9. stream' = IF op = "Finish" /\ state = "Complete" THEN "complete" ELSE "open"
      BY DEF Answer
<1>10. pending' # NoWork => accepted' + pending'.avail <= MaxBytes
      BY <1>1, <1>2, <1>6, <1>7, AdapterAssumption
<1>11. pending' # NoWork => op \in {"Flush", "Finish"}
      BY <1>6 DEF Operation
<1> QED BY <1>2, <1>3, <1>5, <1>6, <1>8, <1>9, <1>10, <1>11 DEF Answered

\* The inductive invariant holds initially.
LEMMA InitAdapterInv == Init => AdapterInv
<1> SUFFICES ASSUME Init PROVE AdapterInv
    OBVIOUS
<1>1. TypeOK
  <2>1. gzip \in GzipFields
        BY AdapterAssumption DEF Init, FreshGzip, GzipFields
  <2>2. backend \in Library
        BY AdapterAssumption DEF Init, FreshBackend, Library
  <2>3. wire \in Wire
        BY AdapterAssumption DEF Init, EmptyWire, Wire
  <2>4. pending \in Work /\ call \in Call
        BY DEF Init, Work, Call
  <2>5. accepted \in 0..MaxBytes /\ marker \in 0..MarkerBytes
        BY AdapterAssumption DEF Init, MarkerBytes
  <2> QED
      BY <2>1, <2>2, <2>3, <2>4, <2>5 DEF Init, TypeOK
<1>2. CountInv /\ GzipInv /\ StreamInv
      BY AdapterAssumption
      DEF Init, CountInv, GzipInv, StreamInv, FreshGzip, FreshBackend, EmptyWire
<1>3. AnswersTrusted /\ BoundaryAnswers /\ LibraryContract
      BY DEF Init, AnswersTrusted, BoundaryAnswers, LibraryContract, NoCall
<1> QED BY <1>1, <1>2, <1>3 DEF AdapterInv

-----------------------------------------------------------------------------
(* What a step has to establish.                                           *)

\* An answer the driver trusts, with which no boundary is forgotten.
SoundAnswer(op, avail, capacity, consumed, produced, state) ==
    /\ consumed \in 0..avail /\ produced \in 0..capacity /\ state \in StepState
    /\ state = "NeedsInput" => consumed = avail /\ op = "Continue"
    /\ state = "NeedsOutput" => produced = capacity
    /\ op # "Continue" /\ state = "Complete" => consumed = avail
    /\ op = "Continue" => state # "Complete"

\* The library is where the answer says it is.
SoundBackend(op, avail, consumed, state) ==
    /\ backend' \in Library
    /\ backend'.held <= accepted + consumed
    /\ backend'.phase = "flushing" => op = "Flush" /\ consumed = avail /\ state = "NeedsOutput"
    /\ backend'.phase = "ending" => op = "Finish" /\ consumed = avail /\ state = "NeedsOutput"
    /\ backend'.phase = "ended" =>
          /\ backend'.held = 0 /\ op = "Finish" /\ consumed = avail
          /\ state = "Complete" \/ (kind = "gzip" /\ state = "NeedsOutput")
    /\ kind = "identity" => backend' = FreshBackend
    /\ op # "Continue" /\ state = "Complete" => backend'.held = 0

\* A step whose answer and whose library are sound keeps the whole invariant.
LEMMA StepKeepsInv ==
    ASSUME AdapterInv, NEW op \in Operation, NEW avail \in 0..MaxBytes,
           NEW capacity \in Capacities, Presents(op, avail),
           NEW consumed, NEW produced, NEW state,
           Answer(op, avail, capacity, consumed, produced, state),
           SoundAnswer(op, avail, capacity, consumed, produced, state),
           SoundBackend(op, avail, consumed, state),
           kind' = kind, gzip' \in GzipFields, wire' \in Wire, GzipInv', misused' = FALSE,
           marker' \in 0..MarkerBytes, size' = size
    PROVE  AdapterInv'
<1> USE AdapterAssumption
<1>1. consumed \in 0..avail /\ produced \in 0..capacity /\ produced \in Nat /\ state \in StepState
      BY DEF SoundAnswer
<1>2. Answered(op, avail, capacity, consumed, produced, state)
      BY <1>1, AnswerFacts DEF AdapterInv
<1>3. TypeOK'
  <2>1. /\ kind' \in Kind /\ backend' \in Library /\ accepted' \in 0..MaxBytes
        /\ pending' \in Work /\ call' \in Call /\ size' \in Capacities
        BY <1>2 DEF AdapterInv, TypeOK, SoundBackend, Answered
  <2>2. stream' \in {"open", "complete", "failed", "dropped"}
        BY <1>2 DEF Answered
  <2> QED
      BY <2>1, <2>2 DEF TypeOK
<1>4. CountInv'
      BY <1>2 DEF CountInv, SoundBackend, Answered
<1>5. StreamInv'
      BY <1>1, <1>2 DEF StreamInv, SoundBackend, Answered
<1>6. AnswersTrusted'
  <2>1. /\ avail \in Nat /\ capacity \in Nat \ {0}
        /\ state = "NeedsOutput" => produced > 0
        BY <1>1 DEF SoundAnswer
  <2> QED
      BY <1>1, <1>2, <2>1
      DEF AnswersTrusted, Answered, SoundAnswer, ValidProgress, WithinBuffers, NotPremature,
          NotStalled, StepState
<1>7. BoundaryAnswers'
      BY <1>2 DEF BoundaryAnswers, SoundAnswer, SoundBackend, Answered
<1> QED
    BY <1>3, <1>4, <1>5, <1>6, <1>7 DEF AdapterInv, LibraryContract

-----------------------------------------------------------------------------
(* One lemma per way through a step.                                       *)

\* A library call while nothing it has begun is in the way is no misuse.
LEMMA NoMisuse ==
    ASSUME AdapterInv, NEW op \in Operation, NEW avail \in 0..MaxBytes,
           Presents(op, avail), backend.phase # "ended"
    PROVE  /\ ~Misuses(op, avail)
           /\ avail > 0 => ~Misuses("Continue", avail)
           /\ ~Misuses(op, 0) \/ op = "Continue"
<1>1. /\ stream = "open"
      /\ pending # NoWork => pending.op = op /\ pending.avail = avail /\ op # "Continue"
      BY PresentsFacts DEF AdapterInv
<1> QED
    BY <1>1 DEF AdapterInv, StreamInv, Misuses, InBoundary, NoWork

\* The facts every action that calls the library starts from.
LEMMA CallFacts ==
    ASSUME AdapterInv, NEW op \in Operation, NEW avail \in 0..MaxBytes, NEW room \in Nat,
           accepted + avail <= MaxBytes,
           NEW r \in LibraryResult(op, avail, room, backend.held),
           backend' = LibraryAfter(op, avail, r)
    PROVE  /\ r.consumed \in 0..avail /\ r.produced \in 0..room /\ r.drained \in BOOLEAN
           /\ r.consumed < avail => r.produced = room
           /\ r.drained => op # "Continue" /\ r.consumed = avail
           /\ op # "Continue" /\ ~r.drained => r.produced = room
           /\ Moved(op, avail, r)
<1>1. backend.held \in Nat /\ avail \in Nat
      BY AdapterAssumption DEF AdapterInv, TypeOK, Library
<1>2. Moved(op, avail, r)
      BY <1>1, LibraryAfterFacts DEF AdapterInv
<1> QED BY <1>1, <1>2, LibraryFacts

\* What is left of a marker is at most a marker.
LEMMA MarkerTyped ==
    ASSUME TypeOK, NEW op, NEW avail, NEW room, NEW r, FlateRun(op, avail, room, r)
    PROVE  marker' \in 0..MarkerBytes
<1>1. marker \in 0..MarkerBytes /\ MarkerLeft \in 0..MarkerBytes
      BY DEF TypeOK, MarkerLeft, MarkerBytes
<1>2. PICK w \in MarkerParts(op, avail, r) : marker' = IF w = 0 THEN marker ELSE MarkerLeft - w
      BY DEF FlateRun
<1>3. w \in 0..MarkerLeft
      BY <1>2 DEF MarkerParts
<1> QED BY <1>1, <1>2, <1>3 DEF MarkerBytes

\* Deflate: derive_state over what one call of the library did.
LEMMA DeflateKeepsInv ==
    ASSUME AdapterInv, NEW op \in Operation, NEW avail \in 0..MaxBytes,
           NEW capacity \in Capacities, Presents(op, avail), size' = size,
           DeflateStep(op, avail, capacity)
    PROVE  AdapterInv'
<1> USE AdapterAssumption
<1>1. PICK r \in LibraryResult(op, avail, capacity, backend.held) :
          /\ FlateRun(op, avail, capacity, r)
          /\ Answer(op, avail, capacity, r.consumed, r.produced,
                    DeriveState(op, r.consumed = avail, r.produced = capacity, Ended(op, r)))
          /\ wire' = [wire EXCEPT !.body = @ \/ r.produced > 0]
      BY DEF DeflateStep
<1> DEFINE state == DeriveState(op, r.consumed = avail, r.produced = capacity, Ended(op, r))
<1>2. stream = "open" /\ accepted + avail <= MaxBytes
      BY PresentsFacts DEF AdapterInv
<1>3. /\ r.consumed \in 0..avail /\ r.produced \in 0..capacity /\ r.drained \in BOOLEAN
      /\ r.consumed < avail => r.produced = capacity
      /\ r.drained => op # "Continue" /\ r.consumed = avail
      /\ op # "Continue" /\ ~r.drained => r.produced = capacity
      /\ Moved(op, avail, r)
      BY <1>1, <1>2, CallFacts DEF FlateRun
<1>4. kind = "deflate" /\ kind' = kind /\ gzip' = gzip
      BY DEF DeflateStep
<1>5. SoundAnswer(op, avail, capacity, r.consumed, r.produced, state)
      BY <1>3 DEF SoundAnswer, DeriveState, Ended, StepState, Operation
<1>6. SoundBackend(op, avail, r.consumed, state)
      BY <1>3, <1>4 DEF SoundBackend, Moved, DeriveState, Ended
<1>7. wire' \in Wire /\ wire'.header = wire.header /\ wire'.trailer = wire.trailer
      BY <1>1, <1>3 DEF AdapterInv, TypeOK, Wire
<1>8. misused' = FALSE
  <2>1. ~Misuses(op, avail)
        BY <1>2, <1>4, NoMisuse DEF AdapterInv, StreamInv
  <2> QED BY <1>1, <2>1 DEF AdapterInv, LibraryContract, FlateRun
<1>9. gzip' \in GzipFields /\ GzipInv'
      BY <1>4, <1>7 DEF AdapterInv, TypeOK, GzipInv
<1>m. marker' \in 0..MarkerBytes
      BY <1>1, MarkerTyped DEF AdapterInv
<1> QED
    BY <1>1, <1>4, <1>5, <1>6, <1>7, <1>8, <1>9, <1>m, StepKeepsInv

\* Brotli: the library's own report of what is pending decides the answer.
LEMMA BrotliKeepsInv ==
    ASSUME AdapterInv, NEW op \in Operation, NEW avail \in 0..MaxBytes,
           NEW capacity \in Capacities, Presents(op, avail), size' = size,
           BrotliStep(op, avail, capacity)
    PROVE  AdapterInv'
<1> USE AdapterAssumption
<1>1. PICK r \in LibraryResult(op, avail, capacity, backend.held) :
          /\ backend' = LibraryAfter(op, avail, r)
          /\ wire' = [wire EXCEPT !.body = @ \/ r.produced > 0]
          /\ Answer(op, avail, capacity, r.consumed, r.produced, BrotliState(op, avail, r))
      BY DEF BrotliStep
<1>2. stream = "open" /\ accepted + avail <= MaxBytes
      BY PresentsFacts DEF AdapterInv
<1>3. /\ r.consumed \in 0..avail /\ r.produced \in 0..capacity /\ r.drained \in BOOLEAN
      /\ r.consumed < avail => r.produced = capacity
      /\ r.drained => op # "Continue" /\ r.consumed = avail
      /\ op # "Continue" /\ ~r.drained => r.produced = capacity
      /\ Moved(op, avail, r)
      BY <1>1, <1>2, CallFacts
<1>4. kind = "br" /\ kind' = kind /\ gzip' = gzip
      BY DEF BrotliStep
<1>5. SoundAnswer(op, avail, capacity, r.consumed, r.produced, BrotliState(op, avail, r))
      BY <1>3 DEF SoundAnswer, BrotliState, Ended, StepState, Operation
<1>6. SoundBackend(op, avail, r.consumed, BrotliState(op, avail, r))
      BY <1>3, <1>4 DEF SoundBackend, Moved, BrotliState, Ended
<1>7. wire' \in Wire /\ wire'.header = wire.header /\ wire'.trailer = wire.trailer
      BY <1>1, <1>3 DEF AdapterInv, TypeOK, Wire
<1>8. misused' = FALSE
  <2>1. ~Misuses(op, avail)
        BY <1>2, <1>4, NoMisuse DEF AdapterInv, StreamInv
  <2> QED BY <2>1 DEF AdapterInv, LibraryContract, BrotliStep
<1>9. gzip' \in GzipFields /\ GzipInv'
      BY <1>4, <1>7 DEF AdapterInv, TypeOK, GzipInv
<1>m. marker' \in 0..MarkerBytes
      BY DEF BrotliStep, AdapterInv, TypeOK
<1> QED
    BY <1>1, <1>4, <1>5, <1>6, <1>7, <1>8, <1>9, <1>m, StepKeepsInv

\* Identity: a copy, complete when the input fits.
LEMMA IdentityKeepsInv ==
    ASSUME AdapterInv, NEW op \in Operation, NEW avail \in 0..MaxBytes,
           NEW capacity \in Capacities, Presents(op, avail), size' = size,
           IdentityStep(op, avail, capacity)
    PROVE  AdapterInv'
<1> USE AdapterAssumption
<1> DEFINE moved == Fit(avail, capacity)
           state == IF moved < avail THEN "NeedsOutput"
                    ELSE IF op = "Continue" THEN "NeedsInput" ELSE "Complete"
<1>1. /\ kind = "identity" /\ kind' = kind /\ gzip' = gzip
      /\ backend' = backend /\ misused' = misused
      /\ Answer(op, avail, capacity, moved, moved, state)
      /\ wire' = [wire EXCEPT !.body = @ \/ moved > 0]
      BY DEF IdentityStep
<1>2. moved \in 0..avail /\ moved \in 0..capacity /\ (moved < avail => moved = capacity)
      BY DEF Fit
<1>3. SoundAnswer(op, avail, capacity, moved, moved, state)
      BY <1>2 DEF SoundAnswer, StepState, Operation
<1>4. SoundBackend(op, avail, moved, state)
  <2>1. backend = FreshBackend /\ backend \in Library /\ accepted \in Nat
        BY <1>1 DEF AdapterInv, CountInv, TypeOK
  <2>2. backend.held = 0 /\ backend.phase = "open"
        BY <2>1 DEF FreshBackend
  <2> QED BY <1>1, <1>2, <2>1, <2>2 DEF SoundBackend
<1>5. wire' \in Wire /\ wire'.header = wire.header /\ wire'.trailer = wire.trailer
      BY <1>1, <1>2 DEF AdapterInv, TypeOK, Wire
<1>6. gzip' \in GzipFields /\ GzipInv'
      BY <1>1, <1>5 DEF AdapterInv, TypeOK, GzipInv
<1>7. misused' = FALSE
      BY <1>1 DEF AdapterInv, LibraryContract
<1>m. marker' \in 0..MarkerBytes
      BY DEF IdentityStep, AdapterInv, TypeOK
<1> QED
    BY <1>1, <1>3, <1>4, <1>5, <1>6, <1>7, <1>m, StepKeepsInv

\* Zstd with nothing to do touches nothing.
LEMMA ZstdIdleKeepsInv ==
    ASSUME AdapterInv, NEW op \in Operation, NEW avail \in 0..MaxBytes,
           NEW capacity \in Capacities, Presents(op, avail), size' = size,
           ZstdIdle(op, avail, capacity)
    PROVE  AdapterInv'
<1> USE AdapterAssumption
<1>1. /\ kind = "zstd" /\ avail = 0 /\ op = "Continue"
      /\ Answer(op, avail, capacity, 0, 0, "NeedsInput")
      /\ kind' = kind /\ gzip' = gzip /\ backend' = backend /\ wire' = wire
      /\ misused' = misused
      BY DEF ZstdIdle, FeedsRun
<1>2. SoundAnswer(op, avail, capacity, 0, 0, "NeedsInput")
      BY <1>1 DEF SoundAnswer, StepState
<1>3. stream = "open" /\ pending = NoWork
      BY <1>1, PresentsFacts DEF AdapterInv
<1>4. backend.phase \notin {"flushing", "ending", "ended"}
      BY <1>1, <1>3 DEF AdapterInv, StreamInv, NoWork
<1>5. SoundBackend(op, avail, 0, "NeedsInput")
      BY <1>1, <1>4 DEF SoundBackend, AdapterInv, CountInv, TypeOK
<1>6. gzip' \in GzipFields /\ wire' \in Wire /\ GzipInv'
      BY <1>1 DEF AdapterInv, TypeOK, GzipInv
<1>7. misused' = FALSE
      BY <1>1 DEF AdapterInv, LibraryContract
<1>m. marker' \in 0..MarkerBytes
      BY DEF ZstdIdle, AdapterInv, TypeOK
<1> QED
    BY <1>1, <1>2, <1>5, <1>6, <1>7, <1>m, StepKeepsInv

\* Zstd's `run`, alone or because the input did not all fit.
LEMMA ZstdFeedKeepsInv ==
    ASSUME AdapterInv, NEW op \in Operation, NEW avail \in 0..MaxBytes,
           NEW capacity \in Capacities, Presents(op, avail), size' = size,
           ZstdFeed(op, avail, capacity)
    PROVE  AdapterInv'
<1> USE AdapterAssumption
<1>1. PICK r \in LibraryResult("Continue", avail, capacity, backend.held) :
          /\ op = "Continue" \/ r.consumed < avail
          /\ backend' = LibraryAfter("Continue", avail, r)
          /\ wire' = [wire EXCEPT !.body = @ \/ r.produced > 0]
          /\ Answer(op, avail, capacity, r.consumed, r.produced,
                    IF r.consumed < avail THEN "NeedsOutput" ELSE "NeedsInput")
      BY DEF ZstdFeed
<1> DEFINE state == IF r.consumed < avail THEN "NeedsOutput" ELSE "NeedsInput"
<1>2. stream = "open" /\ accepted + avail <= MaxBytes
      BY PresentsFacts DEF AdapterInv
<1>3. /\ r.consumed \in 0..avail /\ r.produced \in 0..capacity
      /\ r.consumed < avail => r.produced = capacity
      /\ Moved("Continue", avail, r)
      BY <1>1, <1>2, CallFacts DEF Operation
<1>4. /\ kind = "zstd" /\ kind' = kind /\ gzip' = gzip /\ avail > 0
      /\ misused' = (misused \/ Misuses("Continue", avail))
      BY DEF ZstdFeed, FeedsRun
<1>5. SoundAnswer(op, avail, capacity, r.consumed, r.produced, state)
      BY <1>1, <1>3 DEF SoundAnswer, StepState
<1>6. SoundBackend(op, avail, r.consumed, state)
      BY <1>1, <1>3, <1>4 DEF SoundBackend, Moved
<1>7. wire' \in Wire /\ wire'.header = wire.header /\ wire'.trailer = wire.trailer
      BY <1>1, <1>3 DEF AdapterInv, TypeOK, Wire
<1>8. misused' = FALSE
  <2>1. ~Misuses("Continue", avail)
        BY <1>2, <1>4, NoMisuse DEF AdapterInv, StreamInv
  <2> QED BY <1>4, <2>1 DEF AdapterInv, LibraryContract
<1>9. gzip' \in GzipFields /\ GzipInv'
      BY <1>4, <1>7 DEF AdapterInv, TypeOK, GzipInv
<1>m. marker' \in 0..MarkerBytes
      BY DEF ZstdFeed, AdapterInv, TypeOK
<1> QED
    BY <1>1, <1>4, <1>5, <1>6, <1>7, <1>8, <1>9, <1>m, StepKeepsInv

\* Zstd's boundary: `run` on what there is, then `flush` or `finish` without input.
LEMMA ZstdBoundaryKeepsInv ==
    ASSUME AdapterInv, NEW op \in Operation, NEW avail \in 0..MaxBytes,
           NEW capacity \in Capacities, Presents(op, avail), size' = size,
           ZstdBoundary(op, avail, capacity)
    PROVE  AdapterInv'
<1> USE AdapterAssumption
<1>0. PICK r \in ZstdFed(avail, capacity) :
         \E d \in LibraryResult(op, 0, capacity - r.produced, backend.held + avail - r.released) :
            /\ backend' = [held |-> (backend.held + avail - r.released) - d.released,
                           phase |-> PhaseAfter(op, TRUE, d.drained)]
            /\ wire' = [wire EXCEPT !.body = @ \/ r.produced + d.produced > 0]
            /\ Answer(op, avail, capacity, avail, r.produced + d.produced, DrainState(d.drained))
      BY DEF ZstdBoundary
<1> DEFINE fed == backend.held + avail - r.released
<1>1. PICK d \in LibraryResult(op, 0, capacity - r.produced, fed) :
          /\ backend' = [held |-> fed - d.released, phase |-> PhaseAfter(op, TRUE, d.drained)]
          /\ wire' = [wire EXCEPT !.body = @ \/ r.produced + d.produced > 0]
          /\ Answer(op, avail, capacity, avail, r.produced + d.produced, DrainState(d.drained))
      BY <1>0
<1>2. /\ stream = "open" /\ accepted + avail <= MaxBytes
      /\ backend.held \in 0..accepted /\ accepted \in 0..MaxBytes
      BY PresentsFacts DEF AdapterInv, TypeOK, CountInv, Library
<1>3. /\ kind = "zstd" /\ kind' = kind /\ gzip' = gzip /\ op # "Continue"
      /\ misused' = (misused \/ (FeedsRun(avail) /\ Misuses("Continue", avail)) \/ Misuses(op, 0))
      BY DEF ZstdBoundary
<1>4. r.produced \in 0..capacity /\ r.released \in 0..(backend.held + avail)
  <2>1. CASE FeedsRun(avail)
    <3>1. r \in LibraryResult("Continue", avail, capacity, backend.held) /\ r.consumed = avail
          BY <2>1 DEF ZstdFed
    <3> QED BY <1>2, <3>1, LibraryFacts DEF Operation
  <2>2. CASE ~FeedsRun(avail)
    <3>1. r.produced = 0 /\ r.released = 0
          BY <2>2 DEF ZstdFed
    <3> QED BY <1>2, <3>1
  <2> QED BY <2>1, <2>2
<1>5. fed \in 0..(accepted + avail) /\ fed \in 0..MaxBytes /\ capacity - r.produced \in Nat
      BY <1>2, <1>4
<1>6. /\ d.consumed = 0 /\ d.produced \in 0..(capacity - r.produced)
      /\ d.released \in 0..fed /\ d.drained \in BOOLEAN
      /\ d.drained => d.released = fed
      /\ ~d.drained => d.produced = capacity - r.produced
  <2>1. /\ d.consumed \in 0..0 /\ d.produced \in 0..(capacity - r.produced)
        /\ d.released \in 0..(fed + d.consumed) /\ d.drained \in BOOLEAN
        /\ d.drained => d.released = fed + 0
        /\ op # "Continue" /\ ~d.drained => d.produced = capacity - r.produced
        BY <1>5, LibraryFacts
  <2> QED BY <1>3, <1>5, <2>1
<1>7. SoundAnswer(op, avail, capacity, avail, r.produced + d.produced, DrainState(d.drained))
      BY <1>3, <1>4, <1>6 DEF SoundAnswer, DrainState, StepState
<1>8. SoundBackend(op, avail, avail, DrainState(d.drained))
  <2>1. backend'.held = fed - d.released /\ backend'.phase = PhaseAfter(op, TRUE, d.drained)
        BY <1>1
  <2>2. backend' \in Library /\ backend'.held <= accepted + avail
        BY <1>1, <1>2, <1>5, <1>6 DEF Library, PhaseAfter
  <2>3. d.drained => backend'.held = 0
        BY <1>5, <1>6, <2>1
  <2> QED BY <1>3, <1>6, <2>1, <2>2, <2>3 DEF SoundBackend, PhaseAfter, DrainState, Operation
<1>9. wire' \in Wire /\ wire'.header = wire.header /\ wire'.trailer = wire.trailer
      BY <1>1, <1>4, <1>6 DEF AdapterInv, TypeOK, Wire
<1>10. misused' = FALSE
  <2>1. backend.phase # "ended"
        BY <1>2, <1>3 DEF AdapterInv, StreamInv
  <2>2. ~Misuses(op, 0) /\ (avail > 0 => ~Misuses("Continue", avail))
        BY <1>3, <2>1, NoMisuse
  <2> QED BY <1>3, <2>2 DEF AdapterInv, LibraryContract, FeedsRun
<1>11. gzip' \in GzipFields /\ GzipInv'
      BY <1>3, <1>9 DEF AdapterInv, TypeOK, GzipInv
<1>m. marker' \in 0..MarkerBytes
      BY DEF ZstdBoundary, AdapterInv, TypeOK
<1> QED
    BY <1>1, <1>3, <1>7, <1>8, <1>9, <1>10, <1>11, <1>m, StepKeepsInv

\* Gzip while the header does not fit.
LEMMA GzipHeaderKeepsInv ==
    ASSUME AdapterInv, NEW op \in Operation, NEW avail \in 0..MaxBytes,
           NEW capacity \in Capacities, Presents(op, avail), size' = size,
           GzipHeader(op, avail, capacity)
    PROVE  AdapterInv'
<1> USE AdapterAssumption
<1> DEFINE copied == HeaderFit(capacity)
<1>1. /\ kind = "gzip" /\ kind' = kind /\ backend' = backend /\ misused' = misused
      /\ gzip.header_pos + copied # HeaderBytes
      /\ gzip' = [gzip EXCEPT !.header_pos = @ + copied]
      /\ wire' = [wire EXCEPT !.header = @ + copied]
      /\ Answer(op, avail, capacity, 0, copied, "NeedsOutput")
      BY DEF GzipHeader, HeaderDone
<1>2. /\ gzip \in GzipFields /\ wire \in Wire /\ backend \in Library
      /\ accepted \in 0..MaxBytes
      BY DEF AdapterInv, TypeOK
<1>3. copied = capacity /\ gzip.header_pos + copied \in 0..HeaderBytes /\ copied > 0
      BY <1>1, <1>2 DEF GzipFields, HeaderFit, Fit
<1>4. gzip.header_pos # HeaderBytes
      BY <1>2, <1>3 DEF GzipFields
<1>5. /\ backend = FreshBackend /\ accepted = 0 /\ ~wire.body
      /\ wire.header = gzip.header_pos /\ ~gzip.body_done
      BY <1>1, <1>4 DEF AdapterInv, GzipInv, FreshBackend
<1>6. SoundAnswer(op, avail, capacity, 0, copied, "NeedsOutput")
      BY <1>3 DEF SoundAnswer, StepState
<1>7. SoundBackend(op, avail, 0, "NeedsOutput")
      BY <1>1, <1>2, <1>5 DEF SoundBackend, FreshBackend
<1>8. gzip' \in GzipFields /\ wire' \in Wire
      BY <1>1, <1>2, <1>3, <1>5 DEF GzipFields, Wire
<1>9. Answered(op, avail, capacity, 0, copied, "NeedsOutput")
      BY <1>1, <1>6, AnswerFacts DEF AdapterInv, SoundAnswer
<1>10. GzipInv'
  <2>1. accepted' = 0 /\ stream' = "open"
        BY <1>5, <1>9 DEF Answered
  <2>2. /\ gzip'.header_pos = gzip.header_pos + copied
        /\ gzip'.body_done = gzip.body_done /\ gzip'.crc = gzip.crc
        /\ gzip'.trailer_pos = gzip.trailer_pos
        /\ wire'.header = wire.header + copied /\ wire'.body = wire.body
        /\ wire'.trailer = wire.trailer
        BY <1>1, <1>2 DEF GzipFields, Wire
  <2> QED BY <1>1, <1>5, <2>1, <2>2 DEF AdapterInv, GzipInv
<1>11. misused' = FALSE
      BY <1>1 DEF AdapterInv, LibraryContract
<1>m. marker' \in 0..MarkerBytes
      BY DEF GzipHeader, AdapterInv, TypeOK
<1> QED
    BY <1>1, <1>6, <1>7, <1>8, <1>10, <1>11, <1>m, StepKeepsInv

\* Gzip once the deflate stream has ended: the rest of the trailer.
LEMMA GzipTrailerKeepsInv ==
    ASSUME AdapterInv, NEW op \in Operation, NEW avail \in 0..MaxBytes,
           NEW capacity \in Capacities, Presents(op, avail), size' = size,
           GzipTrailer(op, avail, capacity)
    PROVE  AdapterInv'
<1> USE AdapterAssumption
<1> DEFINE copied == HeaderFit(capacity)
           written == TrailerFit(capacity - copied)
           state == TrailerState(gzip.trailer_pos + written)
<1>1. /\ kind = "gzip" /\ kind' = kind /\ backend' = backend /\ misused' = misused
      /\ gzip.body_done
      /\ gzip' = [gzip EXCEPT !.header_pos = HeaderBytes, !.trailer_pos = @ + written]
      /\ wire' = [wire EXCEPT !.header = @ + copied, !.trailer = @ + written]
      /\ Answer(op, avail, capacity, 0, copied + written, state)
      BY DEF GzipTrailer
<1>2. /\ gzip \in GzipFields /\ wire \in Wire /\ backend \in Library
      /\ accepted \in 0..MaxBytes
      BY DEF AdapterInv, TypeOK
<1>3. /\ gzip.header_pos = HeaderBytes /\ backend.phase = "ended" /\ backend.held = 0
      /\ gzip.trailer = accepted /\ gzip.crc = accepted
      /\ wire.header = gzip.header_pos /\ wire.trailer = gzip.trailer_pos
      BY <1>1 DEF AdapterInv, GzipInv, CountInv
<1>4. op = "Finish" /\ avail = 0
  <2>1. stream = "open" /\ (pending # NoWork => pending.op = op /\ pending.avail = avail)
        BY PresentsFacts DEF AdapterInv
  <2>2. pending = [op |-> "Finish", avail |-> 0]
        BY <1>3, <2>1 DEF AdapterInv, StreamInv
  <2> QED BY <2>1, <2>2 DEF NoWork
<1>5. copied = 0
      BY <1>3 DEF HeaderFit, Fit
<1>6. /\ written \in 0..capacity /\ gzip.trailer_pos + written \in 0..TrailerBytes
      /\ gzip.trailer_pos + written # TrailerBytes => written = capacity
      BY <1>2, <1>5 DEF GzipFields, TrailerFit, Fit
<1>7. SoundAnswer(op, avail, capacity, 0, copied + written, state)
      BY <1>4, <1>5, <1>6 DEF SoundAnswer, StepState, TrailerState
<1>8. SoundBackend(op, avail, 0, state)
      BY <1>1, <1>2, <1>3, <1>4 DEF SoundBackend, TrailerState
<1>9. gzip' \in GzipFields /\ wire' \in Wire
  <2>1. HeaderBytes \in 0..HeaderBytes
        OBVIOUS
  <2>2. gzip' \in GzipFields
        BY <1>1, <1>2, <1>6, <2>1 DEF GzipFields
  <2>3. wire.header + copied = HeaderBytes /\ wire.trailer + written \in 0..TrailerBytes
        BY <1>3, <1>5, <1>6
  <2>4. wire' \in Wire
        BY <1>1, <1>2, <2>1, <2>3 DEF Wire
  <2> QED BY <2>2, <2>4
<1>10. Answered(op, avail, capacity, 0, copied + written, state)
      BY <1>1, <1>7, AnswerFacts DEF AdapterInv, SoundAnswer
<1>11. GzipInv'
  <2>1. accepted' = accepted /\ (stream' = "complete" => gzip.trailer_pos + written = TrailerBytes)
        BY <1>2, <1>10 DEF Answered, TrailerState
  <2>2. /\ gzip'.header_pos = HeaderBytes /\ gzip'.body_done = gzip.body_done
        /\ gzip'.crc = gzip.crc /\ gzip'.trailer = gzip.trailer
        /\ gzip'.trailer_pos = gzip.trailer_pos + written
        /\ wire'.header = wire.header + copied /\ wire'.trailer = wire.trailer + written
        BY <1>1, <1>2 DEF GzipFields, Wire
  <2> QED BY <1>1, <1>2, <1>3, <1>5, <2>1, <2>2 DEF GzipInv, GzipFields
<1>12. misused' = FALSE
      BY <1>1 DEF AdapterInv, LibraryContract
<1>m. marker' \in 0..MarkerBytes
      BY DEF GzipTrailer, AdapterInv, TypeOK
<1> QED
    BY <1>1, <1>7, <1>8, <1>9, <1>11, <1>12, <1>m, StepKeepsInv

\* What a body call of gzip starts from: the header fits, and the library is open
\* or in the boundary presented.
LEMMA GzipBodyFacts ==
    ASSUME AdapterInv, NEW op \in Operation, NEW avail \in 0..MaxBytes,
           NEW capacity \in Capacities, Presents(op, avail),
           kind = "gzip", HeaderDone(capacity), ~gzip.body_done
    PROVE  /\ HeaderFit(capacity) \in 0..capacity
           /\ gzip.header_pos + HeaderFit(capacity) = HeaderBytes
           /\ capacity - HeaderFit(capacity) \in Nat
           /\ gzip.trailer_pos = 0 /\ wire.trailer = 0
           /\ wire.header + HeaderFit(capacity) = HeaderBytes
           /\ gzip.crc = accepted
           /\ stream = "open" /\ accepted + avail <= MaxBytes
           /\ ~Misuses(op, avail)
<1> USE AdapterAssumption
<1>1. gzip \in GzipFields
      BY DEF AdapterInv, TypeOK
<1>2. /\ HeaderFit(capacity) \in 0..capacity
      /\ gzip.header_pos + HeaderFit(capacity) = HeaderBytes
      BY <1>1 DEF GzipFields, HeaderFit, Fit, HeaderDone
<1>3. /\ gzip.trailer_pos = 0 /\ wire.trailer = 0 /\ wire.header = gzip.header_pos
      /\ gzip.crc = accepted /\ backend.phase # "ended"
      BY DEF AdapterInv, GzipInv
<1>4. stream = "open" /\ accepted + avail <= MaxBytes
      BY PresentsFacts DEF AdapterInv
<1>5. ~Misuses(op, avail)
      BY <1>3, NoMisuse
<1>6. capacity - HeaderFit(capacity) \in Nat
      BY <1>2
<1> QED BY <1>2, <1>3, <1>4, <1>5, <1>6

\* Gzip's body: the header and the deflate output share the buffer.
LEMMA GzipBodyKeepsInv ==
    ASSUME AdapterInv, NEW op \in Operation, NEW avail \in 0..MaxBytes,
           NEW capacity \in Capacities, Presents(op, avail), size' = size,
           GzipBody(op, avail, capacity)
    PROVE  AdapterInv'
<1> USE AdapterAssumption
<1> DEFINE copied == HeaderFit(capacity)
           room == capacity - copied
<1>1. PICK r \in LibraryResult(op, avail, room, backend.held) :
          /\ ~Ended(op, r)
          /\ FlateRun(op, avail, room, r)
          /\ gzip' = [gzip EXCEPT !.header_pos = HeaderBytes, !.crc = @ + r.consumed]
          /\ wire' = [header |-> wire.header + copied, body |-> wire.body \/ r.produced > 0,
                      trailer |-> wire.trailer]
          /\ Answer(op, avail, capacity, r.consumed, copied + r.produced,
                    DeriveState(op, r.consumed = avail, copied + r.produced = capacity, FALSE))
      BY DEF GzipBody
<1> DEFINE state == DeriveState(op, r.consumed = avail, copied + r.produced = capacity, FALSE)
<1>2. kind = "gzip" /\ kind' = kind /\ HeaderDone(capacity) /\ ~gzip.body_done
      BY DEF GzipBody
<1>3. /\ copied \in 0..capacity /\ room \in Nat
      /\ gzip.trailer_pos = 0 /\ wire.trailer = 0
      /\ wire.header + copied = HeaderBytes /\ gzip.crc = accepted
      /\ stream = "open" /\ accepted + avail <= MaxBytes
      /\ ~Misuses(op, avail)
      BY <1>2, GzipBodyFacts
<1>4. /\ r.consumed \in 0..avail /\ r.produced \in 0..room /\ r.drained \in BOOLEAN
      /\ r.consumed < avail => r.produced = room
      /\ r.drained => op # "Continue" /\ r.consumed = avail
      /\ op # "Continue" /\ ~r.drained => r.produced = room
      /\ Moved(op, avail, r)
      BY <1>1, <1>3, CallFacts DEF FlateRun
<1>5. /\ copied + r.produced \in 0..capacity
      /\ copied + r.produced # capacity => r.consumed = avail /\ (op # "Continue" => r.drained)
      BY <1>3, <1>4
<1>6. op = "Finish" => ~r.drained
      BY <1>1 DEF Ended
<1>7. SoundAnswer(op, avail, capacity, r.consumed, copied + r.produced, state)
  <2>1. r.consumed # avail => copied + r.produced = capacity
        BY <1>3, <1>4
  <2> QED BY <1>4, <1>5, <2>1 DEF SoundAnswer, DeriveState, StepState, Operation
<1>8. SoundBackend(op, avail, r.consumed, state)
  <2>1. op # "Continue" /\ ~r.drained => copied + r.produced = capacity
        BY <1>5
  <2>2. /\ backend'.phase # "ended"
        /\ backend'.phase = "flushing" => op = "Flush" /\ r.consumed = avail /\ state = "NeedsOutput"
        /\ backend'.phase = "ending" => op = "Finish" /\ r.consumed = avail /\ state = "NeedsOutput"
        BY <1>4, <1>6, <2>1 DEF Moved, DeriveState
  <2>3. op # "Continue" /\ state = "Complete" => backend'.held = 0
        BY <1>4, <2>1 DEF Moved, DeriveState
  <2> QED BY <1>2, <1>4, <2>2, <2>3 DEF SoundBackend, Moved
<1>9. gzip \in GzipFields /\ wire \in Wire /\ accepted \in 0..MaxBytes
      BY DEF AdapterInv, TypeOK
<1>10. gzip' \in GzipFields /\ wire' \in Wire
  <2>1. HeaderBytes \in 0..HeaderBytes /\ gzip.crc + r.consumed \in 0..MaxBytes
        BY <1>3, <1>4, <1>9
  <2>2. gzip' \in GzipFields
        BY <1>1, <1>9, <2>1 DEF GzipFields
  <2> DEFINE begun == wire.body \/ r.produced > 0
  <2>3. begun \in BOOLEAN
        OBVIOUS
  <2>4. wire' = [header |-> HeaderBytes, body |-> begun, trailer |-> wire.trailer]
        BY <1>1, <1>3
  <2>5. wire' \in Wire
    <3> HIDE DEF begun
    <3> QED BY <1>9, <2>1, <2>3, <2>4 DEF Wire
  <2> QED BY <2>2, <2>5
<1>11. Answered(op, avail, capacity, r.consumed, copied + r.produced, state)
  <2>1. r.consumed \in 0..avail /\ copied + r.produced \in Nat
        BY <1>4, <1>5
  <2>2. state \in StepState
        BY DEF DeriveState, StepState
  <2>3. Answer(op, avail, capacity, r.consumed, copied + r.produced, state)
        BY <1>1
  <2>4. TypeOK /\ CountInv
        BY DEF AdapterInv
  <2> HIDE DEF state, copied
  <2> QED BY <2>1, <2>2, <2>3, <2>4, AnswerFacts
<1>12. GzipInv'
  <2>1. accepted' = accepted + r.consumed
        BY <1>11 DEF Answered
  <2>2. stream' # "complete"
        BY <1>4, <1>5, <1>6, <1>11 DEF Answered, DeriveState
  <2>3. /\ gzip'.header_pos = HeaderBytes /\ gzip'.body_done = gzip.body_done
        /\ gzip'.crc = gzip.crc + r.consumed /\ gzip'.trailer_pos = gzip.trailer_pos
        /\ wire'.header = wire.header + copied /\ wire'.trailer = wire.trailer
        BY <1>1, <1>9 DEF GzipFields, Wire
  <2>4. backend'.phase # "ended"
        BY <1>4, <1>6 DEF Moved
  <2> QED BY <1>2, <1>3, <2>1, <2>2, <2>3, <2>4 DEF GzipInv
<1>13. misused' = FALSE
      BY <1>1, <1>3 DEF AdapterInv, LibraryContract, FlateRun
<1>m. marker' \in 0..MarkerBytes
      BY <1>1, MarkerTyped DEF AdapterInv
<1> QED
    BY <1>1, <1>2, <1>7, <1>8, <1>10, <1>12, <1>13, <1>m, StepKeepsInv

\* The call in which gzip's deflate stream ends: trailer fixed, and begun at once.
LEMMA GzipEndKeepsInv ==
    ASSUME AdapterInv, NEW op \in Operation, NEW avail \in 0..MaxBytes,
           NEW capacity \in Capacities, Presents(op, avail), size' = size,
           GzipEnd(op, avail, capacity)
    PROVE  AdapterInv'
<1> USE AdapterAssumption
<1> DEFINE copied == HeaderFit(capacity)
           room == capacity - copied
<1>1. PICK r \in LibraryResult(op, avail, room, backend.held) :
          LET written == TrailerFit(room - r.produced) IN
          /\ Ended(op, r)
          /\ FlateRun(op, avail, room, r)
          /\ gzip' = [header_pos |-> HeaderBytes, body_done |-> TRUE,
                      crc |-> gzip.crc + r.consumed, trailer |-> gzip.crc + r.consumed,
                      trailer_pos |-> gzip.trailer_pos + written]
          /\ wire' = [header |-> wire.header + copied, body |-> wire.body \/ r.produced > 0,
                      trailer |-> wire.trailer + written]
          /\ Answer(op, avail, capacity, r.consumed, copied + r.produced + written,
                    TrailerState(gzip.trailer_pos + written))
      BY DEF GzipEnd
<1> DEFINE written == TrailerFit(room - r.produced)
           produced == copied + r.produced + written
           state == TrailerState(gzip.trailer_pos + written)
<1>2. kind = "gzip" /\ kind' = kind /\ HeaderDone(capacity) /\ ~gzip.body_done
      BY DEF GzipEnd
<1>3. /\ copied \in 0..capacity /\ room \in Nat
      /\ gzip.trailer_pos = 0 /\ wire.trailer = 0
      /\ wire.header + copied = HeaderBytes /\ gzip.crc = accepted
      /\ stream = "open" /\ accepted + avail <= MaxBytes
      /\ ~Misuses(op, avail)
      BY <1>2, GzipBodyFacts
<1>4. /\ r.produced \in 0..room
      /\ op = "Finish" /\ r.drained /\ r.consumed = avail
      /\ Moved(op, avail, r)
  <2>1. /\ r.produced \in 0..room
        /\ r.drained => op # "Continue" /\ r.consumed = avail
        /\ Moved(op, avail, r)
        BY <1>1, <1>3, CallFacts DEF FlateRun
  <2> QED BY <1>1, <2>1 DEF Ended
<1>5. /\ written \in 0..(room - r.produced) /\ written \in 0..TrailerBytes
      /\ written # TrailerBytes => written = room - r.produced
      BY <1>3, <1>4 DEF TrailerFit, Fit
<1>6. produced \in 0..capacity /\ (written # TrailerBytes => produced = capacity)
      BY <1>3, <1>4, <1>5
<1>7. state = IF written = TrailerBytes THEN "Complete" ELSE "NeedsOutput"
  <2>1. gzip.trailer_pos + written = written
        BY <1>3, <1>5
  <2> QED BY <2>1 DEF TrailerState
<1>8. SoundAnswer(op, avail, capacity, r.consumed, produced, state)
  <2> HIDE DEF produced, state, written
  <2> QED BY <1>4, <1>6, <1>7 DEF SoundAnswer, StepState
<1>9. SoundBackend(op, avail, r.consumed, state)
  <2> HIDE DEF state, written
  <2> QED BY <1>2, <1>4, <1>7 DEF SoundBackend, Moved
<1>10. wire \in Wire /\ accepted + r.consumed \in 0..MaxBytes
      BY <1>3, <1>4 DEF AdapterInv, TypeOK
<1>11. gzip' = [header_pos |-> HeaderBytes, body_done |-> TRUE,
               crc |-> accepted + r.consumed, trailer |-> accepted + r.consumed,
               trailer_pos |-> written]
  <2>1. gzip.trailer_pos + written = written
        BY <1>3, <1>5
  <2> HIDE DEF written
  <2> QED BY <1>1, <1>3, <2>1 DEF written
<1>12. gzip' \in GzipFields
  <2> HIDE DEF written
  <2> QED BY <1>5, <1>10, <1>11 DEF GzipFields
<1>13. /\ wire' \in Wire
       /\ wire'.header = HeaderBytes /\ wire'.trailer = written
  <2> DEFINE begun == wire.body \/ r.produced > 0
  <2>1. begun \in BOOLEAN
        OBVIOUS
  <2>2. wire.trailer + written = written
        BY <1>3, <1>5
  <2>3. wire' = [header |-> HeaderBytes, body |-> begun, trailer |-> written]
        BY <1>1, <1>3, <2>2
  <2> HIDE DEF begun, written
  <2> QED BY <1>5, <2>1, <2>3 DEF Wire
<1>14. Answered(op, avail, capacity, r.consumed, produced, state)
  <2>1. r.consumed \in 0..avail /\ produced \in Nat
        BY <1>4, <1>6
  <2>2. state \in StepState
        BY <1>7 DEF StepState
  <2>3. Answer(op, avail, capacity, r.consumed, produced, state)
        BY <1>1
  <2>4. TypeOK /\ CountInv
        BY DEF AdapterInv
  <2> HIDE DEF state, produced, written
  <2> QED BY <2>1, <2>2, <2>3, <2>4, AnswerFacts
<1>15. GzipInv'
  <2>1. accepted' = accepted + r.consumed
        BY <1>14 DEF Answered
  <2>2. stream' = "complete" => written = TrailerBytes
        BY <1>7, <1>14 DEF Answered
  <2>3. backend'.phase = "ended"
        BY <1>4 DEF Moved
  <2> HIDE DEF written, state, produced
  <2> QED BY <1>2, <1>11, <1>13, <2>1, <2>2, <2>3 DEF GzipInv
<1>16. misused' = FALSE
      BY <1>1, <1>3 DEF AdapterInv, LibraryContract, FlateRun
<1>m. marker' \in 0..MarkerBytes
      BY <1>1, MarkerTyped DEF AdapterInv
<1> QED
    BY <1>1, <1>2, <1>8, <1>9, <1>12, <1>13, <1>15, <1>16, <1>m, StepKeepsInv

-----------------------------------------------------------------------------
(* Every step, and the theorems.                                           *)

\* Whatever is presented, whichever adapter is in use.
LEMMA AnyStepKeepsInv ==
    ASSUME AdapterInv, NEW op \in Operation, NEW avail \in 0..MaxBytes,
           NEW capacity \in Capacities, Step(op, avail, capacity)
    PROVE  AdapterInv'
<1>1. Presents(op, avail) /\ size' = size
      BY DEF Step
<1>2. CASE DeflateStep(op, avail, capacity)
      BY <1>1, <1>2, DeflateKeepsInv
<1>3. CASE GzipHeader(op, avail, capacity)
      BY <1>1, <1>3, GzipHeaderKeepsInv
<1>4. CASE GzipTrailer(op, avail, capacity)
      BY <1>1, <1>4, GzipTrailerKeepsInv
<1>5. CASE GzipBody(op, avail, capacity)
      BY <1>1, <1>5, GzipBodyKeepsInv
<1>6. CASE GzipEnd(op, avail, capacity)
      BY <1>1, <1>6, GzipEndKeepsInv
<1>7. CASE ZstdFeed(op, avail, capacity)
      BY <1>1, <1>7, ZstdFeedKeepsInv
<1>8. CASE ZstdIdle(op, avail, capacity)
      BY <1>1, <1>8, ZstdIdleKeepsInv
<1>9. CASE ZstdBoundary(op, avail, capacity)
      BY <1>1, <1>9, ZstdBoundaryKeepsInv
<1>10. CASE BrotliStep(op, avail, capacity)
      BY <1>1, <1>10, BrotliKeepsInv
<1>11. CASE IdentityStep(op, avail, capacity)
      BY <1>1, <1>11, IdentityKeepsInv
<1> QED
    BY <1>2, <1>3, <1>4, <1>5, <1>6, <1>7, <1>8, <1>9, <1>10, <1>11 DEF Step

\* A failed step leaves the counts alone and nothing pending.
LEMMA FailureKeepsInv ==
    ASSUME AdapterInv, StepFails
    PROVE  AdapterInv'
<1>1. /\ stream' = "failed" /\ pending' = NoWork
      /\ UNCHANGED <<kind, gzip, backend, marker, size, call, accepted, wire, misused>>
      BY DEF StepFails
<1>2. TypeOK'
      BY <1>1 DEF AdapterInv, TypeOK, Work
<1>3. CountInv' /\ GzipInv' /\ StreamInv'
      BY <1>1 DEF AdapterInv, CountInv, GzipInv, StreamInv
<1>4. AnswersTrusted' /\ BoundaryAnswers' /\ LibraryContract'
      BY <1>1 DEF AdapterInv, AnswersTrusted, BoundaryAnswers, LibraryContract
<1> QED BY <1>2, <1>3, <1>4 DEF AdapterInv

\* A reset, wherever the last response stopped, is a fresh start.
LEMMA ResetKeepsInv ==
    ASSUME AdapterInv, Reset
    PROVE  AdapterInv'
<1>1. /\ backend' = FreshBackend /\ gzip' = FreshGzip /\ stream' = "open"
      /\ pending' = NoWork /\ call' = NoCall /\ accepted' = 0 /\ wire' = EmptyWire
      /\ kind' = kind /\ misused' = misused /\ marker' = 0 /\ size' \in Capacities
      BY DEF Reset, NewStream
<1>2. TypeOK'
  <2>1. gzip' \in GzipFields
        BY <1>1, AdapterAssumption DEF FreshGzip, GzipFields
  <2>2. backend' \in Library
        BY <1>1, AdapterAssumption DEF FreshBackend, Library
  <2>3. wire' \in Wire
        BY <1>1, AdapterAssumption DEF EmptyWire, Wire
  <2>4. pending' \in Work /\ call' \in Call
        BY <1>1 DEF Work, Call
  <2>5. accepted' \in 0..MaxBytes
        BY <1>1, AdapterAssumption
  <2>6. kind' \in Kind /\ misused' \in BOOLEAN /\ marker' \in 0..MarkerBytes
        BY <1>1 DEF AdapterInv, TypeOK, MarkerBytes
  <2> QED
      BY <1>1, <2>1, <2>2, <2>3, <2>4, <2>5, <2>6 DEF TypeOK
<1>3. CountInv' /\ GzipInv' /\ StreamInv'
      BY <1>1, AdapterAssumption
      DEF CountInv, GzipInv, StreamInv, FreshGzip, FreshBackend, EmptyWire
<1>4. AnswersTrusted' /\ BoundaryAnswers' /\ LibraryContract'
      BY <1>1 DEF AdapterInv, AnswersTrusted, BoundaryAnswers, LibraryContract, NoCall
<1> QED BY <1>2, <1>3, <1>4 DEF AdapterInv

\* A reset that fails leaves an adapter nothing is presented to.
LEMMA FailedResetKeepsInv ==
    ASSUME AdapterInv, ResetFails
    PROVE  AdapterInv'
<1>1. /\ kind \in {"zstd", "br"} /\ backend' = [held |-> 0, phase |-> "null"]
      /\ stream' = "dropped" /\ pending' = NoWork
      /\ UNCHANGED <<kind, gzip, marker, size, call, accepted, wire, misused>>
      BY DEF ResetFails
<1>2. backend'.held = 0 /\ backend'.phase = "null" /\ backend' \in Library
      BY <1>1, AdapterAssumption DEF Library
<1>3. TypeOK'
      BY <1>1, <1>2 DEF AdapterInv, TypeOK, Work
<1>4. CountInv' /\ GzipInv' /\ StreamInv'
  <2>1. accepted \in Nat
        BY AdapterAssumption DEF AdapterInv, TypeOK
  <2> QED
      BY <1>1, <1>2, <2>1 DEF AdapterInv, CountInv, GzipInv, StreamInv
<1>5. AnswersTrusted' /\ BoundaryAnswers' /\ LibraryContract'
      BY <1>1, <1>2 DEF AdapterInv, AnswersTrusted, BoundaryAnswers, LibraryContract
<1> QED BY <1>3, <1>4, <1>5 DEF AdapterInv

\* The invariant is inductive.
LEMMA NextKeepsAdapterInv == AdapterInv /\ [Next]_vars => AdapterInv'
<1> SUFFICES ASSUME AdapterInv, [Next]_vars PROVE AdapterInv'
    OBVIOUS
<1>1. CASE AnyStep
  <2>1. size \in Capacities
        BY DEF AdapterInv, TypeOK
  <2> QED BY <1>1, <2>1, AnyStepKeepsInv DEF AnyStep
<1>2. CASE StepFails
      BY <1>2, FailureKeepsInv
<1>3. CASE Reset
      BY <1>3, ResetKeepsInv
<1>4. CASE ResetFails
      BY <1>4, FailedResetKeepsInv
<1>5. CASE UNCHANGED vars
  <2>1. /\ kind' = kind /\ gzip' = gzip /\ backend' = backend /\ stream' = stream
        /\ pending' = pending /\ call' = call /\ accepted' = accepted /\ wire' = wire
        /\ misused' = misused /\ marker' = marker /\ size' = size
        BY <1>5 DEF vars
  <2>2. TypeOK' /\ CountInv' /\ GzipInv' /\ StreamInv'
        BY <2>1 DEF AdapterInv, TypeOK, CountInv, GzipInv, StreamInv
  <2>3. AnswersTrusted' /\ BoundaryAnswers' /\ LibraryContract'
        BY <2>1 DEF AdapterInv, AnswersTrusted, BoundaryAnswers, LibraryContract
  <2> QED BY <2>2, <2>3 DEF AdapterInv
<1> QED
    BY <1>1, <1>2, <1>3, <1>4, <1>5 DEF Next

\* The inductive invariant holds throughout.
THEOREM AlwaysAdapterInv == Spec => []AdapterInv
<1>1. Init => AdapterInv
      BY InitAdapterInv
<1>2. AdapterInv /\ [Next]_vars => AdapterInv'
      BY NextKeepsAdapterInv
<1> QED BY <1>1, <1>2, PTL DEF Spec

\* Every variable of an adapter and of its library stays within its type.
THEOREM TypeCorrect == Spec => []TypeOK
<1>1. AdapterInv => TypeOK
      BY DEF AdapterInv
<1> QED BY <1>1, AlwaysAdapterInv, PTL

\* validate_progress never rejects an in-tree adapter (Gzip, Deflate, Zstd, both
\* Brotlis, Identity): no response fails over an adapter's own bookkeeping.
THEOREM AnswersAreTrusted == Spec => []AnswersTrusted
<1>1. AdapterInv => AnswersTrusted
      BY DEF AdapterInv
<1> QED BY <1>1, AlwaysAdapterInv, PTL

\* A flush or finish is answered with NeedsOutput or Complete, and with Complete
\* only when the library holds nothing of what it was given.
THEOREM BoundariesAreAnswered == Spec => []BoundaryAnswers
<1>1. AdapterInv => BoundaryAnswers
      BY DEF AdapterInv
<1> QED BY <1>1, AlwaysAdapterInv, PTL

\* No adapter calls its library after its stream ended, nor with new input or
\* another operation inside a boundary that it has begun.
THEOREM LibraryIsCalledProperly == Spec => []LibraryContract
<1>1. AdapterInv => LibraryContract
      BY DEF AdapterInv
<1> QED BY <1>1, AlwaysAdapterInv, PTL

\* Gzip writes a whole header before the body and a whole trailer, counting every
\* byte, behind it, for every cut of the sections by output buffers.
THEOREM FramesAreWellFormed == Spec => []FramesWellFormed
<1>1. AdapterInv => FramesWellFormed
  <2> SUFFICES ASSUME AdapterInv, kind = "gzip" PROVE
        /\ wire.body \/ wire.trailer > 0 \/ accepted > 0 => wire.header = HeaderBytes
        /\ wire.trailer > 0 => backend.phase = "ended" /\ gzip.trailer = accepted
        /\ stream = "complete" => wire.trailer = TrailerBytes /\ gzip.trailer = accepted
      BY DEF FramesWellFormed
  <2>1. GzipInv
        BY DEF AdapterInv
  <2> QED BY <2>1, AdapterAssumption DEF GzipInv
<1> QED BY <1>1, AlwaysAdapterInv, PTL
=============================================================================
