----------------------------- MODULE BodyFilter -----------------------------
(***************************************************************************)
(* The body filter of one compressed response                              *)
(* (crates/ngx-compress-module/src/filter/{runtime,buffer,input}.rs and    *)
(* the event glue of crates/ngx-compress-ffi): the request context with    *)
(* its chains of pending input and of module-owned output buffers, the     *)
(* callback that drives the codec, hands the output downstream, reclaims   *)
(* buffers and arranges to be called again.                                *)
(*                                                                         *)
(* A worker is single-threaded, so a callback is a sequence of steps that  *)
(* nothing interleaves with (pc # "Idle"); between callbacks upstream data *)
(* and write events arrive in any order.  The loop of drive_input is that  *)
(* of StreamDriver, used through its actions.                              *)
(*                                                                         *)
(* External, modelled from how the code relies on it: the codec (an        *)
(* in-tree adapter, as a delaying FIFO of the response bytes), the rest of *)
(* the NGINX filter chain down to the socket, and NGINX's write events.    *)
(***************************************************************************)
EXTENDS StreamContract, Sequences, SequencesExt

CONSTANTS
    BufferCount,    \* compress_buffers: how many output buffers may exist
    Capacity,       \* compress_buffers: bytes in each
    CallbackBytes,  \* WorkBudget::per_callback, input bytes
    CallbackSteps,  \* WorkBudget::per_callback, codec calls
    MaxBytes,       \* bound: response bytes upstream sends
    MaxArrivals,    \* bound: buffers it sends them in
    Requests        \* what requests may find around this filter, see RequestKind

RequestKind == [
    framing : BOOLEAN,      \* a later filter adds bytes of its own behind a batch (chunked)
    postpone : BOOLEAN,     \* postpone_output: the write filter keeps small batches
    tls : BOOLEAN,          \* the transport may coalesce unflushed bytes in its own buffer
    ops : SUBSET Operation, \* what upstream buffers ask for
    stats_mode : {"off", "variables", "server_timing"}]

ASSUME FilterAssumption ==
    /\ BufferCount \in Nat \ {0}
    /\ Capacity \in Nat \ {0}
    /\ CallbackBytes \in Nat \ {0}
    /\ CallbackSteps \in Nat \ {0}
    /\ MaxBytes \in Nat
    /\ MaxArrivals \in Nat
    /\ Requests \subseteq RequestKind

VARIABLES
    request,        \* the kind of this request, fixed for its lifetime
    pc,             \* where the worker is in the callback, or "Idle"
    input,          \* RequestCtx.input: pending upstream buffers
    pendingOp,      \* RequestCtx.pending_operation, or "None"
    done,           \* RequestCtx.done
    free, out, busy,  \* RequestCtx chains of output buffers
    allocated,      \* RequestCtx.allocated_buffers
    buf,            \* contents (pos..last) and flags of each output buffer
    trailerSent,    \* RequestCtx.trailer_sent
    stats,          \* RequestCtx.stats: bytes the codec took in and gave out
    produced,       \* NgxOutput.produced of the current call of drive_input
    trailers,       \* the Server-Timing entries in headers_out.trailers
    pending,        \* what compress() returned in this callback
    \* drive_input's locals and histories, see StreamDriver
    state, operation, len, offset, budget, presented, boundary, moved,
    \* the codec
    backlog,        \* output the codec still holds
    sealed,         \* it has added the end of the stream to it
    \* the connection
    gzipBit,        \* NGX_HTTP_GZIP_BUFFERED, the bit this module controls
    writeBit,       \* NGX_HTTP_WRITE_BUFFERED: the write filter holds bytes
    tlsBit,         \* NGX_SSL_BUFFERED: the TLS layer holds bytes
    ready,          \* the socket is writable as far as NGINX knows
    room,           \* a write event has just reported room in the socket
    posted,         \* a write event is queued for the next loop iteration
    held,           \* links the rest of the filter chain has not let go of
    delivered,      \* history: the bytes and boundaries of upstream that went down to it
    written,        \* history: how many bytes of the codec did
    \* upstream
    arrivals,       \* buffers it has handed over
    accepted        \* history: the bytes and boundaries in them

driverVars == <<state, operation, len, offset, budget, presented, boundary, moved>>
chainVars == <<free, out, busy, allocated, buf>>
codecVars == <<backlog, sealed>>
connVars == <<writeBit, tlsBit, ready, room, held, delivered, written>>
eventVars == <<gzipBit, posted>>
statVars == <<stats, produced>>
ctxVars == <<request, input, pendingOp, done, trailerSent, trailers, pending, statVars>>
upstreamVars == <<arrivals, accepted>>
vars == <<pc, driverVars, chainVars, codecVars, connVars, eventVars, ctxVars, upstreamVars>>

Driver == INSTANCE StreamDriver WITH MaxLen <- MaxBytes

-----------------------------------------------------------------------------
(* Items of a stream: the response bytes are numbered from 1.              *)
FlushMark == 0
LastMark == -1
Trailer == -2   \* what a codec appends to end its format
Frame == -3     \* bytes another filter adds

MarkOf(op) == CASE op = "Flush" -> <<FlushMark>> [] op = "Finish" -> <<LastMark>>
                [] OTHER -> <<>>

Run(first, n) == [i \in 1..n |-> first + i - 1]

\* An upstream buffer: the unread bytes first..first+size-1 and what it asks for.
UpstreamBuffer == [id : 1..MaxArrivals, first : 1..(MaxBytes + 1), size : 0..MaxBytes,
                   op : Operation]

OutputBufferIds == 1..BufferCount
FrameLink == 0  \* a link to a buffer another filter owns

EmptyBuffer == [data |-> <<>>, mark |-> "None"]
LinkData(contents, link) == IF link = FrameLink THEN <<Frame>> ELSE contents[link].data
LinkMark(contents, link) == IF link = FrameLink THEN "None" ELSE contents[link].mark

TypeOK ==
    /\ pc \in {"Idle", "Compress", "Drive", "Submit", "Bypass", "Write", "WriteRaw",
               "Absorb", "Failed", "WriterError"}
    /\ request \in Requests
    /\ input \in Seq(UpstreamBuffer)
    /\ \A i \in DOMAIN input : input[i].first + input[i].size <= MaxBytes + 1
    /\ pendingOp \in Operation \cup {"None"}
    /\ {done, trailerSent, pending, sealed} \subseteq BOOLEAN
    /\ {gzipBit, writeBit, tlsBit, ready, room, posted} \subseteq BOOLEAN
    /\ stats \in [input : Nat, output : Nat] /\ produced \in Nat
    /\ allocated \in 0..BufferCount
    /\ {free, out, busy} \subseteq Seq(OutputBufferIds)
    /\ buf \in [OutputBufferIds -> [data : Seq(Int), mark : OutputBoundary]]
    /\ \A b \in OutputBufferIds : Len(buf[b].data) <= Capacity
    /\ held \in Seq(OutputBufferIds \cup {FrameLink})
    /\ {backlog, delivered, accepted} \subseteq Seq(Int)
    /\ written \in Nat
    /\ arrivals \in 0..MaxArrivals
    /\ Driver!TypeOK

Init ==
    /\ request \in Requests
    /\ pc = "Idle"
    /\ input = <<>>
    /\ pendingOp = "None"
    /\ done = FALSE
    /\ free = <<>> /\ out = <<>> /\ busy = <<>>
    /\ allocated = 0
    /\ buf = [b \in OutputBufferIds |-> EmptyBuffer]
    /\ trailerSent = FALSE
    /\ stats = [input |-> 0, output |-> 0]
    /\ produced = 0
    /\ trailers = <<>>
    /\ pending = FALSE
    /\ Driver!Init
    /\ backlog = <<>>
    /\ sealed = FALSE
    /\ gzipBit = FALSE /\ writeBit = FALSE /\ tlsBit = FALSE
    /\ ready = TRUE /\ room = FALSE
    /\ posted = FALSE
    /\ held = <<>>
    /\ delivered = <<>> /\ written = 0
    /\ arrivals = 0
    /\ accepted = <<>>

-----------------------------------------------------------------------------
(* Entering the callback.                                                  *)

\* Mutant: every link is appended, also that of a buffer still pending.
AppendLinkAgain(chain, b) == Append(chain, b)

\* append_input copies links, not buffers, and skips a buffer already pending.
AppendLink(chain, b) ==
    IF \E i \in DOMAIN chain : chain[i].id = b.id THEN chain ELSE Append(chain, b)

\* RequestCtx::with: once the stream is done the chain bypasses the context.
EnterFilter(appended) ==
    /\ pc = "Idle"
    /\ pc' = IF done THEN "Bypass" ELSE "Compress"
    /\ input' = IF done THEN input ELSE appended

Ended == accepted # <<>> /\ accepted[Len(accepted)] = LastMark
BytesIn(s) == Cardinality({i \in DOMAIN s : s[i] > 0})

\* Upstream hands over one more buffer, possibly behind one it handed over
\* before and that is still pending.
UpstreamData(n, op) ==
    LET first == BytesIn(accepted) + 1
        new == [id |-> arrivals + 1, first |-> first, size |-> n, op |-> op]
    IN /\ ~Ended
       /\ arrivals < MaxArrivals
       /\ first + n <= MaxBytes + 1
       /\ arrivals' = arrivals + 1
       /\ accepted' = accepted \o Run(first, n) \o MarkOf(op)
       /\ \/ EnterFilter(AppendLink(input, new))
          \/ \E i \in DOMAIN input : EnterFilter(AppendLink(AppendLink(input, input[i]), new))
       /\ UNCHANGED <<request, pendingOp, done, trailerSent, trailers, pending, statVars,
                      driverVars, chainVars, codecVars, connVars, eventVars>>

\* On a write event NGINX re-enters the filter chain with NULL input while the
\* connection is buffered.
ReenterIfBuffered ==
    IF TRUE \in {gzipBit, writeBit, tlsBit}
    THEN EnterFilter(input)
    ELSE UNCHANGED <<pc, input>>

\* The event this module posted.
PostedWriteEvent ==
    /\ pc = "Idle"
    /\ posted
    /\ posted' = FALSE
    /\ ReenterIfBuffered
    /\ UNCHANGED <<request, pendingOp, done, trailerSent, trailers, pending, statVars,
                   driverVars, chainVars, codecVars, connVars, gzipBit, upstreamVars>>

\* The socket, known to be full, has room again.
SocketWriteEvent ==
    /\ pc = "Idle"
    /\ ~ready
    /\ ready' = TRUE
    /\ room' = TRUE
    /\ ReenterIfBuffered
    /\ UNCHANGED <<request, pendingOp, done, trailerSent, trailers, pending, statVars,
                   driverVars, chainVars, codecVars, writeBit, tlsBit, held, delivered, written,
                   eventVars, upstreamVars>>

-----------------------------------------------------------------------------
(* compress: choosing what to drive.                                       *)

\* Mutants: a call that ran out of buffers is not counted; nor is one that resumes an
\* operation.
RecordStatsOfSuccess ==
    /\ stats' = IF request.stats_mode = "off" \/ state = "OutputFailed" THEN stats
                ELSE [input |-> stats.input + offset, output |-> stats.output + produced]
    /\ produced' = 0

RecordStatsOfInput ==
    /\ stats' = IF request.stats_mode = "off" \/ pendingOp # "None" THEN stats
                ELSE [input |-> stats.input + offset, output |-> stats.output + produced]
    /\ produced' = 0

\* CompressionStats::record, when a call of drive_input has returned.
RecordStats ==
    /\ stats' = IF request.stats_mode = "off" THEN stats
                ELSE [input |-> stats.input + offset, output |-> stats.output + produced]
    /\ produced' = 0

\* One call of drive_input.  Whether the call continues an interrupted buffer is
\* bookkeeping of StreamDriver's histories; DriverProtocol checks that it does.
DriveInput(op, n) ==
    LET resumes == state = "Suspended" IN
    /\ pc' = "Drive"
    /\ state' = "Running"
    /\ operation' = op
    /\ len' = n
    /\ offset' = 0
    /\ presented' = IF resumes THEN presented ELSE "Continue"
    /\ boundary' = IF resumes THEN boundary ELSE "None"
    /\ moved' = 0
    /\ UNCHANGED <<budget, chainVars, codecVars, connVars, eventVars, ctxVars, upstreamVars>>

\* compress returns and the allowance of this callback is gone.
ReturnPending(p) ==
    /\ pc' = "Submit"
    /\ pending' = p
    /\ \/ Driver!EndCallback
       \/ Driver!Suspend
       \/ state \in {"Idle", "Suspended", "Finished"} /\ UNCHANGED driverVars

ResumeOperation ==
    /\ pc = "Compress"
    /\ pendingOp # "None"
    /\ DriveInput(pendingOp, 0)

DriveHead ==
    /\ pc = "Compress"
    /\ pendingOp = "None"
    /\ input # <<>>
    /\ DriveInput(Head(input).op, Head(input).size)

InputExhausted ==
    /\ pc = "Compress"
    /\ pendingOp = "None"
    /\ input = <<>>
    /\ ReturnPending(FALSE)
    /\ UNCHANGED <<request, input, pendingOp, done, trailerSent, trailers, statVars,
                   chainVars, codecVars, connVars, eventVars, upstreamVars>>

-----------------------------------------------------------------------------
(* drive_input with the output provider of the module.                     *)

\* Mutant: one buffer too many.
CanLendOneMore == free # <<>> \/ allocated <= BufferCount

\* free_buf: the head of the free chain, or a new buffer below the limit.
CanLend == free # <<>> \/ allocated < BufferCount
Lent == IF free # <<>> THEN Head(free) ELSE allocated + 1
FreeAfterLending == IF free # <<>> THEN Tail(free) ELSE free

\* The bytes the driver shows the codec: the pending operation has none left.
Chunk(n) == IF pendingOp = "None" THEN Run(Head(input).first + offset, n) ELSE <<>>

\* An in-tree adapter consuming c bytes of the avail ones it was shown.
Seals(op, avail, c) == op = "Finish" /\ c = avail /\ ~sealed
CodecHolds(op, avail, c) ==
    backlog \o Chunk(c) \o (IF Seals(op, avail, c) THEN <<Trailer>> ELSE <<>>)

AdapterAnswer(op, avail, r) ==
    LET holds == Len(CodecHolds(op, avail, r.consumed)) IN
    /\ r.produced <= holds
    /\ r.state = "NeedsInput" => op = "Continue"
    /\ r.state = "NeedsOutput" => r.produced = Capacity
    /\ r.state = "Complete" => op # "Continue" /\ r.produced = holds

\* One iteration of the loop: a buffer is lent to the codec and then emitted or
\* put back.  Lending neutralises the buffer (prepare_output) in either case.
DriveStep(r) ==
    LET op == Driver!NextOperation
        avail == Driver!StepEnd - offset
        b == BoundaryOf(op, r.state)
        holds == CodecHolds(op, avail, r.consumed)
    IN /\ pc = "Drive"
       /\ CanLend
       /\ Driver!Step(r)
       /\ AdapterAnswer(op, avail, r)
       /\ backlog' = SubSeq(holds, r.produced + 1, Len(holds))
       /\ sealed' = (sealed \/ Seals(op, avail, r.consumed))
       /\ allocated' = IF free = <<>> THEN allocated + 1 ELSE allocated
       /\ \/ /\ Emits(r.produced, b)
             /\ buf' = [buf EXCEPT ![Lent] = [data |-> SubSeq(holds, 1, r.produced), mark |-> b]]
             /\ out' = Append(out, Lent)
             /\ free' = FreeAfterLending
             /\ produced' = IF request.stats_mode = "off" THEN 0 ELSE produced + r.produced
          \/ /\ ~Emits(r.produced, b)
             /\ buf' = [buf EXCEPT ![Lent] = EmptyBuffer]
             /\ free' = <<Lent>> \o FreeAfterLending
             /\ UNCHANGED <<out, produced>>
       /\ UNCHANGED <<pc, busy, connVars, eventVars, request, input, pendingOp, done,
                      trailerSent, trailers, pending, stats, upstreamVars>>

DriveExhaust ==
    /\ pc = "Drive"
    /\ Driver!Exhaust
    /\ UNCHANGED <<pc, chainVars, codecVars, connVars, eventVars, ctxVars, upstreamVars>>

\* Every buffer the module may own is downstream: resumable backpressure.
BuffersExhausted ==
    /\ pc = "Drive"
    /\ ~CanLend
    /\ Driver!OutputFailure
    /\ UNCHANGED <<pc, chainVars, codecVars, connVars, eventVars, ctxVars, upstreamVars>>

\* The codec fails or breaks the contract, or memory runs out: NGX_ERROR.
CompressionFails ==
    /\ pc = "Drive"
    /\ \E r \in Driver!Results : Driver!RejectStep(r)
    /\ pc' = "Failed"
    /\ RecordStats
    /\ UNCHANGED <<chainVars, codecVars, connVars, eventVars, request, input, pendingOp, done,
                   trailerSent, trailers, pending, upstreamVars>>

-----------------------------------------------------------------------------
(* compress: what the outcome of drive_input means for the context.        *)

Paused == state \in {"BudgetExhausted", "OutputFailed"}
Consumed == offset = len

\* resume_operation: an operation without input left was driven once more.
OperationPaused ==
    /\ pc = "Drive" /\ pendingOp # "None"
    /\ Paused
    /\ ReturnPending(TRUE)
    /\ RecordStats
    /\ UNCHANGED <<request, input, pendingOp, done, trailerSent, trailers>>
    /\ UNCHANGED <<chainVars, codecVars, connVars, eventVars, upstreamVars>>

OperationComplete ==
    /\ pc = "Drive" /\ pendingOp # "None"
    /\ state \in {"NeedsInput", "Flushed"}
    /\ pendingOp' = "None"
    /\ pc' = "Compress"
    /\ RecordStats
    /\ UNCHANGED <<request, input, done, trailerSent, trailers, pending, driverVars,
                   chainVars, codecVars, connVars, eventVars, upstreamVars>>

\* Mutants: the operation of a consumed head is forgotten; the part of the head
\* that was consumed is driven again.
HeadPausedForgets ==
    /\ pc = "Drive" /\ pendingOp = "None"
    /\ Paused
    /\ input' = IF Consumed THEN Tail(input)
                ELSE [input EXCEPT ![1].first = @ + offset, ![1].size = @ - offset]
    /\ ReturnPending(TRUE)
    /\ RecordStats
    /\ UNCHANGED <<request, pendingOp, done, trailerSent, trailers>>
    /\ UNCHANGED <<chainVars, codecVars, connVars, eventVars, upstreamVars>>

HeadPausedRepeats ==
    /\ pc = "Drive" /\ pendingOp = "None"
    /\ Paused
    /\ ReturnPending(TRUE)
    /\ RecordStats
    /\ UNCHANGED <<request, input, pendingOp, done, trailerSent, trailers>>
    /\ UNCHANGED <<chainVars, codecVars, connVars, eventVars, upstreamVars>>

\* The head of the input was driven and the callback has to stop here.  When the
\* head has no byte left only its operation survives.
HeadPaused ==
    /\ pc = "Drive" /\ pendingOp = "None"
    /\ Paused
    /\ input' = IF Consumed THEN Tail(input)
                ELSE [input EXCEPT ![1].first = @ + offset, ![1].size = @ - offset]
    /\ pendingOp' = IF Consumed THEN operation ELSE "None"
    /\ ReturnPending(TRUE)
    /\ RecordStats
    /\ UNCHANGED <<request, done, trailerSent, trailers, chainVars, codecVars, connVars,
                   eventVars, upstreamVars>>

HeadComplete ==
    /\ pc = "Drive" /\ pendingOp = "None"
    /\ state \in {"NeedsInput", "Flushed"}
    /\ input' = Tail(input)
    /\ pc' = "Compress"
    /\ RecordStats
    /\ UNCHANGED <<request, pendingOp, done, trailerSent, trailers, pending, driverVars,
                   chainVars, codecVars, connVars, eventVars, upstreamVars>>

\* The stream is complete; anything still pending is dropped.
StreamFinished ==
    /\ pc = "Drive"
    /\ state = "Finished"
    /\ done' = TRUE
    /\ input' = <<>>
    /\ pendingOp' = "None"
    /\ ReturnPending(FALSE)
    /\ RecordStats
    /\ UNCHANGED <<request, trailerSent, trailers, chainVars, codecVars, connVars, eventVars,
                   upstreamVars>>

-----------------------------------------------------------------------------
(* Handing the output downstream, reclaiming buffers, being called again.  *)

\* ngx_chain_update_chains: out goes behind busy, and buffers at the head of busy
\* that have no bytes left go back to free.
Drained(contents, chain) ==
    CHOOSE n \in 0..Len(chain) :
        /\ \A i \in 1..n : contents[chain[i]].data = <<>>
        /\ n < Len(chain) => contents[chain[n + 1]].data # <<>>

\* Mutant: out keeps what has been moved behind busy.
UpdateChainsKeepingOut ==
    LET chain == busy \o out
        n == Drained(buf, chain)
    IN /\ free' = Reverse(SubSeq(chain, 1, n)) \o free
       /\ busy' = SubSeq(chain, n + 1, Len(chain))
       /\ UNCHANGED <<out, allocated, buf>>

\* Mutant: buffers the write filter has not finished with go back to free too.
UpdateChainsReclaimAll ==
    /\ free' = Reverse(busy \o out) \o free
    /\ busy' = <<>>
    /\ out' = <<>>
    /\ UNCHANGED <<allocated, buf>>

UpdateChains ==
    LET chain == busy \o out
        n == Drained(buf, chain)
    IN /\ free' = Reverse(SubSeq(chain, 1, n)) \o free
       /\ busy' = SubSeq(chain, n + 1, Len(chain))
       /\ out' = <<>>
       /\ UNCHANGED <<allocated, buf>>

\* schedule_continuation and ngx_compress_post_write_if_ready: post a write event
\* unless a buffered bit of somebody else says that one is already due.
ScheduleContinuation(ok, wbit, tbit) ==
    posted' = (posted \/ (pending /\ ok /\ gzipBit' /\ ~wbit /\ ~tbit))

\* The next filter returns ok (NGX_OK) or not (NGX_AGAIN) and leaves these bits.
DownstreamReturns(ok, wbit, tbit) ==
    /\ pc' = "Idle"
    /\ writeBit' = wbit
    /\ tlsBit' = tbit
    /\ room' = FALSE
    /\ UNCHANGED gzipBit
    /\ IF pc = "WriteRaw"
       THEN UNCHANGED <<posted, chainVars>>
       ELSE ScheduleContinuation(ok, wbit, tbit) /\ UpdateChains

\* The links the write filter will look at when it is given this chain.
Links(chain) ==
    held \o chain \o (IF request.framing /\ \E i \in DOMAIN chain : buf[chain[i]].data # <<>>
                      THEN <<FrameLink>> ELSE <<>>)
HasMark(links) == \E i \in DOMAIN links : LinkMark(buf, links[i]) # "None"
HasData(links) == \E i \in DOMAIN links : LinkData(buf, links[i]) # <<>>

\* ngx_http_write_filter reports an error for a link that has neither bytes nor a
\* flag, and for a chain without either unless the transport holds bytes.
Refused(links) ==
    \/ \E i \in DOMAIN links :
         LinkData(buf, links[i]) = <<>> /\ LinkMark(buf, links[i]) = "None"
    \/ ~HasData(links) /\ ~HasMark(links) /\ ~tlsBit

\* It keeps a small batch without a flag for later, or lets the transport do so.
MayKeep(chain) == chain # <<>> /\ ~HasMark(Links(chain))

CallDownstream(chain, target) ==
    /\ held' = Links(chain)
    /\ pc' = IF Refused(Links(chain)) THEN "WriterError" ELSE target
    /\ UNCHANGED <<writeBit, tlsBit, ready, room, delivered, written>>

\* An entry that was pushed and never filled in.
Unwritten == [input |-> -1, output |-> -1]

\* add_server_timing, once per request.  Without memory the list keeps no entry, or one
\* that nothing has been written to; in either case the trailer counts as sent.
AddServerTiming(due) ==
    IF due /\ request.stats_mode = "server_timing" /\ ~trailerSent
    THEN /\ trailerSent' = TRUE
         /\ \E entries \in {<<stats>>, <<>>, <<Unwritten>>} : trailers' = trailers \o entries
    ELSE UNCHANGED <<trailerSent, trailers>>

PreparedVars == <<request, input, pendingOp, done, pending, statVars, driverVars, codecVars,
                  upstreamVars>>

\* Mutants: the trailer waits for a callback without output; the connection is
\* marked buffered only when there is output to wait for.
PrepareLateTrailer ==
    /\ pc = "Submit"
    /\ gzipBit' = pending
    /\ AddServerTiming(done /\ out = <<>>)
    /\ UNCHANGED PreparedVars

PrepareBufferedByOutput ==
    /\ pc = "Submit"
    /\ gzipBit' = (pending /\ out # <<>>)
    /\ AddServerTiming(done)
    /\ UNCHANGED PreparedVars

\* Everything up to the call of the next body filter.
Prepare ==
    /\ pc = "Submit"
    /\ gzipBit' = pending
    /\ AddServerTiming(done)
    /\ UNCHANGED PreparedVars

\* Mutant: returning without output schedules nothing.
NothingToSubmitUnscheduled ==
    /\ Prepare
    /\ out = <<>> /\ busy = <<>>
    /\ pc' = "Idle"
    /\ room' = FALSE
    /\ UNCHANGED <<posted, chainVars, writeBit, tlsBit, ready, held, delivered, written>>

\* Nothing produced, nothing downstream: NGX_OK without calling the next filter.
NothingToSubmit ==
    /\ Prepare
    /\ out = <<>> /\ busy = <<>>
    /\ pc' = "Idle"
    /\ room' = FALSE
    /\ ScheduleContinuation(TRUE, writeBit, tlsBit)
    /\ UNCHANGED <<chainVars, writeBit, tlsBit, ready, held, delivered, written>>

\* Mutant: the next filter is called also when there is nothing for it to do.
SubmitAlways ==
    /\ Prepare
    /\ CallDownstream(out, "Write")
    /\ UNCHANGED <<posted, chainVars>>

Submit ==
    /\ Prepare
    /\ out # <<>> \/ busy # <<>>
    /\ \/ CallDownstream(out, "Write")
       \/ request.tls /\ MayKeep(out) /\ CallDownstream(out, "Absorb")
    /\ UNCHANGED <<posted, chainVars>>

\* The write filter postpones the batch: NGX_OK, nothing sent, no bit changed.
SubmitPostponed ==
    /\ Prepare
    /\ request.postpone
    /\ out # <<>> /\ MayKeep(out) /\ ~Refused(Links(out))
    /\ held' = Links(out)
    /\ pc' = "Idle"
    /\ room' = FALSE
    /\ ScheduleContinuation(TRUE, writeBit, tlsBit)
    /\ UpdateChains
    /\ UNCHANGED <<writeBit, tlsBit, ready, delivered, written>>

\* A done context is not consulted: the NULL chain goes straight down.
BypassContext ==
    /\ pc = "Bypass"
    /\ CallDownstream(<<>>, "WriteRaw")
    /\ UNCHANGED <<driverVars, chainVars, codecVars, eventVars, ctxVars, upstreamVars>>

-----------------------------------------------------------------------------
(* The write filter and the socket: external.                              *)

Writing == pc \in {"Write", "WriteRaw", "Absorb"}
HeadData == LinkData(buf, Head(held))

WriteByte ==
    /\ Writing
    /\ pc = "Absorb" \/ ready
    /\ held # <<>> /\ HeadData # <<>>
    /\ delivered' = IF Head(HeadData) > 0 THEN Append(delivered, Head(HeadData)) ELSE delivered
    /\ written' = IF Head(HeadData) = Frame THEN written ELSE written + 1
    /\ IF Head(held) = FrameLink
       THEN held' = Tail(held) /\ UNCHANGED buf
       ELSE buf' = [buf EXCEPT ![Head(held)].data = Tail(@)] /\ UNCHANGED held
    /\ room' = FALSE
    /\ UNCHANGED <<pc, free, out, busy, allocated, writeBit, tlsBit, ready, driverVars,
                   codecVars, eventVars, ctxVars, upstreamVars>>

\* A link without bytes left is let go of, and its flag takes effect.
DropLink ==
    /\ Writing
    /\ held # <<>> /\ HeadData = <<>>
    /\ delivered' = delivered \o MarkOf(LinkMark(buf, Head(held)))
    /\ held' = Tail(held)
    /\ UNCHANGED <<pc, writeBit, tlsBit, ready, room, written, driverVars, chainVars,
                   codecVars, eventVars, ctxVars, upstreamVars>>

WriteComplete ==
    /\ pc \in {"Write", "WriteRaw"}
    /\ held = <<>>
    /\ tlsBit => ready
    /\ DownstreamReturns(TRUE, FALSE, FALSE)
    /\ UNCHANGED <<ready, held, delivered, written, driverVars, codecVars, ctxVars, upstreamVars>>

\* The socket is full: NGX_AGAIN, and a write event will follow.
WriteBlocked ==
    /\ pc \in {"Write", "WriteRaw"}
    /\ IF held = <<>> THEN tlsBit ELSE HeadData # <<>>
    /\ ~room
    /\ ready' = FALSE
    /\ DownstreamReturns(FALSE, held # <<>>, tlsBit)
    /\ UNCHANGED <<held, delivered, written, driverVars, codecVars, ctxVars, upstreamVars>>

\* The TLS layer has taken it all into its record buffer: NGX_AGAIN, although
\* the socket is not known to be full.
WriteAbsorbed ==
    /\ pc = "Absorb"
    /\ held = <<>>
    /\ DownstreamReturns(FALSE, FALSE, TRUE)
    /\ UNCHANGED <<ready, held, delivered, written, driverVars, codecVars, ctxVars, upstreamVars>>

\* The client is gone.
WriteFails ==
    /\ Writing
    /\ pc' = "Failed"
    /\ UNCHANGED <<driverVars, chainVars, codecVars, connVars, eventVars, ctxVars,
                   upstreamVars>>

-----------------------------------------------------------------------------
Compress ==
    \/ ResumeOperation \/ DriveHead \/ InputExhausted
    \/ \E r \in Driver!Results : DriveStep(r)
    \/ DriveExhaust \/ BuffersExhausted
    \/ OperationPaused \/ OperationComplete
    \/ HeadPaused \/ HeadComplete \/ StreamFinished

Hand == NothingToSubmit \/ Submit \/ SubmitPostponed \/ BypassContext
Write == WriteByte \/ DropLink \/ WriteComplete \/ WriteBlocked \/ WriteAbsorbed
Fails == CompressionFails \/ WriteFails

Callback == Compress \/ Hand \/ Write
Upstream == \E n \in 0..MaxBytes, op \in request.ops : UpstreamData(n, op)

Next == Upstream \/ PostedWriteEvent \/ SocketWriteEvent \/ Callback \/ Fails

\* The worker process keeps executing a callback it is in, its event loop serves
\* the events that are due, and the client keeps reading.  Nothing is assumed of
\* upstream, which may stay silent for ever.
Fairness == WF_vars(Callback) /\ WF_vars(PostedWriteEvent) /\ WF_vars(SocketWriteEvent)

Spec == Init /\ [][Next]_vars /\ Fairness

-----------------------------------------------------------------------------
(* What the body filter promises.                                          *)

\* Every output buffer the module ever allocated is in exactly one of its three
\* chains, so none leaks and none is given out twice, and compress_buffers is a
\* hard limit.
BuffersConserved ==
    LET owned == free \o out \o busy IN
    /\ Len(owned) = allocated
    /\ ToSet(owned) = 1..allocated

\* While the codec is being driven no buffer it may be lent is still linked from
\* further down the filter chain: "this borrow must be the only access to that
\* region" (OutputBuffer::new).
LentBufferIsUnlinked == pc = "Drive" => ToSet(free) \cap ToSet(held) = {}

\* Between callbacks the connection is marked buffered by this module exactly
\* when it still has input to compress or an operation to complete; NGINX would
\* otherwise finalize the request too early, or never.
BufferedBitHonest ==
    pc = "Idle" => (gzipBit <=> input # <<>> \/ pendingOp # "None")

\* Work left for a later callback has something that will start that callback: a
\* posted write event, or a socket that will report room.  "Budget exhaustion
\* [...] resumes through NGINX's standard writer with NULL input on a later
\* event-loop turn."
PendingWorkHasWakeup == pc = "Idle" /\ gzipBit => posted \/ ~ready

\* It does where the filters behind this one add nothing and keep nothing back.
PlainWorkHasWakeup ==
    ~(request.framing \/ request.postpone \/ request.tls) => PendingWorkHasWakeup

\* The Server-Timing trailer is in place before the end of the response is given
\* to the filters that serialize trailers.
TrailerBeforeLast ==
    request.stats_mode = "server_timing" =>
        ((\E i \in DOMAIN held : LinkMark(buf, held[i]) = "Finish") => trailerSent)

\* The codec's output: what went down and what is still in output buffers.
BufferedBytes == {p \in OutputBufferIds \X (1..Capacity) : p[2] <= Len(buf[p[1]].data)}
CodecBytes == written + Cardinality(BufferedBytes)

\* The numbers of the bytes that are still pending, and how many the codec has taken.
PendingBytes == {n \in 1..MaxBytes : \E i \in DOMAIN input :
                                       /\ input[i].first <= n
                                       /\ n < input[i].first + input[i].size}
TakenBytes == BytesIn(accepted) - Cardinality(PendingBytes)

\* $compress_input_bytes and $compress_output_bytes miss nothing and count nothing
\* twice, through calls that are interrupted, resumed or fail half-way.
StatsExact ==
    request.stats_mode # "off" =>
        /\ stats.output + produced = CodecBytes
        /\ pc = "Idle" => stats.input = TakenBytes

\* The trailer carries the final totals, of the whole response, once.
TrailerTotals ==
    \A i \in DOMAIN trailers :
        /\ i = 1
        /\ trailers[i] # Unwritten =>
             trailers[i] = [input |-> BytesIn(accepted), output |-> CodecBytes]

\* The write filter is never called with nothing to write, which it answers by
\* failing the request.
WriterNeverRefuses == pc # "WriterError"

\* The driver is used as its contract demands: after an interruption the next
\* call continues the same buffer with the same operation and exactly the bytes
\* that were not consumed, before any later buffer is touched.
DriverProtocol == Driver!Init /\ [][Driver!Next]_(Driver!vars)

\* The stream that goes down to the connection.
Stream == INSTANCE OrderedStream WITH
    Boundaries <- {FlushMark, LastMark},
    LastItem <- LastMark,
    MaxItems <- MaxBytes + MaxArrivals,
    aborted <- pc \in {"Failed", "WriterError"}

\* Upstream's bytes and boundaries go down in order and exactly once, through
\* interrupted callbacks, exhausted buffers and partial writes.
Ordered == Stream!Safety

\* A flush, or the end of the response, and everything before it goes down
\* without waiting for more from upstream, as long as the client keeps reading.
BoundariesDelivered == Stream!BoundariesAreDelivered
=============================================================================
