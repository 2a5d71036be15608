------------------------- MODULE BodyFilter_proofs --------------------------
(***************************************************************************)
(* Proofs about the body filter's callback, for every number and size of   *)
(* output buffers, every allowance of a callback, every kind of request    *)
(* and every codec that the abstract adapter stands for.                   *)
(*                                                                         *)
(* First the steps.  The worker is in one phase of a callback at a time,   *)
(* and the driver has reported something that fits (PhaseInv).  An         *)
(* interrupted operation is the one of the head of the input, or the only  *)
(* thing left of a buffer that was consumed (ResumeInv); so what the       *)
(* filter passes to drive_input next is what its contract asks for.        *)
(*                                                                         *)
(* Then the chains: a buffer is in one of them at most (OwnInv), the rest  *)
(* of the filter chain holds the busy buffers and no others while nobody   *)
(* frames (LinkInv), every link that waits is alive (LiveInv), pending     *)
(* work has a wakeup (WakeInv), and a link that ends the response is       *)
(* handed over behind the trailer (MarkInv).                               *)
(***************************************************************************)
EXTENDS BodyFilter, ChainLemmas

-----------------------------------------------------------------------------
(* The driver.                                                             *)

\* The driver's proofs, under the bound of this module.
DP == INSTANCE StreamDriver_proofs WITH MaxLen <- MaxBytes

\* StreamDriver and StreamDriver_proofs are instantiated separately: their steps are
\* the same.
LEMMA SameSteps == [Driver!Next]_(Driver!vars) => [DP!Next]_(DP!vars)
<1> USE DEF Driver!Operation, DP!Operation, Driver!OutputBoundary, DP!OutputBoundary,
      Driver!StepState, DP!StepState, Driver!StepResult, DP!StepResult,
      Driver!WithinBuffers, DP!WithinBuffers, Driver!NotPremature, DP!NotPremature,
      Driver!NotStalled, DP!NotStalled, Driver!ValidProgress, DP!ValidProgress,
      Driver!CanStep, DP!CanStep, Driver!InputLimit, DP!InputLimit,
      Driver!RecordStep, DP!RecordStep, Driver!StepOperation, DP!StepOperation,
      Driver!BoundaryOf, DP!BoundaryOf, Driver!Emits, DP!Emits,
      Driver!Available, DP!Available, Driver!StepEnd, DP!StepEnd,
      Driver!NextOperation, DP!NextOperation, Driver!MayStep, DP!MayStep,
      Driver!AfterStep, DP!AfterStep, Driver!FreshBudget, DP!FreshBudget
<1>1. Driver!vars = DP!vars
  BY DEF Driver!vars, DP!vars
<1>2. ASSUME NEW r PROVE Driver!Step(r) <=> DP!Step(r)
  BY DEF Driver!Step, DP!Step
<1>3. ASSUME NEW r PROVE Driver!RejectStep(r) <=> DP!RejectStep(r)
  BY DEF Driver!RejectStep, DP!RejectStep
<1>4. Driver!Results = DP!Results
  BY DEF Driver!Results, DP!Results
<1>5. Driver!Exhaust <=> DP!Exhaust
  BY DEF Driver!Exhaust, DP!Exhaust
<1>6. Driver!OutputFailure <=> DP!OutputFailure
  BY DEF Driver!OutputFailure, DP!OutputFailure
<1>7. Driver!EndCallback <=> DP!EndCallback
  BY DEF Driver!EndCallback, DP!EndCallback
<1>8. Driver!Suspend <=> DP!Suspend
  BY DEF Driver!Suspend, DP!Suspend
<1>9. ASSUME NEW op, NEW n PROVE Driver!Drive(op, n) <=> DP!Drive(op, n)
  BY DEF Driver!Drive, DP!Drive
<1>10. ASSUME NEW op, NEW n PROVE Driver!Retry(op, n) <=> DP!Retry(op, n)
  BY DEF Driver!Retry, DP!Retry
<1>11. Driver!Iterate <=> DP!Iterate
  BY <1>2, <1>3, <1>4, <1>5, <1>6 DEF Driver!Iterate, DP!Iterate
<1>12. Driver!Operation = DP!Operation
  OBVIOUS
<1>13. Driver!Next <=> DP!Next
  BY <1>7, <1>8, <1>9, <1>10, <1>11, <1>12 DEF Driver!Next, DP!Next
<1> QED
  BY <1>13 DEF Driver!vars, DP!vars

\* The driver's inductive invariant survives whatever the filter does to the driver.
LEMMA DriverKeepsInv == ASSUME DP!DriverInv, [Driver!Next]_(Driver!vars) PROVE DP!DriverInv'
<1>1. [DP!Next]_(DP!vars)
  BY SameSteps
<1>2. DP!DriverAssumption
  BY FilterAssumption DEF DP!DriverAssumption
<1> QED
BY <1>1, <1>2, DP!NextDriverInv

\* The number of links ngx_chain_update_chains reclaims exists.
LEMMA DrainedFacts ==
    ASSUME NEW contents, NEW S, NEW chain \in Seq(S)
    PROVE  /\ Drained(contents, chain) \in 0..Len(chain)
           /\ \A i \in 1..Drained(contents, chain) : contents[chain[i]].data = <<>>
           /\ Drained(contents, chain) < Len(chain) =>
                contents[chain[Drained(contents, chain) + 1]].data # <<>>
<1> DEFINE P(n) == /\ \A i \in 1..n : contents[chain[i]].data = <<>>
                   /\ n < Len(chain) => contents[chain[n + 1]].data # <<>>
           T == {n \in 0..Len(chain) : n < Len(chain) => contents[chain[n + 1]].data # <<>>}
<1>1. Len(chain) \in Nat
  OBVIOUS
<1>2. T \subseteq Nat /\ Len(chain) \in T
  BY <1>1
<1>3. PICK n \in T : \A m \in T : n <= m
  BY <1>2, LeastNat
<1>4. n \in 0..Len(chain) /\ (n < Len(chain) => contents[chain[n + 1]].data # <<>>)
  BY <1>3
<1>5. \A i \in 1..n : i - 1 \notin T
  <2> HIDE DEF T
  <2> QED BY <1>1, <1>2, <1>3, <1>4
<1>6. \A i \in 1..n : contents[chain[i]].data = <<>>
  <2> TAKE i \in 1..n
  <2>1. i - 1 \in 0..Len(chain) /\ i - 1 < Len(chain) /\ (i - 1) + 1 = i
    BY <1>1, <1>4
  <2>2. i - 1 \notin T
    BY <1>5
  <2> QED BY <2>1, <2>2
<1>7. \E m \in 0..Len(chain) : P(m)
  BY <1>4, <1>6
<1>8. Drained(contents, chain) = CHOOSE m \in 0..Len(chain) : P(m)
  BY DEF Drained
<1> HIDE DEF P
<1>9. Drained(contents, chain) \in 0..Len(chain) /\ P(Drained(contents, chain))
  BY <1>7, <1>8
<1> QED
  BY <1>9 DEF P

-----------------------------------------------------------------------------
(* Phases, interruptions and the buffered bit.                             *)

\* Which reports of the driver the worker can be looking at in each phase.
PhaseInv ==
    /\ pc = "Drive" => state \in {"Running", "NeedsInput", "Flushed", "Finished",
                                  "BudgetExhausted", "OutputFailed"}
    /\ pc = "Compress" => state \in {"Idle", "NeedsInput", "Flushed", "Suspended"}
    /\ pc \notin {"Drive", "Compress", "Failed"} => state \in {"Idle", "Suspended", "Finished"}
    /\ done => state = "Finished" /\ pc \notin {"Drive", "Compress"}
    /\ state = "Finished" /\ pc # "Drive" => done
    /\ pc \in {"Bypass", "WriteRaw"} => done

\* An interrupted buffer is either still the head of the input, or only its operation
\* is left; and that is what the driver is working on.
ResumeInv ==
    /\ state = "Suspended" \/ pc = "Drive" =>
         IF pendingOp = "None"
         THEN input # <<>> /\ Head(input).op = operation /\ Head(input).size = len
         ELSE pendingOp = operation /\ len = 0
    /\ state = "Suspended" => offset = 0 /\ moved = 0
    /\ pendingOp # "None" => state = "Suspended" \/ pc \in {"Drive", "Failed"}

\* What upstream handed over and the codec has not completed.
Unfinished == input # <<>> \/ pendingOp # "None"

\* What is returned to NGINX, and with it the buffered bit, says whether there is any.
BitInv ==
    /\ pc \in {"Idle", "Write", "WriteRaw", "Absorb", "Bypass"} => (gzipBit <=> Unfinished)
    /\ pc = "Submit" => (pending <=> Unfinished)

\* What the input looks like behind an entry into the callback.
LEMMA EnterFacts ==
    ASSUME input \in Seq(UpstreamBuffer), NEW b \in UpstreamBuffer
    PROVE  /\ AppendLink(input, b) \in Seq(UpstreamBuffer)
           /\ AppendLink(input, b) # <<>>
           /\ input # <<>> => Head(AppendLink(input, b)) = Head(input)
           /\ \A i \in DOMAIN AppendLink(input, b) :
                \/ AppendLink(input, b)[i] = b
                \/ \E j \in DOMAIN input : AppendLink(input, b)[i] = input[j]
<1> DEFINE a == AppendLink(input, b)
<1>1. CASE \E i \in DOMAIN input : input[i].id = b.id
  BY <1>1 DEF AppendLink
<1>2. CASE ~\E i \in DOMAIN input : input[i].id = b.id
  <2>1. a = Append(input, b)
    BY <1>2 DEF AppendLink
  <2>2. /\ a \in Seq(UpstreamBuffer) /\ Len(a) = Len(input) + 1 /\ DOMAIN a = 1..(Len(input) + 1)
        /\ Len(input) \in Nat /\ DOMAIN input = 1..Len(input)
        /\ a[Len(input) + 1] = b
        /\ \A i \in 1..Len(input) : a[i] = input[i]
        /\ input # <<>> => Len(input) > 0 /\ Head(input) = input[1]
    BY <2>1
  <2> HIDE DEF a
  <2>3. a # <<>> /\ Head(a) = a[1]
    BY <2>2
  <2>4. input # <<>> => Head(a) = Head(input)
    BY <2>2, <2>3
  <2>5. ASSUME NEW i \in DOMAIN a
        PROVE  a[i] = b \/ \E j \in DOMAIN input : a[i] = input[j]
    <3>1. i = Len(input) + 1 \/ i \in DOMAIN input
      BY <2>2
    <3> QED
      BY <2>2, <3>1
  <2> QED
    BY <2>2, <2>3, <2>4, <2>5 DEF a
<1> QED
  BY <1>1, <1>2

\* Every step of the filter is one of the driver's, made as its contract demands, or
\* none.
LEMMA DriverMoves ==
    ASSUME TypeOK, PhaseInv, ResumeInv, Next
    PROVE  [Driver!Next]_(Driver!vars)
<1> USE DEF driverVars, Driver!vars
<1>1. ASSUME NEW op, NEW n, op \in Operation, n \in 0..MaxBytes, DriveInput(op, n),
             IF state = "Suspended" THEN Driver!Retry(op, n) ELSE state \in {"Idle", "NeedsInput", "Flushed"}
      PROVE Driver!Next
  BY <1>1 DEF DriveInput, Driver!Next, Driver!Drive, Driver!Retry, Operation, Driver!Operation
<1>2. ASSUME NEW p, ReturnPending(p) PROVE Driver!Next \/ UNCHANGED Driver!vars
  BY <1>2 DEF ReturnPending, Driver!Next
<1>3. CASE ResumeOperation
  <2>1. state = "Suspended" /\ pendingOp = operation /\ len = 0 /\ offset = 0 /\ moved = 0
    BY <1>3 DEF ResumeOperation, ResumeInv
  <2>2. pendingOp \in Operation /\ 0 \in 0..MaxBytes
    BY <1>3, FilterAssumption DEF ResumeOperation, TypeOK
  <2>3. DriveInput(pendingOp, 0)
    BY <1>3 DEF ResumeOperation
  <2>4. Driver!Retry(pendingOp, 0)
    BY <2>1, <2>3 DEF DriveInput, Driver!Retry
  <2> QED
    BY <1>1, <2>1, <2>2, <2>3, <2>4
<1>4. CASE DriveHead
  <2> DEFINE h == Head(input)
  <2>1. h \in UpstreamBuffer
    BY <1>4 DEF DriveHead, TypeOK
  <2>2. h.op \in Operation /\ h.size \in 0..MaxBytes
    BY <2>1 DEF UpstreamBuffer
  <2>3. DriveInput(h.op, h.size)
    BY <1>4 DEF DriveHead
  <2>4. state \in {"Idle", "NeedsInput", "Flushed", "Suspended"}
    BY <1>4 DEF DriveHead, PhaseInv
  <2>5. state = "Suspended" => h.op = operation /\ h.size = len /\ offset = 0 /\ moved = 0
    BY <1>4 DEF DriveHead, ResumeInv
  <2> HIDE DEF h
  <2>6. state = "Suspended" => Driver!Retry(h.op, h.size)
    BY <2>3, <2>5 DEF DriveInput, Driver!Retry
  <2> QED
    BY <1>1, <2>2, <2>3, <2>4, <2>6
<1>5. ASSUME NEW r \in Driver!Results, DriveStep(r) PROVE Driver!Next
  BY <1>5 DEF DriveStep, Driver!Next, Driver!Iterate
<1>6. CASE DriveExhaust \/ BuffersExhausted \/ CompressionFails
  BY <1>6 DEF DriveExhaust, BuffersExhausted, CompressionFails, Driver!Next, Driver!Iterate
<1>7. CASE InputExhausted \/ OperationPaused \/ HeadPaused \/ StreamFinished
  BY <1>2, <1>7 DEF InputExhausted, OperationPaused, HeadPaused, StreamFinished
<1>8. CASE OperationComplete \/ HeadComplete
  BY <1>8 DEF OperationComplete, HeadComplete
<1>9. CASE Upstream \/ PostedWriteEvent \/ SocketWriteEvent
  BY <1>9 DEF Upstream, UpstreamData, PostedWriteEvent, SocketWriteEvent
<1>10. CASE Hand
  BY <1>10 DEF Hand, NothingToSubmit, Submit, SubmitPostponed, BypassContext, Prepare, PreparedVars
<1>11. CASE Write \/ WriteFails
  BY <1>11 DEF Write, WriteFails, WriteByte, DropLink, WriteComplete, WriteBlocked, WriteAbsorbed
<1> QED
  BY <1>3, <1>4, <1>5, <1>6, <1>7, <1>8, <1>9, <1>10, <1>11 DEF Next, Callback, Compress, Fails

\* What every entry into the callback does to pc and to the pending input.
LEMMA EntryFacts ==
    ASSUME TypeOK, Upstream \/ PostedWriteEvent \/ SocketWriteEvent
    PROVE  /\ pc = "Idle"
           /\ UNCHANGED <<driverVars, chainVars, codecVars, gzipBit, pendingOp, done, pending, request,
                          trailerSent, trailers, statVars, writeBit, tlsBit, held, delivered, written>>
           /\ \/ pc' = "Idle" /\ UNCHANGED input /\ TRUE \notin {gzipBit, writeBit, tlsBit}
              \/ pc' = "Bypass" /\ done /\ UNCHANGED input
              \/ pc' = "Compress" /\ ~done /\ input' \in Seq(UpstreamBuffer)
                 /\ (input # <<>> => input' # <<>> /\ Head(input') = Head(input))
<1> USE DEF chainVars, codecVars, statVars, connVars, eventVars
<1>1. ASSUME NEW appended, appended \in Seq(UpstreamBuffer), EnterFilter(appended),
             input # <<>> => appended # <<>> /\ Head(appended) = Head(input)
      PROVE  \/ pc' = "Bypass" /\ done /\ UNCHANGED input
             \/ pc' = "Compress" /\ ~done /\ input' \in Seq(UpstreamBuffer)
                 /\ (input # <<>> => input' # <<>> /\ Head(input') = Head(input))
  BY <1>1 DEF EnterFilter
<1>2. input \in Seq(UpstreamBuffer)
  BY DEF TypeOK
<1>3. CASE PostedWriteEvent \/ SocketWriteEvent
  BY <1>1, <1>2, <1>3 DEF PostedWriteEvent, SocketWriteEvent, ReenterIfBuffered
<1>4. CASE Upstream
  <2>1. PICK n \in 0..MaxBytes, op \in request.ops : UpstreamData(n, op)
    BY <1>4 DEF Upstream
  <2> DEFINE new == [id |-> arrivals + 1, first |-> BytesIn(accepted) + 1, size |-> n, op |-> op]
  <2>2. new \in UpstreamBuffer
    <3>1. BytesIn(accepted) \in Nat
      <4>1. accepted \in Seq(Int)
        BY DEF TypeOK
      <4>2. {i \in DOMAIN accepted : accepted[i] > 0} \subseteq 1..Len(accepted)
        BY <4>1
      <4>3. IsFiniteSet({i \in DOMAIN accepted : accepted[i] > 0})
        BY <4>1, <4>2, FS_Interval, FS_Subset, LenProperties
      <4> QED
        BY <4>3, FS_CardinalityType DEF BytesIn
    <3>2. op \in Operation
      BY FilterAssumption DEF TypeOK, RequestKind
    <3>3. arrivals \in Nat /\ arrivals < MaxArrivals /\ n \in Nat
          /\ BytesIn(accepted) + 1 + n <= MaxBytes + 1
      BY <2>1, FilterAssumption DEF UpstreamData, TypeOK
    <3> QED
      BY <3>1, <3>2, <3>3, FilterAssumption DEF UpstreamBuffer
  <2> HIDE DEF new
  <2>3. \/ EnterFilter(AppendLink(input, new))
        \/ \E i \in DOMAIN input : EnterFilter(AppendLink(AppendLink(input, input[i]), new))
    BY <2>1 DEF UpstreamData, new
  <2>4. pc = "Idle" /\ UNCHANGED <<driverVars, chainVars, codecVars, gzipBit, pendingOp, done, pending, request,
                          trailerSent, trailers, statVars, writeBit, tlsBit, held, delivered, written>>
    BY <2>1 DEF UpstreamData, EnterFilter
  <2> DEFINE Entered == \/ pc' = "Bypass" /\ done /\ UNCHANGED input
                        \/ pc' = "Compress" /\ ~done /\ input' \in Seq(UpstreamBuffer)
                           /\ (input # <<>> => input' # <<>> /\ Head(input') = Head(input))
  <2>5. EnterFilter(AppendLink(input, new)) => Entered
    BY <1>1, <1>2, <2>2, EnterFacts
  <2>6. ASSUME NEW i \in DOMAIN input
        PROVE  AppendLink(AppendLink(input, input[i]), new) = AppendLink(input, new)
    <3>1. AppendLink(input, input[i]) = input
      BY DEF AppendLink
    <3> QED
      BY <3>1
  <2>7. EnterFilter(AppendLink(input, new))
    BY <2>3, <2>6
  <2>8. Entered
    BY <2>5, <2>7
  <2> QED
    BY <2>4, <2>8
<1> QED
  BY <1>3, <1>4

\* The end of compress().
LEMMA ReturnFacts ==
    ASSUME NEW p, ReturnPending(p)
    PROVE  /\ pc' = "Submit" /\ pending' = p
           /\ \/ state \in {"NeedsInput", "Flushed"} /\ state' = "Idle"
              \/ /\ state \in {"BudgetExhausted", "OutputFailed"} /\ state' = "Suspended"
                 /\ len' = len - offset /\ offset' = 0 /\ moved' = 0 /\ operation' = operation
              \/ state \in {"Idle", "Suspended", "Finished"} /\ UNCHANGED <<state, len, offset, moved, operation>>
BY DEF ReturnPending, Driver!EndCallback, Driver!Suspend, driverVars

\* The phases agree with the reports.
LEMMA PhaseStep ==
    ASSUME TypeOK, PhaseInv, ResumeInv, Next
    PROVE  PhaseInv'
<1> USE DEF PhaseInv, ctxVars, driverVars
<1>1. CASE Upstream \/ PostedWriteEvent \/ SocketWriteEvent
  <2>1. /\ pc = "Idle" /\ UNCHANGED <<state, done>>
        /\ pc' = "Idle" \/ (pc' = "Bypass" /\ done) \/ (pc' = "Compress" /\ ~done)
    BY <1>1, EntryFacts
  <2> QED
    BY <2>1
<1>2. CASE ResumeOperation \/ DriveHead
  BY <1>2 DEF ResumeOperation, DriveHead, DriveInput
<1>3. CASE InputExhausted
  BY <1>3, ReturnFacts DEF InputExhausted, ResumeInv
<1>4. ASSUME NEW r \in Driver!Results, DriveStep(r) PROVE PhaseInv'
  BY <1>4 DEF DriveStep, Driver!Step, Driver!AfterStep
<1>5. CASE DriveExhaust \/ BuffersExhausted \/ CompressionFails
  BY <1>5 DEF DriveExhaust, BuffersExhausted, CompressionFails, Driver!Exhaust, Driver!OutputFailure,
              Driver!RejectStep, Driver!MayStep
<1>6. CASE OperationPaused \/ HeadPaused \/ StreamFinished
  <2>1. pc = "Drive" /\ pc' = "Submit"
    BY <1>6, ReturnFacts DEF OperationPaused, HeadPaused, StreamFinished
  <2>2. CASE StreamFinished
    BY <2>1, <2>2, ReturnFacts DEF StreamFinished
  <2>3. CASE OperationPaused \/ HeadPaused
    <3>1. state' = "Suspended" /\ done' = done
      BY <2>3, ReturnFacts DEF OperationPaused, HeadPaused, Paused
    <3> QED
      BY <2>1, <3>1
  <2> QED
    BY <1>6, <2>2, <2>3
<1>7. CASE OperationComplete \/ HeadComplete
  BY <1>7 DEF OperationComplete, HeadComplete
<1>8. CASE Hand
  <2>1. /\ UNCHANGED <<state, done>>
        /\ \/ pc = "Submit" /\ pc' \in {"Idle", "Write", "Absorb", "WriterError"}
           \/ pc = "Bypass" /\ pc' \in {"WriteRaw", "WriterError"}
    BY <1>8 DEF Hand, NothingToSubmit, Submit, SubmitPostponed, BypassContext, Prepare, PreparedVars,
                CallDownstream
  <2> QED
    BY <2>1
<1>9. CASE Write \/ WriteFails
  <2>1. /\ UNCHANGED <<state, done>>
        /\ pc \in {"Write", "WriteRaw", "Absorb"} /\ pc' \in {pc, "Idle", "Failed"}
    BY <1>9 DEF Write, WriteFails, WriteByte, DropLink, WriteComplete, WriteBlocked, WriteAbsorbed,
                DownstreamReturns, Writing
  <2> QED
    BY <2>1
<1> QED
  BY <1>1, <1>2, <1>3, <1>4, <1>5, <1>6, <1>7, <1>8, <1>9 DEF Next, Callback, Compress, Fails

\* An interrupted operation is not forgotten.
LEMMA ResumeStep ==
    ASSUME TypeOK, PhaseInv, ResumeInv, Next
    PROVE  ResumeInv'
<1> USE DEF ResumeInv, ctxVars, driverVars
<1>1. CASE Upstream \/ PostedWriteEvent \/ SocketWriteEvent
  <2>1. pc = "Idle" /\ pc' # "Drive" /\ UNCHANGED <<state, operation, len, offset, moved, pendingOp>>
    BY <1>1, EntryFacts
  <2>2. input # <<>> => input' # <<>> /\ Head(input') = Head(input)
    BY <1>1, EntryFacts
  <2> QED
    BY <2>1, <2>2
<1>2. CASE ResumeOperation \/ DriveHead
  BY <1>2 DEF ResumeOperation, DriveHead, DriveInput
<1>3. CASE InputExhausted
  BY <1>3, ReturnFacts DEF InputExhausted, PhaseInv
<1>4. ASSUME NEW r \in Driver!Results, DriveStep(r) PROVE ResumeInv'
  BY <1>4 DEF DriveStep, Driver!Step, Driver!AfterStep
<1>5. CASE DriveExhaust \/ BuffersExhausted \/ CompressionFails
  BY <1>5 DEF DriveExhaust, BuffersExhausted, CompressionFails, Driver!Exhaust, Driver!OutputFailure,
              Driver!RejectStep, Driver!MayStep
<1>6. CASE OperationPaused
  <2>1. len \in Nat /\ offset \in 0..len
    BY FilterAssumption DEF TypeOK, Driver!TypeOK
  <2>2. state' = "Suspended" /\ len' = len - offset /\ offset' = 0 /\ moved' = 0 /\ operation' = operation
    BY <1>6, ReturnFacts DEF OperationPaused, Paused
  <2> QED
    BY <1>6, <2>1, <2>2 DEF OperationPaused
<1>7. CASE HeadPaused
  <2>1. len \in Nat /\ offset \in 0..len /\ input \in Seq(UpstreamBuffer) /\ operation \in Operation
    BY FilterAssumption DEF TypeOK, Driver!TypeOK, Driver!Operation, Operation
  <2>2. state' = "Suspended" /\ len' = len - offset /\ offset' = 0 /\ moved' = 0 /\ operation' = operation
    BY <1>7, ReturnFacts DEF HeadPaused, Paused
  <2>3. input # <<>> /\ Head(input).op = operation /\ Head(input).size = len /\ Len(input) > 0
    BY <1>7, <2>1 DEF HeadPaused
  <2>4. CASE Consumed
    BY <1>7, <2>1, <2>2, <2>4 DEF HeadPaused, Consumed, Operation
  <2>5. CASE ~Consumed
    <3> DEFINE rest == [input EXCEPT ![1].first = @ + offset, ![1].size = @ - offset]
    <3>1. input' = rest /\ pendingOp' = "None"
      BY <1>7, <2>5 DEF HeadPaused
    <3>2. input[1] = Head(input) /\ input[1] \in UpstreamBuffer
      BY <2>1, <2>3
    <3>3. rest[1].op = operation /\ rest[1].size = len - offset
      BY <2>1, <2>3, <3>2 DEF UpstreamBuffer
    <3>4. rest # <<>> /\ Head(rest) = rest[1]
      BY <2>1, <2>3
    <3> HIDE DEF rest
    <3> QED
      BY <2>2, <3>1, <3>3, <3>4
  <2> QED
    BY <2>4, <2>5
<1>8. CASE StreamFinished
  BY <1>8, ReturnFacts DEF StreamFinished
<1>9. CASE OperationComplete \/ HeadComplete
  BY <1>9 DEF OperationComplete, HeadComplete
<1>10. CASE Hand
  <2>1. UNCHANGED <<state, operation, len, offset, moved, pendingOp, input>> /\ pc' # "Drive" /\ pc \in {"Submit", "Bypass"}
  BY <1>10 DEF Hand, NothingToSubmit, Submit, SubmitPostponed, BypassContext, Prepare, PreparedVars,
              CallDownstream
  <2> QED BY <2>1
<1>11. CASE Write \/ WriteFails
  <2>1. UNCHANGED <<state, operation, len, offset, moved, pendingOp, input>> /\ pc' # "Drive" /\ pc \in {"Write", "WriteRaw", "Absorb"}
  BY <1>11 DEF Write, WriteFails, WriteByte, DropLink, WriteComplete, WriteBlocked, WriteAbsorbed,
              DownstreamReturns, Writing
  <2> QED BY <2>1
<1> QED
  BY <1>1, <1>2, <1>3, <1>4, <1>5, <1>6, <1>7, <1>8, <1>9, <1>10, <1>11 DEF Next, Callback, Compress, Fails

\* The buffered bit stays honest.
LEMMA BitStep ==
    ASSUME TypeOK, PhaseInv, ResumeInv, BitInv, Next
    PROVE  BitInv'
<1> USE DEF BitInv, Unfinished, ctxVars, driverVars, eventVars
<1>1. CASE Upstream \/ PostedWriteEvent \/ SocketWriteEvent
  <2>1. /\ pc = "Idle" /\ UNCHANGED <<gzipBit, pendingOp>>
        /\ (pc' = "Idle" /\ UNCHANGED input) \/ (pc' = "Bypass" /\ UNCHANGED input) \/ pc' = "Compress"
    BY <1>1, EntryFacts
  <2> QED
    BY <2>1
<1>2. CASE ResumeOperation \/ DriveHead
  BY <1>2 DEF ResumeOperation, DriveHead, DriveInput
<1>3. CASE InputExhausted
  BY <1>3, ReturnFacts DEF InputExhausted
<1>4. ASSUME NEW r \in Driver!Results, DriveStep(r) PROVE BitInv'
  BY <1>4 DEF DriveStep
<1>5. CASE DriveExhaust \/ BuffersExhausted \/ CompressionFails
  BY <1>5 DEF DriveExhaust, BuffersExhausted, CompressionFails
<1>6. CASE OperationPaused \/ StreamFinished
  <2>1. CASE OperationPaused
    <3>1. pc' = "Submit" /\ pending' = TRUE /\ pendingOp # "None" /\ pendingOp' = pendingOp
      BY <2>1, ReturnFacts DEF OperationPaused
    <3> QED
      BY <3>1
  <2>2. CASE StreamFinished
    <3>1. pc' = "Submit" /\ pending' = FALSE /\ pendingOp' = "None" /\ input' = <<>>
      BY <2>2, ReturnFacts DEF StreamFinished
    <3> QED
      BY <3>1
  <2> QED
    BY <1>6, <2>1, <2>2
<1>7. CASE HeadPaused
  <2>1. input \in Seq(UpstreamBuffer) /\ operation \in Operation /\ input # <<>>
    BY <1>7 DEF TypeOK, Driver!TypeOK, Driver!Operation, Operation, ResumeInv, HeadPaused
  <2>2. pc' = "Submit" /\ pending' = TRUE
    BY <1>7, ReturnFacts DEF HeadPaused
  <2>3. CASE Consumed
    BY <1>7, <2>1, <2>2, <2>3 DEF HeadPaused, Operation
  <2>4. CASE ~Consumed
    <3>1. input' = [input EXCEPT ![1].first = @ + offset, ![1].size = @ - offset]
      BY <1>7, <2>4 DEF HeadPaused
    <3>2. input' # <<>>
      BY <2>1, <3>1
    <3> QED
      BY <2>2, <3>2
  <2> QED
    BY <2>3, <2>4
<1>8. CASE OperationComplete \/ HeadComplete
  BY <1>8 DEF OperationComplete, HeadComplete
<1>9. CASE Hand
  <2>1. /\ UNCHANGED <<input, pendingOp>>
        /\ \/ pc = "Submit" /\ gzipBit' = pending
              /\ pc' \in {"Idle", "Write", "Absorb", "WriterError"}
           \/ pc = "Bypass" /\ gzipBit' = gzipBit /\ pc' \in {"WriteRaw", "WriterError"}
    BY <1>9 DEF Hand, NothingToSubmit, Submit, SubmitPostponed, BypassContext, Prepare, PreparedVars,
                CallDownstream
  <2> QED
    BY <2>1
<1>10. CASE Write \/ WriteFails
  <2>1. /\ UNCHANGED <<input, pendingOp, gzipBit>>
        /\ pc \in {"Write", "WriteRaw", "Absorb"} /\ pc' \in {pc, "Idle", "Failed"}
    BY <1>10 DEF Write, WriteFails, WriteByte, DropLink, WriteComplete, WriteBlocked, WriteAbsorbed,
                DownstreamReturns, Writing
  <2> QED
    BY <2>1
<1> QED
  BY <1>1, <1>2, <1>3, <1>4, <1>5, <1>6, <1>7, <1>8, <1>9, <1>10 DEF Next, Callback, Compress, Fails

-----------------------------------------------------------------------------
(* Types.                                                                  *)

\* TypeOK, in the parts that different actions disturb.
CallbackTyped ==
    /\ pc \in {"Idle", "Compress", "Drive", "Submit", "Bypass", "Write", "WriteRaw",
               "Absorb", "Failed", "WriterError"}
    /\ request \in Requests
    /\ input \in Seq(UpstreamBuffer)
    /\ \A i \in DOMAIN input : input[i].first + input[i].size <= MaxBytes + 1
    /\ pendingOp \in Operation \cup {"None"}

FlagsTyped ==
    /\ {done, trailerSent, pending, sealed} \subseteq BOOLEAN
    /\ {gzipBit, writeBit, tlsBit, ready, room, posted} \subseteq BOOLEAN

StatsTyped == stats \in [input : Nat, output : Nat] /\ produced \in Nat

ChainsTyped ==
    /\ allocated \in 0..BufferCount
    /\ {free, out, busy} \subseteq Seq(OutputBufferIds)
    /\ buf \in [OutputBufferIds -> [data : Seq(Int), mark : OutputBoundary]]
    /\ \A b \in OutputBufferIds : Len(buf[b].data) <= Capacity
    /\ held \in Seq(OutputBufferIds \cup {FrameLink})

ItemsTyped ==
    /\ {backlog, delivered, accepted} \subseteq Seq(Int)
    /\ written \in Nat
    /\ arrivals \in 0..MaxArrivals

\* The parts make up the whole, in a state ...
LEMMA TypeParts == TypeOK <=> /\ CallbackTyped /\ FlagsTyped /\ StatsTyped /\ ChainsTyped
                             /\ ItemsTyped /\ Driver!TypeOK
BY DEF TypeOK, CallbackTyped, FlagsTyped, StatsTyped, ChainsTyped, ItemsTyped

\* ... and in the next one.
LEMMA TypePartsNext ==
    ASSUME CallbackTyped', FlagsTyped', StatsTyped', ChainsTyped', ItemsTyped', Driver!TypeOK'
    PROVE  TypeOK'
BY DEF TypeOK, CallbackTyped, FlagsTyped, StatsTyped, ChainsTyped, ItemsTyped

\* The helpers on items of a stream return what their names say.
LEMMA BytesInNat ==
    ASSUME NEW s \in Seq(Int)
    PROVE  BytesIn(s) \in Nat
<1>1. {i \in DOMAIN s : s[i] > 0} \subseteq 1..Len(s) /\ Len(s) \in Nat
  OBVIOUS
<1>2. IsFiniteSet({i \in DOMAIN s : s[i] > 0})
  BY <1>1, FS_Interval, FS_Subset
<1> QED
  BY <1>2, FS_CardinalityType DEF BytesIn

\* So does Run ...
LEMMA RunFacts ==
    ASSUME NEW f \in Int, NEW n \in Nat
    PROVE  Run(f, n) \in Seq(Int) /\ Len(Run(f, n)) = n
BY DEF Run

\* ... and MarkOf.
LEMMA MarkOfType ==
    ASSUME NEW op
    PROVE  MarkOf(op) \in Seq(Int)
BY DEF MarkOf, FlushMark, LastMark

\* An iteration of the driver: the lent buffer and what goes into it.
LEMMA LendFacts ==
    ASSUME TypeOK, CanLend
    PROVE  /\ Lent \in OutputBufferIds
           /\ FreeAfterLending \in Seq(OutputBufferIds)
           /\ (IF free = <<>> THEN allocated + 1 ELSE allocated) \in 0..BufferCount
<1>1. /\ allocated \in 0..BufferCount /\ free \in Seq(OutputBufferIds)
      /\ BufferCount \in Nat
  BY FilterAssumption DEF TypeOK
<1>2. CASE free # <<>>
  BY <1>1, <1>2 DEF Lent, FreeAfterLending
<1>3. CASE free = <<>>
  BY <1>1, <1>3 DEF Lent, FreeAfterLending, CanLend, OutputBufferIds
<1> QED
  BY <1>2, <1>3

\* What an iteration of the driver puts into the lent buffer and leaves in the codec.
LEMMA StepFacts ==
    ASSUME TypeOK, PhaseInv, ResumeInv, NEW r \in Driver!Results, DriveStep(r)
    PROVE  LET op == Driver!NextOperation
               holds == CodecHolds(op, Driver!StepEnd - offset, r.consumed)
               b == BoundaryOf(op, r.state)
           IN /\ CanLend
              /\ r.consumed \in Nat /\ r.produced \in Nat /\ r.produced <= Capacity
              /\ b \in OutputBoundary
              /\ holds \in Seq(Int) /\ r.produced <= Len(holds)
              /\ SubSeq(holds, 1, r.produced) \in Seq(Int)
              /\ Len(SubSeq(holds, 1, r.produced)) = r.produced
              /\ SubSeq(holds, r.produced + 1, Len(holds)) \in Seq(Int)
<1> DEFINE op == Driver!NextOperation
           avail == Driver!StepEnd - offset
           b == BoundaryOf(op, r.state)
           holds == CodecHolds(op, avail, r.consumed)
<1>1. /\ operation \in Operation /\ len \in Nat /\ offset \in 0..len
      /\ budget.bytes \in Nat /\ backlog \in Seq(Int) /\ input \in Seq(UpstreamBuffer)
  BY FilterAssumption DEF TypeOK, Driver!TypeOK, Driver!Operation, Operation, Driver!WorkBudget
<1>2. avail \in Nat
  BY <1>1 DEF Driver!StepEnd, Driver!InputLimit, Driver!Available
<1>3. /\ r.consumed \in Nat /\ r.produced \in Nat
      /\ Capacity \in Nat
  BY <1>2, FilterAssumption DEF Driver!Results, Driver!StepResult
<1>4. r.produced <= Capacity
  BY DEF DriveStep, Driver!Step, Driver!ValidProgress, Driver!WithinBuffers
<1>5. op \in Operation
  BY <1>1 DEF Driver!NextOperation, Driver!StepOperation, Operation
<1>6. b \in OutputBoundary
  BY <1>5 DEF BoundaryOf, Operation, OutputBoundary
<1>7. Chunk(r.consumed) \in Seq(Int)
  <2>1. CASE pendingOp = "None"
    <3>1. pc = "Drive" /\ input # <<>>
      BY <2>1 DEF ResumeInv, DriveStep
    <3>2. Head(input) \in UpstreamBuffer
      BY <1>1, <3>1
    <3>3. Head(input).first \in Nat
      BY <3>2, FilterAssumption DEF UpstreamBuffer
    <3>4. Head(input).first + offset \in Int
      BY <1>1, <3>3
    <3>5. Run(Head(input).first + offset, r.consumed) \in Seq(Int)
      BY <1>3, <3>4, RunFacts
    <3> QED
      BY <2>1, <3>5 DEF Chunk
  <2>2. CASE pendingOp # "None"
    BY <2>2 DEF Chunk
  <2> QED
    BY <2>1, <2>2
<1>8. holds \in Seq(Int)
  BY <1>1, <1>7 DEF CodecHolds, Trailer
<1>9. CanLend /\ AdapterAnswer(op, avail, r)
  BY DEF DriveStep
<1>10. r.produced <= Len(holds)
  BY <1>9 DEF AdapterAnswer
<1> HIDE DEF holds, b, op, avail
<1>11. /\ SubSeq(holds, 1, r.produced) \in Seq(Int)
       /\ Len(SubSeq(holds, 1, r.produced)) = r.produced
       /\ SubSeq(holds, r.produced + 1, Len(holds)) \in Seq(Int)
  BY <1>3, <1>8, <1>10
<1> QED
  BY <1>3, <1>4, <1>6, <1>8, <1>9, <1>10, <1>11 DEF holds, b, op, avail

\* Reversing needs no distinct elements to stay within a set.
LEMMA ReverseType ==
    ASSUME NEW S, NEW s \in Seq(S)
    PROVE  Reverse(s) \in Seq(S)
BY DEF Reverse

\* ngx_chain_update_chains moves links between chains and nothing else.
LEMMA UpdateFacts ==
    ASSUME ChainsTyped, UpdateChains
    PROVE  LET chain == busy \o out
               n == Drained(buf, chain)
           IN /\ chain \in Seq(OutputBufferIds)
              /\ Len(chain) = Len(busy) + Len(out)
              /\ n \in 0..Len(chain)
              /\ free' = Reverse(SubSeq(chain, 1, n)) \o free
              /\ busy' = SubSeq(chain, n + 1, Len(chain))
              /\ out' = <<>>
              /\ {free', out', busy'} \subseteq Seq(OutputBufferIds)
              /\ UNCHANGED <<allocated, buf>>
<1> DEFINE chain == busy \o out
           n == Drained(buf, chain)
<1>1. chain \in Seq(OutputBufferIds) /\ Len(chain) = Len(busy) + Len(out)
  BY DEF ChainsTyped
<1>2. n \in 0..Len(chain)
  BY <1>1, DrainedFacts
<1>3. /\ free' = Reverse(SubSeq(chain, 1, n)) \o free
      /\ busy' = SubSeq(chain, n + 1, Len(chain))
      /\ out' = <<>>
      /\ UNCHANGED <<allocated, buf>>
  BY DEF UpdateChains
<1> HIDE DEF chain, n
<1>4. SubSeq(chain, 1, n) \in Seq(OutputBufferIds) /\ busy' \in Seq(OutputBufferIds)
  BY <1>1, <1>2, <1>3
<1>5. Reverse(SubSeq(chain, 1, n)) \in Seq(OutputBufferIds)
  BY <1>4, ReverseType
<1>6. free' \in Seq(OutputBufferIds)
  BY <1>3, <1>5 DEF ChainsTyped
<1> QED
  BY <1>1, <1>2, <1>3, <1>4, <1>6 DEF chain, n

\* One more buffer from upstream.
LEMMA ArrivalFacts ==
    ASSUME TypeOK, NEW n \in 0..MaxBytes, NEW op \in request.ops, UpstreamData(n, op)
    PROVE  /\ ~Ended
           /\ op \in Operation
           /\ accepted' = accepted \o Run(BytesIn(accepted) + 1, n) \o MarkOf(op)
           /\ accepted' \in Seq(Int)
           /\ arrivals' \in 0..MaxArrivals
           /\ \A i \in DOMAIN input' :
                \/ \E j \in DOMAIN input : input'[i] = input[j]
                \/ input'[i].op = op /\ input'[i].first + input'[i].size <= MaxBytes + 1
<1> DEFINE new == [id |-> arrivals + 1, first |-> BytesIn(accepted) + 1, size |-> n, op |-> op]
<1>1. /\ accepted \in Seq(Int) /\ input \in Seq(UpstreamBuffer) /\ arrivals \in 0..MaxArrivals
      /\ MaxArrivals \in Nat /\ MaxBytes \in Nat
  BY FilterAssumption DEF TypeOK
<1>2. BytesIn(accepted) \in Nat
  BY <1>1, BytesInNat
<1>3. op \in Operation
  BY FilterAssumption DEF TypeOK, RequestKind
<1>4. /\ ~Ended /\ arrivals < MaxArrivals /\ arrivals' = arrivals + 1
      /\ BytesIn(accepted) + 1 + n <= MaxBytes + 1
      /\ accepted' = accepted \o Run(BytesIn(accepted) + 1, n) \o MarkOf(op)
      /\ \/ EnterFilter(AppendLink(input, new))
         \/ \E i \in DOMAIN input : EnterFilter(AppendLink(AppendLink(input, input[i]), new))
  BY DEF UpstreamData
<1>5. accepted' \in Seq(Int)
  <2>1. Run(BytesIn(accepted) + 1, n) \in Seq(Int) /\ MarkOf(op) \in Seq(Int)
    BY <1>2, RunFacts, MarkOfType, SMTT(30)
  <2> QED
    BY <1>1, <1>4, <2>1
<1>6. new \in UpstreamBuffer
  BY <1>1, <1>2, <1>3, <1>4 DEF UpstreamBuffer
<1>7. new.op = op /\ new.first + new.size <= MaxBytes + 1
  BY <1>4
<1> HIDE DEF new
<1>8. ASSUME NEW i \in DOMAIN input
      PROVE  AppendLink(AppendLink(input, input[i]), new) = AppendLink(input, new)
  <2>1. AppendLink(input, input[i]) = input
    BY DEF AppendLink
  <2> QED
    BY <2>1
<1>9. EnterFilter(AppendLink(input, new))
  BY <1>4, <1>8
<1>10. input' = input \/ input' = AppendLink(input, new)
  BY <1>9 DEF EnterFilter
<1>11. \A i \in DOMAIN input' : (\E j \in DOMAIN input : input'[i] = input[j]) \/ input'[i] = new
  BY <1>1, <1>6, <1>10, EnterFacts
<1> QED
  BY <1>1, <1>3, <1>4, <1>5, <1>7, <1>11, SMTT(30)

\* The unread rest of an upstream buffer.
LEMMA RestFacts ==
    ASSUME NEW g \in UpstreamBuffer, NEW k \in 0..g.size, g.first + g.size <= MaxBytes + 1
    PROVE  LET h == [g EXCEPT !.first = @ + k, !.size = @ - k]
           IN h \in UpstreamBuffer /\ h.first + h.size <= MaxBytes + 1
<1> DEFINE h == [g EXCEPT !.first = @ + k, !.size = @ - k]
<1>1. /\ g.first \in Nat /\ g.first >= 1 /\ g.size \in Nat /\ g.size <= MaxBytes /\ MaxBytes \in Nat
      /\ k \in Nat /\ k <= g.size /\ g.id \in 1..MaxArrivals /\ g.op \in Operation
  BY FilterAssumption DEF UpstreamBuffer
<1>2. h.first = g.first + k /\ h.size = g.size - k /\ h.id = g.id /\ h.op = g.op
  BY DEF UpstreamBuffer
<1>3. g.first + k \in 1..(MaxBytes + 1) /\ g.size - k \in 0..MaxBytes
  BY <1>1
<1>5. h \in UpstreamBuffer
  BY <1>3 DEF UpstreamBuffer
<1> HIDE DEF h
<1> QED
  BY <1>1, <1>2, <1>5 DEF h

\* Each part of TypeOK is preserved: the callback and the pending input,
LEMMA CallbackTypedStep ==
    ASSUME TypeOK, PhaseInv, ResumeInv, Next
    PROVE  CallbackTyped'
<1> USE DEF ctxVars, driverVars
<1>0. CallbackTyped
  BY TypeParts
<1> DEFINE Fits(s) == s \in Seq(UpstreamBuffer) /\ \A i \in DOMAIN s : s[i].first + s[i].size <= MaxBytes + 1
           Stages == {"Idle", "Compress", "Drive", "Submit", "Bypass", "Write", "WriteRaw",
               "Absorb", "Failed", "WriterError"}
<1>s. SUFFICES pc' \in Stages /\ request' = request /\ Fits(input') /\ pendingOp' \in Operation \cup {"None"}
  BY <1>0 DEF CallbackTyped
<1>a. pc \in Stages /\ Fits(input) /\ pendingOp \in Operation \cup {"None"}
  BY <1>0 DEF CallbackTyped
<1>b. input # <<>> => Fits(Tail(input))
  <2> SUFFICES ASSUME input # <<>> PROVE Fits(Tail(input))
    OBVIOUS
  <2> DEFINE t == Tail(input)
  <2>1. t \in Seq(UpstreamBuffer) /\ DOMAIN t = 1..(Len(input) - 1) /\ Len(input) \in Nat /\ DOMAIN input = 1..Len(input)
        /\ \A i \in 1..(Len(input) - 1) : t[i] = input[i + 1]
    BY <1>a
  <2> HIDE DEF t
  <2>2. \A i \in DOMAIN t : i + 1 \in DOMAIN input /\ t[i] = input[i + 1]
    BY <2>1
  <2> QED
    BY <1>a, <2>1, <2>2 DEF t
<1> HIDE DEF Fits, Stages
<1>1. CASE Upstream \/ PostedWriteEvent \/ SocketWriteEvent
  <2>1. request' = request /\ pendingOp' = pendingOp /\ pc' \in {"Idle", "Bypass", "Compress"}
        /\ (input' = input \/ input' \in Seq(UpstreamBuffer))
    BY <1>1, EntryFacts
  <2>2. CASE Upstream
    <3>1. PICK n \in 0..MaxBytes, op \in request.ops : UpstreamData(n, op)
      BY <2>2 DEF Upstream
    <3>2. \A i \in DOMAIN input' :
                \/ \E j \in DOMAIN input : input'[i] = input[j]
                \/ input'[i].op = op /\ input'[i].first + input'[i].size <= MaxBytes + 1
      BY <3>1, ArrivalFacts
    <3>3. Fits(input')
      BY <1>a, <2>1, <3>2 DEF Fits
    <3> QED
      BY <1>a, <2>1, <3>3 DEF Stages
  <2>3. CASE PostedWriteEvent \/ SocketWriteEvent
    <3>1. input' = input
      BY <2>3 DEF PostedWriteEvent, SocketWriteEvent, ReenterIfBuffered, EnterFilter
    <3> QED
      BY <1>a, <2>1, <3>1 DEF Stages
  <2> QED
    BY <1>1, <2>2, <2>3
<1>2. CASE ResumeOperation \/ DriveHead
  BY <1>2, <1>a DEF ResumeOperation, DriveHead, DriveInput, Stages
<1>3. CASE InputExhausted
  BY <1>3, <1>a, ReturnFacts DEF InputExhausted, Stages
<1>4. ASSUME NEW r \in Driver!Results, DriveStep(r)
      PROVE  pc' \in Stages /\ request' = request /\ Fits(input') /\ pendingOp' \in Operation \cup {"None"}
  BY <1>4, <1>a DEF DriveStep, Stages
<1>5. CASE DriveExhaust \/ BuffersExhausted \/ CompressionFails
  BY <1>5, <1>a DEF DriveExhaust, BuffersExhausted, CompressionFails, Stages
<1>6. CASE OperationPaused
  <2>1. pc' = "Submit"
    BY <1>6, ReturnFacts DEF OperationPaused
  <2> QED
    BY <1>6, <1>a, <2>1 DEF OperationPaused, Stages
<1>7. CASE StreamFinished
  <2>1. pc' = "Submit"
    BY <1>7, ReturnFacts DEF StreamFinished
  <2>2. Fits(<<>>)
    BY DEF Fits
  <2> QED
    BY <1>7, <2>1, <2>2 DEF StreamFinished, Stages
<1>8. CASE HeadPaused
  <2>1. pc' = "Submit"
    BY <1>8, ReturnFacts DEF HeadPaused
  <2>2. input # <<>> /\ operation \in Operation /\ Head(input).size = len /\ len \in Nat /\ offset \in 0..len
    BY <1>8, FilterAssumption DEF HeadPaused, ResumeInv, TypeOK, Driver!TypeOK, Driver!Operation, Operation
  <2>3. CASE Consumed
    BY <1>8, <1>b, <2>1, <2>2, <2>3 DEF HeadPaused, Stages
  <2>4. CASE ~Consumed
    <3> DEFINE rest == [input EXCEPT ![1].first = @ + offset, ![1].size = @ - offset]
               h == [input[1] EXCEPT !.first = @ + offset, !.size = @ - offset]
    <3>1. input \in Seq(UpstreamBuffer) /\ Len(input) \in Nat /\ Len(input) > 0 /\ input[1] = Head(input)
          /\ input[1] \in UpstreamBuffer
          /\ \A i \in DOMAIN input : input[i].first + input[i].size <= MaxBytes + 1
          /\ DOMAIN input = 1..Len(input)
      BY <1>a, <2>2 DEF Fits
    <3>2. /\ input[1].first \in Nat /\ input[1].size = len /\ input[1].size <= MaxBytes /\ input[1].id \in 1..MaxArrivals
          /\ input[1].first >= 1
          /\ input[1].op \in Operation
      BY <2>2, <3>1, FilterAssumption, SMTT(30) DEF UpstreamBuffer
    <3>3. input[1].first + len <= MaxBytes + 1
      BY <3>1, <3>2
    <3>5. h \in UpstreamBuffer /\ h.first + h.size <= MaxBytes + 1
      BY <2>2, <3>1, <3>2, <3>3, RestFacts
    <3>6. rest = [input EXCEPT ![1] = h]
      BY <3>1
    <3> HIDE DEF h
    <3>7. [input EXCEPT ![1] = h] \in Seq(UpstreamBuffer) /\ DOMAIN [input EXCEPT ![1] = h] = DOMAIN input
          /\ \A i \in DOMAIN input : [input EXCEPT ![1] = h][i] = IF i = 1 THEN h ELSE input[i]
      BY <3>1, <3>5
    <3>8. Fits(rest)
      BY <3>1, <3>5, <3>6, <3>7 DEF Fits
    <3> QED
      BY <1>8, <2>1, <2>4, <3>8 DEF HeadPaused, Stages
  <2> QED
    BY <2>3, <2>4
<1>9. CASE OperationComplete \/ HeadComplete
  <2>1. pc = "Drive"
    BY <1>9 DEF OperationComplete, HeadComplete
  <2> QED
    BY <1>9, <1>a, <1>b, <2>1 DEF OperationComplete, HeadComplete, Stages, ResumeInv
<1>10. CASE Hand
  <2>1. UNCHANGED <<request, input, pendingOp>>
        /\ pc' \in {"Idle", "Write", "Absorb", "WriterError", "WriteRaw"}
    BY <1>10 DEF Hand, NothingToSubmit, Submit, SubmitPostponed, BypassContext, Prepare, PreparedVars,
                CallDownstream
  <2> QED
    BY <1>a, <2>1 DEF Stages
<1>11. CASE Write \/ WriteFails
  <2>1. UNCHANGED <<request, input, pendingOp>>
        /\ pc' \in {pc, "Idle", "Failed"}
    BY <1>11 DEF Write, WriteFails, WriteByte, DropLink, WriteComplete, WriteBlocked, WriteAbsorbed,
                DownstreamReturns, Writing
  <2> QED
    BY <1>a, <2>1 DEF Stages
<1> QED
  BY <1>1, <1>2, <1>3, <1>4, <1>5, <1>6, <1>7, <1>8, <1>9, <1>10, <1>11 DEF Next, Callback, Compress, Fails

\* the flags,
LEMMA FlagsTypedStep ==
    ASSUME TypeOK, Next
    PROVE  FlagsTyped'
<1> USE DEF ctxVars, driverVars, connVars, eventVars, codecVars
<1> DEFINE flags == {done, trailerSent, pending, sealed, gzipBit, writeBit, tlsBit, ready, room, posted}
<1>0. /\ done \in BOOLEAN /\ trailerSent \in BOOLEAN /\ pending \in BOOLEAN /\ sealed \in BOOLEAN
      /\ gzipBit \in BOOLEAN /\ writeBit \in BOOLEAN /\ tlsBit \in BOOLEAN /\ ready \in BOOLEAN
      /\ room \in BOOLEAN /\ posted \in BOOLEAN
  BY DEF TypeOK
<1>s. SUFFICES /\ done' \in BOOLEAN /\ trailerSent' \in BOOLEAN /\ pending' \in BOOLEAN /\ sealed' \in BOOLEAN
               /\ gzipBit' \in BOOLEAN /\ writeBit' \in BOOLEAN /\ tlsBit' \in BOOLEAN /\ ready' \in BOOLEAN
               /\ room' \in BOOLEAN /\ posted' \in BOOLEAN
  BY DEF FlagsTyped
<1>1. CASE Upstream
  BY <1>0, <1>1 DEF Upstream, UpstreamData
<1>2. CASE PostedWriteEvent \/ SocketWriteEvent
  BY <1>0, <1>2 DEF PostedWriteEvent, SocketWriteEvent
<1>3. CASE ResumeOperation \/ DriveHead
  BY <1>0, <1>3 DEF ResumeOperation, DriveHead, DriveInput
<1>4. CASE InputExhausted \/ OperationPaused \/ HeadPaused \/ StreamFinished
  BY <1>0, <1>4, ZenonT(60) DEF InputExhausted, OperationPaused, HeadPaused, StreamFinished, ReturnPending
<1>5. ASSUME NEW r \in Driver!Results, DriveStep(r)
      PROVE  /\ done' \in BOOLEAN /\ trailerSent' \in BOOLEAN /\ pending' \in BOOLEAN /\ sealed' \in BOOLEAN
               /\ gzipBit' \in BOOLEAN /\ writeBit' \in BOOLEAN /\ tlsBit' \in BOOLEAN /\ ready' \in BOOLEAN
               /\ room' \in BOOLEAN /\ posted' \in BOOLEAN
  BY <1>0, <1>5 DEF DriveStep
<1>6. CASE DriveExhaust \/ BuffersExhausted \/ CompressionFails
  BY <1>0, <1>6 DEF DriveExhaust, BuffersExhausted, CompressionFails
<1>7. CASE OperationComplete \/ HeadComplete
  BY <1>0, <1>7 DEF OperationComplete, HeadComplete
<1>8. CASE Hand
  <2>1. CASE NothingToSubmit
    BY <1>0, <2>1 DEF NothingToSubmit, Prepare, PreparedVars, AddServerTiming, ScheduleContinuation
  <2>2. CASE Submit
    BY <1>0, <2>2 DEF Submit, Prepare, PreparedVars, AddServerTiming, CallDownstream
  <2>3. CASE SubmitPostponed
    BY <1>0, <2>3 DEF SubmitPostponed, Prepare, PreparedVars, AddServerTiming, ScheduleContinuation
  <2>4. CASE BypassContext
    BY <1>0, <2>4 DEF BypassContext, CallDownstream
  <2> QED
    BY <1>8, <2>1, <2>2, <2>3, <2>4 DEF Hand
<1>9. CASE WriteByte \/ DropLink \/ WriteFails
  BY <1>0, <1>9, ZenonT(60) DEF WriteByte, DropLink, WriteFails
<1>10. CASE WriteComplete \/ WriteBlocked \/ WriteAbsorbed
  BY <1>0, <1>10 DEF WriteComplete, WriteBlocked, WriteAbsorbed, DownstreamReturns, ScheduleContinuation
<1> QED
  BY <1>1, <1>2, <1>3, <1>4, <1>5, <1>6, <1>7, <1>8, <1>9, <1>10 DEF Next, Callback, Compress, Fails, Write

\* the statistics,
LEMMA StatsTypedStep ==
    ASSUME TypeOK, PhaseInv, ResumeInv, Next
    PROVE  StatsTyped'
<1> USE DEF ctxVars, statVars, StatsTyped
<1>0. /\ stats \in [input : Nat, output : Nat] /\ stats.input \in Nat /\ stats.output \in Nat
      /\ produced \in Nat /\ offset \in Nat
  BY FilterAssumption DEF TypeOK, Driver!TypeOK
<1>1. CASE Upstream \/ PostedWriteEvent \/ SocketWriteEvent
  BY <1>0, <1>1, EntryFacts
<1>2. CASE ResumeOperation \/ DriveHead
  BY <1>0, <1>2 DEF ResumeOperation, DriveHead, DriveInput
<1>3. CASE InputExhausted
  BY <1>0, <1>3 DEF InputExhausted
<1>4. CASE OperationPaused \/ HeadPaused \/ StreamFinished \/ OperationComplete \/ HeadComplete \/ CompressionFails
  <2>1. RecordStats
    BY <1>4 DEF OperationPaused, HeadPaused, StreamFinished, OperationComplete, HeadComplete, CompressionFails
  <2> QED
    BY <1>0, <2>1 DEF RecordStats
<1>5. ASSUME NEW r \in Driver!Results, DriveStep(r) PROVE StatsTyped'
  <2>1. r.produced \in Nat
    BY <1>5, StepFacts
  <2>2. stats' = stats /\ (produced' = 0 \/ produced' = produced + r.produced \/ produced' = produced)
    BY <1>5 DEF DriveStep
  <2> QED
    BY <1>0, <2>1, <2>2
<1>6. CASE DriveExhaust \/ BuffersExhausted
  BY <1>0, <1>6 DEF DriveExhaust, BuffersExhausted
<1>8. CASE Hand
  <2>1. UNCHANGED <<stats, produced>>
    BY <1>8 DEF Hand, NothingToSubmit, Submit, SubmitPostponed, BypassContext, Prepare, PreparedVars
  <2> QED
    BY <1>0, <2>1
<1>9. CASE Write \/ WriteFails
  <2>1. UNCHANGED <<stats, produced>>
    BY <1>9 DEF Write, WriteFails, WriteByte, DropLink, WriteComplete, WriteBlocked, WriteAbsorbed
  <2> QED
    BY <1>0, <2>1
<1> QED
  BY <1>1, <1>2, <1>3, <1>4, <1>5, <1>6, <1>8, <1>9 DEF Next, Callback, Compress, Fails

\* Lending a buffer and filling it or putting it back.
LEMMA DriveStepChains ==
    ASSUME TypeOK, PhaseInv, ResumeInv, NEW r \in Driver!Results, DriveStep(r)
    PROVE  /\ CanLend
           /\ UNCHANGED <<pc, busy, held, delivered, written>>
           /\ allocated' = IF free = <<>> THEN allocated + 1 ELSE allocated
           /\ \E d \in Seq(Int), m \in OutputBoundary :
                /\ Len(d) <= Capacity
                /\ buf' = [buf EXCEPT ![Lent] = [data |-> d, mark |-> m]]
                /\ \/ out' = Append(out, Lent) /\ free' = FreeAfterLending /\ (d # <<>> \/ m # "None")
                      /\ (m = "Finish" => state' = "Finished")
                   \/ out' = out /\ free' = <<Lent>> \o FreeAfterLending /\ m = "None"
<1> DEFINE op == Driver!NextOperation
           avail == Driver!StepEnd - offset
           b == BoundaryOf(op, r.state)
           holds == CodecHolds(op, avail, r.consumed)
           d == SubSeq(holds, 1, r.produced)
<1>1. /\ CanLend /\ r.produced \in Nat /\ r.produced <= Capacity /\ Capacity \in Nat
      /\ b \in OutputBoundary
      /\ d \in Seq(Int) /\ Len(d) = r.produced
  BY StepFacts, FilterAssumption
<1>2. /\ UNCHANGED <<pc, busy, held, delivered, written>>
      /\ allocated' = IF free = <<>> THEN allocated + 1 ELSE allocated
      /\ \/ /\ Emits(r.produced, b)
            /\ buf' = [buf EXCEPT ![Lent] = [data |-> d, mark |-> b]]
            /\ out' = Append(out, Lent)
            /\ free' = FreeAfterLending
         \/ /\ buf' = [buf EXCEPT ![Lent] = [data |-> <<>>, mark |-> "None"]]
            /\ free' = <<Lent>> \o FreeAfterLending
            /\ out' = out
  BY DEF DriveStep, connVars, EmptyBuffer
<1>3. b = "Finish" => state' = "Finished"
  BY DEF DriveStep, Driver!Step, Driver!AfterStep, BoundaryOf, Driver!BoundaryOf
<1>4. Emits(r.produced, b) => d # <<>> \/ b # "None"
  <2> HIDE DEF d, b
  <2> QED
    BY <1>1 DEF Emits
<1> HIDE DEF d, b
<1>5. <<>> \in Seq(Int) /\ Len(<<>>) <= Capacity /\ "None" \in OutputBoundary
  BY <1>1 DEF OutputBoundary
<1> QED
  BY <1>1, <1>2, <1>3, <1>4, <1>5

\* the chains of output buffers,
LEMMA ChainsTypedStep ==
    ASSUME TypeOK, PhaseInv, ResumeInv, Next
    PROVE  ChainsTyped'
<1> USE DEF ctxVars, chainVars, connVars
<1>0. ChainsTyped
  BY TypeParts
<1>1. CASE UNCHANGED <<chainVars, held>>
  BY <1>0, <1>1 DEF ChainsTyped
<1>2. CASE Upstream \/ PostedWriteEvent \/ SocketWriteEvent
  BY <1>1, <1>2, EntryFacts
<1>3. CASE ResumeOperation \/ DriveHead \/ InputExhausted \/ OperationPaused \/ HeadPaused \/ StreamFinished
           \/ OperationComplete \/ HeadComplete \/ DriveExhaust \/ BuffersExhausted
           \/ CompressionFails \/ NothingToSubmit \/ WriteFails
  BY <1>1, <1>3 DEF ResumeOperation, DriveHead, DriveInput, InputExhausted, OperationPaused, HeadPaused,
         StreamFinished, OperationComplete, HeadComplete, DriveExhaust, BuffersExhausted, CompressionFails,
         NothingToSubmit, WriteFails
<1>4. ASSUME NEW r \in Driver!Results, DriveStep(r) PROVE ChainsTyped'
  <2>1. PICK d \in Seq(Int), m \in OutputBoundary :
                /\ Len(d) <= Capacity
                /\ buf' = [buf EXCEPT ![Lent] = [data |-> d, mark |-> m]]
                /\ \/ out' = Append(out, Lent) /\ free' = FreeAfterLending
                   \/ out' = out /\ free' = <<Lent>> \o FreeAfterLending
    BY <1>4, DriveStepChains
  <2>2. /\ CanLend
        /\ UNCHANGED <<pc, busy, held, delivered, written>>
        /\ allocated' = IF free = <<>> THEN allocated + 1 ELSE allocated
    BY <1>4, DriveStepChains
  <2>3. /\ Lent \in OutputBufferIds
        /\ FreeAfterLending \in Seq(OutputBufferIds)
        /\ allocated' \in 0..BufferCount
    BY <2>2, LendFacts
  <2>4. /\ out' \in Seq(OutputBufferIds) /\ free' \in Seq(OutputBufferIds)
        /\ busy' \in Seq(OutputBufferIds)
    <3>1. /\ out \in Seq(OutputBufferIds) /\ busy' = busy /\ busy \in Seq(OutputBufferIds)
          /\ <<Lent>> \in Seq(OutputBufferIds)
      BY <1>0, <2>2, <2>3 DEF ChainsTyped
    <3>2. CASE out' = Append(out, Lent) /\ free' = FreeAfterLending
      BY <2>3, <3>1, <3>2
    <3>3. CASE out' = out /\ free' = <<Lent>> \o FreeAfterLending
      BY <2>3, <3>1, <3>3
    <3> QED
      BY <2>1, <3>1, <3>2, <3>3
  <2>5. held' \in Seq(OutputBufferIds \cup {FrameLink})
    BY <1>0, <2>2 DEF ChainsTyped
  <2> DEFINE e == [data |-> d, mark |-> m]
  <2>6. e \in [data : Seq(Int), mark : OutputBoundary] /\ Len(e.data) <= Capacity
    BY <2>1
  <2>7. buf' = [buf EXCEPT ![Lent] = e] /\ buf \in [OutputBufferIds -> [data : Seq(Int), mark : OutputBoundary]]
        /\ \A b \in OutputBufferIds : Len(buf[b].data) <= Capacity
    BY <1>0, <2>1 DEF ChainsTyped
  <2> HIDE DEF e
  <2>8. /\ buf' \in [OutputBufferIds -> [data : Seq(Int), mark : OutputBoundary]]
        /\ \A b \in OutputBufferIds : Len(buf'[b].data) <= Capacity
    BY <2>3, <2>6, <2>7
  <2> QED
    BY <2>3, <2>4, <2>5, <2>8 DEF ChainsTyped
<1>5. ASSUME NEW chain \in Seq(OutputBufferIds)
      PROVE  Links(chain) \in Seq(OutputBufferIds \cup {FrameLink})
  <2>1. held \in Seq(OutputBufferIds \cup {FrameLink}) /\ chain \in Seq(OutputBufferIds \cup {FrameLink})
    BY <1>0 DEF ChainsTyped
  <2>2. \E f \in {<<>>, <<FrameLink>>} : Links(chain) = held \o chain \o f
    BY DEF Links
  <2>3. PICK f : f \in Seq(OutputBufferIds \cup {FrameLink}) /\ Links(chain) = held \o chain \o f
    <3>1. <<>> \in Seq(OutputBufferIds \cup {FrameLink}) /\ <<FrameLink>> \in Seq(OutputBufferIds \cup {FrameLink})
      OBVIOUS
    <3> QED
      BY <2>2, <3>1
  <2> QED
    BY <2>1, <2>3
<1>6. out \in Seq(OutputBufferIds) /\ <<>> \in Seq(OutputBufferIds)
  BY <1>0 DEF ChainsTyped
<1>7. CASE Submit \/ BypassContext
  <2>1. UNCHANGED chainVars /\ (held' = Links(out) \/ held' = Links(<<>>))
    BY <1>7 DEF Submit, BypassContext, CallDownstream
  <2> QED
    BY <1>0, <1>5, <1>6, <2>1 DEF ChainsTyped
<1>8. CASE UpdateChains /\ (UNCHANGED held \/ held' = Links(out))
  <2>1. {free', out', busy'} \subseteq Seq(OutputBufferIds) /\ UNCHANGED <<allocated, buf>>
    BY <1>0, <1>8, UpdateFacts
  <2>2. held' \in Seq(OutputBufferIds \cup {FrameLink})
    BY <1>0, <1>5, <1>6, <1>8 DEF ChainsTyped
  <2> QED
    BY <1>0, <2>1, <2>2 DEF ChainsTyped
<1>9. CASE SubmitPostponed
  BY <1>8, <1>9 DEF SubmitPostponed
<1>10. CASE WriteComplete \/ WriteBlocked \/ WriteAbsorbed
  <2>1. UNCHANGED held /\ (UNCHANGED chainVars \/ UpdateChains)
    BY <1>10 DEF WriteComplete, WriteBlocked, WriteAbsorbed, DownstreamReturns
  <2> QED
    BY <1>1, <1>8, <2>1
<1>11. CASE DropLink
  <2>1. UNCHANGED chainVars /\ held # <<>> /\ held' = Tail(held)
    BY <1>11 DEF DropLink
  <2> QED
    BY <1>0, <2>1 DEF ChainsTyped
<1>12. CASE WriteByte
  <2>1. held # <<>> /\ UNCHANGED <<free, out, busy, allocated>> /\ HeadData # <<>>
    BY <1>12 DEF WriteByte
  <2>2. CASE Head(held) = FrameLink
    <3>1. held' = Tail(held) /\ buf' = buf
      BY <1>12, <2>2 DEF WriteByte
    <3> QED
      BY <1>0, <2>1, <3>1 DEF ChainsTyped
  <2>3. CASE Head(held) # FrameLink
    <3> DEFINE h == Head(held)
    <3>1. h \in OutputBufferIds
      BY <1>0, <2>1, <2>3 DEF ChainsTyped
    <3>2. held' = held /\ buf' = [buf EXCEPT ![h].data = Tail(@)] /\ buf[h].data # <<>>
      BY <1>12, <2>1, <2>3 DEF WriteByte, HeadData, LinkData
    <3> HIDE DEF h
    <3>3. /\ buf \in [OutputBufferIds -> [data : Seq(Int), mark : OutputBoundary]]
          /\ \A b \in OutputBufferIds : Len(buf[b].data) <= Capacity
          /\ Capacity \in Nat
      BY <1>0, FilterAssumption DEF ChainsTyped
    <3> DEFINE e == [buf[h] EXCEPT !.data = Tail(@)]
    <3>4. buf[h].data \in Seq(Int) /\ Tail(buf[h].data) \in Seq(Int) /\ Len(Tail(buf[h].data)) <= Capacity
      BY <3>1, <3>2, <3>3
    <3>5. e \in [data : Seq(Int), mark : OutputBoundary] /\ Len(e.data) <= Capacity
      BY <3>1, <3>3, <3>4
    <3>6. buf' = [buf EXCEPT ![h] = e]
      BY <3>1, <3>2, <3>3
    <3> HIDE DEF e
    <3>7. /\ buf' \in [OutputBufferIds -> [data : Seq(Int), mark : OutputBoundary]]
          /\ \A b \in OutputBufferIds : Len(buf'[b].data) <= Capacity
      BY <3>1, <3>3, <3>5, <3>6
    <3> QED
      BY <1>0, <2>1, <3>2, <3>7 DEF ChainsTyped
  <2> QED
    BY <2>2, <2>3
<1> QED
  BY <1>2, <1>3, <1>4, <1>7, <1>9, <1>10, <1>11, <1>12 DEF Next, Callback, Compress, Fails, Hand, Write

\* the streams of items,
LEMMA ItemsTypedStep ==
    ASSUME TypeOK, PhaseInv, ResumeInv, Next
    PROVE  ItemsTyped'
<1> USE DEF codecVars, connVars, upstreamVars
<1>0. ItemsTyped /\ ChainsTyped
  BY TypeParts
<1>1. CASE UNCHANGED <<codecVars, upstreamVars, delivered, written>>
  BY <1>0, <1>1 DEF ItemsTyped
<1>2. CASE PostedWriteEvent \/ SocketWriteEvent \/ ResumeOperation \/ DriveHead \/ InputExhausted \/ OperationPaused \/ HeadPaused
           \/ StreamFinished \/ OperationComplete \/ HeadComplete \/ DriveExhaust \/ BuffersExhausted
           \/ CompressionFails \/ NothingToSubmit \/ WriteFails
  BY <1>1, <1>2 DEF PostedWriteEvent, SocketWriteEvent, ResumeOperation, DriveHead, DriveInput, InputExhausted, OperationPaused, HeadPaused,
         StreamFinished, OperationComplete, HeadComplete, DriveExhaust, BuffersExhausted, CompressionFails,
         NothingToSubmit, Prepare, PreparedVars, WriteFails
<1>3. CASE Submit \/ SubmitPostponed \/ BypassContext \/ WriteComplete \/ WriteBlocked \/ WriteAbsorbed
  BY <1>1, <1>3 DEF Submit, SubmitPostponed, BypassContext, CallDownstream, Prepare, PreparedVars, WriteComplete, WriteBlocked, WriteAbsorbed
<1>4. CASE Upstream
  <2>1. PICK n \in 0..MaxBytes, op \in request.ops : UpstreamData(n, op)
    BY <1>4 DEF Upstream
  <2>2. accepted' \in Seq(Int) /\ arrivals' \in 0..MaxArrivals
    BY <2>1, ArrivalFacts
  <2>3. UNCHANGED <<backlog, delivered, written>>
    BY <2>1 DEF UpstreamData
  <2> QED
    BY <1>0, <2>2, <2>3 DEF ItemsTyped
<1>5. ASSUME NEW r \in Driver!Results, DriveStep(r) PROVE ItemsTyped'
  <2>1. UNCHANGED <<delivered, written, upstreamVars>>
    BY <1>5 DEF DriveStep
  <2>2. backlog' \in Seq(Int)
    BY <1>5, StepFacts DEF DriveStep
  <2> QED
    BY <1>0, <2>1, <2>2 DEF ItemsTyped
<1>6. ASSUME held # <<>> PROVE HeadData \in Seq(Int)
  <2>1. Head(held) \in OutputBufferIds \cup {FrameLink}
    BY <1>0, <1>6 DEF ChainsTyped
  <2> QED
    BY <1>0, <2>1 DEF ChainsTyped, HeadData, LinkData, Frame
<1>7. CASE WriteByte
  <2>1. Head(HeadData) \in Int
    BY <1>6, <1>7 DEF WriteByte
  <2>2. /\ delivered' \in {delivered, Append(delivered, Head(HeadData))}
        /\ written' \in {written, written + 1}
        /\ UNCHANGED <<codecVars, upstreamVars>>
    BY <1>7 DEF WriteByte
  <2>3. delivered \in Seq(Int) /\ Append(delivered, Head(HeadData)) \in Seq(Int)
    BY <1>0, <2>1 DEF ItemsTyped
  <2>4. written' \in Nat
    BY <1>0, <2>2 DEF ItemsTyped
  <2>5. delivered' \in Seq(Int)
    BY <2>2, <2>3
  <2> HIDE DEF codecVars, upstreamVars
  <2>6. UNCHANGED <<backlog, accepted, arrivals>>
    BY <2>2 DEF codecVars, upstreamVars
  <2> QED
    BY <1>0, <2>4, <2>5, <2>6 DEF ItemsTyped
<1>8. CASE DropLink
  <2>1. /\ delivered' = delivered \o MarkOf(LinkMark(buf, Head(held)))
        /\ UNCHANGED <<written, codecVars, upstreamVars>>
    BY <1>8 DEF DropLink
  <2>2. delivered' \in Seq(Int)
    BY <1>0, <2>1, MarkOfType DEF ItemsTyped
  <2> QED
    BY <1>0, <2>1, <2>2 DEF ItemsTyped
<1> QED
  BY <1>2, <1>3, <1>4, <1>5, <1>7, <1>8 DEF Next, Callback, Compress, Fails, Hand, Write

\* and the driver's variables.
LEMMA DriverTypedNext == DP!DriverInv' => Driver!TypeOK'
BY DEF DP!DriverInv, DP!TypeOK, Driver!TypeOK, DP!States, Driver!States, DP!DriveState, Driver!DriveState,
       DP!DriveFailure, Driver!DriveFailure, DP!Operation, Driver!Operation, DP!WorkBudget, Driver!WorkBudget,
       DP!OutputBoundary, Driver!OutputBoundary

\* Every step preserves TypeOK.
LEMMA TypeStep ==
    ASSUME TypeOK, PhaseInv, ResumeInv, DP!DriverInv, Next
    PROVE  TypeOK' /\ DP!DriverInv'
<1>1. DP!DriverInv'
  BY DriverMoves, DriverKeepsInv
<1> QED
  BY <1>1, DriverTypedNext, CallbackTypedStep, FlagsTypedStep, StatsTypedStep, ChainsTypedStep, ItemsTypedStep,
     TypePartsNext

-----------------------------------------------------------------------------
(* Output buffers belong to one chain.                                     *)

\* An output buffer is in one chain at most, and the chains hold all there are.  This
\* is BuffersConserved without the concatenation.
OwnInv ==
    /\ IsInjective(free) /\ IsInjective(out) /\ IsInjective(busy)
    /\ ToSet(free) \cap ToSet(out) = {}
    /\ ToSet(free) \cap ToSet(busy) = {}
    /\ ToSet(busy) \cap ToSet(out) = {}
    /\ ToSet(free) \cup ToSet(out) \cup ToSet(busy) = 1..allocated
    /\ Len(free) + Len(out) + Len(busy) = allocated

\* The buffer that is lent leaves the chains it was in.
LEMMA LendOwn ==
    ASSUME TypeOK, OwnInv, CanLend
    PROVE  /\ IsInjective(FreeAfterLending)
           /\ Lent \notin ToSet(FreeAfterLending) /\ Lent \notin ToSet(out) /\ Lent \notin ToSet(busy)
           /\ ToSet(FreeAfterLending) \subseteq ToSet(free)
           /\ ToSet(FreeAfterLending) \cup ToSet(out) \cup ToSet(busy) \cup {Lent}
                = 1..(IF free = <<>> THEN allocated + 1 ELSE allocated)
           /\ Len(FreeAfterLending) + Len(out) + Len(busy) + 1
                = IF free = <<>> THEN allocated + 1 ELSE allocated
<1>1. /\ free \in Seq(OutputBufferIds) /\ out \in Seq(OutputBufferIds) /\ busy \in Seq(OutputBufferIds)
      /\ allocated \in Nat
  BY FilterAssumption DEF TypeOK
<1>2. CASE free # <<>>
  <2>1. /\ Head(free) \in ToSet(free) /\ IsInjective(Tail(free)) /\ Len(Tail(free)) = Len(free) - 1
        /\ ToSet(Tail(free)) = ToSet(free) \ {Head(free)}
    BY <1>1, <1>2, TailFacts DEF OwnInv
  <2>2. Lent = Head(free) /\ FreeAfterLending = Tail(free)
    BY <1>2 DEF Lent, FreeAfterLending
  <2>3. Len(free) \in Nat /\ Len(out) \in Nat /\ Len(busy) \in Nat
    BY <1>1
  <2> QED
    BY <1>1, <1>2, <2>1, <2>2, <2>3 DEF OwnInv
<1>3. CASE free = <<>>
  <2>1. Lent = allocated + 1 /\ FreeAfterLending = <<>>
    BY <1>3 DEF Lent, FreeAfterLending
  <2>2. IsInjective(<<>>) /\ ToSet(<<>>) = {} /\ Len(<<>>) = 0
    BY DEF IsInjective, ToSet
  <2>3. ToSet(out) \cup ToSet(busy) = 1..allocated
    BY <1>3, <2>2 DEF OwnInv
  <2>4. allocated + 1 \notin 1..allocated /\ 1..(allocated + 1) = (1..allocated) \cup {allocated + 1}
    BY <1>1
  <2>5. Len(out) \in Nat /\ Len(busy) \in Nat
    BY <1>1
  <2>6. Len(out) + Len(busy) = allocated
    BY <1>3, <2>2, <2>5 DEF OwnInv
  <2> QED
    BY <1>1, <1>3, <2>1, <2>2, <2>3, <2>4, <2>5, <2>6
<1> QED
  BY <1>2, <1>3

\* It comes back into one of them.
LEMMA LendKeepsOwn ==
    ASSUME TypeOK, PhaseInv, ResumeInv, OwnInv, NEW r \in Driver!Results, DriveStep(r)
    PROVE  OwnInv'
<1> DEFINE F == FreeAfterLending
<1>1. /\ CanLend /\ busy' = busy
      /\ allocated' = IF free = <<>> THEN allocated + 1 ELSE allocated
      /\ \/ out' = Append(out, Lent) /\ free' = F
         \/ out' = out /\ free' = <<Lent>> \o F
  BY DriveStepChains
<1>2. /\ Lent \in OutputBufferIds /\ F \in Seq(OutputBufferIds)
      /\ out \in Seq(OutputBufferIds) /\ busy \in Seq(OutputBufferIds) /\ free \in Seq(OutputBufferIds)
  BY <1>1, LendFacts DEF TypeOK
<1>3. /\ IsInjective(F) /\ Lent \notin ToSet(F) /\ Lent \notin ToSet(out) /\ Lent \notin ToSet(busy)
      /\ ToSet(F) \subseteq ToSet(free)
      /\ ToSet(F) \cup ToSet(out) \cup ToSet(busy) \cup {Lent} = 1..allocated'
      /\ Len(F) + Len(out) + Len(busy) + 1 = allocated'
  BY <1>1, LendOwn
<1>4. Len(F) \in Nat /\ Len(out) \in Nat /\ Len(busy) \in Nat
  BY <1>2
<1> HIDE DEF F
<1>5. CASE out' = Append(out, Lent) /\ free' = F
  <2>1. /\ Len(out') = Len(out) + 1 /\ IsInjective(out') /\ ToSet(out') = ToSet(out) \cup {Lent}
    BY <1>2, <1>3, <1>5, AppendFacts DEF OwnInv
  <2>2. IsInjective(free') /\ IsInjective(out') /\ IsInjective(busy')
    BY <1>1, <1>3, <1>5, <2>1 DEF OwnInv
  <2>3. ToSet(free') \cap ToSet(out') = {} /\ ToSet(free') \cap ToSet(busy') = {} /\ ToSet(busy') \cap ToSet(out') = {}
    BY <1>1, <1>3, <1>5, <2>1 DEF OwnInv
  <2>4. ToSet(free') \cup ToSet(out') \cup ToSet(busy') = 1..allocated'
    BY <1>1, <1>3, <1>5, <2>1
  <2>5. Len(free') + Len(out') + Len(busy') = allocated'
    BY <1>1, <1>3, <1>4, <1>5, <2>1
  <2> QED
    BY <2>2, <2>3, <2>4, <2>5 DEF OwnInv, IsInjective
<1>6. CASE out' = out /\ free' = <<Lent>> \o F
  <2>0. /\ <<Lent>> \in Seq(OutputBufferIds) /\ IsInjective(<<Lent>>) /\ ToSet(<<Lent>>) = {Lent} /\ Len(<<Lent>>) = 1
    BY <1>2 DEF IsInjective, ToSet
  <2> DEFINE l == <<Lent>>
  <2>1a. l \in Seq(OutputBufferIds) /\ IsInjective(l) /\ ToSet(l) = {Lent} /\ Len(l) = 1 /\ ToSet(l) \cap ToSet(F) = {}
    <3>1. {Lent} \cap ToSet(F) = {}
      BY <1>3
    <3> QED
      BY <2>0, <3>1
  <2> HIDE DEF l
  <2>1b. /\ Len(l \o F) = Len(l) + Len(F) /\ IsInjective(l \o F) /\ ToSet(l \o F) = ToSet(l) \cup ToSet(F)
    <3>1. F \in Seq(OutputBufferIds) /\ IsInjective(F)
      BY <1>2, <1>3
    <3> QED
      BY <2>1a, <3>1, ConcatFacts, ZenonT(60)
  <2>1. /\ Len(free') = Len(F) + 1 /\ IsInjective(free') /\ ToSet(free') = ToSet(F) \cup {Lent}
    BY <1>4, <1>6, <2>1a, <2>1b DEF l
  <2>2. IsInjective(free') /\ IsInjective(out') /\ IsInjective(busy')
    BY <1>1, <1>6, <2>1 DEF OwnInv
  <2>3. ToSet(free') \cap ToSet(out') = {} /\ ToSet(free') \cap ToSet(busy') = {} /\ ToSet(busy') \cap ToSet(out') = {}
    BY <1>1, <1>3, <1>6, <2>1 DEF OwnInv
  <2>4. ToSet(free') \cup ToSet(out') \cup ToSet(busy') = 1..allocated'
    BY <1>1, <1>3, <1>6, <2>1
  <2>5. Len(free') + Len(out') + Len(busy') = allocated'
    BY <1>1, <1>3, <1>4, <1>6, <2>1
  <2> QED
    BY <2>2, <2>3, <2>4, <2>5 DEF OwnInv, IsInjective
<1> QED
  BY <1>1, <1>5, <1>6

\* Reclaiming moves buffers from busy and out to free.
LEMMA UpdateKeepsOwn ==
    ASSUME TypeOK, OwnInv, UpdateChains
    PROVE  OwnInv'
<1> DEFINE chain == busy \o out
           n == Drained(buf, chain)
           a == SubSeq(chain, 1, n)
           z == SubSeq(chain, n + 1, Len(chain))
<1>0. ChainsTyped
  BY TypeParts
<1>1. /\ free \in Seq(OutputBufferIds) /\ out \in Seq(OutputBufferIds) /\ busy \in Seq(OutputBufferIds)
  BY DEF TypeOK
<1>2. /\ chain \in Seq(OutputBufferIds) /\ Len(chain) = Len(busy) + Len(out)
      /\ IsInjective(chain) /\ ToSet(chain) = ToSet(busy) \cup ToSet(out)
  BY <1>1, ConcatFacts DEF OwnInv
<1>3. n \in 0..Len(chain) /\ free' = Reverse(a) \o free /\ busy' = z /\ out' = <<>> /\ allocated' = allocated
  BY <1>0, UpdateFacts
<1> HIDE DEF n, chain
<1>4a. /\ a \in Seq(OutputBufferIds) /\ Len(a) = n /\ \A i \in 1..n : a[i] = chain[i]
  BY <1>2, <1>3
<1>4b. /\ z \in Seq(OutputBufferIds) /\ Len(z) = Len(chain) - n
       /\ \A i \in 1..(Len(chain) - n) : z[i] = chain[i + n]
  BY <1>2, <1>3
<1> HIDE DEF a, z
<1>4. /\ IsInjective(a) /\ IsInjective(z)
      /\ ToSet(a) \cap ToSet(z) = {} /\ ToSet(a) \cup ToSet(z) = ToSet(chain)
  <2>1. chain \in Seq(OutputBufferIds) /\ IsInjective(chain) /\ n \in 0..Len(chain)
    BY <1>2, <1>3
  <2> QED
    BY <1>4a, <1>4b, <2>1, SplitFacts, SMTT(30)
<1>5. /\ Reverse(a) \in Seq(OutputBufferIds) /\ Len(Reverse(a)) = n /\ IsInjective(Reverse(a))
      /\ ToSet(Reverse(a)) = ToSet(a)
  BY <1>4, <1>4a, ReverseFacts
<1>6. ToSet(Reverse(a)) \cap ToSet(free) = {}
  BY <1>2, <1>4, <1>5 DEF OwnInv
<1>7. IsInjective(free)
  BY DEF OwnInv
<1>8. /\ Len(free') = n + Len(free) /\ IsInjective(free') /\ ToSet(free') = ToSet(a) \cup ToSet(free)
  BY <1>1, <1>3, <1>5, <1>6, <1>7, ConcatFacts
<1>9. IsInjective(out') /\ ToSet(out') = {} /\ Len(out') = 0
  BY <1>3 DEF IsInjective, ToSet
<1>10. IsInjective(free') /\ IsInjective(out') /\ IsInjective(busy')
  BY <1>3, <1>4, <1>8, <1>9
<1>11. ToSet(free') \cap ToSet(out') = {} /\ ToSet(free') \cap ToSet(busy') = {} /\ ToSet(busy') \cap ToSet(out') = {}
  BY <1>2, <1>3, <1>4, <1>8, <1>9 DEF OwnInv
<1>12. ToSet(free') \cup ToSet(out') \cup ToSet(busy') = 1..allocated'
  BY <1>2, <1>3, <1>4, <1>8, <1>9 DEF OwnInv
<1>13. Len(free') + Len(out') + Len(busy') = allocated'
  <2>1. Len(free) \in Nat /\ Len(out) \in Nat /\ Len(busy) \in Nat /\ n \in Nat
    BY <1>1, <1>2, <1>3
  <2> QED
    BY <1>2, <1>3, <1>4b, <1>8, <1>9, <2>1 DEF OwnInv
<1> QED
  BY <1>10, <1>11, <1>12, <1>13 DEF OwnInv, IsInjective

\* The steps that leave the chains of output buffers alone.
LEMMA ChainsKept ==
    ASSUME Next
    PROVE  \/ UNCHANGED <<free, out, busy, allocated>>
           \/ UpdateChains
           \/ \E r \in Driver!Results : DriveStep(r)
<1> USE DEF ctxVars, chainVars
<1>1. CASE Upstream \/ PostedWriteEvent \/ SocketWriteEvent
  BY <1>1 DEF Upstream, UpstreamData, PostedWriteEvent, SocketWriteEvent
<1>2. CASE Compress \/ Fails
  BY <1>2 DEF Compress, Fails, ResumeOperation, DriveHead, DriveInput, InputExhausted, OperationPaused, HeadPaused,
         StreamFinished, OperationComplete, HeadComplete, DriveExhaust, BuffersExhausted, CompressionFails, WriteFails
<1>3. CASE Hand
  BY <1>3 DEF Hand, NothingToSubmit, Submit, SubmitPostponed, BypassContext
<1>4. CASE Write
  BY <1>4 DEF Write, WriteByte, DropLink, WriteComplete, WriteBlocked, WriteAbsorbed, DownstreamReturns
<1> QED
  BY <1>1, <1>2, <1>3, <1>4 DEF Next, Callback

\* No step loses a buffer or puts it into two chains.
LEMMA OwnStep ==
    ASSUME TypeOK, PhaseInv, ResumeInv, OwnInv, Next
    PROVE  OwnInv'
<1>1. CASE UNCHANGED <<free, out, busy, allocated>>
  BY <1>1 DEF OwnInv, IsInjective
<1> QED
  BY <1>1, ChainsKept, UpdateKeepsOwn, LendKeepsOwn

\* From the pairwise form to the property.
LEMMA OwnMeansConserved ==
    ASSUME TypeOK, OwnInv
    PROVE  BuffersConserved
<1>1. /\ free \in Seq(OutputBufferIds) /\ out \in Seq(OutputBufferIds) /\ busy \in Seq(OutputBufferIds)
  BY DEF TypeOK
<1>2. /\ free \o out \in Seq(OutputBufferIds) /\ Len(free \o out) = Len(free) + Len(out)
      /\ IsInjective(free \o out) /\ ToSet(free \o out) = ToSet(free) \cup ToSet(out)
  BY <1>1, ConcatFacts DEF OwnInv
<1>3. /\ ToSet(free \o out) \cap ToSet(busy) = {} /\ IsInjective(busy)
  BY <1>2 DEF OwnInv
<1> DEFINE s == free \o out
<1>4. s \in Seq(OutputBufferIds) /\ IsInjective(s) /\ ToSet(s) \cap ToSet(busy) = {}
  BY <1>2, <1>3
<1>5. Len(s) = Len(free) + Len(out) /\ ToSet(s) = ToSet(free) \cup ToSet(out)
  BY <1>2
<1> HIDE DEF s
<1>6. /\ Len(s \o busy) = Len(s) + Len(busy) /\ ToSet(s \o busy) = ToSet(s) \cup ToSet(busy)
  BY <1>1, <1>3, <1>4, ConcatFacts
<1>7. /\ Len(s \o busy) = allocated /\ ToSet(s \o busy) = 1..allocated
  BY <1>5, <1>6 DEF OwnInv
<1> QED
  BY <1>7 DEF BuffersConserved, s

-----------------------------------------------------------------------------
(* What the rest of the filter chain holds.                                *)

\* What ngx_chain_update_chains looks at when the next filter returns.
Undrained == busy \o out

\* Without a framing filter, the rest of the filter chain holds exactly the busy
\* buffers while the codec runs; while it writes, it holds those that still have bytes.
LinkInv ==
    ~request.framing =>
      /\ pc \in {"Compress", "Drive", "Submit"} \/ (pc = "Idle" /\ ~done) => held = busy
      /\ pc \in {"Write", "Absorb"} =>
           \E k \in 0..Len(Undrained) :
             /\ held = SubSeq(Undrained, k + 1, Len(Undrained))
             /\ \A i \in 1..k : buf[Undrained[i]].data = <<>>

\* Which buffers ngx_chain_update_chains keeps, when the write filter has stopped
\* behind the k-th link.
LEMMA DrainedUnique ==
    ASSUME NEW contents, NEW S, NEW chain \in Seq(S), NEW k \in 0..Len(chain),
           \A i \in 1..k : contents[chain[i]].data = <<>>,
           k < Len(chain) => contents[chain[k + 1]].data # <<>>
    PROVE  Drained(contents, chain) = k
<1> DEFINE n == Drained(contents, chain)
<1>1. /\ n \in 0..Len(chain)
      /\ \A i \in 1..n : contents[chain[i]].data = <<>>
      /\ n < Len(chain) => contents[chain[n + 1]].data # <<>>
  BY DrainedFacts
<1> HIDE DEF n
<1>2. Len(chain) \in Nat
  OBVIOUS
<1>3. ~(n < k)
  <2> SUFFICES ASSUME n < k PROVE FALSE
    OBVIOUS
  <2>1. n + 1 \in 1..k /\ n < Len(chain)
    BY <1>1, <1>2
  <2> QED
    BY <1>1, <2>1
<1>4. ~(k < n)
  <2> SUFFICES ASSUME k < n PROVE FALSE
    OBVIOUS
  <2>1. k + 1 \in 1..n /\ k < Len(chain)
    BY <1>1, <1>2
  <2> QED
    BY <1>1, <2>1
<1> QED
  BY <1>1, <1>2, <1>3, <1>4 DEF n

\* The return of the write filter: what it still holds is what stays busy.
LEMMA ReturnLinks ==
    ASSUME TypeOK, UpdateChains, NEW k \in 0..Len(Undrained),
           held = SubSeq(Undrained, k + 1, Len(Undrained)),
           \A i \in 1..k : buf[Undrained[i]].data = <<>>,
           held # <<>> => LinkData(buf, Head(held)) # <<>>
    PROVE  busy' = held /\ out' = <<>>
<1> DEFINE chain == Undrained
<1>1. busy \in Seq(OutputBufferIds) /\ out \in Seq(OutputBufferIds) /\ ChainsTyped
  BY TypeParts DEF TypeOK
<1>2. chain \in Seq(OutputBufferIds) /\ Len(chain) \in Nat
  BY <1>1 DEF Undrained
<1>3. busy' = SubSeq(chain, Drained(buf, chain) + 1, Len(chain)) /\ out' = <<>>
  BY DEF UpdateChains, Undrained
<1> HIDE DEF chain
<1>4. held = SubSeq(chain, k + 1, Len(chain)) /\ k \in 0..Len(chain)
      /\ \A i \in 1..k : buf[chain[i]].data = <<>>
  BY DEF chain
<1>5. ASSUME k < Len(chain)
      PROVE  buf[chain[k + 1]].data # <<>>
  <2>1. held # <<>> /\ Head(held) = chain[k + 1] /\ chain[k + 1] \in OutputBufferIds
    BY <1>2, <1>4, <1>5
  <2> QED
    BY <2>1 DEF LinkData, OutputBufferIds, FrameLink
<1>6. Drained(buf, chain) = k
  BY <1>2, <1>4, <1>5, DrainedUnique
<1> QED
  BY <1>3, <1>4, <1>6

\* Without a framing filter the write filter is given the chain and nothing else.
LEMMA PlainLinks ==
    ASSUME TypeOK, ~request.framing
    PROVE  Links(out) = held \o out /\ Links(<<>>) = held
<1>1. held \in Seq(OutputBufferIds \cup {FrameLink}) /\ out \in Seq(OutputBufferIds)
  BY DEF TypeOK
<1>2. out \in Seq(OutputBufferIds \cup {FrameLink})
  BY <1>1
<1>3. \A s, t \in Seq(OutputBufferIds \cup {FrameLink}) : s \o t \o <<>> = s \o t
  OBVIOUS
<1> QED
  BY <1>1, <1>2, <1>3 DEF Links

\* What is held further down and what is busy stay the same.
LEMMA LinkStep ==
    ASSUME TypeOK, PhaseInv, ResumeInv, OwnInv, LinkInv, Next, ~request.framing
    PROVE  LinkInv'
<1> USE DEF ctxVars, connVars, chainVars
<1>0. /\ busy \in Seq(OutputBufferIds) /\ out \in Seq(OutputBufferIds) /\ free \in Seq(OutputBufferIds)
      /\ held \in Seq(OutputBufferIds \cup {FrameLink})
      /\ ChainsTyped
  BY TypeParts DEF TypeOK
<1>1. CASE Upstream \/ PostedWriteEvent \/ SocketWriteEvent
  <2>1. /\ pc = "Idle" /\ UNCHANGED <<held, busy, done>>
        /\ pc' = "Idle" \/ (pc' = "Bypass" /\ done) \/ (pc' = "Compress" /\ ~done)
    BY <1>1, EntryFacts
  <2> QED
    BY <2>1 DEF LinkInv
<1>2. CASE ResumeOperation \/ DriveHead
  BY <1>2 DEF ResumeOperation, DriveHead, DriveInput, LinkInv
<1>3. CASE InputExhausted \/ OperationPaused \/ HeadPaused \/ StreamFinished
  <2>1. pc \in {"Compress", "Drive"} /\ pc' = "Submit" /\ UNCHANGED <<held, busy>>
    BY <1>3, ReturnFacts DEF InputExhausted, OperationPaused, HeadPaused, StreamFinished
  <2> QED
    BY <2>1 DEF LinkInv
<1>4. ASSUME NEW r \in Driver!Results, DriveStep(r) PROVE LinkInv'
  <2>1. pc = "Drive" /\ UNCHANGED <<pc, busy, held>>
    BY <1>4 DEF DriveStep
  <2> QED
    BY <2>1 DEF LinkInv
<1>5. CASE DriveExhaust \/ BuffersExhausted \/ CompressionFails \/ OperationComplete \/ HeadComplete
  <2>1. pc = "Drive" /\ pc' \in {"Drive", "Compress", "Failed"} /\ UNCHANGED <<held, busy>>
    BY <1>5 DEF DriveExhaust, BuffersExhausted, CompressionFails, OperationComplete, HeadComplete
  <2> QED
    BY <2>1 DEF LinkInv
<1>6. CASE NothingToSubmit
  <2>1. pc = "Submit" /\ pc' = "Idle" /\ UNCHANGED <<held, busy>>
    BY <1>6 DEF NothingToSubmit, Prepare
  <2> QED
    BY <2>1 DEF LinkInv
<1>7. CASE Submit
  <2>1. pc = "Submit" /\ held' = Links(out) /\ UNCHANGED <<busy, out, buf>>
        /\ pc' \in {"Write", "Absorb", "WriterError"}
    BY <1>7 DEF Submit, Prepare, CallDownstream
  <2>2. held' = Undrained /\ Undrained' = Undrained
    BY <2>1, PlainLinks DEF LinkInv, Undrained
  <2>3. Undrained \in Seq(OutputBufferIds) /\ 0 \in 0..Len(Undrained)
        /\ Undrained = SubSeq(Undrained, 1, Len(Undrained))
    BY <1>0 DEF Undrained
  <2>4. /\ 0 \in 0..Len(Undrained')
        /\ held' = SubSeq(Undrained', 0 + 1, Len(Undrained'))
        /\ \A i \in 1..0 : buf'[Undrained'[i]].data = <<>>
    BY <2>2, <2>3
  <2> HIDE DEF Undrained
  <2> QED
    BY <2>1, <2>4 DEF LinkInv
<1>8. CASE SubmitPostponed
  <2>1. /\ pc = "Submit" /\ held' = Links(out) /\ pc' = "Idle" /\ UpdateChains
        /\ MayKeep(out) /\ ~Refused(Links(out))
    BY <1>8 DEF SubmitPostponed, Prepare
  <2>2. held' = Undrained
    BY <2>1, PlainLinks DEF LinkInv, Undrained
  <2> DEFINE chain == Undrained
  <2>3. chain \in Seq(OutputBufferIds)
    BY <1>0 DEF Undrained
  <2>4. ASSUME 0 < Len(chain)
        PROVE  buf[chain[1]].data # <<>>
    <3>1. 1 \in DOMAIN chain /\ chain[1] \in OutputBufferIds
      BY <2>3, <2>4
    <3>2. LinkMark(buf, chain[1]) = "None"
      BY <2>1, <2>2, <3>1, PlainLinks DEF MayKeep, HasMark
    <3>3. LinkData(buf, chain[1]) # <<>>
      BY <2>1, <2>2, <3>1, <3>2, PlainLinks DEF Refused
    <3> QED
      BY <3>1, <3>3 DEF LinkData, OutputBufferIds, FrameLink
  <2>5. Drained(buf, chain) = 0
    <3>1. 0 \in 0..Len(chain) /\ \A i \in 1..0 : buf[chain[i]].data = <<>>
      BY <2>3
    <3> HIDE DEF chain
    <3> QED
      BY <2>3, <2>4, <3>1, DrainedUnique
  <2>6. busy' = SubSeq(chain, 1, Len(chain))
    BY <2>1, <2>5 DEF UpdateChains, Undrained
  <2>7. busy' = held'
    BY <2>2, <2>3, <2>6
  <2> QED
    BY <2>1, <2>7 DEF LinkInv
<1>9. CASE BypassContext
  BY <1>9 DEF BypassContext, CallDownstream, LinkInv
<1>10. ASSUME pc \in {"Write", "Absorb"}, UpdateChains, pc' = "Idle", held' = held,
              held # <<>> => LinkData(buf, Head(held)) # <<>>
       PROVE  LinkInv'
  <2>1. PICK k \in 0..Len(Undrained) :
             /\ held = SubSeq(Undrained, k + 1, Len(Undrained))
             /\ \A i \in 1..k : buf[Undrained[i]].data = <<>>
    BY <1>10 DEF LinkInv
  <2>2. busy' = held
    BY <1>10, <2>1, ReturnLinks
  <2> QED
    BY <1>10, <2>2 DEF LinkInv
<1>11. CASE WriteComplete
  <2>1. CASE pc = "Write"
    BY <1>10, <1>11, <2>1 DEF WriteComplete, DownstreamReturns
  <2>2. CASE pc = "WriteRaw"
    <3>1. pc' = "Idle" /\ done' = done /\ done
      BY <1>11, <2>2 DEF WriteComplete, DownstreamReturns, PhaseInv
    <3> QED
      BY <3>1 DEF LinkInv
  <2> QED
    BY <1>11, <2>1, <2>2 DEF WriteComplete
<1>12. CASE WriteBlocked
  <2>1. CASE pc = "Write"
    BY <1>10, <1>12, <2>1 DEF WriteBlocked, DownstreamReturns, HeadData
  <2>2. CASE pc = "WriteRaw"
    <3>1. pc' = "Idle" /\ done' = done /\ done
      BY <1>12, <2>2 DEF WriteBlocked, DownstreamReturns, PhaseInv
    <3> QED
      BY <3>1 DEF LinkInv
  <2> QED
    BY <1>12, <2>1, <2>2 DEF WriteBlocked
<1>13. CASE WriteAbsorbed
  BY <1>10, <1>13 DEF WriteAbsorbed, DownstreamReturns
<1>14. CASE WriteFails
  BY <1>14 DEF WriteFails, LinkInv
<1>15. CASE DropLink \/ WriteByte
  <2>1. pc' = pc /\ pc \in {"Write", "WriteRaw", "Absorb"} /\ UNCHANGED <<busy, out>> /\ held # <<>>
    BY <1>15 DEF DropLink, WriteByte, Writing
  <2>2. CASE pc = "WriteRaw"
    BY <2>1, <2>2 DEF LinkInv
  <2>3. CASE pc # "WriteRaw"
    <3>1. PICK k \in 0..Len(Undrained) :
             /\ held = SubSeq(Undrained, k + 1, Len(Undrained))
             /\ \A i \in 1..k : buf[Undrained[i]].data = <<>>
      BY <2>1, <2>3 DEF LinkInv
    <3> DEFINE chain == Undrained
    <3>2. chain \in Seq(OutputBufferIds) /\ Len(chain) \in Nat /\ Undrained' = chain
      BY <1>0, <2>1 DEF Undrained
    <3>3. /\ held = SubSeq(chain, k + 1, Len(chain)) /\ k \in 0..Len(chain)
          /\ \A i \in 1..k : buf[chain[i]].data = <<>>
      BY <3>1
    <3> HIDE DEF chain
    <3>4. k < Len(chain) /\ Head(held) = chain[k + 1] /\ chain[k + 1] \in OutputBufferIds
      BY <2>1, <3>2, <3>3
    <3>5. HeadData = buf[chain[k + 1]].data
      BY <3>4 DEF HeadData, LinkData, OutputBufferIds, FrameLink
    <3>6. CASE DropLink
      <4>1. held' = Tail(held) /\ HeadData = <<>> /\ buf' = buf
        BY <3>6 DEF DropLink
      <4>2. held' = SubSeq(chain, (k + 1) + 1, Len(chain)) /\ k + 1 \in 0..Len(chain)
        BY <3>2, <3>3, <3>4, <4>1
      <4>3. ASSUME NEW i \in 1..(k + 1)
            PROVE  buf'[chain[i]].data = <<>>
        <5>1. i \in 1..k \/ i = k + 1
          BY <3>3
        <5>2. buf[chain[k + 1]].data = <<>>
          BY <3>5, <4>1
        <5> QED
          BY <3>3, <4>1, <5>1, <5>2
      <4> QED
        BY <2>1, <2>3, <3>2, <4>2, <4>3 DEF LinkInv
    <3>7. CASE WriteByte
      <4>1. Head(held) # FrameLink
        BY <3>4 DEF OutputBufferIds, FrameLink
      <4>2. held' = held /\ HeadData # <<>> /\ buf' = [buf EXCEPT ![chain[k + 1]].data = Tail(@)]
        BY <3>4, <3>7, <4>1 DEF WriteByte
      <4>3. ASSUME NEW i \in 1..k PROVE buf'[chain[i]].data = <<>>
        <5>1. chain[i] # chain[k + 1]
          BY <3>3, <3>5, <4>2
        <5>2. chain[i] \in OutputBufferIds
          BY <3>2, <3>3
        <5>3. DOMAIN buf = OutputBufferIds
          BY <1>0 DEF ChainsTyped
        <5>4. buf'[chain[i]] = buf[chain[i]]
          BY <4>2, <5>1, <5>2, <5>3
        <5> QED
          BY <3>3, <5>4
      <4>4. /\ k \in 0..Len(Undrained')
            /\ held' = SubSeq(Undrained', k + 1, Len(Undrained'))
            /\ \A i \in 1..k : buf'[Undrained'[i]].data = <<>>
        BY <3>2, <3>3, <4>2, <4>3
      <4> HIDE DEF Undrained
      <4> QED
        BY <2>1, <2>3, <4>4 DEF LinkInv
    <3> QED
      BY <1>15, <3>6, <3>7
  <2> QED
    BY <2>2, <2>3
<1> QED
  BY <1>1, <1>2, <1>3, <1>4, <1>5, <1>6, <1>7, <1>8, <1>9, <1>11, <1>12, <1>13, <1>14, <1>15
  DEF Next, Callback, Compress, Fails, Hand, Write

-----------------------------------------------------------------------------
(* Being called again.                                                     *)

\* A request to finish is pending, or has been honoured, only behind the end of the
\* response.
EndInv ==
    /\ \A i \in DOMAIN input : input[i].op = "Finish" => Ended
    /\ pendingOp = "Finish" => Ended
    /\ done => Ended

\* A stream that was given the last mark has ended.
LEMMA EndedBehindMark ==
    ASSUME NEW s \in Seq(Int), NEW x, x = s \o <<LastMark>>
    PROVE  x # <<>> /\ x[Len(x)] = LastMark
BY DEF LastMark

\* The end of the response stays ended.
LEMMA EndStep ==
    ASSUME TypeOK, PhaseInv, ResumeInv, DP!DriverInv, EndInv, Next
    PROVE  EndInv'
<1> USE DEF ctxVars, upstreamVars
<1>0. input \in Seq(UpstreamBuffer) /\ accepted \in Seq(Int)
  BY DEF TypeOK
<1>1. CASE Upstream
  <2>1. PICK n \in 0..MaxBytes, op \in request.ops : UpstreamData(n, op)
    BY <1>1 DEF Upstream
  <2>2. /\ ~Ended
        /\ accepted' = accepted \o Run(BytesIn(accepted) + 1, n) \o MarkOf(op)
        /\ \A i \in DOMAIN input' : (\E j \in DOMAIN input : input'[i] = input[j]) \/ input'[i].op = op
    BY <2>1, ArrivalFacts
  <2>3. op = "Finish" => Ended'
    <3> SUFFICES ASSUME op = "Finish" PROVE Ended'
      OBVIOUS
    <3>1. MarkOf(op) = <<LastMark>>
      BY DEF MarkOf
    <3>2. Run(BytesIn(accepted) + 1, n) \in Seq(Int)
      BY <1>0, BytesInNat, RunFacts
    <3> DEFINE s == accepted \o Run(BytesIn(accepted) + 1, n)
    <3>3. s \in Seq(Int)
      BY <1>0, <3>2
    <3>4. accepted' = s \o <<LastMark>>
      BY <2>2, <3>1
    <3> HIDE DEF s
    <3> QED
      BY <3>3, <3>4, EndedBehindMark DEF Ended
  <2>4. pendingOp' = pendingOp /\ done' = done
    BY <1>1, EntryFacts
  <2>5. ~done /\ pendingOp # "Finish" /\ \A i \in DOMAIN input : input[i].op # "Finish"
    BY <2>2 DEF EndInv
  <2> QED
    BY <2>2, <2>3, <2>4, <2>5 DEF EndInv
<1>a. ASSUME accepted' = accepted PROVE Ended' <=> Ended
  BY <1>a DEF Ended
<1>b. ASSUME UNCHANGED <<input, pendingOp, done, accepted>> PROVE EndInv'
  BY <1>b DEF EndInv, Ended
<1>c. input # <<>> => \A i \in DOMAIN Tail(input) : Tail(input)[i].op = "Finish" => Ended
  <2> SUFFICES ASSUME input # <<>>, NEW i \in DOMAIN Tail(input), Tail(input)[i].op = "Finish" PROVE Ended
    OBVIOUS
  <2>1. i + 1 \in DOMAIN input /\ Tail(input)[i] = input[i + 1]
    BY <1>0
  <2> QED
    BY <2>1 DEF EndInv
<1>d. input # <<>> => Head(input) = input[1] /\ 1 \in DOMAIN input
  BY <1>0
<1>2. CASE PostedWriteEvent \/ SocketWriteEvent
  BY <1>b, <1>2 DEF PostedWriteEvent, SocketWriteEvent, ReenterIfBuffered, EnterFilter
<1>3. CASE ResumeOperation \/ DriveHead \/ InputExhausted \/ OperationPaused \/ DriveExhaust \/ BuffersExhausted
            \/ CompressionFails
  BY <1>b, <1>3 DEF ResumeOperation, DriveHead, DriveInput, InputExhausted, OperationPaused, DriveExhaust,
                    BuffersExhausted, CompressionFails
<1>4. ASSUME NEW r \in Driver!Results, DriveStep(r) PROVE EndInv'
  BY <1>b, <1>4 DEF DriveStep
<1>5. CASE HeadPaused
  <2>1. input # <<>> /\ Head(input).op = operation /\ done' = done /\ accepted' = accepted
    BY <1>5 DEF HeadPaused, ResumeInv
  <2>2. pendingOp' = "Finish" => Ended
    BY <1>5, <1>d, <2>1 DEF HeadPaused, EndInv
  <2>3. CASE Consumed
    <3>1. input' = Tail(input)
      BY <1>5, <2>3 DEF HeadPaused
    <3> QED
      BY <1>a, <1>c, <2>1, <2>2, <3>1 DEF EndInv
  <2>4. CASE ~Consumed
    <3>1. input' = [input EXCEPT ![1].first = @ + offset, ![1].size = @ - offset]
      BY <1>5, <2>4 DEF HeadPaused
    <3>2. /\ DOMAIN input' = DOMAIN input
          /\ \A i \in DOMAIN input : i # 1 => input'[i] = input[i]
          /\ input'[1].op = input[1].op
      BY <1>0, <1>d, <2>1, <3>1 DEF UpstreamBuffer
    <3>3. \A i \in DOMAIN input' : input'[i].op = input[i].op
      BY <3>2
    <3> QED
      BY <1>a, <2>1, <2>2, <3>2, <3>3 DEF EndInv
  <2> QED
    BY <2>3, <2>4
<1>6. CASE OperationComplete
  BY <1>a, <1>6 DEF OperationComplete, EndInv
<1>7. CASE HeadComplete
  <2>1. input # <<>> /\ input' = Tail(input) /\ UNCHANGED <<pendingOp, done, accepted>>
    BY <1>7 DEF HeadComplete, ResumeInv
  <2> QED
    BY <1>a, <1>c, <2>1 DEF EndInv
<1>8. CASE StreamFinished
  <2>1. pc = "Drive" /\ state = "Finished" /\ input' = <<>> /\ pendingOp' = "None" /\ accepted' = accepted
    BY <1>8 DEF StreamFinished
  <2>2. operation = "Finish"
    BY <2>1 DEF DP!DriverInv, DP!BoundaryHonest
  <2>3. Ended
    BY <1>d, <2>1, <2>2 DEF ResumeInv, EndInv
  <2> QED
    BY <1>a, <2>1, <2>3 DEF EndInv
<1>9. CASE Hand
  <2>1. UNCHANGED <<input, pendingOp, done, accepted>>
    BY <1>9 DEF Hand, NothingToSubmit, Submit, SubmitPostponed, BypassContext, Prepare, PreparedVars
  <2> QED
    BY <1>b, <2>1
<1>10. CASE Write \/ WriteFails
  <2>1. UNCHANGED <<input, pendingOp, done, accepted>>
    BY <1>10 DEF Write, WriteFails, WriteByte, DropLink, WriteComplete, WriteBlocked, WriteAbsorbed
  <2> QED
    BY <1>b, <2>1
<1> QED
  BY <1>1, <1>2, <1>3, <1>4, <1>5, <1>6, <1>7, <1>8, <1>9, <1>10 DEF Next, Callback, Compress, Fails

\* Who is due to call the filter again.  The write filter's bit means it holds links,
\* and only a filter chain that coalesces keeps anything without a bit.
WakeInv ==
    /\ done => input = <<>> /\ pendingOp = "None"
    /\ pc \in {"Idle", "Bypass", "Compress", "Drive", "Submit"} /\ writeBit => held # <<>>
    /\ pc = "Bypass" => writeBit \/ tlsBit
    /\ ~request.tls => ~tlsBit /\ pc # "Absorb"
    /\ pc \in {"Write", "Absorb"} => (gzipBit <=> pending)
    /\ PlainWorkHasWakeup

\* Work that is left keeps its wake-up.
LEMMA WakeStep ==
    ASSUME TypeOK, PhaseInv, ResumeInv, BitInv, LinkInv, EndInv, WakeInv, Next, BitInv'
    PROVE  WakeInv'
<1> USE DEF ctxVars, connVars, eventVars, PlainWorkHasWakeup, PendingWorkHasWakeup
<1>0. /\ done \in BOOLEAN /\ pending \in BOOLEAN /\ gzipBit \in BOOLEAN /\ writeBit \in BOOLEAN
      /\ tlsBit \in BOOLEAN /\ posted \in BOOLEAN /\ ready \in BOOLEAN
      /\ held \in Seq(OutputBufferIds \cup {FrameLink})
      /\ out \in Seq(OutputBufferIds)
  BY DEF TypeOK
<1>1. CASE Upstream
  <2>1. ~Ended
    BY <1>1, ArrivalFacts DEF Upstream
  <2>2. ~done
    BY <2>1 DEF EndInv
  <2>3. /\ pc = "Idle" /\ done' = done /\ UNCHANGED <<writeBit, tlsBit, held, gzipBit, request>>
        /\ pc' \in {"Idle", "Compress"}
        /\ (pc' = "Idle" => TRUE \notin {gzipBit, writeBit, tlsBit})
    BY <1>1, <2>2, EntryFacts
  <2> QED
    BY <1>0, <2>2, <2>3 DEF WakeInv
<1>2. CASE PostedWriteEvent \/ SocketWriteEvent
  <2>1. /\ pc = "Idle" /\ UNCHANGED <<done, writeBit, tlsBit, held, gzipBit, request, pendingOp>>
    BY <1>2, EntryFacts
  <2>2. input' = input
    BY <1>2 DEF PostedWriteEvent, SocketWriteEvent, ReenterIfBuffered, EnterFilter
  <2>3. \/ pc' = "Idle" /\ TRUE \notin {gzipBit, writeBit, tlsBit}
        \/ pc' = "Compress"
        \/ pc' = "Bypass" /\ done /\ TRUE \in {gzipBit, writeBit, tlsBit}
    BY <1>2 DEF PostedWriteEvent, SocketWriteEvent, ReenterIfBuffered, EnterFilter
  <2>4. done => ~gzipBit
    BY <2>1 DEF WakeInv, BitInv, Unfinished
  <2> QED
    BY <1>0, <2>1, <2>2, <2>3, <2>4 DEF WakeInv
<1>3. CASE ResumeOperation \/ DriveHead
  BY <1>0, <1>3 DEF ResumeOperation, DriveHead, DriveInput, WakeInv
<1>4. CASE InputExhausted \/ OperationPaused \/ HeadPaused \/ StreamFinished
  <2>1. /\ pc \in {"Compress", "Drive"} /\ pc' = "Submit" /\ UNCHANGED <<writeBit, tlsBit, held, request>>
        /\ ~done /\ (done' => input' = <<>> /\ pendingOp' = "None")
    <3>1. pc \in {"Compress", "Drive"} /\ \E p \in BOOLEAN : ReturnPending(p)
      BY <1>4 DEF InputExhausted, OperationPaused, HeadPaused, StreamFinished
    <3>2. pc' = "Submit" /\ ~done
      BY <3>1, ReturnFacts DEF PhaseInv
    <3>3. UNCHANGED <<writeBit, tlsBit, held, request>>
      BY <1>4 DEF InputExhausted, OperationPaused, HeadPaused, StreamFinished
    <3>4. done' = done \/ (input' = <<>> /\ pendingOp' = "None")
      BY <1>4 DEF InputExhausted, OperationPaused, HeadPaused, StreamFinished
    <3> QED
      BY <1>0, <3>1, <3>2, <3>3, <3>4
  <2> QED
    BY <1>0, <2>1 DEF WakeInv
<1>5. ASSUME NEW r \in Driver!Results, DriveStep(r) PROVE WakeInv'
  <2>1. pc = "Drive" /\ pc' = "Drive" /\ UNCHANGED <<writeBit, tlsBit, held, request, done, input, pendingOp>>
    BY <1>5 DEF DriveStep
  <2> QED
    BY <1>0, <2>1 DEF WakeInv
<1>6. CASE DriveExhaust \/ BuffersExhausted \/ CompressionFails \/ OperationComplete \/ HeadComplete
  <2>1. pc = "Drive" /\ pc' \in {"Drive", "Compress", "Failed"} /\ UNCHANGED <<writeBit, tlsBit, held, request, done>>
    BY <1>6 DEF DriveExhaust, BuffersExhausted, CompressionFails, OperationComplete, HeadComplete
  <2>2. ~done
    BY <2>1 DEF PhaseInv
  <2> QED
    BY <1>0, <2>1, <2>2 DEF WakeInv
<1>7. CASE NothingToSubmit
  <2>1. /\ pc = "Submit" /\ pc' = "Idle" /\ UNCHANGED <<writeBit, tlsBit, held, request, done, input, pendingOp, ready>>
        /\ gzipBit' = pending
        /\ posted' = (posted \/ (pending /\ TRUE /\ gzipBit' /\ ~writeBit /\ ~tlsBit))
        /\ busy = <<>>
    BY <1>7 DEF NothingToSubmit, Prepare, PreparedVars, ScheduleContinuation
  <2>2. ASSUME ~(request.framing \/ request.postpone \/ request.tls), gzipBit'
        PROVE  posted'
    <3>1. held = <<>>
      BY <2>1, <2>2 DEF LinkInv
    <3>2. ~writeBit /\ ~tlsBit
      BY <2>1, <2>2, <3>1 DEF WakeInv
    <3> QED
      BY <2>1, <2>2, <3>2
  <2> QED
    BY <1>0, <2>1, <2>2 DEF WakeInv
<1>8. CASE Submit
  <2>1. /\ pc = "Submit" /\ UNCHANGED <<writeBit, tlsBit, request, done, input, pendingOp, pending>>
        /\ gzipBit' = pending
        /\ pc' \in {"Write", "Absorb", "WriterError"}
        /\ (pc' = "Absorb" => request.tls)
    BY <1>8 DEF Submit, Prepare, PreparedVars, CallDownstream
  <2> QED
    BY <1>0, <2>1 DEF WakeInv
<1>9. CASE SubmitPostponed
  <2>1. /\ pc = "Submit" /\ pc' = "Idle" /\ UNCHANGED <<writeBit, tlsBit, request, done, input, pendingOp>>
        /\ request.postpone /\ held' = Links(out) /\ out # <<>>
    BY <1>9 DEF SubmitPostponed, Prepare, PreparedVars
  <2>2. Links(out) # <<>>
    <3>1. \E f \in {<<>>, <<FrameLink>>} : Links(out) = held \o out \o f
      BY DEF Links
    <3>2. out \in Seq(OutputBufferIds \cup {FrameLink})
      BY <1>0
    <3>3. \A f \in {<<>>, <<FrameLink>>} : f \in Seq(OutputBufferIds \cup {FrameLink})
      <4>1. <<>> \in Seq(OutputBufferIds \cup {FrameLink})
        OBVIOUS
      <4>2. <<FrameLink>> \in Seq(OutputBufferIds \cup {FrameLink})
        OBVIOUS
      <4> QED
        BY <4>1, <4>2
    <3>4. \A s, t, u \in Seq(OutputBufferIds \cup {FrameLink}) : t # <<>> => s \o t \o u # <<>>
      OBVIOUS
    <3> QED
      BY <1>0, <2>1, <3>1, <3>2, <3>3, <3>4
  <2> QED
    BY <1>0, <2>1, <2>2 DEF WakeInv
<1>10. CASE BypassContext
  <2>1. pc = "Bypass" /\ pc' \in {"WriteRaw", "WriterError"} /\ UNCHANGED <<tlsBit, request, done, input, pendingOp>>
    BY <1>10 DEF BypassContext, CallDownstream
  <2> QED
    BY <1>0, <2>1 DEF WakeInv
<1>11. CASE WriteByte \/ DropLink \/ WriteFails
  <2>1. pc \in {"Write", "WriteRaw", "Absorb"} /\ pc' \in {pc, "Failed"}
        /\ UNCHANGED <<tlsBit, request, done, input, pendingOp, gzipBit, pending>>
    BY <1>11 DEF WriteByte, DropLink, WriteFails, Writing
  <2> QED
    BY <1>0, <2>1 DEF WakeInv
<1>12. ASSUME NEW ok \in BOOLEAN, NEW wbit, NEW tbit, DownstreamReturns(ok, wbit, tbit),
              pc \in {"Write", "WriteRaw", "Absorb"}, UNCHANGED <<held, ctxVars>>,
              wbit => held # <<>>, ~request.tls => ~tbit,
              \/ ready' = FALSE
              \/ request.tls
              \/ ok /\ ~wbit /\ ~tbit
       PROVE  WakeInv'
  <2>1. /\ pc' = "Idle" /\ writeBit' = wbit /\ tlsBit' = tbit /\ gzipBit' = gzipBit
        /\ pc # "WriteRaw" => posted' = (posted \/ (pending /\ ok /\ gzipBit' /\ ~wbit /\ ~tbit))
    BY <1>12 DEF DownstreamReturns, ScheduleContinuation
  <2>2. /\ UNCHANGED <<held, request, done, input, pendingOp>>
    BY <1>12
  <2>3. pc = "WriteRaw" => ~gzipBit
    BY DEF PhaseInv, WakeInv, BitInv, Unfinished
  <2>4. ASSUME ~request.tls, gzipBit' PROVE posted' \/ ~ready'
    BY <1>0, <1>12, <2>1, <2>3, <2>4 DEF WakeInv
  <2> QED
    BY <1>0, <1>12, <2>1, <2>2, <2>4 DEF WakeInv
<1>13. CASE WriteComplete
  <2>1. DownstreamReturns(TRUE, FALSE, FALSE) /\ UNCHANGED <<held, ctxVars>> /\ pc \in {"Write", "WriteRaw", "Absorb"}
    BY <1>13 DEF WriteComplete
  <2> QED
    BY <1>12, <2>1
<1>14. CASE WriteBlocked
  <2>1. DownstreamReturns(FALSE, held # <<>>, tlsBit) /\ UNCHANGED <<held, ctxVars>>
        /\ pc \in {"Write", "WriteRaw", "Absorb"} /\ ready' = FALSE
    BY <1>14 DEF WriteBlocked
  <2>2. ~request.tls => ~tlsBit
    BY DEF WakeInv
  <2> QED
    BY <1>12, <2>1, <2>2
<1>15. CASE WriteAbsorbed
  <2>1. DownstreamReturns(FALSE, FALSE, TRUE) /\ UNCHANGED <<held, ctxVars>> /\ pc = "Absorb"
    BY <1>15 DEF WriteAbsorbed
  <2>2. request.tls
    BY <2>1 DEF WakeInv
  <2> QED
    BY <1>12, <2>1, <2>2
<1> QED
  BY <1>1, <1>2, <1>3, <1>4, <1>5, <1>6, <1>7, <1>8, <1>9, <1>10, <1>11, <1>13, <1>14, <1>15
  DEF Next, Callback, Compress, Fails, Hand, Write

-----------------------------------------------------------------------------
(* What the write filter is handed.                                        *)

\* A link the write filter has something to do with.
Live(b) == buf[b].data # <<>> \/ buf[b].mark # "None"

\* Without a framing filter, every link further down has bytes or a flag, but for the
\* one being written: the write filter has no reason to refuse a chain.
LiveInv ==
    ~request.framing =>
      /\ held \in Seq(OutputBufferIds) /\ IsInjective(held)
      /\ \A i \in DOMAIN held :
           Live(held[i]) \/ (i = 1 /\ pc \in {"Write", "WriteRaw", "Absorb", "Failed"})
      /\ pc \in {"Compress", "Drive", "Submit"} => \A i \in DOMAIN out : Live(out[i])
      /\ pc \in {"Idle", "Bypass", "WriteRaw"} => out = <<>>
      /\ WriterNeverRefuses

\* Such links are not refused.
LEMMA NotRefused ==
    ASSUME NEW links \in Seq(OutputBufferIds), \A i \in DOMAIN links : Live(links[i]),
           links # <<>> \/ tlsBit
    PROVE  ~Refused(links)
<1>1. ASSUME NEW i \in DOMAIN links
      PROVE  LinkData(buf, links[i]) # <<>> \/ LinkMark(buf, links[i]) # "None"
  <2>1. links[i] \in OutputBufferIds /\ Live(links[i])
    OBVIOUS
  <2>2. links[i] # FrameLink
    BY <2>1 DEF OutputBufferIds, FrameLink
  <2> QED
    BY <2>1, <2>2 DEF Live, LinkData, LinkMark
<1>2. ASSUME links # <<>> PROVE HasData(links) \/ HasMark(links)
  <2>1. 1 \in DOMAIN links
    BY <1>2
  <2> QED
    BY <1>1, <2>1 DEF HasData, HasMark
<1> QED
  BY <1>1, <1>2 DEF Refused

\* Links stay alive until they are written.
LEMMA LiveStep ==
    ASSUME TypeOK, PhaseInv, ResumeInv, OwnInv, LinkInv, WakeInv, LiveInv, Next, ~request.framing
    PROVE  LiveInv'
<1> USE DEF ctxVars, connVars, chainVars
<1>0. /\ busy \in Seq(OutputBufferIds) /\ out \in Seq(OutputBufferIds)
      /\ held \in Seq(OutputBufferIds) /\ IsInjective(held)
      /\ \A i \in DOMAIN held :
           Live(held[i]) \/ (i = 1 /\ pc \in {"Write", "WriteRaw", "Absorb", "Failed"})
      /\ pc \in {"Compress", "Drive", "Submit"} => \A i \in DOMAIN out : Live(out[i])
      /\ pc \in {"Idle", "Bypass", "WriteRaw"} => out = <<>>
      /\ buf \in [OutputBufferIds -> [data : Seq(Int), mark : OutputBoundary]]
  BY DEF TypeOK, LiveInv
\* Steps that touch neither the links nor the buffers.
<1>a. ASSUME UNCHANGED <<held, buf, out, request>>,
             pc' # "WriterError",
             pc \in {"Write", "WriteRaw", "Absorb", "Failed"} =>
               pc' = "Failed" \/ (pc' = pc) \/ (pc' = "Idle" /\ out = <<>> /\ (held # <<>> => Live(held[1]))),
             pc' \in {"Compress", "Drive", "Submit"} => pc \in {"Compress", "Drive", "Submit"} \/ out = <<>>,
             pc' \in {"Idle", "Bypass", "WriteRaw"} => out = <<>>
      PROVE  LiveInv'
  <2>1. IsInjective(held') /\ held' \in Seq(OutputBufferIds)
    BY <1>0, <1>a DEF IsInjective
  <2>2. \A b : Live(b)' <=> Live(b)
    BY <1>a DEF Live
  <2>3. \A i \in DOMAIN held' : Live(held[i])' \/ (i = 1 /\ pc' \in {"Write", "WriteRaw", "Absorb", "Failed"})
    <3> SUFFICES ASSUME NEW i \in DOMAIN held PROVE Live(held[i]) \/ (i = 1 /\ pc' \in {"Write", "WriteRaw", "Absorb", "Failed"})
      BY <1>a, <2>2
    <3>1. held # <<>>
      BY <1>0
    <3> QED
      BY <1>0, <1>a, <3>1
  <2>4. pc' \in {"Compress", "Drive", "Submit"} => \A i \in DOMAIN out' : Live(out[i])'
    <3>1. out = <<>> => \A i \in DOMAIN out : Live(out[i])
      OBVIOUS
    <3> QED
      BY <1>0, <1>a, <2>2, <3>1
  <2>5. WriterNeverRefuses'
    BY <1>a DEF WriterNeverRefuses
  <2> QED
    BY <1>a, <2>1, <2>3, <2>4, <2>5 DEF LiveInv
<1>1. CASE Upstream \/ PostedWriteEvent \/ SocketWriteEvent
  <2>1. /\ pc = "Idle" /\ UNCHANGED <<held, buf, out, request>>
        /\ pc' \in {"Idle", "Bypass", "Compress"}
    BY <1>1, EntryFacts
  <2> QED
    BY <1>0, <1>a, <2>1
<1>2. CASE ResumeOperation \/ DriveHead \/ DriveExhaust \/ BuffersExhausted \/ CompressionFails
            \/ OperationComplete \/ HeadComplete
  <2>1. /\ pc \in {"Compress", "Drive"} /\ pc' \in {"Compress", "Drive", "Failed"}
        /\ UNCHANGED <<held, buf, out, request>>
    BY <1>2 DEF ResumeOperation, DriveHead, DriveInput, DriveExhaust, BuffersExhausted, CompressionFails,
                OperationComplete, HeadComplete
  <2> QED
    BY <1>a, <2>1
<1>3. CASE InputExhausted \/ OperationPaused \/ HeadPaused \/ StreamFinished
  <2>1. pc \in {"Compress", "Drive"} /\ \E p \in BOOLEAN : ReturnPending(p)
    BY <1>3 DEF InputExhausted, OperationPaused, HeadPaused, StreamFinished
  <2>2. pc' = "Submit"
    BY <2>1, ReturnFacts
  <2>3. UNCHANGED <<held, buf, out, request>>
    BY <1>3 DEF InputExhausted, OperationPaused, HeadPaused, StreamFinished
  <2> QED
    BY <1>a, <2>1, <2>2, <2>3
<1>4. ASSUME NEW r \in Driver!Results, DriveStep(r) PROVE LiveInv'
  <2>1. CanLend /\ pc = "Drive" /\ UNCHANGED <<pc, busy, held, request>>
    BY <1>4, DriveStepChains DEF DriveStep
  <2>2. PICK d \in Seq(Int), m \in OutputBoundary :
                /\ buf' = [buf EXCEPT ![Lent] = [data |-> d, mark |-> m]]
                /\ \/ out' = Append(out, Lent) /\ (d # <<>> \/ m # "None")
                   \/ out' = out
    BY <1>4, DriveStepChains
  <2>3. Lent \in OutputBufferIds /\ Lent \notin ToSet(out) /\ Lent \notin ToSet(busy)
    BY <2>1, LendOwn, LendFacts
  <2>4. held = busy
    BY <2>1 DEF LinkInv
  <2>5. ASSUME NEW b \in OutputBufferIds, b # Lent, Live(b) PROVE Live(b)'
    BY <1>0, <2>2, <2>5 DEF Live
  <2>6. ASSUME NEW i \in DOMAIN held' PROVE Live(held[i])'
    <3>1. i \in DOMAIN held /\ held[i] \in OutputBufferIds /\ held[i] \in ToSet(busy) /\ held' = held
      BY <1>0, <2>1, <2>4 DEF ToSet
    <3>2. Live(held[i])
      BY <1>0, <2>1, <3>1
    <3>3. buf'[held[i]] = buf[held[i]]
      BY <1>0, <2>2, <2>3, <3>1
    <3> QED
      BY <3>1, <3>2, <3>3 DEF Live
  <2>7. ASSUME NEW i \in DOMAIN out' PROVE Live(out[i])'
    <3>a. ASSUME i \in DOMAIN out, out'[i] = out[i] PROVE Live(out[i])'
      <4>1. out[i] \in OutputBufferIds /\ out[i] \in ToSet(out) /\ Live(out[i])
        BY <1>0, <2>1, <3>a DEF ToSet
      <4>2. buf'[out[i]] = buf[out[i]]
        BY <1>0, <2>2, <2>3, <4>1
      <4> QED
        BY <3>a, <4>1, <4>2 DEF Live
    <3>1. CASE out' = out
      BY <3>1, <3>a
    <3>2. CASE out' = Append(out, Lent) /\ (d # <<>> \/ m # "None")
      <4>1. (i \in DOMAIN out /\ out'[i] = out[i]) \/ out'[i] = Lent
        BY <1>0, <3>2
      <4>2. buf'[Lent] = [data |-> d, mark |-> m]
        BY <1>0, <2>2, <2>3
      <4>3. out'[i] = Lent => Live(out[i])'
        BY <3>2, <4>2 DEF Live
      <4> QED
        BY <3>a, <4>1, <4>3
    <3> QED
      BY <2>2, <3>1, <3>2
  <2>8. IsInjective(held') /\ held' \in Seq(OutputBufferIds)
    BY <1>0, <2>1 DEF IsInjective
  <2> QED
    BY <2>1, <2>6, <2>7, <2>8 DEF LiveInv, WriterNeverRefuses
<1>5. CASE NothingToSubmit
  <2>1. pc = "Submit" /\ pc' = "Idle" /\ out = <<>> /\ UNCHANGED <<held, buf, out, request>>
    BY <1>5 DEF NothingToSubmit, Prepare, PreparedVars
  <2> QED
    BY <1>a, <2>1
\* What is handed down is what is held back and the new output, all of it alive.
<1>b. ASSUME pc = "Submit"
      PROVE  /\ Links(out) = busy \o out /\ Links(out) \in Seq(OutputBufferIds) /\ IsInjective(Links(out))
             /\ \A i \in DOMAIN Links(out) : Live(Links(out)[i])
  <2>1. held = busy /\ Links(out) = held \o out
    BY <1>b, PlainLinks DEF LinkInv
  <2>2. busy \o out \in Seq(OutputBufferIds) /\ IsInjective(busy \o out)
    BY <1>0, ConcatFacts DEF OwnInv
  <2>3. /\ \A i \in DOMAIN busy : Live(busy[i])
        /\ \A i \in DOMAIN out : Live(out[i])
    BY <1>0, <1>b, <2>1
  <2>4. ASSUME NEW i \in DOMAIN (busy \o out) PROVE Live((busy \o out)[i])
    <3>1. \/ i \in DOMAIN busy /\ (busy \o out)[i] = busy[i]
          \/ i - Len(busy) \in DOMAIN out /\ (busy \o out)[i] = out[i - Len(busy)]
      BY <1>0
    <3> QED
      BY <2>3, <3>1
  <2> QED
    BY <2>1, <2>2, <2>4
<1>6. CASE Submit
  <2>1. /\ pc = "Submit" /\ held' = Links(out) /\ UNCHANGED <<buf, out, request>>
        /\ out # <<>> \/ busy # <<>>
        /\ pc' = IF Refused(Links(out)) THEN "WriterError" ELSE pc'
        /\ pc' \in {"Write", "Absorb", "WriterError"}
        /\ (~Refused(Links(out)) => pc' # "WriterError")
    BY <1>6 DEF Submit, Prepare, PreparedVars, CallDownstream
  <2>2. Links(out) # <<>>
    BY <1>0, <1>b, <2>1
  <2>3. ~Refused(Links(out))
    BY <1>b, <2>1, <2>2, NotRefused
  <2>4. IsInjective(held') /\ held' \in Seq(OutputBufferIds)
    BY <1>b, <2>1 DEF IsInjective
  <2>5. \A b : Live(b)' <=> Live(b)
    BY <2>1 DEF Live
  <2>6. \A i \in DOMAIN held' : Live(held[i])'
    BY <1>b, <2>1, <2>5
  <2> QED
    BY <2>1, <2>3, <2>4, <2>6 DEF LiveInv, WriterNeverRefuses
<1>7. CASE SubmitPostponed
  <2>1. /\ pc = "Submit" /\ held' = Links(out) /\ UNCHANGED <<buf, request>> /\ pc' = "Idle" /\ out' = <<>>
    BY <1>7 DEF SubmitPostponed, Prepare, PreparedVars, UpdateChains
  <2>4. IsInjective(held') /\ held' \in Seq(OutputBufferIds)
    BY <1>b, <2>1 DEF IsInjective
  <2>5. \A b : Live(b)' <=> Live(b)
    BY <2>1 DEF Live
  <2>6. \A i \in DOMAIN held' : Live(held[i])'
    BY <1>b, <2>1, <2>5
  <2> QED
    BY <2>1, <2>4, <2>6 DEF LiveInv, WriterNeverRefuses
<1>8. CASE BypassContext
  <2>1. /\ pc = "Bypass" /\ held' = Links(<<>>) /\ UNCHANGED <<buf, out, request>>
        /\ pc' \in {"WriteRaw", "WriterError"}
        /\ (~Refused(Links(<<>>)) => pc' # "WriterError")
    BY <1>8 DEF BypassContext, CallDownstream
  <2>2. Links(<<>>) = held
    BY PlainLinks
  <2>3. held # <<>> \/ tlsBit
    BY <2>1 DEF WakeInv
  <2>4. ~Refused(held)
    BY <1>0, <2>1, <2>3, NotRefused
  <2>5. IsInjective(held') /\ held' \in Seq(OutputBufferIds)
    BY <1>0, <2>1, <2>2 DEF IsInjective
  <2>6. \A i \in DOMAIN held' : Live(held[i])'
    BY <1>0, <2>1, <2>2 DEF Live
  <2>7. out = <<>>
    BY <1>0, <2>1
  <2> QED
    BY <2>1, <2>2, <2>4, <2>5, <2>6, <2>7 DEF LiveInv, WriterNeverRefuses
<1>9. CASE WriteComplete \/ WriteBlocked \/ WriteAbsorbed
  <2>1. /\ pc \in {"Write", "WriteRaw", "Absorb"} /\ pc' = "Idle" /\ UNCHANGED <<held, buf, request>>
        /\ held # <<>> => HeadData # <<>>
        /\ out' = <<>> \/ (pc = "WriteRaw" /\ out' = out)
    BY <1>9 DEF WriteComplete, WriteBlocked, WriteAbsorbed, DownstreamReturns, UpdateChains
  <2>2. out' = <<>>
    BY <1>0, <2>1
  <2>3. IsInjective(held') /\ held' \in Seq(OutputBufferIds)
    BY <1>0, <2>1 DEF IsInjective
  <2>4. ASSUME NEW i \in DOMAIN held' PROVE Live(held[i])'
    <3>1. i \in DOMAIN held /\ held # <<>> /\ held[1] \in OutputBufferIds /\ Head(held) = held[1]
      BY <1>0, <2>1
    <3>2. held[1] # FrameLink
      BY <3>1 DEF OutputBufferIds, FrameLink
    <3>3. Live(held[1])
      BY <2>1, <3>1, <3>2 DEF HeadData, LinkData, Live
    <3>4. Live(held[i])
      BY <1>0, <3>1, <3>3
    <3> QED
      BY <2>1, <3>4 DEF Live
  <2> QED
    BY <2>1, <2>2, <2>3, <2>4 DEF LiveInv, WriterNeverRefuses
<1>10. CASE WriteFails
  <2>1. pc' = "Failed" /\ UNCHANGED <<held, buf, out, request>>
    BY <1>10 DEF WriteFails
  <2> QED
    BY <1>a, <2>1
<1>11. CASE DropLink
  <2>1. /\ pc \in {"Write", "WriteRaw", "Absorb"} /\ UNCHANGED <<pc, buf, out, request>> /\ held # <<>>
        /\ held' = Tail(held)
    BY <1>11 DEF DropLink, Writing
  <2>2. IsInjective(held') /\ held' \in Seq(OutputBufferIds)
    BY <1>0, <2>1, TailFacts DEF IsInjective
  <2>3. ASSUME NEW i \in DOMAIN held' PROVE Live(held[i])'
    <3>1. i + 1 \in DOMAIN held /\ i + 1 # 1 /\ held'[i] = held[i + 1]
      BY <1>0, <2>1, SMTT(30)
    <3>2. Live(held[i + 1])
      BY <1>0, <3>1
    <3> QED
      BY <2>1, <3>1, <3>2 DEF Live
  <2> QED
    BY <1>0, <2>1, <2>2, <2>3 DEF LiveInv, WriterNeverRefuses
<1>12. CASE WriteByte
  <2>1. /\ pc \in {"Write", "WriteRaw", "Absorb"} /\ UNCHANGED <<pc, out, request>> /\ held # <<>>
    BY <1>12 DEF WriteByte, Writing
  <2>2. Head(held) = held[1] /\ held[1] \in OutputBufferIds /\ 1 \in DOMAIN held
    BY <1>0, <2>1
  <2>3. Head(held) # FrameLink
    BY <2>2 DEF OutputBufferIds, FrameLink
  <2>4. held' = held /\ buf' = [buf EXCEPT ![held[1]].data = Tail(@)]
    BY <1>12, <2>2, <2>3 DEF WriteByte
  <2>5. IsInjective(held') /\ held' \in Seq(OutputBufferIds)
    BY <1>0, <2>4 DEF IsInjective
  <2>6. ASSUME NEW i \in DOMAIN held', i # 1 PROVE Live(held[i])'
    <3>1. i \in DOMAIN held /\ held[i] # held[1] /\ held[i] \in OutputBufferIds
      BY <1>0, <2>2, <2>4, <2>6 DEF IsInjective
    <3>2. Live(held[i])
      BY <1>0, <2>6, <3>1
    <3>3. buf'[held[i]] = buf[held[i]]
      BY <1>0, <2>4, <3>1
    <3> QED
      BY <2>4, <3>2, <3>3 DEF Live
  <2> QED
    BY <1>0, <2>1, <2>5, <2>6 DEF LiveInv, WriterNeverRefuses
<1> QED
  BY <1>1, <1>2, <1>3, <1>4, <1>5, <1>6, <1>7, <1>8, <1>9, <1>10, <1>11, <1>12
  DEF Next, Callback, Compress, Fails, Hand, Write

\* The last mark is put on a buffer by the step that finishes the stream.
MarkInv ==
    ~request.framing =>
      /\ \A i \in DOMAIN out : buf[out[i]].mark = "Finish" => state = "Finished"
      /\ TrailerBeforeLast

\* A finished stream stays finished.
LEMMA FinishedStays ==
    ASSUME TypeOK, PhaseInv, ResumeInv, Next, state = "Finished"
    PROVE  state' = "Finished"
<1> USE DEF driverVars
<1>1. CASE Upstream \/ PostedWriteEvent \/ SocketWriteEvent
  BY <1>1, EntryFacts
<1>2. CASE ResumeOperation \/ DriveHead
  BY <1>2 DEF ResumeOperation, DriveHead, PhaseInv
<1>3. CASE InputExhausted \/ OperationPaused \/ HeadPaused \/ StreamFinished
  <2>1. \E p \in BOOLEAN : ReturnPending(p)
    BY <1>3 DEF InputExhausted, OperationPaused, HeadPaused, StreamFinished
  <2> QED
    BY <2>1, ReturnFacts
<1>4. ASSUME NEW r \in Driver!Results, DriveStep(r) PROVE state' = "Finished"
  BY <1>4 DEF DriveStep, Driver!Step, Driver!MayStep
<1>5. CASE DriveExhaust \/ BuffersExhausted \/ CompressionFails
  BY <1>5 DEF DriveExhaust, BuffersExhausted, CompressionFails, Driver!Exhaust, Driver!OutputFailure,
              Driver!RejectStep, Driver!MayStep
<1>6. CASE OperationComplete \/ HeadComplete \/ Hand \/ Write \/ WriteFails
  BY <1>6 DEF OperationComplete, HeadComplete, Hand, NothingToSubmit, Submit, SubmitPostponed, BypassContext,
              Prepare, PreparedVars, Write, WriteByte, DropLink, WriteComplete, WriteBlocked, WriteAbsorbed, WriteFails
<1> QED
  BY <1>1, <1>2, <1>3, <1>4, <1>5, <1>6 DEF Next, Callback, Compress, Fails

\* The last buffer goes down behind the trailer.
LEMMA MarkStep ==
    ASSUME TypeOK, PhaseInv, ResumeInv, OwnInv, LinkInv, LiveInv, MarkInv, Next, ~request.framing
    PROVE  MarkInv'
<1> USE DEF ctxVars, connVars, chainVars
<1>0. /\ busy \in Seq(OutputBufferIds) /\ out \in Seq(OutputBufferIds) /\ held \in Seq(OutputBufferIds)
      /\ buf \in [OutputBufferIds -> [data : Seq(Int), mark : OutputBoundary]]
      /\ trailerSent \in BOOLEAN
  <2>1. held \in Seq(OutputBufferIds)
    BY DEF LiveInv
  <2>2. ChainsTyped /\ FlagsTyped
    BY TypeParts
  <2>3. trailerSent \in BOOLEAN
    BY <2>2 DEF FlagsTyped
  <2> QED
    BY <2>1, <2>2, <2>3 DEF ChainsTyped
<1>1. \A i \in DOMAIN held : held[i] \in OutputBufferIds /\ LinkMark(buf, held[i]) = buf[held[i]].mark
  <2>1. \A i \in DOMAIN held : held[i] \in OutputBufferIds
    BY <1>0
  <2>2. \A b \in OutputBufferIds : LinkMark(buf, b) = buf[b].mark
    BY DEF LinkMark, OutputBufferIds, FrameLink
  <2> QED
    BY <2>1, <2>2
<1>2. \A i \in DOMAIN out : buf[out[i]].mark = "Finish" => state = "Finished"
  BY DEF MarkInv
<1>3. request.stats_mode = "server_timing" =>
        \A i \in DOMAIN held : buf[held[i]].mark = "Finish" => trailerSent
  BY <1>1 DEF MarkInv, TrailerBeforeLast
<1>a. ASSUME UNCHANGED <<out, buf>> \/ out' = <<>>, request' = request,
             request.stats_mode = "server_timing" =>
               \A i \in DOMAIN held' : LinkMark(buf', held'[i]) = "Finish" => trailerSent'
      PROVE  MarkInv'
  <2>1. \A i \in DOMAIN out' : buf'[out'[i]].mark = "Finish" => state' = "Finished"
    BY <1>2, <1>a, FinishedStays
  <2> QED
    BY <1>a, <2>1 DEF MarkInv, TrailerBeforeLast
<1>b. ASSUME UNCHANGED <<out, buf>> \/ (buf' = buf /\ out' = <<>>),
             UNCHANGED <<request, trailerSent>>, held' = held
      PROVE  MarkInv'
  <2>1. request.stats_mode = "server_timing" =>
          \A i \in DOMAIN held : LinkMark(buf, held[i]) = "Finish" => trailerSent
    BY DEF MarkInv, TrailerBeforeLast
  <2> QED
    BY <1>a, <1>b, <2>1
<1>4. CASE Upstream \/ PostedWriteEvent \/ SocketWriteEvent
  BY <1>b, <1>4, EntryFacts
<1>5. CASE ResumeOperation \/ DriveHead \/ DriveExhaust \/ BuffersExhausted \/ CompressionFails
            \/ OperationComplete \/ HeadComplete \/ WriteFails
  BY <1>b, <1>5 DEF ResumeOperation, DriveHead, DriveInput, DriveExhaust, BuffersExhausted, CompressionFails,
                OperationComplete, HeadComplete, WriteFails
<1>6. CASE InputExhausted \/ OperationPaused \/ HeadPaused \/ StreamFinished
  BY <1>b, <1>6 DEF InputExhausted, OperationPaused, HeadPaused, StreamFinished
<1>7. ASSUME NEW r \in Driver!Results, DriveStep(r) PROVE MarkInv'
  <2>1. CanLend /\ pc = "Drive" /\ UNCHANGED <<pc, busy, held, request, trailerSent>>
    BY <1>7, DriveStepChains DEF DriveStep
  <2>2. PICK d \in Seq(Int), m \in OutputBoundary :
                /\ buf' = [buf EXCEPT ![Lent] = [data |-> d, mark |-> m]]
                /\ \/ out' = Append(out, Lent) /\ (m = "Finish" => state' = "Finished")
                   \/ out' = out
    BY <1>7, DriveStepChains
  <2>3. Lent \in OutputBufferIds /\ Lent \notin ToSet(out) /\ Lent \notin ToSet(busy)
    BY <2>1, LendOwn, LendFacts
  <2>4. held = busy
    BY <2>1 DEF LinkInv
  <2>5. ASSUME NEW i \in DOMAIN held PROVE LinkMark(buf', held[i]) = buf[held[i]].mark
    <3>1. held[i] \in OutputBufferIds /\ held[i] \in ToSet(busy) /\ held[i] # FrameLink
      BY <1>0, <1>1, <2>4 DEF ToSet, OutputBufferIds, FrameLink
    <3>2. buf'[held[i]] = buf[held[i]]
      BY <1>0, <2>2, <2>3, <3>1
    <3> QED
      BY <3>1, <3>2 DEF LinkMark
  <2>6. request.stats_mode = "server_timing" =>
           \A i \in DOMAIN held' : LinkMark(buf', held'[i]) = "Finish" => trailerSent'
    BY <1>3, <2>1, <2>5
  <2>7. ASSUME NEW i \in DOMAIN out', buf'[out'[i]].mark = "Finish" PROVE state' = "Finished"
    <3>1. ASSUME i \in DOMAIN out, out'[i] = out[i] PROVE state' = "Finished"
      <4>1. out[i] \in OutputBufferIds /\ out[i] \in ToSet(out)
        BY <1>0, <3>1 DEF ToSet
      <4>2. buf'[out[i]] = buf[out[i]]
        BY <1>0, <2>2, <2>3, <4>1
      <4> QED
        BY <1>2, <2>7, <3>1, <4>2, FinishedStays
    <3>2. CASE out' = out
      BY <3>1, <3>2
    <3>3. CASE out' = Append(out, Lent) /\ (m = "Finish" => state' = "Finished")
      <4>1. (i \in DOMAIN out /\ out'[i] = out[i]) \/ out'[i] = Lent
        BY <1>0, <3>3
      <4>2. buf'[Lent].mark = m
        BY <1>0, <2>2, <2>3
      <4> QED
        BY <2>7, <3>1, <3>3, <4>1, <4>2
    <3> QED
      BY <2>2, <3>2, <3>3
  <2> QED
    BY <2>1, <2>6, <2>7 DEF MarkInv, TrailerBeforeLast
\* A finished stream has its trailer before its last buffer is handed down.
<1>c. ASSUME pc = "Submit", Prepare
      PROVE  /\ request' = request /\ (trailerSent => trailerSent')
             /\ request.stats_mode = "server_timing" /\ state = "Finished" => trailerSent'
  <2>1. state = "Finished" => done
    BY <1>c DEF PhaseInv
  <2>2. AddServerTiming(done) /\ request' = request
    BY <1>c DEF Prepare, PreparedVars
  <2> QED
    BY <1>0, <2>1, <2>2 DEF AddServerTiming
<1>8. CASE NothingToSubmit
  <2>1. pc = "Submit" /\ Prepare /\ UNCHANGED <<out, buf, held>>
    BY <1>8 DEF NothingToSubmit, Prepare
  <2>2. request.stats_mode = "server_timing" =>
           \A i \in DOMAIN held' : LinkMark(buf', held'[i]) = "Finish" => trailerSent'
    BY <1>1, <1>3, <1>c, <2>1
  <2> QED
    BY <1>a, <1>c, <2>1, <2>2
<1>9. CASE Submit \/ SubmitPostponed
  <2>1. /\ pc = "Submit" /\ Prepare /\ held' = Links(out) /\ buf' = buf /\ out' \in {out, <<>>}
    BY <1>9 DEF Submit, SubmitPostponed, Prepare, CallDownstream, UpdateChains
  <2>2. Links(out) = held \o out
    BY PlainLinks
  <2>3. ASSUME request.stats_mode = "server_timing", NEW i \in DOMAIN held', LinkMark(buf', held'[i]) = "Finish"
        PROVE  trailerSent'
    <3>1. \/ i \in DOMAIN held /\ held'[i] = held[i]
          \/ i - Len(held) \in DOMAIN out /\ held'[i] = out[i - Len(held)]
      BY <1>0, <2>1, <2>2
    <3>2. CASE i \in DOMAIN held /\ held'[i] = held[i]
      BY <1>1, <1>3, <1>c, <2>1, <2>3, <3>2
    <3>3. CASE i - Len(held) \in DOMAIN out /\ held'[i] = out[i - Len(held)]
      <4>1. held'[i] \in OutputBufferIds
        BY <1>0, <3>3
      <4>2. buf[out[i - Len(held)]].mark = "Finish"
        BY <2>1, <2>3, <3>3, <4>1 DEF LinkMark, OutputBufferIds, FrameLink
      <4>3. state = "Finished"
        BY <1>2, <3>3, <4>2
      <4> QED
        BY <1>c, <2>1, <2>3, <4>3
    <3> QED
      BY <3>1, <3>2, <3>3
  <2> QED
    BY <1>a, <1>c, <2>1, <2>3
<1>10. CASE BypassContext
  <2>1. held' = Links(<<>>) /\ UNCHANGED <<out, buf, request, trailerSent>>
    BY <1>10 DEF BypassContext, CallDownstream
  <2> QED
    BY <1>b, <2>1, PlainLinks
<1>11. CASE WriteComplete \/ WriteBlocked \/ WriteAbsorbed
  <2>1. UNCHANGED <<held, buf, request, trailerSent>> /\ out' \in {out, <<>>}
    BY <1>11 DEF WriteComplete, WriteBlocked, WriteAbsorbed, DownstreamReturns, UpdateChains
  <2> QED
    BY <1>b, <2>1
<1>12. CASE DropLink
  <2>1. held # <<>> /\ held' = Tail(held) /\ UNCHANGED <<out, buf, request, trailerSent>>
    BY <1>12 DEF DropLink
  <2>2. ASSUME NEW i \in DOMAIN held' PROVE i + 1 \in DOMAIN held /\ held'[i] = held[i + 1]
    BY <1>0, <2>1
  <2>3. request.stats_mode = "server_timing" =>
           \A i \in DOMAIN held' : LinkMark(buf', held'[i]) = "Finish" => trailerSent'
    BY <1>1, <1>3, <2>1, <2>2
  <2> QED
    BY <1>a, <2>1, <2>3
<1>13. CASE WriteByte
  <2>1. held # <<>> /\ UNCHANGED <<out, request, trailerSent>>
    BY <1>13 DEF WriteByte
  <2>2. Head(held) = held[1] /\ held[1] \in OutputBufferIds /\ held[1] # FrameLink
    <3>1. Head(held) = held[1] /\ 1 \in DOMAIN held
      BY <1>0, <2>1
    <3> QED
      BY <1>1, <3>1 DEF OutputBufferIds, FrameLink
  <2>3. held' = held /\ buf' = [buf EXCEPT ![held[1]].data = Tail(@)]
    BY <1>13, <2>2 DEF WriteByte
  <2>4. \A b \in OutputBufferIds : buf'[b].mark = buf[b].mark
    BY <1>0, <2>2, <2>3
  <2>5. \A i \in DOMAIN held' : LinkMark(buf', held'[i]) = buf[held[i]].mark
    BY <1>1, <2>3, <2>4 DEF LinkMark, OutputBufferIds, FrameLink
  <2>6. \A i \in DOMAIN out' : buf'[out'[i]].mark = buf[out[i]].mark
    BY <1>0, <2>1, <2>4
  <2>7. \A i \in DOMAIN out' : buf'[out'[i]].mark = "Finish" => state' = "Finished"
    BY <1>2, <2>1, <2>6, FinishedStays
  <2>8. request.stats_mode = "server_timing" =>
           \A i \in DOMAIN held' : LinkMark(buf', held'[i]) = "Finish" => trailerSent'
    BY <1>3, <2>1, <2>3, <2>5
  <2> QED
    BY <2>1, <2>7, <2>8 DEF MarkInv, TrailerBeforeLast
<1> QED
  BY <1>4, <1>5, <1>6, <1>7, <1>8, <1>9, <1>10, <1>11, <1>12, <1>13
  DEF Next, Callback, Compress, Fails, Hand, Write

-----------------------------------------------------------------------------
(* The invariant and the theorems.                                         *)

\* The inductive invariant.
IndInv ==
    /\ TypeOK /\ DP!DriverInv
    /\ PhaseInv /\ ResumeInv /\ BitInv
    /\ OwnInv /\ LinkInv /\ EndInv /\ WakeInv /\ LiveInv /\ MarkInv

\* It holds at first,
LEMMA InitIndInv == Init => IndInv
<1> SUFFICES ASSUME Init PROVE IndInv
  OBVIOUS
<1>1. DP!Init
  BY DEF Init, Driver!Init, DP!Init, Driver!FreshBudget, DP!FreshBudget
<1>2. DP!DriverInv
  BY <1>1, FilterAssumption, DP!InitDriverInv DEF DP!DriverAssumption
<1>3. Driver!TypeOK
  BY <1>2 DEF DP!DriverInv, DP!TypeOK, Driver!TypeOK, DP!States, Driver!States, DP!DriveState, Driver!DriveState,
       DP!DriveFailure, Driver!DriveFailure, DP!Operation, Driver!Operation, DP!WorkBudget, Driver!WorkBudget,
       DP!OutputBoundary, Driver!OutputBoundary
<1>4. state = "Idle" /\ len = 0 /\ offset = 0 /\ moved = 0
  BY DEF Init, Driver!Init
<1>5. ItemsTyped /\ CallbackTyped
  <2>1. <<>> \in Seq(UpstreamBuffer) /\ <<>> \in Seq(Int) /\ DOMAIN <<>> = {}
    OBVIOUS
  <2> QED
    BY <2>1, FilterAssumption DEF Init, ItemsTyped, CallbackTyped
<1>6. FlagsTyped /\ StatsTyped
  BY DEF Init, FlagsTyped, StatsTyped
<1>7. ChainsTyped
  <2>1. /\ free = <<>> /\ out = <<>> /\ busy = <<>> /\ held = <<>> /\ allocated = 0
        /\ buf = [b \in OutputBufferIds |-> [data |-> <<>>, mark |-> "None"]]
    BY DEF Init, EmptyBuffer
  <2>2. <<>> \in Seq(Int) /\ <<>> \in Seq(OutputBufferIds) /\ <<>> \in Seq(OutputBufferIds \cup {FrameLink})
        /\ Len(<<>>) = 0
    OBVIOUS
  <2>3. "None" \in OutputBoundary /\ 0 \in 0..BufferCount /\ 0 <= Capacity
    BY FilterAssumption DEF OutputBoundary
  <2>4. buf \in [OutputBufferIds -> [data : Seq(Int), mark : OutputBoundary]]
    BY <2>1, <2>2, <2>3
  <2>5. \A b \in OutputBufferIds : Len(buf[b].data) <= Capacity
    BY <2>1, <2>2, <2>3
  <2> QED
    BY <2>1, <2>2, <2>3, <2>4, <2>5 DEF ChainsTyped
<1>8. TypeOK
  BY <1>3, <1>5, <1>6, <1>7, TypeParts
<1>9. /\ pc = "Idle" /\ input = <<>> /\ pendingOp = "None" /\ ~done /\ ~gzipBit /\ ~writeBit /\ ~tlsBit
      /\ free = <<>> /\ out = <<>> /\ busy = <<>> /\ held = <<>> /\ allocated = 0
  BY DEF Init
<1>10. PhaseInv /\ ResumeInv /\ BitInv
  BY <1>4, <1>9 DEF PhaseInv, ResumeInv, BitInv, Unfinished
<1>11. IsInjective(<<>>) /\ ToSet(<<>>) = {} /\ Len(<<>>) = 0 /\ 1..0 = {} /\ DOMAIN <<>> = {}
       /\ <<>> \in Seq(OutputBufferIds)
  BY DEF IsInjective, ToSet
<1>12. OwnInv
  BY <1>9, <1>11 DEF OwnInv
<1>13. LinkInv /\ EndInv
  BY <1>9, <1>11 DEF LinkInv, EndInv
<1>14. WakeInv
  BY <1>9 DEF WakeInv, PlainWorkHasWakeup, PendingWorkHasWakeup
<1>15. LiveInv /\ MarkInv
  BY <1>9, <1>11 DEF LiveInv, MarkInv, TrailerBeforeLast, WriterNeverRefuses
<1> QED
  BY <1>2, <1>8, <1>10, <1>12, <1>13, <1>14, <1>15 DEF IndInv

\* when nothing happens,
LEMMA StutterIndInv == ASSUME IndInv, UNCHANGED vars PROVE IndInv'
<1> USE DEF vars, driverVars, chainVars, codecVars, connVars, eventVars, statVars, ctxVars, upstreamVars
<1>1. DP!DriverInv'
  <2>1. UNCHANGED Driver!vars
    BY DEF Driver!vars
  <2> QED
    BY <2>1, DriverKeepsInv DEF IndInv
<1>2. TypeOK'
  <2>1. CallbackTyped /\ FlagsTyped /\ StatsTyped /\ ChainsTyped /\ ItemsTyped
    BY TypeParts DEF IndInv
  <2>2. CallbackTyped' /\ FlagsTyped' /\ StatsTyped' /\ ChainsTyped' /\ ItemsTyped'
    BY <2>1 DEF CallbackTyped, FlagsTyped, StatsTyped, ChainsTyped, ItemsTyped
  <2> QED
    BY <1>1, <2>2, DriverTypedNext, TypePartsNext
<1>3. PhaseInv' /\ ResumeInv' /\ BitInv'
  BY DEF IndInv, PhaseInv, ResumeInv, BitInv, Unfinished
<1>4. OwnInv'
  BY DEF IndInv, OwnInv, IsInjective
<1>5. LinkInv' /\ EndInv'
  BY DEF IndInv, LinkInv, EndInv, Undrained, Ended
<1>6. WakeInv'
  BY DEF IndInv, WakeInv, PlainWorkHasWakeup, PendingWorkHasWakeup
<1>7. LiveInv' /\ MarkInv'
  BY DEF IndInv, LiveInv, MarkInv, TrailerBeforeLast, WriterNeverRefuses, Live, IsInjective, LinkMark
<1> QED
  BY <1>1, <1>2, <1>3, <1>4, <1>5, <1>6, <1>7 DEF IndInv

\* What a request finds around the filter does not change.
LEMMA RequestStays ==
    ASSUME TypeOK, Next
    PROVE  request' = request /\ request.framing \in BOOLEAN
<1> USE DEF ctxVars
<1>1. request.framing \in BOOLEAN
  BY FilterAssumption DEF TypeOK, RequestKind
<1> SUFFICES request' = request
  BY <1>1
<1>2. CASE Upstream \/ PostedWriteEvent \/ SocketWriteEvent
  BY <1>2, EntryFacts
<1>3. CASE Compress \/ Fails
  BY <1>3 DEF Compress, Fails, ResumeOperation, DriveHead, DriveInput, InputExhausted, OperationPaused, HeadPaused,
         StreamFinished, OperationComplete, HeadComplete, DriveExhaust, BuffersExhausted, CompressionFails, WriteFails,
         DriveStep
<1>4. CASE Hand
  BY <1>4 DEF Hand, NothingToSubmit, Submit, SubmitPostponed, BypassContext, Prepare, PreparedVars
<1>5. CASE Write
  BY <1>5 DEF Write, WriteByte, DropLink, WriteComplete, WriteBlocked, WriteAbsorbed
<1> QED
  BY <1>1, <1>2, <1>3, <1>4, <1>5 DEF Next, Callback

\* and after every step.
LEMMA NextIndInv == IndInv /\ [Next]_vars => IndInv'
<1> SUFFICES ASSUME IndInv, Next PROVE IndInv'
  BY StutterIndInv
<1>1. /\ TypeOK /\ DP!DriverInv
      /\ PhaseInv /\ ResumeInv /\ BitInv
      /\ OwnInv /\ LinkInv /\ EndInv /\ WakeInv /\ LiveInv /\ MarkInv
  BY DEF IndInv
<1>2. TypeOK' /\ DP!DriverInv'
  BY <1>1, TypeStep
<1>3. PhaseInv' /\ ResumeInv' /\ BitInv'
  BY <1>1, PhaseStep, ResumeStep, BitStep
<1>4. OwnInv' /\ EndInv' /\ WakeInv'
  BY <1>1, <1>3, OwnStep, EndStep, WakeStep
<1>5. request' = request /\ request.framing \in BOOLEAN
  BY <1>1, RequestStays
<1>6. ASSUME request.framing PROVE LinkInv' /\ LiveInv' /\ MarkInv'
  BY <1>5, <1>6 DEF LinkInv, LiveInv, MarkInv
<1>7. ASSUME ~request.framing PROVE LinkInv' /\ LiveInv' /\ MarkInv'
  BY <1>1, <1>7, LinkStep, LiveStep, MarkStep
<1> QED
  BY <1>2, <1>3, <1>4, <1>5, <1>6, <1>7 DEF IndInv

\* So it always holds.
LEMMA FilterInvariant == Spec => []IndInv
<1>1. IndInv /\ [Next]_vars => IndInv'
  BY NextIndInv
<1> QED
  BY <1>1, InitIndInv, PTL DEF Spec

\* For every number and size of output buffers, every allowance of a callback and
\* every kind of request: no chain holds anything but output buffers, and no buffer
\* more bytes than it has room for.
THEOREM TypeCorrect == Spec => []TypeOK
<1>1. IndInv => TypeOK
  BY DEF IndInv
<1> QED
  BY <1>1, FilterInvariant, PTL

\* For every compress_buffers: a buffer is in exactly one of the three chains of
\* RequestCtx, none is lost, and there are never more than the limit.
THEOREM BuffersAreConserved == Spec => []BuffersConserved
<1>1. IndInv => BuffersConserved
  BY OwnMeansConserved DEF IndInv
<1> QED
  BY <1>1, FilterInvariant, PTL

\* Between callbacks NGINX sees the connection buffered by this module exactly when
\* input or an operation is left to compress.
THEOREM BufferedBitIsHonest == Spec => []BufferedBitHonest
<1>1. IndInv => BufferedBitHonest
  BY DEF IndInv, BitInv, Unfinished, BufferedBitHonest
<1> QED
  BY <1>1, FilterInvariant, PTL

\* The filter implements the caller of drive_input: after an interruption it comes
\* back with the same operation and exactly the bytes that were not consumed.
THEOREM DriverProtocolKept == Spec => DriverProtocol
<1>1. Init => Driver!Init
  BY DEF Init
<1>2. IndInv /\ [Next]_vars => [Driver!Next]_(Driver!vars)
  BY DriverMoves DEF IndInv, vars, driverVars, Driver!vars
<1> QED
  BY <1>1, <1>2, FilterInvariant, PTL DEF Spec, DriverProtocol

\* On a connection nobody else keeps data back on, work left for a later callback
\* always has a posted event or an expected write event to start that callback.
THEOREM PlainWorkIsWoken == Spec => []PlainWorkHasWakeup
<1>1. IndInv => PlainWorkHasWakeup
  BY DEF IndInv, WakeInv
<1> QED
  BY <1>1, FilterInvariant, PTL
=============================================================================
