------------------------- MODULE StreamDriver_proofs -------------------------
(***************************************************************************)
(* Proofs about drive_input for every callback budget, every output buffer *)
(* size and every buffer length.                                           *)
(*                                                                         *)
(* BoundaryHonest is nearly inductive.  BoundaryNeverWithdrawn is not: it   *)
(* needs to know that a suffix once presented whole still fits into what   *)
(* is left of the budget, and into the fresh budget of a later callback.   *)
(* SuffixFits says so, and DriverInv is the inductive invariant.           *)
(***************************************************************************)
EXTENDS StreamDriver, TLAPS

SuffixFits ==
    /\ presented # "Continue" => presented = operation
    /\ ~BufferDone /\ presented # "Continue" => len - offset <= CallbackBytes
    /\ state = "Running" /\ presented # "Continue" => len - offset <= budget.bytes
    /\ state = "Suspended" => budget = FreshBudget

DriverInv == TypeOK /\ BoundaryHonest /\ SuffixFits

-----------------------------------------------------------------------------
(* The pure decisions.                                                     *)

\* The input a step is shown is never longer than what is there or allowed, and
\* it is all of it unless the byte allowance cuts it short.
LEMMA InputLimitFacts ==
    ASSUME NEW b, b.bytes \in Nat, NEW n \in Nat
    PROVE  /\ InputLimit(b, n) \in Nat
           /\ InputLimit(b, n) <= n
           /\ InputLimit(b, n) <= b.bytes
           /\ n <= b.bytes => InputLimit(b, n) = n
           /\ n > 0 /\ b.bytes > 0 => InputLimit(b, n) > 0
BY DEF InputLimit

\* A boundary is only ever the operation itself, presented with the last byte,
\* and a trusted step that reports it has consumed everything it was shown.
LEMMA BoundaryFacts ==
    ASSUME NEW op \in Operation, NEW end \in Nat, NEW n \in Nat,
           NEW avail \in Nat, NEW capacity \in Nat,
           NEW r \in StepResult(avail, capacity),
           ValidProgress(StepOperation(op, end, n), avail, capacity, r),
           BoundaryOf(StepOperation(op, end, n), r.state) # "None"
    PROVE  /\ BoundaryOf(StepOperation(op, end, n), r.state) = op
           /\ op # "Continue"
           /\ end = n
           /\ r.consumed = avail
BY DEF StepResult, ValidProgress, WithinBuffers, NotPremature, StepOperation,
       BoundaryOf, Operation

-----------------------------------------------------------------------------
(* The inductive invariant.                                                *)

LEMMA InitDriverInv == Init => DriverInv
BY DriverAssumption
   DEF Init, DriverInv, TypeOK, BoundaryHonest, SuffixFits, BufferDone, States,
       DriveState, DriveFailure, Operation, OutputBoundary, FreshBudget, WorkBudget

\* A trusted step: everything the invariant and the action properties need to
\* know about its numbers.
LEMMA StepFacts ==
    ASSUME TypeOK, NEW r \in Results, Step(r)
    PROVE  /\ state = "Running"
           /\ Available \in Nat /\ StepEnd \in Nat
           /\ StepEnd - offset \in Nat
           /\ StepEnd - offset <= Available
           /\ StepEnd - offset <= budget.bytes
           /\ Available <= budget.bytes => StepEnd = len
           /\ Available > 0 => StepEnd - offset > 0
           /\ r \in StepResult(StepEnd - offset, Capacity)
           /\ r.consumed \in Nat /\ r.produced \in Nat
           /\ r.consumed <= StepEnd - offset
           /\ budget.bytes \in Nat /\ budget.steps \in Nat /\ budget.steps > 0
<1>1. /\ budget.bytes \in Nat /\ budget.steps \in Nat
      /\ len \in Nat /\ offset \in Nat /\ offset <= len
      /\ Available \in Nat
  BY DriverAssumption DEF TypeOK, WorkBudget, Available
<1>2. /\ state = "Running"
      /\ budget.steps > 0
      /\ Available > 0 => budget.bytes > 0
  BY <1>1 DEF Step, MayStep, CanStep, Available
<1>3. /\ InputLimit(budget, Available) \in Nat
      /\ InputLimit(budget, Available) <= Available
      /\ InputLimit(budget, Available) <= budget.bytes
      /\ Available <= budget.bytes => InputLimit(budget, Available) = Available
      /\ Available > 0 => InputLimit(budget, Available) > 0
  BY <1>1, <1>2, InputLimitFacts
<1>4. /\ StepEnd \in Nat
      /\ StepEnd - offset = InputLimit(budget, Available)
      /\ Available <= budget.bytes => StepEnd = len
  BY <1>1, <1>3 DEF StepEnd, Available
<1>5. /\ r.consumed \in Nat /\ r.produced \in Nat
      /\ r \in StepResult(StepEnd - offset, Capacity)
  BY <1>3, <1>4, DriverAssumption DEF Results, StepResult
<1>6. r.consumed <= StepEnd - offset
  BY DEF Step, ValidProgress, WithinBuffers
<1> QED
  BY <1>1, <1>2, <1>3, <1>4, <1>5, <1>6

LEMMA StepTypeOK ==
    ASSUME TypeOK, NEW r \in Results, Step(r)
    PROVE  TypeOK'
<1> USE DriverAssumption
<1>1. /\ len' = len /\ operation' = operation
      /\ offset' = offset + r.consumed
      /\ budget' = [bytes |-> budget.bytes - r.consumed, steps |-> budget.steps - 1]
      /\ moved' = r.consumed + r.produced
  BY DEF Step, RecordStep
<1>2. /\ offset' \in 0..len'
      /\ moved' \in Nat
  BY <1>1, StepFacts DEF TypeOK, Available
<1>3. budget' \in WorkBudget(CallbackBytes, CallbackSteps)
  BY <1>1, StepFacts DEF TypeOK, WorkBudget
<1>4. NextOperation \in Operation
  BY DEF NextOperation, StepOperation, TypeOK, Operation
<1>5. presented' \in Operation /\ boundary' \in OutputBoundary
  BY <1>4 DEF Step, BoundaryOf, Operation, OutputBoundary, TypeOK
<1>6. state' \in States
  BY DEF Step, AfterStep, BoundaryOf, NextOperation, StepOperation, States, DriveState,
         DriveFailure, Operation, TypeOK
<1> QED
  BY <1>1, <1>2, <1>3, <1>5, <1>6 DEF TypeOK

LEMMA StepBoundaryHonest ==
    ASSUME TypeOK, BoundaryHonest, NEW r \in Results, Step(r)
    PROVE  BoundaryHonest'
<1> DEFINE b == BoundaryOf(NextOperation, r.state)
<1>1. /\ state = "Running" /\ boundary = "None"
      /\ operation \in Operation /\ len \in Nat /\ offset \in Nat
  BY StepFacts, DriverAssumption DEF TypeOK, BoundaryHonest, OutputBoundary
<1>2. /\ offset' = offset + r.consumed
      /\ state' = AfterStep(b, r, offset + r.consumed)
      /\ boundary' = b
      /\ len' = len /\ operation' = operation
  BY <1>1 DEF Step, Emits
<1>3. CASE b = "None"
  BY <1>1, <1>2, <1>3 DEF AfterStep, BoundaryHonest
<1>4. CASE b # "None"
  <2>1. b = operation /\ operation # "Continue" /\ StepEnd = len
        /\ r.consumed = StepEnd - offset
    <3>1. /\ StepEnd \in Nat /\ StepEnd - offset \in Nat
          /\ r \in StepResult(StepEnd - offset, Capacity)
      BY StepFacts
    <3>2. ValidProgress(NextOperation, StepEnd - offset, Capacity, r)
      BY DEF Step
    <3> QED
      BY <1>1, <1>4, <3>1, <3>2, BoundaryFacts, DriverAssumption DEF NextOperation
  <2>2. offset' = len' /\ boundary' = operation'
    BY <1>1, <1>2, <2>1
  <2>3. /\ b = "Finish" => state' = "Finished"
        /\ b = "Flush" => state' = "Flushed"
    BY <1>2 DEF AfterStep
  <2> QED
    BY <1>1, <1>2, <2>1, <2>2, <2>3 DEF BoundaryHonest, Operation
<1> QED
  BY <1>3, <1>4

\* The heart of the argument: a suffix that fits the allowance is shown whole.
LEMMA PresentedWhole ==
    ASSUME TypeOK, SuffixFits, NEW r \in Results, Step(r), presented # "Continue"
    PROVE  NextOperation = presented
<1>1. Available <= budget.bytes
  BY StepFacts DEF SuffixFits, Available
<1> QED
  BY <1>1, StepFacts DEF NextOperation, StepOperation, SuffixFits

LEMMA StepSuffixFits ==
    ASSUME TypeOK, SuffixFits, NEW r \in Results, Step(r)
    PROVE  SuffixFits'
<1> USE DriverAssumption
<1>1. /\ len' = len /\ operation' = operation
      /\ offset' = offset + r.consumed
      /\ budget'.bytes = budget.bytes - r.consumed
      /\ presented' = NextOperation
  BY DEF Step, RecordStep
<1>2. presented' # "Continue" => presented' = operation' /\ StepEnd = len
  BY <1>1 DEF NextOperation, StepOperation
<1>3. presented' # "Continue" => len' - offset' <= budget'.bytes
  BY <1>1, <1>2, StepFacts DEF TypeOK
<1>4. budget.bytes <= CallbackBytes
  BY DEF TypeOK, WorkBudget
<1>5. presented' # "Continue" => len' - offset' <= CallbackBytes
  BY <1>1, <1>3, <1>4, StepFacts DEF TypeOK
<1>6. state' # "Suspended"
  BY DEF Step, AfterStep
<1> QED
  BY <1>2, <1>3, <1>5, <1>6 DEF SuffixFits

LEMMA NextDriverInv == DriverInv /\ [Next]_vars => DriverInv'
<1> SUFFICES ASSUME DriverInv, [Next]_vars
             PROVE  DriverInv'
  OBVIOUS
<1> USE DriverAssumption DEF DriverInv
<1>1. CASE EndCallback
  BY <1>1 DEF EndCallback, TypeOK, BoundaryHonest, SuffixFits, BufferDone, States, Operation,
              OutputBoundary, FreshBudget, WorkBudget
<1>2. ASSUME NEW op \in Operation, NEW n \in 0..MaxLen, Drive(op, n)
      PROVE  DriverInv'
  BY <1>2 DEF Drive, TypeOK, BoundaryHonest, SuffixFits, BufferDone, States, Operation,
              OutputBoundary
<1>3. ASSUME NEW op \in Operation, NEW n \in 0..MaxLen, Retry(op, n)
      PROVE  DriverInv'
  <2>1. TypeOK' /\ BoundaryHonest'
    BY <1>3 DEF Retry, TypeOK, BoundaryHonest, States, OutputBoundary
  <2>2. SuffixFits'
    BY <1>3 DEF Retry, TypeOK, SuffixFits, BufferDone, FreshBudget
  <2> QED
    BY <2>1, <2>2
<1>4. CASE Exhaust
  BY <1>4 DEF Exhaust, TypeOK, BoundaryHonest, SuffixFits, BufferDone, States, DriveState
<1>5. ASSUME NEW r \in Results, Step(r)
      PROVE  DriverInv'
  BY <1>5, StepTypeOK, StepBoundaryHonest, StepSuffixFits
<1>6. ASSUME NEW r \in Results, RejectStep(r)
      PROVE  DriverInv'
  <2>1. NextOperation \in Operation /\ (NextOperation # "Continue" => NextOperation = operation)
    BY DEF NextOperation, StepOperation, TypeOK, Operation
  <2>2. state = "Running" /\ boundary = "None"
    BY <1>6 DEF RejectStep, MayStep, TypeOK, BoundaryHonest, OutputBoundary
  <2>3. TypeOK' /\ BoundaryHonest'
    BY <1>6, <2>1, <2>2 DEF RejectStep, TypeOK, BoundaryHonest, States, DriveFailure
  <2>4. NextOperation # "Continue" => len - offset <= CallbackBytes
    BY DEF NextOperation, StepOperation, StepEnd, InputLimit, Available, TypeOK, WorkBudget
  <2>5. SuffixFits'
    BY <1>6, <2>1, <2>4 DEF RejectStep, SuffixFits, BufferDone
  <2> QED
    BY <2>3, <2>5
<1>7. CASE OutputFailure
  BY <1>7 DEF OutputFailure, MayStep, TypeOK, BoundaryHonest, SuffixFits, BufferDone, States,
              DriveFailure
<1>8. CASE Suspend
  <2>1. TypeOK'
    BY <1>8 DEF Suspend, TypeOK, States, FreshBudget, WorkBudget
  <2>2. BoundaryHonest'
    BY <1>8 DEF Suspend, TypeOK, BoundaryHonest, OutputBoundary
  <2>3. SuffixFits'
    BY <1>8 DEF Suspend, TypeOK, SuffixFits, BufferDone, FreshBudget
  <2> QED
    BY <2>1, <2>2, <2>3
<1>9. CASE UNCHANGED vars
  BY <1>9 DEF vars, TypeOK, BoundaryHonest, SuffixFits, BufferDone
<1> QED
  BY <1>1, <1>2, <1>3, <1>4, <1>5, <1>6, <1>7, <1>8, <1>9 DEF Next, Iterate

-----------------------------------------------------------------------------
(* The theorems.                                                           *)

LEMMA DriverInvariant == Spec => []DriverInv
<1>1. DriverInv /\ [Next]_vars => DriverInv'
  BY NextDriverInv
<1> QED
  BY <1>1, InitDriverInv, PTL DEF Spec

\* The allowances never underflow, the offset never passes the end of the input.
THEOREM TypeCorrect == Spec => []TypeOK
<1>1. DriverInv => TypeOK
  BY DEF DriverInv
<1> QED
  BY <1>1, DriverInvariant, PTL

\* Boundaries go downstream only behind the last byte of the buffer asking for
\* them, and the driver's report agrees with what it emitted.
THEOREM BoundariesAreHonest == Spec => []BoundaryHonest
<1>1. DriverInv => BoundaryHonest
  BY DEF DriverInv
<1> QED
  BY <1>1, DriverInvariant, PTL

\* For every budget, a flush or finish once presented to the codec is never
\* withdrawn before the buffer is done.
THEOREM BoundariesAreNotWithdrawn == Spec => BoundaryNeverWithdrawn
<1> DEFINE Kept == ~BufferDone /\ presented # "Continue" => presented' = presented
<1>1. ASSUME DriverInv, [Next]_vars
      PROVE  [Kept]_vars
  <2> SUFFICES ASSUME ~BufferDone, presented # "Continue"
               PROVE  presented' = presented
    OBVIOUS
  <2>1. ASSUME NEW r \in Results, Step(r)
        PROVE  presented' = presented
    BY <1>1, <2>1, PresentedWhole DEF DriverInv, Step
  <2>2. ASSUME NEW r \in Results, RejectStep(r)
        PROVE  presented' = presented
    <3>1. len - offset <= budget.bytes /\ presented = operation
      BY <1>1, <2>2 DEF DriverInv, SuffixFits, RejectStep, MayStep
    <3>2. StepEnd = len
      BY <1>1, <3>1, DriverAssumption
         DEF StepEnd, InputLimit, Available, DriverInv, TypeOK, WorkBudget
    <3> QED
      BY <2>2, <3>1, <3>2 DEF RejectStep, NextOperation, StepOperation
  <2> QED
    BY <1>1, <2>1, <2>2 DEF Next, Iterate, Drive, Retry, EndCallback, Suspend, Exhaust, OutputFailure,
                            BufferDone, vars
<1> QED
  BY <1>1, DriverInvariant, PTL DEF Spec, BoundaryNeverWithdrawn

\* For every codec, a step that makes the loop go round again moved a byte.
THEOREM LoopNeverSpins == Spec => NoSpin
<1> DEFINE Moves == state = "Running" /\ MayStep /\ state' = "Running" => moved' > 0
<1>1. ASSUME DriverInv, [Next]_vars
      PROVE  [Moves]_vars
  <2> SUFFICES ASSUME vars' # vars, state = "Running", state' = "Running"
               PROVE  moved' > 0
    OBVIOUS
  <2>1. PICK r \in Results : Step(r)
    BY <1>1 DEF Next, Iterate, Drive, Retry, EndCallback, Suspend, Exhaust, RejectStep, OutputFailure, vars
  <2> DEFINE b == BoundaryOf(NextOperation, r.state)
  <2>2. b # "Finish" /\ b # "Flush"
    BY <2>1 DEF Step, AfterStep
  <2>3. NextOperation \in Operation
    BY <1>1 DEF DriverInv, TypeOK, NextOperation, StepOperation, Operation
  <2>4. NextOperation = "Continue" \/ r.state # "Complete"
    BY <2>2, <2>3 DEF BoundaryOf, Operation
  <2>5. ~(r.state = "NeedsInput" /\ offset + r.consumed = len)
    BY <2>1, <2>2, <2>4 DEF Step, AfterStep, BoundaryOf
  <2>6. /\ r.consumed \in Nat /\ r.produced \in Nat
        /\ r.consumed <= StepEnd - offset
        /\ Available \in Nat
        /\ Available > 0 => StepEnd - offset > 0
    BY <1>1, <2>1, StepFacts DEF DriverInv
  <2>7. ~(StepEnd - offset = 0 /\ r.state = "NeedsInput")
    BY <1>1, <2>5, <2>6, DriverAssumption DEF Available, DriverInv, TypeOK
  <2>8. r.consumed > 0 \/ r.produced > 0
    BY <2>1, <2>4, <2>7, DriverAssumption DEF Step, ValidProgress, NotStalled
  <2> QED
    BY <2>1, <2>6, <2>8 DEF Step
<1> QED
  BY <1>1, DriverInvariant, PTL DEF Spec, NoSpin
=============================================================================
