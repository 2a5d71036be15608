--------------------------- MODULE StreamContract ---------------------------
(***************************************************************************)
(* The vocabulary and the pure decisions of the streaming core            *)
(* (crates/ngx-compress-core): what an encoder step may report, what a     *)
(* callback may still spend, and what is done with the output buffer a     *)
(* step wrote into.  Byte strings are represented by their lengths.        *)
(***************************************************************************)
EXTENDS Integers

Operation == {"Continue", "Flush", "Finish"}
StepState == {"NeedsInput", "NeedsOutput", "Complete"}
OutputBoundary == {"None", "Flush", "Finish"}

\* What a call of StreamingCodec::step can answer for an input of `avail` bytes
\* and an output of `capacity` bytes.  One byte past either end stands for
\* every impossible count.
StepResult(avail, capacity) ==
    [consumed : 0..(avail + 1), produced : 0..(capacity + 1), state : StepState]

(***************************************************************************)
(* validate_progress: the answers the driver is willing to trust.          *)
(***************************************************************************)
WithinBuffers(avail, capacity, r) ==
    /\ r.consumed <= avail
    /\ r.produced <= capacity

NotPremature(op, avail, capacity, r) ==
    /\ r.state = "NeedsInput" => r.consumed >= avail
    /\ r.state = "NeedsOutput" => r.produced >= capacity
    /\ op # "Continue" /\ r.state = "Complete" => r.consumed >= avail

\* Mutant: completion counts as progress although nothing was asked to complete.
NotStalledOnComplete(op, avail, capacity, r) ==
    r.consumed > 0 \/ r.produced > 0 \/ r.state = "Complete"

NotStalled(op, avail, capacity, r) ==
    \/ r.consumed > 0
    \/ r.produced > 0
    \/ op # "Continue" /\ r.state = "Complete"
    \/ avail = 0 /\ r.state = "NeedsInput"
    \/ capacity = 0 /\ r.state = "NeedsOutput"

ValidProgress(op, avail, capacity, r) ==
    /\ WithinBuffers(avail, capacity, r)
    /\ NotPremature(op, avail, capacity, r)
    /\ NotStalled(op, avail, capacity, r)

(***************************************************************************)
(* WorkBudget: the allowance one server callback shares between all the   *)
(* input buffers it drives.                                                *)
(***************************************************************************)
WorkBudget(bytes, steps) == [bytes : 0..bytes, steps : 0..steps]

CanStep(budget, hasInput) ==
    /\ budget.steps > 0
    /\ hasInput => budget.bytes > 0

\* Mutant: the byte allowance does not cut the input short.
InputLimitUncapped(budget, available) == available

InputLimit(budget, available) ==
    IF available <= budget.bytes THEN available ELSE budget.bytes

\* Mutant: a step that consumes nothing is free.
RecordConsumingStep(budget, consumed) ==
    [bytes |-> budget.bytes - consumed,
     steps |-> IF consumed > 0 THEN budget.steps - 1 ELSE budget.steps]

RecordStep(budget, consumed) ==
    [bytes |-> budget.bytes - consumed, steps |-> budget.steps - 1]

(***************************************************************************)
(* The decisions drive_input takes around one checked step.                *)
(***************************************************************************)
\* Mutants: the operation is not held back for a prefix; it is not repeated once
\* the whole buffer has been consumed.
StepOperationAtOnce(op, end, len) == op
StepOperationOnInput(op, end, len) == IF end = len /\ len > 0 THEN op ELSE "Continue"

\* A prefix cut short by the budget is always an ordinary continuation.
StepOperation(op, end, len) == IF end = len THEN op ELSE "Continue"

\* The boundary the output buffer of a step carries downstream.
BoundaryOf(stepOp, state) ==
    IF stepOp # "Continue" /\ state = "Complete" THEN stepOp ELSE "None"

\* Whether that buffer is emitted (the alternative is to recycle it).
Emits(produced, boundary) == produced > 0 \/ boundary # "None"
=============================================================================
