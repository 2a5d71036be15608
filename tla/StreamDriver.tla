---------------------------- MODULE StreamDriver ----------------------------
(***************************************************************************)
(* drive_input (crates/ngx-compress-core/src/stream/mod.rs): one codec is  *)
(* driven over a sequence of upstream buffers under per-callback budgets.  *)
(* A step of this module is one iteration of the loop of drive_input, with *)
(* the call of the codec, the check of its answer and the decision about   *)
(* the output buffer in it.  The codec is arbitrary: it may answer         *)
(* anything, and the driver only trusts what validate_progress accepts.    *)
(*                                                                         *)
(* The caller follows the documented protocol: after BudgetExhausted or an *)
(* output failure it comes back in a later callback, with a fresh budget,  *)
(* the same operation, and only the suffix the driver did not consume.     *)
(***************************************************************************)
EXTENDS StreamContract

CONSTANTS
    CallbackBytes,  \* input bytes one callback may consume (64 KiB)
    CallbackSteps,  \* codec calls one callback may make (32)
    Capacity,       \* bytes in one output buffer (compress_buffers rejects 0)
    MaxLen          \* bound: the longest upstream buffer

ASSUME DriverAssumption ==
    /\ CallbackBytes \in Nat \ {0}
    /\ CallbackSteps \in Nat \ {0}
    /\ Capacity \in Nat \ {0}
    /\ MaxLen \in Nat

VARIABLES
    state,      \* where the call stands, or the DriveState or DriveFailure it returned
    operation,  \* the operation the current upstream buffer asks for
    len,        \* input.len() of the current call
    offset,     \* bytes of it the codec has consumed
    budget,     \* the callback's WorkBudget
    presented,  \* history: the operation of the latest step on this buffer
    boundary,   \* history: the boundary emitted for this upstream buffer
    moved       \* history: bytes consumed plus produced by the latest step

vars == <<state, operation, len, offset, budget, presented, boundary, moved>>

DriveState == {"NeedsInput", "Flushed", "Finished", "BudgetExhausted"}
DriveFailure == {"StepFailed", "OutputFailed"}
States == {"Idle", "Running", "Suspended"} \cup DriveState \cup DriveFailure

FreshBudget == [bytes |-> CallbackBytes, steps |-> CallbackSteps]

TypeOK ==
    /\ state \in States
    /\ operation \in Operation
    /\ len \in 0..MaxLen
    /\ offset \in 0..len
    /\ budget \in WorkBudget(CallbackBytes, CallbackSteps)
    /\ presented \in Operation
    /\ boundary \in OutputBoundary
    /\ moved \in Nat

Init ==
    /\ state = "Idle"
    /\ operation = "Continue"
    /\ len = 0
    /\ offset = 0
    /\ budget = FreshBudget
    /\ presented = "Continue"
    /\ boundary = "None"
    /\ moved = 0

-----------------------------------------------------------------------------
(* The caller.                                                             *)

\* The caller moves on to the next upstream buffer, in the same callback or in a
\* later one.
Drive(op, n) ==
    /\ state \in {"Idle", "NeedsInput", "Flushed"}
    /\ state' = "Running"
    /\ operation' = op
    /\ len' = n
    /\ offset' = 0
    /\ presented' = "Continue"
    /\ boundary' = "None"
    /\ moved' = 0
    /\ UNCHANGED budget

\* The callback ends with nothing left to resume.  The next one starts with the
\* whole allowance (WorkBudget::per_callback).
EndCallback ==
    /\ state \in {"NeedsInput", "Flushed"}
    /\ state' = "Idle"
    /\ operation' = "Continue"
    /\ len' = 0
    /\ offset' = 0
    /\ budget' = FreshBudget
    /\ presented' = "Continue"
    /\ boundary' = "None"
    /\ moved' = 0

\* The callback ends in the middle of a buffer: what is left of it is the suffix
\* the driver did not report as consumed.
Suspend ==
    /\ state \in {"BudgetExhausted", "OutputFailed"}
    /\ state' = "Suspended"
    /\ len' = len - offset
    /\ offset' = 0
    /\ budget' = FreshBudget
    /\ moved' = 0
    /\ UNCHANGED <<operation, presented, boundary>>

\* A later callback comes back for that suffix; it is empty when only the
\* operation itself is still incomplete.
Retry(op, n) ==
    /\ state = "Suspended"
    /\ op = operation
    /\ n = len
    /\ state' = "Running"
    /\ UNCHANGED <<operation, len, offset, budget, presented, boundary, moved>>

-----------------------------------------------------------------------------
(* One iteration of the loop of drive_input.                               *)

Available == len - offset
StepEnd == offset + InputLimit(budget, Available)
NextOperation == StepOperation(operation, StepEnd, len)
MayStep == state = "Running" /\ CanStep(budget, offset < len)

Exhaust ==
    /\ state = "Running"
    /\ ~CanStep(budget, offset < len)
    /\ state' = "BudgetExhausted"
    /\ UNCHANGED <<operation, len, offset, budget, presented, boundary, moved>>

\* Why the call returns after a trusted step, or "Running" when it loops.
AfterStep(b, r, newOffset) ==
    IF b = "Finish" THEN "Finished"
    ELSE IF b = "Flush" THEN "Flushed"
    ELSE IF r.state = "NeedsInput" /\ newOffset = len THEN "NeedsInput"
    ELSE "Running"

\* checked_step succeeded: the answer r is within the progress contract.
Step(r) ==
    LET b == BoundaryOf(NextOperation, r.state) IN
    /\ MayStep
    /\ ValidProgress(NextOperation, StepEnd - offset, Capacity, r)
    /\ offset' = offset + r.consumed
    /\ budget' = RecordStep(budget, r.consumed)
    /\ state' = AfterStep(b, r, offset + r.consumed)
    /\ presented' = NextOperation
    /\ moved' = r.consumed + r.produced
    /\ boundary' = IF Emits(r.produced, b) /\ b # "None" THEN b ELSE boundary
    /\ UNCHANGED <<operation, len>>

\* checked_step failed: the backend reported an error, or its answer was refused.
RejectStep(r) ==
    /\ MayStep
    /\ ~ValidProgress(NextOperation, StepEnd - offset, Capacity, r)
    /\ state' = "StepFailed"
    /\ presented' = NextOperation
    /\ UNCHANGED <<operation, len, offset, budget, boundary, moved>>

\* The provider had no output buffer: the codec was not called.
OutputFailure ==
    /\ MayStep
    /\ state' = "OutputFailed"
    /\ UNCHANGED <<operation, len, offset, budget, presented, boundary, moved>>

Results == StepResult(StepEnd - offset, Capacity)

Iterate ==
    \/ Exhaust
    \/ \E r \in Results : Step(r)
    \/ \E r \in Results : RejectStep(r)
    \/ OutputFailure

Next ==
    \/ \E op \in Operation, n \in 0..MaxLen : Drive(op, n)
    \/ \E op \in Operation, n \in 0..MaxLen : Retry(op, n)
    \/ EndCallback
    \/ Suspend
    \/ Iterate

\* The loop runs inside one callback of a worker process: once entered, nothing
\* but its own steps can happen, and the process keeps executing.
Spec == Init /\ [][Next]_vars /\ WF_vars(Iterate)

-----------------------------------------------------------------------------
(* What the driver promises.                                               *)

\* The caller is free to move on to another upstream buffer.
BufferDone == state \in {"Idle", "NeedsInput", "Flushed", "Finished"}

\* A flush or finish boundary goes downstream only behind the last byte of the
\* buffer that asked for it, it is the boundary that was asked for, and the call
\* then reports exactly that; a buffer that reports completion had no byte left.
BoundaryHonest ==
    /\ boundary # "None" => boundary = operation /\ offset = len
    /\ state = "Flushed" <=> boundary = "Flush"
    /\ state = "Finished" <=> boundary = "Finish"
    /\ state = "NeedsInput" => offset = len

\* Once the codec has been asked to flush or finish with the whole remainder of
\* a buffer, no later step on that buffer asks for less: the budget never turns
\* the boundary back into a continuation, not even in a later callback.  The
\* zlib and brotli encoders refuse an operation that is withdrawn half-way.
BoundaryNeverWithdrawn ==
    [][~BufferDone /\ presented # "Continue" => presented' = presented]_vars

\* A step after which the loop of drive_input goes round again consumed or
\* produced at least one byte: the loop cannot spin on a stalled codec.
NoSpin ==
    [][state = "Running" /\ MayStep /\ state' = "Running" => moved' > 0]_vars

\* Every call of drive_input returns to the server, whatever the codec answers:
\* the step allowance ends it even if the codec produces output for ever.
CallReturns == state = "Running" ~> state # "Running"
=============================================================================
