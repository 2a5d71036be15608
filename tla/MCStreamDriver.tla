--------------------------- MODULE MCStreamDriver ---------------------------
(***************************************************************************)
(* StreamDriver for TLC.  Three bytes and three steps per callback and     *)
(* buffers of up to five bytes make every relation of the real values      *)
(* happen: buffers shorter than, equal to and longer than the byte budget, *)
(* budgets that run out of bytes first and out of steps first, steps that  *)
(* fill the output buffer and steps that do not.                           *)
(***************************************************************************)
EXTENDS StreamDriver

MCCallbackBytes == 3
MCCallbackSteps == 3
MCCapacity == 2
MCMaxLen == 5
=============================================================================
