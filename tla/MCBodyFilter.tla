---------------------------- MODULE MCBodyFilter ----------------------------
(***************************************************************************)
(* BodyFilter for TLC.                                                     *)
(***************************************************************************)
EXTENDS BodyFilter

MCBufferCount == 2
MCCapacity == 2
MCCallbackBytes == 2
MCCallbackSteps == 3
MCMaxBytes == 4
MCMaxArrivals == 3
MCFewArrivals == 2

\* A plain connection, with every operation upstream may ask for.
Plain == [framing |-> FALSE, postpone |-> FALSE, tls |-> FALSE, ops |-> Operation,
          stats_mode |-> "server_timing"]
Unmeasured == [Plain EXCEPT !.stats_mode = "off"]

\* Later layers may keep data back.
Coalesced == [Plain EXCEPT !.postpone = TRUE, !.tls = TRUE]

\* And they add bytes of their own, behind an upstream that does not flush.
Rich == [Coalesced EXCEPT !.framing = TRUE, !.ops = {"Continue", "Finish"}]

Everything == {Plain, Coalesced, Rich}
Quiet == {Unmeasured}
Framed == {[Unmeasured EXCEPT !.framing = TRUE]}
OverTls == {[Unmeasured EXCEPT !.tls = TRUE]}
=============================================================================
