--------------------------- MODULE OrderedStream ---------------------------
(***************************************************************************)
(* What a response body filter promises, whatever it does to the bytes:    *)
(* the client is given, in order and exactly once, what upstream handed    *)
(* over, and a flush or the end of the response is passed on behind        *)
(* everything that came before it.  The filter may hold data back, but not *)
(* past a boundary, and it may abort the response.                         *)
(***************************************************************************)
EXTENDS Naturals, Sequences, SequencesExt

CONSTANTS
    Boundaries,  \* the items that nothing before them may be held back behind
    LastItem,    \* the boundary that ends the stream
    MaxItems     \* bound: the length of the longest stream

VARIABLES
    accepted,   \* what upstream has handed over
    delivered,  \* what has gone downstream
    aborted

vars == <<accepted, delivered, aborted>>

Ended == accepted # <<>> /\ accepted[Len(accepted)] = LastItem

Init ==
    /\ accepted = <<>>
    /\ delivered = <<>>
    /\ aborted = FALSE

Accept ==
    /\ ~Ended
    /\ ~aborted
    /\ IsStrictPrefix(accepted, accepted')
    /\ UNCHANGED <<delivered, aborted>>

Deliver ==
    /\ ~aborted
    /\ IsStrictPrefix(delivered, delivered')
    /\ IsPrefix(delivered', accepted)
    /\ UNCHANGED <<accepted, aborted>>

Abort ==
    /\ aborted' = TRUE
    /\ UNCHANGED <<accepted, delivered>>

Next == Accept \/ Deliver \/ Abort

Safety == Init /\ [][Next]_vars

\* A boundary, and all that was accepted before it, is delivered without any
\* further help from upstream, unless the response is aborted.
BoundaryAt(n) == n \in DOMAIN accepted /\ accepted[n] \in Boundaries

BoundariesAreDelivered ==
    \A n \in 1..MaxItems : BoundaryAt(n) ~> (Len(delivered) >= n \/ aborted)
=============================================================================
