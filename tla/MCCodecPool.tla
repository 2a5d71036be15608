---------------------------- MODULE MCCodecPool ----------------------------
(***************************************************************************)
(* CodecPool for TLC: a pool of one or two places, as many encoders as     *)
(* requests (each request builds at most one), and two keys, so that hits, *)
(* misses, a full pool and a removal from the middle all happen.           *)
(***************************************************************************)
EXTENDS CodecPool, TLC

CONSTANTS r1, r2, r3, r4, c1, c2, c3, c4, k1, k2

MCRequests == {r1, r2, r3, r4}
MCCodecs == {c1, c2, c3, c4}
MCKeys == {k1, k2}
Symmetry == Permutations(MCRequests) \cup Permutations(MCCodecs) \cup Permutations(MCKeys)
=============================================================================
