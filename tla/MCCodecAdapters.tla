--------------------------- MODULE MCCodecAdapters ---------------------------
(******************************************************************************)
(* A gzip header and trailer of two bytes each; output buffers of one byte    *)
(* split both, those of two bytes fit either exactly, larger ones are shared. *)
(* A flush marker of five bytes fills buffers of one and five bytes exactly.  *)
(******************************************************************************)
EXTENDS CodecAdapters

MCHeaderBytes == 2
MCTrailerBytes == 2
MCCapacities == {1, 2, 3, 5}
MCMaxBytes == 3
=============================================================================
