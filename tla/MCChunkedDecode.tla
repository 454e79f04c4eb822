-------------------------- MODULE MCChunkedDecode --------------------------
(***************************************************************************)
(* Small framings for TLC: chunk sizes below, at and above the lower clamp *)
(* and one large enough for the growth 1, 2, 8; a negative, an empty, a    *)
(* partial and a long left context; no, a short and a too long first chunk.*)
(***************************************************************************)
EXTENDS ChunkedDecode

MCChunkSizes == {0, 1, 3, 8}
MCLeftContexts == {-1, 0, 2, 5}
MCFirstChunks == {0, 1, 2, 9}
=============================================================================
