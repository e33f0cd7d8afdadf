---------------------------- MODULE MCReassembly ----------------------------
(***************************************************************************)
(* Reassembly with a node that repeats a message as long as an entry is    *)
(* kept and one that repeats it longer.  With SeqAuths up to SeqZeroSpan   *)
(* two messages of a node may have the same SeqZero (0 and SeqZeroSpan),   *)
(* each of MaxSegments segments, and both be partly there at once; two     *)
(* nodes may use the same SeqAuth.                                         *)
(***************************************************************************)
EXTENDS Reassembly

CONSTANTS brief, lasting

LifeOf == [n \in {brief, lasting} |-> IF n = brief THEN TIMEOUT ELSE TIMEOUT + 1]
=============================================================================
