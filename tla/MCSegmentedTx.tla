---------------------------- MODULE MCSegmentedTx ----------------------------
(***************************************************************************)
(* SegmentedTx with one remote and one task of single PDUs, which share    *)
(* the lock.  A SeqZero of three values wraps within a run, and a message  *)
(* of the second SRC may have the SeqZero of one of the first.             *)
(***************************************************************************)
EXTENDS SegmentedTx
=============================================================================
