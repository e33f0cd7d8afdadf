------------------------------ MODULE MCIvIndex ------------------------------
(***************************************************************************)
(* IvIndex with a network that may do several updates, a jump limit of two *)
(* so that a stored IV Index can be within and beyond reach, and configured*)
(* values below and above the network's.                                   *)
(***************************************************************************)
EXTENDS IvIndex
=============================================================================
