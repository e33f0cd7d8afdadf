------------------------------- MODULE MCLight -------------------------------
(***************************************************************************)
(* Light with three units of lightness to one of brightness: the lowest    *)
(* lightness rounds to brightness 0 although the lamp is on.               *)
(***************************************************************************)
EXTENDS Light
=============================================================================
