---------------------------- MODULE MCProxyFilter ----------------------------
(***************************************************************************)
(* ProxyFilter with messages of two addresses, so that a list takes two    *)
(* messages.  A proxy with room for 3 is full with our SRC and the first   *)
(* two groups; one with room for 9 holds all there can be.                 *)
(***************************************************************************)
EXTENDS ProxyFilter

MCOthers == <<101, 102, 103>>
=============================================================================
