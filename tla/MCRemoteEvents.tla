--------------------------- MODULE MCRemoteEvents ---------------------------
(***************************************************************************)
(* Two lights, one of them in the group of a remote's position.            *)
(***************************************************************************)
EXTENDS RemoteEvents

MemberOf == [g \in Groups |-> {1}]
=============================================================================
