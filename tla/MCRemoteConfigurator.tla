------------------------ MODULE MCRemoteConfigurator ------------------------
(***************************************************************************)
(* RemoteConfigurator with a remote of two positions.  The first is set up *)
(* in the app and has two controls, so a position may be confirmed in part *)
(* and a job may give up within it; the second has one control that the    *)
(* app left without publication.  In the violation runs the first has one. *)
(***************************************************************************)
EXTENDS RemoteConfigurator

CONSTANTS dim, ring, onoff, scene

MCPositionOf == [c \in Controls \cup Gone |-> IF c \in {dim, ring, scene} THEN 1 ELSE 2]
MCAppAddress == [c \in Controls |-> IF c = onoff THEN UNASSIGNED ELSE 49152]
MCEnabled    == [p \in Positions |-> p = 1]
=============================================================================
