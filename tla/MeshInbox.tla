------------------------------ MODULE MeshInbox ------------------------------
(***************************************************************************)
(* What the lower transport layer promises the layers above it, with no    *)
(* segment, timer or acknowledgment in sight: what it hands up is a        *)
(* message some node sent, whole; and a message of a node that does not    *)
(* repeat itself for too long is handed up once.                           *)
(***************************************************************************)
EXTENDS Sequences, SequencesExt

CONSTANTS
  Texts,     \* the messages as they are handed up
  Fleeting   \* those whose sender stops repeating them in time

VARIABLES
  written,   \* the messages sent so far
  inbox      \* the messages handed up, in order

ivars == <<written, inbox>>

Init ==
  /\ written = {}
  /\ inbox = <<>>

Write ==
  /\ \E t \in Texts \ written : written' = written \cup {t}
  /\ UNCHANGED inbox

HandUp ==
  /\ \E t \in written :
       /\ t \in Fleeting => t \notin Range(inbox)
       /\ inbox' = Append(inbox, t)
  /\ UNCHANGED written

Next == Write \/ HandUp

Spec == Init /\ [][Next]_ivars
=============================================================================
