------------------------------ MODULE SeqSource ------------------------------
(***************************************************************************)
(* What HaefeleCoordinator.next_seq promises its callers, with no file,    *)
(* block or rotation in sight: for each source address (SRC) the sequence  *)
(* numbers (SEQ) it returns only ever grow, across every restart of the    *)
(* process, and never pass SeqMax.  A lamp keeps the highest SEQ it has    *)
(* seen per SRC and drops anything at or below it, so a SEQ returned twice *)
(* is a command that silently does nothing.                                *)
(***************************************************************************)
EXTENDS Integers

CONSTANTS
  Unicast,   \* the source addresses
  SeqMax     \* SEQ_MAX, the largest value of the 24-bit counter

VARIABLES
  last,      \* [Unicast -> -1..SeqMax]: the highest SEQ ever returned, -1 if none
  out        \* what the latest call returned, until its caller has used it

svars == <<last, out>>

Nothing        == [kind |-> "none", src |-> 0, seq |-> -1]
Granted(s, n)  == [kind |-> "seq", src |-> s, seq |-> n]
Raised(why, s) == [kind |-> why, src |-> s, seq |-> -1]

Reasons == {"exhausted", "failed"}

TypeOK ==
  /\ last \in [Unicast -> -1..SeqMax]
  /\ out \in {Nothing} \cup {Granted(s, n) : s \in Unicast, n \in 0..SeqMax}
             \cup {Raised(why, s) : why \in Reasons, s \in Unicast}

Init ==
  /\ last \in [Unicast -> -1..SeqMax]
  /\ out = Nothing

(* A call returns a SEQ no lamp has seen from s yet. *)
Grant(s) ==
  /\ out = Nothing
  /\ \E n \in 0..SeqMax :
       /\ n > last[s]
       /\ out' = Granted(s, n)
       /\ last' = [last EXCEPT ![s] = n]

(* A call raises instead: SeqExhaustedError, or the error of the disk. *)
Refuse(s) ==
  /\ out = Nothing
  /\ \E why \in Reasons : out' = Raised(why, s)
  /\ UNCHANGED last

(* The caller takes the result, or dies with the process. *)
Take ==
  /\ out # Nothing
  /\ out' = Nothing
  /\ UNCHANGED last

Next == Take \/ \E s \in Unicast : Grant(s) \/ Refuse(s)

Spec == Init /\ [][Next]_svars
=============================================================================
