---------------------------- MODULE RemoteEvents ----------------------------
(***************************************************************************)
(* RemoteDecoder turns what a remote publishes into one event per press,   *)
(* and the event starts a quick poll.                                      *)
(*                                                                         *)
(* A press is published several times with one TID.  Copies of it arrive   *)
(* until SPREAD after the press, any number of times, in any order.  A     *)
(* remote uses a TID again after TidSpan presses, and a hand does not make *)
(* that many within the window.  That a message is a press of a known      *)
(* remote at all is given; a source is an element and an opcode of one.    *)
(*                                                                         *)
(* Bounds of the model: MaxPresses and MaxTime.                            *)
(***************************************************************************)
EXTENDS Polling

CONSTANTS
  Sources,       \* pairs of an element of a remote and an opcode
  HaOnly,        \* what a press on a "Home Assistant only" position changes: no light
  DEDUP_WINDOW,
  SPREAD,        \* how long copies of one press keep arriving
  TidSpan,       \* 256
  MaxPresses,
  MaxTime

ASSUME RemoteAssumption ==
  /\ DEDUP_WINDOW \in Nat
  /\ SPREAD \in Nat
  /\ SPREAD < DEDUP_WINDOW
  /\ TidSpan \in Nat \ {0}
  /\ MaxPresses \in Nat
  /\ MaxTime \in Nat
  /\ HaOnly \notin Groups \cup {EveryLight}

VARIABLES
  clock,    \* time.monotonic()
  presses,  \* the presses made, with the events they gave rise to
  seen      \* [Sources -> [Tids -> time]]: RemoteDecoder._seen

rvars == <<clock, presses, seen>>
vars  == <<phase, connected, groups, task, queue, asked, unread, clock, presses, seen>>

Never == -1
Tids  == 0..(TidSpan - 1)

Of(s) == {i \in DOMAIN presses : presses[i].source = s}

(* A press on a position: its TID is the next of its source. *)
Press(s, target) ==
  LET tid == Cardinality(Of(s)) % TidSpan
  IN /\ Len(presses) < MaxPresses
     /\ \A i \in Of(s) : presses[i].tid = tid => clock - presses[i].at >= DEDUP_WINDOW + SPREAD
     /\ presses' = Append(presses, [source |-> s, tid |-> tid, at |-> clock, target |-> target,
                                    heard |-> FALSE, events |-> 0])
     /\ UNCHANGED <<clock, seen, pvars>>

(* Mutant: the window is one tick short. *)
FreshToo(time) == time # Never /\ clock - time < DEDUP_WINDOW - 1

(* An entry of _seen that decode keeps. *)
Fresh(time) == time # Never /\ clock - time < DEDUP_WINDOW

Pruned ==
  [s \in Sources |-> [tid \in Tids |-> IF Fresh(seen[s][tid]) THEN seen[s][tid] ELSE Never]]

(* A copy of press i arrives: _dispatch_remote. *)
Hear(i) ==
  LET p == presses[i]
      known == Pruned[p.source][p.tid] # Never
  IN /\ clock - p.at <= SPREAD
     /\ IF known
        THEN /\ seen' = Pruned
             /\ presses' = [presses EXCEPT ![i].heard = TRUE]
             /\ UNCHANGED pvars
        ELSE /\ seen' = [Pruned EXCEPT ![p.source][p.tid] = clock]
             /\ presses' = [presses EXCEPT ![i].heard = TRUE, ![i].events = @ + 1]
             /\ IF p.target = HaOnly THEN UNCHANGED pvars ELSE Dispatch(p.target)
     /\ UNCHANGED clock

Tick ==
  /\ clock < MaxTime
  /\ clock' = clock + 1
  /\ UNCHANGED <<presses, seen, pvars>>

Init ==
  /\ PollInit
  /\ clock = 0
  /\ presses = <<>>
  /\ seen = [s \in Sources |-> [tid \in Tids |-> Never]]

Polls == PollNext /\ UNCHANGED rvars

Next ==
  \/ \E s \in Sources, target \in Groups \cup {EveryLight, HaOnly} : Press(s, target)
  \/ \E i \in DOMAIN presses : Hear(i)
  \/ Tick
  \/ Polls

Spec == Init /\ [][Next]_vars

(* A task goes on when it can: its delays and its Gets end, and asyncio's  *)
(* lock is first come, first served.                                       *)
FairSpec ==
  /\ Spec
  /\ WF_vars(QuickStep /\ UNCHANGED rvars)
  /\ WF_vars(PeriodicPoll /\ UNCHANGED rvars)
  /\ WF_vars(PeriodicWakes /\ UNCHANGED rvars)

-----------------------------------------------------------------------------
Times == 0..MaxTime

Presses ==
  [source : Sources, tid : Tids, at : Times, target : Groups \cup {EveryLight, HaOnly},
   heard : BOOLEAN, events : Nat]

(* Every variable has its type. *)
TypeOK ==
  /\ PollTypeOK
  /\ clock \in Times
  /\ presses \in Seq(Presses)
  /\ seen \in [Sources -> [Tids -> Times \cup {Never}]]

(* A press that was heard at all is one event: its copies are dropped      *)
(* whenever they come, and none is dropped for another press's sake        *)
(* (remote.py 20-21 and 35).                                               *)
OneEventPerPress ==
  \A i \in DOMAIN presses : presses[i].events = IF presses[i].heard THEN 1 ELSE 0
=============================================================================
