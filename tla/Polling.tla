------------------------------- MODULE Polling -------------------------------
(***************************************************************************)
(* How the coordinator keeps reading the lights: the periodic poll of all  *)
(* of them and the quick poll after a press on a remote, which share       *)
(* _poll_lock, and their end in async_shutdown.                            *)
(*                                                                         *)
(* A Get that raises is caught and the next light is asked, so a light is  *)
(* asked or skipped by one step; what becomes of a Get is sending's        *)
(* (SegmentedTx) and the light's (Light).  Delays between steps are        *)
(* whatever they are.                                                      *)
(***************************************************************************)
EXTENDS Integers, FiniteSets, Sequences, SequencesExt

CONSTANTS
  NumLights,   \* the lights of nodes_cfg, in its order
  Groups,
  Member,      \* [Groups -> SUBSET Lights]: a light's "groups", seen from the group
  EveryLight   \* the group of a position the export names no group for (None)

Lights == 1..NumLights

ASSUME PollingAssumption ==
  /\ NumLights \in Nat
  /\ Member \in [Groups -> SUBSET Lights]
  /\ EveryLight \notin Groups

VARIABLES
  phase,      \* how far async_shutdown is; _closing unless "running"
  connected,  \* proxy.is_connected
  groups,     \* _quick_poll_groups
  task,       \* ["quick" and "periodic" -> record]: _quick_poll_task, _poll_task
  queue,      \* those who hold (its head) or wait for _poll_lock, in order
  asked,      \* the lights the latest step began a Get to, history
  unread      \* history: the lights a press changed, until they are asked again

pvars == <<phase, connected, groups, task, queue, asked, unread>>

Tasks == {"quick", "periodic"}

Ended == [pc |-> "none", left |-> {}]
Sleeping == [pc |-> "sleeping", left |-> {}]

Targets(G) ==
  IF EveryLight \in G THEN Lights ELSE UNION {Member[g] : g \in G}

Holds(t) == queue # <<>> /\ Head(queue) = t

-----------------------------------------------------------------------------
(* Mutant: a press is taken up whatever shutdown is doing. *)
DispatchAnyway(g) ==
  /\ asked' = {}
  /\ groups' = groups \cup {g}
  /\ unread' = IF phase = "running" THEN unread \cup Targets({g}) ELSE unread
  /\ task' = IF task["quick"] = Ended THEN [task EXCEPT !["quick"] = Sleeping] ELSE task
  /\ UNCHANGED <<phase, connected, queue>>

(* _schedule_quick_poll for the group of a press. *)
Dispatch(g) ==
  /\ asked' = {}
  /\ IF phase # "running"
     THEN UNCHANGED <<groups, task, unread>>
     ELSE /\ groups' = groups \cup {g}
          /\ unread' = unread \cup Targets({g})
          /\ task' = IF task["quick"] = Ended THEN [task EXCEPT !["quick"] = Sleeping] ELSE task
  /\ UNCHANGED <<phase, connected, queue>>

(* QUICK_POLL_DELAY is over: the groups so far are this pass's.  Without a *)
(* link they are given up; the periodic poll catches up.                   *)
QuickTakes ==
  /\ task["quick"].pc = "sleeping"
  /\ groups' = {}
  /\ asked' = {}
  /\ IF connected
     THEN /\ task' = [task EXCEPT !["quick"] = [pc |-> "polling", left |-> Targets(groups)]]
          /\ queue' = Append(queue, "quick")
          /\ UNCHANGED unread
     ELSE /\ task' = [task EXCEPT !["quick"] = Ended]
          /\ unread' = unread \ Targets(groups)
          /\ UNCHANGED queue
  /\ UNCHANGED <<phase, connected>>

(* STATE_POLL_INTERVAL is over and the link is up. *)
PeriodicWakes ==
  /\ task["periodic"].pc = "sleeping"
  /\ connected
  /\ task' = [task EXCEPT !["periodic"] = [pc |-> "polling", left |-> Lights]]
  /\ queue' = Append(queue, "periodic")
  /\ asked' = {}
  /\ UNCHANGED <<phase, connected, groups, unread>>

(* Mutant: a Get that raises ends the task. *)
AskNextOrDie(t) ==
  /\ Holds(t)
  /\ \E n \in task[t].left :
       /\ \A m \in task[t].left : n <= m
       /\ \/ /\ task' = [task EXCEPT ![t].left = @ \ {n}]
             /\ asked' = {n}
             /\ unread' = unread \ {n}
             /\ UNCHANGED queue
          \/ /\ task' = [task EXCEPT ![t] = Ended]
             /\ queue' = Tail(queue)
             /\ asked' = {}
             /\ UNCHANGED unread
  /\ UNCHANGED <<phase, connected, groups>>

(* _poll_nodes_locked goes on to its next light. *)
AskNext(t) ==
  /\ Holds(t)
  /\ \E n \in task[t].left :
       /\ \A m \in task[t].left : n <= m
       /\ task' = [task EXCEPT ![t].left = @ \ {n}]
       /\ asked' = {n}
       /\ unread' = unread \ {n}
  /\ UNCHANGED <<phase, connected, groups, queue>>

(* Mutant: the quick poll ends after one pass. *)
OnePass(t) ==
  /\ Holds(t)
  /\ task[t].left = {}
  /\ task' = [task EXCEPT ![t] = IF t = "quick" THEN Ended ELSE Sleeping]
  /\ queue' = Tail(queue)
  /\ asked' = {}
  /\ UNCHANGED <<phase, connected, groups, unread>>

(* All asked.  A quick poll goes round again for the presses since. *)
PassEnds(t) ==
  /\ Holds(t)
  /\ task[t].left = {}
  /\ task' = [task EXCEPT ![t] = IF t = "quick" /\ groups = {} THEN Ended ELSE Sleeping]
  /\ queue' = Tail(queue)
  /\ asked' = {}
  /\ UNCHANGED <<phase, connected, groups, unread>>

-----------------------------------------------------------------------------
(* async_shutdown, in its order *)

Shutdown ==
  /\ phase = "running"
  /\ phase' = "stopping"
  /\ asked' = {}
  /\ unread' = {}
  /\ UNCHANGED <<connected, groups, task, queue>>

(* A cancelled task leaves the lock, or the wait for it, to the other. *)
Cancelled(t) ==
  /\ task' = [task EXCEPT ![t] = Ended]
  /\ queue' \in {<<>>} \cup {<<u>> : u \in Tasks}
  /\ Range(queue') = Range(queue) \ {t}

PeriodicStopped ==
  /\ phase = "stopping"
  /\ Cancelled("periodic")
  /\ phase' = "draining"
  /\ asked' = {}
  /\ UNCHANGED <<connected, groups, unread>>

(* _cancel_background_tasks; proxy.disconnect() comes after. *)
QuickStopped ==
  /\ phase = "draining"
  /\ Cancelled("quick")
  /\ phase' = "closed"
  /\ asked' = {}
  /\ UNCHANGED <<connected, groups, unread>>

(* The link drops, or is back. *)
LinkChanges ==
  /\ connected' = ~connected
  /\ asked' = {}
  /\ UNCHANGED <<phase, groups, task, queue, unread>>

PollInit ==
  /\ phase = "running"
  /\ connected \in BOOLEAN
  /\ groups = {}
  /\ task = [t \in Tasks |-> IF t = "quick" THEN Ended ELSE Sleeping]
  /\ queue = <<>>
  /\ asked = {}
  /\ unread = {}

QuickStep    == QuickTakes \/ AskNext("quick") \/ PassEnds("quick")
PeriodicPoll == AskNext("periodic") \/ PassEnds("periodic")

PollNext ==
  \/ QuickStep
  \/ PeriodicWakes
  \/ PeriodicPoll
  \/ Shutdown
  \/ PeriodicStopped
  \/ QuickStopped
  \/ LinkChanges

-----------------------------------------------------------------------------
(* Every variable has its type. *)
PollTypeOK ==
  /\ phase \in {"running", "stopping", "draining", "closed"}
  /\ connected \in BOOLEAN
  /\ groups \subseteq Groups \cup {EveryLight}
  /\ task \in [Tasks -> [pc : {"none", "sleeping", "polling"}, left : SUBSET Lights]]
  /\ queue \in Seq(Tasks)
  /\ asked \subseteq Lights
  /\ unread \subseteq Lights

(* "Presses that arrive while a quick poll is running are queued and read  *)
(* in another pass, never dropped" (coordinator.py 278-279): the quick     *)
(* poll that is on its way will begin a Get to each light a press changed, *)
(* after the press, unless it is given up for want of a link (296-301) or  *)
(* by shutdown.                                                            *)
PressIsQueued ==
  \A n \in unread :
    \/ task["quick"].pc # "none" /\ n \in Targets(groups)
    \/ task["quick"].pc = "polling" /\ n \in task["quick"].left

(* Once async_shutdown has cancelled them nothing polls any more, and a    *)
(* press in that window starts nothing (coordinator.py 728-729): the link  *)
(* would be opened again after disconnect().                               *)
ShutdownIsFinal ==
  phase = "closed" => queue = <<>> /\ \A t \in Tasks : task[t] = Ended

(* As long as the link stays up, every light is asked again and again:     *)
(* what Light relies on to correct what it shows.                          *)
LightsArePolled ==
  <>[](connected /\ phase = "running") => \A n \in Lights : []<>(n \in asked)
=============================================================================
