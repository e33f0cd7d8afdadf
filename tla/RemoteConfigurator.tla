-------------------------- MODULE RemoteConfigurator --------------------------
(***************************************************************************)
(* What the positions of a battery remote publish to, chosen in Home       *)
(* Assistant and applied while the remote is awake.                        *)
(*                                                                         *)
(* A chosen mode is recorded with every control of the position pending.   *)
(* A press starts a job that sends one Publication Set after the other and *)
(* waits for each Publication Status; the job, the user, late or repeated  *)
(* statuses, the writes of the store and a restart interleave.             *)
(*                                                                         *)
(* One remote: jobs are per remote and an element belongs to one remote,   *)
(* so remotes share nothing but the store.  The remote and the store are   *)
(* external.                                                               *)
(***************************************************************************)
EXTENDS Naturals

CONSTANTS
  NumPositions,   \* modules of the remote
  Controls,       \* its client models, [element, model]
  Gone,           \* client models an earlier export had and this one lacks
  PositionOf,     \* [Controls \cup Gone -> 1..NumPositions]
  AppAddress,     \* [Controls -> Nat], UNASSIGNED for "publish" missing
  Enabled,        \* [1..NumPositions -> BOOLEAN], "enabled" of the export
  HA_ONLY_ADDRESS,
  MAX_SILENT,     \* unanswered Sets in a row that end a job
  MaxRounds,      \* the 3 of _apply
  NoControl,
  LateStatuses,   \* environment: a status may arrive after the next Set of its control
  Forgetful,      \* environment: a crash may follow a failed write, or a Set may be taken
                  \* while a write of the store is under way
  MaxChanges,     \* bound: modes chosen
  MaxMishaps      \* bound: Sets not answered in time, failed writes and crashes

Positions  == 1..NumPositions
UNASSIGNED == 0
Modes      == {"app", "ha_only", "disabled"}

ASSUME ConfiguratorAssumption ==
  /\ NumPositions \in Nat \ {0} /\ MAX_SILENT \in Nat \ {0} /\ MaxRounds \in Nat \ {0}
  /\ HA_ONLY_ADDRESS \in Nat \ {UNASSIGNED}
  /\ Controls \cap Gone = {} /\ NoControl \notin Controls \cup Gone
  /\ PositionOf \in [Controls \cup Gone -> Positions]
  /\ AppAddress \in [Controls -> Nat]
  /\ Enabled \in [Positions -> BOOLEAN]
  /\ LateStatuses \in BOOLEAN /\ Forgetful \in BOOLEAN
  /\ MaxChanges \in Nat /\ MaxMishaps \in Nat

VARIABLES
  positions,  \* _positions: [mode, pending, error], mode "none" if not stored
  disk,       \* external: the positions in the store
  writing,    \* external: a write of the store is under way
  failed,     \* the last write failed: the store is behind
  job,        \* the remote's _apply task, _apply_once and _set_publication
  real,       \* external: the address each control of the remote publishes to
  statuses,   \* external: Publication Statuses that may arrive, or arrive again
  counts      \* counters for the bounds

vars  == <<positions, disk, writing, failed, job, real, statuses, counts>>
store == <<disk, writing, failed>>

ControlsOf(p) == {c \in Controls : PositionOf[c] = p}
NotStored     == [mode |-> "none", pending |-> {}, error |-> FALSE]

IdleJob ==
  [pc       |-> "idle",
   round    |-> 1,
   at       |-> 1,          \* the module
   todo     |-> {},         \* rest of the copy of position["pending"]
   started  |-> {},         \* positions not replaced since the round began
   held     |-> FALSE,      \* position is still the stored one
   replaced |-> FALSE,
   silent   |-> 0,
   control  |-> NoControl,  \* the Set being sent, and its waiter
   address  |-> UNASSIGNED,
   taken    |-> FALSE,      \* external: the remote has it
   answer   |-> "none"]     \* the waiter's result

-----------------------------------------------------------------------------
(* remote_config.py, and the modes of a position *)

Publication(mode, c) ==
  CASE mode = "app"     -> AppAddress[c]
    [] mode = "ha_only" -> HA_ONLY_ADDRESS
    [] OTHER            -> UNASSIGNED

AvailableModes(p) ==
  IF \E c \in ControlsOf(p) : AppAddress[c] # UNASSIGNED THEN Modes ELSE Modes \ {"app"}

DefaultMode(p) == IF Enabled[p] THEN "app" ELSE "disabled"

Mode(p) ==
  IF positions[p].mode \in AvailableModes(p) THEN positions[p].mode
  ELSE IF DefaultMode(p) \in AvailableModes(p) THEN DefaultMode(p)
  ELSE "disabled"

IsPending(p) == positions[p].pending # {}

Confirm(p, c) == positions' = [positions EXCEPT ![p].pending = @ \ {c}]

(* The tasks share one thread: nothing else runs between two awaits. *)
AtAwait == job.pc \notin {"round", "position", "control"}

Mishap ==
  counts.mishaps < MaxMishaps /\ counts' = [counts EXCEPT !.mishaps = @ + 1]

-----------------------------------------------------------------------------
(* The user *)

OtherEnabled(p) == \E q \in Positions \ {p} : Mode(q) # "disabled"

(* self._save(): the write begins. *)
Save == writing' = TRUE /\ UNCHANGED <<disk, failed>>

AsyncSetMode(p, mode) ==
  /\ AtAwait /\ counts.changes < MaxChanges
  /\ mode \in AvailableModes(p)
  /\ mode = "disabled" => OtherEnabled(p)
  /\ positions' = [positions EXCEPT ![p] =
       [mode |-> mode, pending |-> ControlsOf(p), error |-> FALSE]]
  /\ job' = [job EXCEPT !.started = @ \ {p}, !.held = @ /\ job.at # p]
  /\ Save
  /\ counts' = [counts EXCEPT !.changes = @ + 1]
  /\ UNCHANGED <<real, statuses>>

Reachable == \E c \in Controls : real[c] # UNASSIGNED

(* on_remote_activity: a press of a control that publishes. *)
OnRemoteActivity ==
  /\ job.pc = "idle" /\ Reachable
  /\ \E p \in Positions : IsPending(p)
  /\ job' = [IdleJob EXCEPT !.pc = "round"]
  /\ UNCHANGED <<positions, store, real, statuses, counts>>

-----------------------------------------------------------------------------
(* _apply_once: the loop over the positions and their controls *)

Round ==
  /\ job.pc = "round"
  /\ job' = [IdleJob EXCEPT !.pc = "position", !.round = job.round, !.started = Positions]
  /\ UNCHANGED <<positions, store, real, statuses, counts>>

TakePosition ==
  /\ job.pc = "position" /\ job.at <= NumPositions
  /\ job' = IF IsPending(job.at)
            THEN [job EXCEPT !.pc = "control", !.held = TRUE,
                             !.todo = positions[job.at].pending]
            ELSE [job EXCEPT !.at = @ + 1]
  /\ UNCHANGED <<positions, store, real, statuses, counts>>

ModeChanged == job.replaced \/ \E p \in Positions \ job.started : IsPending(p)

(* Mutant: one round more. *)
RoundsAndOne == job.round <= MaxRounds

RoundsLeft == job.round < MaxRounds

EndRound ==
  /\ job.pc = "position" /\ job.at > NumPositions
  /\ job' = IF ModeChanged /\ RoundsLeft
            THEN [job EXCEPT !.pc = "round", !.round = @ + 1]
            ELSE IdleJob
  /\ UNCHANGED <<positions, store, real, statuses, counts>>

LeavePosition ==
  /\ job.pc = "control" /\ (job.todo = {} \/ ~job.held)
  /\ job' = [job EXCEPT !.pc = "position", !.at = @ + 1, !.todo = {},
                        !.replaced = @ \/ job.todo # {}]
  /\ UNCHANGED <<positions, store, real, statuses, counts>>

(* A control the export no longer has: nothing is sent, nor saved. *)
DiscardGone(c) ==
  /\ job.pc = "control" /\ job.held
  /\ c \in job.todo \cap Gone
  /\ Confirm(job.at, c)
  /\ job' = [job EXCEPT !.todo = @ \ {c}]
  /\ UNCHANGED <<store, real, statuses, counts>>

(* Without LateStatuses, the statuses of earlier Sets have arrived or are lost. *)
SendSet(c) ==
  /\ job.pc = "control" /\ job.held
  /\ c \in job.todo \cap Controls
  /\ job' = [job EXCEPT !.pc = "sending", !.todo = @ \ {c}, !.control = c,
                        !.address = Publication(positions[job.at].mode, c),
                        !.taken = FALSE, !.answer = "none"]
  /\ statuses' = IF LateStatuses THEN statuses ELSE {s \in statuses : s.control # c}
  /\ UNCHANGED <<positions, store, real, counts>>

-----------------------------------------------------------------------------
(* _set_publication *)

(* The remote carries out the Set, or refuses it, and answers. *)
RemoteTakes(ok) ==
  /\ job.pc = "sending" /\ ~job.taken
  /\ Forgetful \/ ~writing
  /\ job' = [job EXCEPT !.taken = TRUE]
  /\ real' = IF ok THEN [real EXCEPT ![job.control] = job.address] ELSE real
  /\ statuses' = statuses \cup
       {[control |-> job.control, address |-> job.address, ok |-> ok]}
  /\ UNCHANGED <<positions, store, counts>>

(* The Set is acknowledged, or was answered while it was being sent. *)
SendReturns ==
  /\ job.pc = "sending" /\ (job.taken \/ job.answer # "none")
  /\ job' = [job EXCEPT !.pc = "waiting"]
  /\ UNCHANGED <<positions, store, real, statuses, counts>>

(* Not delivered, an exception, or STATUS_TIMEOUT; MAX_SILENT in a row end the job. *)
Unanswered ==
  /\ \/ job.pc = "sending"
     \/ job.pc = "waiting" /\ job.answer = "none"
  /\ Mishap
  /\ IF job.silent + 1 >= MAX_SILENT
     THEN job' = [job EXCEPT !.pc = "giving up"] /\ Save
     ELSE job' = [job EXCEPT !.pc = "control", !.silent = @ + 1] /\ UNCHANGED store
  /\ UNCHANGED <<positions, real, statuses>>

Answered ==
  /\ job.pc = "waiting" /\ job.answer # "none"
  /\ job' = [job EXCEPT !.pc = "settling", !.silent = 0]
  /\ UNCHANGED <<positions, store, real, statuses, counts>>

Settle(position) ==
  [mode    |-> position.mode,
   pending |-> position.pending \ {job.control},
   error   |-> job.answer = "refused" \/ position.error]

(* Mutant: the control is dropped from whatever is stored for the position now. *)
SettleStored == positions' = [positions EXCEPT ![job.at] = Settle(@)]

(* _discard and the error mark, on the position the round took: if the mode was *)
(* changed since, that is no longer the stored one.                             *)
SettleHeld ==
  positions' = IF job.held THEN [positions EXCEPT ![job.at] = Settle(@)] ELSE positions

(* SETTLE_DELAY is over. *)
Settled ==
  /\ job.pc = "settling"
  /\ SettleHeld
  /\ job' = [job EXCEPT !.pc = "saving"]
  /\ Save
  /\ UNCHANGED <<real, statuses, counts>>

-----------------------------------------------------------------------------
(* on_publication_status *)

AnswersWaiter(s) ==
  /\ job.pc \in {"sending", "waiting"} /\ job.control = s.control
  /\ job.answer = "none"
  /\ s.ok => s.address = job.address

StatusAnswers(s) ==
  /\ AnswersWaiter(s)
  /\ job' = [job EXCEPT !.answer = IF s.ok THEN "ok" ELSE "refused"]
  /\ UNCHANGED <<positions, store, real, statuses, counts>>

(* _confirm *)
Confirms(s) ==
  LET p == PositionOf[s.control]
  IN  /\ s.ok /\ s.control \in positions[p].pending
      /\ s.address = Publication(positions[p].mode, s.control)

(* Mutant: the next Set will save it. *)
NotSaved == UNCHANGED store

(* The spawned _save_and_notify. *)
SaveSpawned == Save

StatusConfirms(s) ==
  /\ AtAwait
  /\ ~AnswersWaiter(s) /\ Confirms(s)
  /\ Confirm(PositionOf[s.control], s.control)
  /\ SaveSpawned
  /\ UNCHANGED <<job, real, statuses, counts>>

-----------------------------------------------------------------------------
(* The store: the dictionary is serialised as it is when it is written. *)

Written ==
  /\ AtAwait /\ writing
  /\ disk' = positions /\ writing' = FALSE /\ failed' = FALSE
  /\ job' = CASE job.pc = "saving"    -> [job EXCEPT !.pc = "control"]
              [] job.pc = "giving up" -> IdleJob
              [] OTHER                -> job
  /\ UNCHANGED <<positions, real, statuses, counts>>

(* Mutant: a job that could not save stays where it is. *)
JobStuck == job

(* The exception ends the job that awaits the write. *)
JobAfterFailure == IF job.pc \in {"saving", "giving up"} THEN IdleJob ELSE job

WriteFails ==
  /\ AtAwait /\ writing /\ Mishap
  /\ writing' = FALSE /\ failed' = TRUE
  /\ job' = JobAfterFailure
  /\ UNCHANGED <<positions, disk, real, statuses>>

(* A crash, or an unload: nothing more is saved.  Then async_load. *)
Crash ==
  /\ AtAwait /\ Mishap
  /\ Forgetful \/ ~failed
  /\ positions' = disk
  /\ job' = IdleJob /\ writing' = FALSE /\ failed' = FALSE
  /\ UNCHANGED <<disk, real, statuses>>

-----------------------------------------------------------------------------
(* An empty store, or one in which a mode of an earlier export is pending. *)
Init ==
  /\ \/ positions = [p \in Positions |-> NotStored]
     \/ \E q \in Positions : positions = [p \in Positions |->
          IF p = q
          THEN [mode    |-> "ha_only",
                pending |-> ControlsOf(p) \cup {c \in Gone : PositionOf[c] = p},
                error   |-> FALSE]
          ELSE NotStored]
  /\ disk = positions
  /\ writing = FALSE /\ failed = FALSE
  /\ job = IdleJob
  /\ real = AppAddress
  /\ statuses = {}
  /\ counts = [changes |-> 0, mishaps |-> 0]

SetAnyMode == \E p \in Positions, mode \in Modes : AsyncSetMode(p, mode)
AnyGone    == \E c \in Gone : DiscardGone(c)
AnySend    == \E c \in Controls : SendSet(c)
Accepted   == RemoteTakes(TRUE)
Refused    == RemoteTakes(FALSE)
AnyAnswer  == \E s \in statuses : StatusAnswers(s)
AnyConfirm == \E s \in statuses : StatusConfirms(s)

Loop == Round \/ TakePosition \/ EndRound \/ LeavePosition \/ AnyGone \/ AnySend
Wait == SendReturns \/ Answered \/ Settled

Next ==
  \/ SetAnyMode \/ OnRemoteActivity
  \/ Loop \/ Wait \/ Unanswered
  \/ Accepted \/ Refused \/ AnyAnswer \/ AnyConfirm
  \/ Written \/ WriteFails \/ Crash

Spec == Init /\ [][Next]_vars

(* The tasks and the writes go on.  As long as something is pending the user  *)
(* presses again, and the remote takes and answers every Set but MaxMishaps. *)
Fairness ==
  /\ WF_vars(Loop) /\ WF_vars(Wait) /\ WF_vars(Written)
  /\ WF_vars(OnRemoteActivity)
  /\ WF_vars(Accepted \/ Refused)
  /\ WF_vars(AnyAnswer)

FairSpec == Spec /\ Fairness

-----------------------------------------------------------------------------
(* Properties *)

PositionState ==
  [mode : Modes \cup {"none"}, pending : SUBSET (Controls \cup Gone), error : BOOLEAN]

Job ==
  [pc : {"idle", "round", "position", "control", "sending", "waiting", "settling",
         "saving", "giving up"},
   round : 1..MaxRounds, at : 1..NumPositions + 1,
   todo : SUBSET (Controls \cup Gone), started : SUBSET Positions,
   held : BOOLEAN, replaced : BOOLEAN, silent : 0..MAX_SILENT - 1,
   control : Controls \cup {NoControl}, address : Nat,
   taken : BOOLEAN, answer : {"none", "ok", "refused"}]

(* The values every variable may have: the job ends after MaxRounds rounds and *)
(* MAX_SILENT unanswered Sets.                                                  *)
TypeOK ==
  /\ positions \in [Positions -> PositionState]
  /\ disk \in [Positions -> PositionState]
  /\ writing \in BOOLEAN /\ failed \in BOOLEAN
  /\ job \in Job
  /\ real \in [Controls -> Nat]
  /\ statuses \subseteq [control : Controls, address : Nat, ok : BOOLEAN]
  /\ counts \in [changes : 0..MaxChanges, mishaps : 0..MaxMishaps]

(* Every control of p that is neither pending nor refused publishes to what *)
(* the mode says.                                                           *)
Applied(p) ==
  positions[p].mode # "none" /\ ~positions[p].error =>
    \A c \in ControlsOf(p) \ positions[p].pending :
      real[c] = Publication(positions[p].mode, c)

(* "Pending, control by control, until the remote confirms it": whatever was *)
(* replaced, answered late, repeated, refused or restarted in between, a     *)
(* control that no longer counts as pending has the publication of the mode. *)
(* is_ha_only rests on it, and with it which presses are not polled for.     *)
ConfirmedIsApplied == \A p \in Positions : Applied(p)

(* async_set_mode returns once the mode is in the store: with no write under  *)
(* way and none failed, a restart forgets no mode, no refusal and no pending  *)
(* control, however the job's own saves fell among the user's.                *)
ReturnedIsSaved ==
  ~writing /\ ~failed =>
    \A p \in Positions :
      /\ disk[p].mode = positions[p].mode /\ disk[p].error = positions[p].error
      /\ positions[p].pending \subseteq disk[p].pending
      /\ disk[p].pending \subseteq positions[p].pending \cup Gone

(* A chosen mode is applied in the end, or refused: through jobs that gave up, *)
(* modes changed while they ran, failed writes and restarts; unless no         *)
(* control of the remote publishes any more, and no press can be heard.        *)
EventuallyApplied ==
  \A p \in Positions : IsPending(p) ~> (~IsPending(p) \/ ~Reachable)

(* "The last position that is not disabled can't be disabled from Home        *)
(* Assistant, or no press could ever reach the remote again."                 *)
StaysReachable == job.pc = "idle" => Reachable
=============================================================================
