----------------------- MODULE RemoteConfigurator_proofs -----------------------
(***************************************************************************)
(* Proofs about RemoteConfigurator, for every remote and export, any       *)
(* number of mode changes, unanswered Sets, failed writes and crashes.     *)
(*                                                                         *)
(* Shape holds whatever the environment does.  Truth is the argument why   *)
(* a confirmed control has its mode; it needs the environment to be        *)
(* neither LateStatuses nor Forgetful.  Forward and Awaited are why a job  *)
(* ends, and Clearing why one that is not disturbed leaves nothing         *)
(* pending.                                                                *)
(***************************************************************************)
EXTENDS RemoteConfigurator, TLAPS

Own(p) == {c \in Controls \cup Gone : PositionOf[c] = p}

InPosition == job.pc \in {"control", "sending", "waiting", "settling", "saving"}
Sending    == job.pc \in {"sending", "waiting", "settling"}

(* What is pending belongs to its position, and the job works on one position. *)
Placed ==
  /\ \A p \in Positions : positions[p].pending \subseteq Own(p)
  /\ \A p \in Positions : disk[p].pending \subseteq Own(p)
  /\ InPosition => job.at \in Positions /\ job.todo \subseteq Own(job.at)
  /\ Sending => job.control \in ControlsOf(job.at)
  /\ job.pc = "settling" => job.answer # "none"

Shape == TypeOK /\ Placed /\ ReturnedIsSaved

THEOREM ShapeInit == Init => Shape
<1> SUFFICES ASSUME Init PROVE Shape
  OBVIOUS
<1> USE ConfiguratorAssumption
<1>1. positions \in [Positions -> PositionState]
  <2>1. NotStored \in PositionState
    BY DEF NotStored, PositionState
  <2>2. \A p \in Positions :
          [mode    |-> "ha_only",
           pending |-> ControlsOf(p) \cup {c \in Gone : PositionOf[c] = p},
           error   |-> FALSE] \in PositionState
    BY DEF PositionState, ControlsOf, Modes
  <2>3. CASE positions = [p \in Positions |-> NotStored]
    BY <2>1, <2>3
  <2>4. CASE ~(positions = [p \in Positions |-> NotStored])
    <3>1. PICK q \in Positions : positions = [p \in Positions |->
            IF p = q
            THEN [mode    |-> "ha_only",
                  pending |-> ControlsOf(p) \cup {c \in Gone : PositionOf[c] = p},
                  error   |-> FALSE]
            ELSE NotStored]
      BY <2>4 DEF Init
    <3> QED
      BY <2>1, <2>2, <3>1, Zenon
  <2> QED
    BY <2>3, <2>4
<1>2. job \in Job /\ job.pc = "idle"
  BY DEF Init, IdleJob, Job, Positions, UNASSIGNED
<1>3. TypeOK
  <2>1. counts \in [changes : 0..MaxChanges, mishaps : 0..MaxMishaps]
    BY DEF Init
  <2>2. disk \in [Positions -> PositionState]
    BY <1>1 DEF Init
  <2>3. real \in [Controls -> Nat] /\ writing \in BOOLEAN /\ failed \in BOOLEAN
        /\ statuses \subseteq [control : Controls, address : Nat, ok : BOOLEAN]
    BY DEF Init
  <2> QED
    BY <1>1, <1>2, <2>1, <2>2, <2>3, Zenon DEF TypeOK
<1>4. \A p \in Positions : positions[p].pending \subseteq Own(p)
  BY DEF Init, NotStored, ControlsOf, Own
<1>5. Placed
  BY <1>2, <1>4 DEF Init, Placed, InPosition, Sending
<1>6. ReturnedIsSaved
  BY DEF Init, ReturnedIsSaved
<1> QED
  BY <1>3, <1>5, <1>6 DEF Shape

(* A record is its fields. *)
LEMMA JobRecord ==
  ASSUME job \in Job
  PROVE  /\ job = [pc |-> job.pc, round |-> job.round, at |-> job.at, todo |-> job.todo,
                   started |-> job.started, held |-> job.held, replaced |-> job.replaced,
                   silent |-> job.silent, control |-> job.control, address |-> job.address,
                   taken |-> job.taken, answer |-> job.answer]
         /\ job.round \in 1..MaxRounds /\ job.at \in 1..NumPositions + 1
         /\ job.silent \in 0..MAX_SILENT - 1 /\ 0 \in 0..MAX_SILENT - 1
<1>1. 0 \in 0..MAX_SILENT - 1
  BY ConfiguratorAssumption
<1>2. /\ job.round \in 1..MaxRounds /\ job.at \in 1..NumPositions + 1
      /\ job.silent \in 0..MAX_SILENT - 1
  BY DEF Job
<1>3. job = [pc |-> job.pc, round |-> job.round, at |-> job.at, todo |-> job.todo,
             started |-> job.started, held |-> job.held, replaced |-> job.replaced,
             silent |-> job.silent, control |-> job.control, address |-> job.address,
             taken |-> job.taken, answer |-> job.answer]
  BY DEF Job
<1> QED
  BY <1>1, <1>2, <1>3, Zenon

LEMMA PositionRecord ==
  ASSUME NEW x \in PositionState
  PROVE  /\ x = [mode |-> x.mode, pending |-> x.pending, error |-> x.error]
         /\ x.pending \subseteq Controls \cup Gone
         /\ x.error \in BOOLEAN /\ x.mode \in Modes \cup {"none"}
BY DEF PositionState

LEMMA IdleJobType == IdleJob \in Job
BY ConfiguratorAssumption DEF IdleJob, Job, Positions, UNASSIGNED

(* Publications are addresses. *)
LEMMA PublicationType ==
  ASSUME NEW c \in Controls, NEW mode
  PROVE  Publication(mode, c) \in Nat
BY ConfiguratorAssumption DEF Publication, UNASSIGNED

(* One control less pending. *)
LEMMA ConfirmType ==
  ASSUME positions \in [Positions -> PositionState], NEW p \in Positions, NEW c, Confirm(p, c)
  PROVE  /\ positions' \in [Positions -> PositionState]
         /\ \A q \in Positions \ {p} : positions'[q] = positions[q]
         /\ positions'[p].pending = positions[p].pending \ {c}
         /\ positions'[p].mode = positions[p].mode
         /\ positions'[p].error = positions[p].error
<1> DEFINE y == [positions[p] EXCEPT !.pending = @ \ {c}]
<1>1. positions' = [positions EXCEPT ![p] = y]
  BY DEF Confirm
<1>2. positions[p] \in PositionState
  OBVIOUS
<1>3. y = [mode |-> positions[p].mode, pending |-> positions[p].pending \ {c},
           error |-> positions[p].error]
  BY <1>2, PositionRecord
<1>4. y \in PositionState
  BY <1>2, <1>3, PositionRecord DEF PositionState
<1>5. positions'[p] = y /\ \A q \in Positions \ {p} : positions'[q] = positions[q]
  BY <1>1
<1> QED
  BY <1>1, <1>3, <1>4, <1>5

(* Settled marks the position it holds, and no other. *)
LEMMA SettleType ==
  ASSUME positions \in [Positions -> PositionState], job.at \in Positions, SettleHeld
  PROVE  /\ positions' \in [Positions -> PositionState]
         /\ \A q \in Positions : positions'[q].mode = positions[q].mode
         /\ \A q \in Positions \ {job.at} : positions'[q] = positions[q]
         /\ ~job.held => positions' = positions
         /\ job.held => positions'[job.at] = Settle(positions[job.at])
<1>1. CASE ~job.held
  BY <1>1 DEF SettleHeld
<1>2. CASE job.held
  <2> DEFINE y == Settle(positions[job.at])
  <2>1. positions[job.at] \in PositionState
    OBVIOUS
  <2>2. (job.answer = "refused" \/ positions[job.at].error) \in BOOLEAN
    BY Zenon
  <2>3. y \in PositionState
    BY <2>1, <2>2, PositionRecord DEF Settle, PositionState
  <2>4. positions' = [positions EXCEPT ![job.at] = y]
    BY <1>2 DEF SettleHeld
  <2>5. y.mode = positions[job.at].mode
    BY DEF Settle
  <2> HIDE DEF y
  <2>6. positions' \in [Positions -> PositionState]
    BY <2>3, <2>4
  <2>7. positions'[job.at] = y /\ \A q \in Positions \ {job.at} : positions'[q] = positions[q]
    BY <2>4
  <2>8. positions'[job.at] = Settle(positions[job.at])
    BY <2>7 DEF y
  <2> QED
    BY <1>2, <2>5, <2>6, <2>7, <2>8
<1> QED
  BY <1>1, <1>2

-----------------------------------------------------------------------------
(* Shape *)

(* What most actions leave to show. *)
LEMMA ShapeOfParts ==
  ASSUME positions' \in [Positions -> PositionState],
         disk' \in [Positions -> PositionState],
         writing' \in BOOLEAN, failed' \in BOOLEAN, job' \in Job,
         real' \in [Controls -> Nat],
         statuses' \subseteq [control : Controls, address : Nat, ok : BOOLEAN],
         counts' \in [changes : 0..MaxChanges, mishaps : 0..MaxMishaps],
         Placed', ReturnedIsSaved'
  PROVE  Shape'
BY Zenon DEF Shape, TypeOK

LEMMA CountsType ==
  ASSUME counts \in [changes : 0..MaxChanges, mishaps : 0..MaxMishaps], Mishap
  PROVE  counts' \in [changes : 0..MaxChanges, mishaps : 0..MaxMishaps]
<1> USE ConfiguratorAssumption
<1>1. counts = [changes |-> counts.changes, mishaps |-> counts.mishaps]
      /\ counts.changes \in 0..MaxChanges /\ counts.mishaps \in 0..MaxMishaps
  OBVIOUS
<1>2. counts' = [changes |-> counts.changes, mishaps |-> counts.mishaps + 1]
  BY <1>1 DEF Mishap
<1>3. counts.mishaps + 1 \in 0..MaxMishaps
  BY <1>1 DEF Mishap
<1> QED
  BY <1>1, <1>2, <1>3

(* Between two awaits the loop looks at positions and store, and changes neither. *)
LEMMA LoopShape ==
  ASSUME Shape, Loop \/ SendReturns \/ Answered
  PROVE  Shape'
<1> USE ConfiguratorAssumption
<1>1. /\ job \in Job /\ positions \in [Positions -> PositionState]
      /\ disk \in [Positions -> PositionState]
      /\ Placed /\ ReturnedIsSaved
  BY DEF Shape, TypeOK
<1>2. CASE Round
  <2>1. job' = [pc |-> "position", round |-> job.round, at |-> 1, todo |-> {},
                started |-> Positions, held |-> FALSE, replaced |-> FALSE, silent |-> 0,
                control |-> NoControl, address |-> UNASSIGNED, taken |-> FALSE,
                answer |-> "none"]
    BY <1>2 DEF Round, IdleJob
  <2>3. job' \in Job /\ job'.pc = "position"
    <3>1. 1 \in 1..NumPositions + 1
      OBVIOUS
    <3> QED
      BY <1>1, <2>1, <3>1, JobRecord DEF Job, UNASSIGNED
  <2>2. Placed'
    BY <1>1, <1>2, <2>3 DEF Placed, Round, InPosition, Sending, store
  <2> QED
    BY <1>2, <2>3, <2>2 DEF Shape, TypeOK, Round, store, ReturnedIsSaved
<1>3. CASE TakePosition
  <2>1. job.at \in Positions
    BY <1>1, <1>3, JobRecord DEF TakePosition, Positions
  <2>2. CASE IsPending(job.at)
    <3>1. job' = [job EXCEPT !.pc = "control", !.held = TRUE, !.todo = positions[job.at].pending]
      BY <1>3, <2>2 DEF TakePosition
    <3>2. positions[job.at].pending \subseteq Controls \cup Gone
      BY <1>1, <2>1, PositionRecord
    <3>3. job' \in Job /\ job'.pc = "control" /\ job'.at = job.at
          /\ job'.todo = positions[job.at].pending
      BY <1>1, <3>1, <3>2, JobRecord DEF Job
    <3>4. Placed'
      BY <1>1, <1>3, <2>1, <3>3 DEF Placed, TakePosition, InPosition, Sending, store, Own
    <3> QED
      BY <1>3, <3>3, <3>4 DEF Shape, TypeOK, TakePosition, store, ReturnedIsSaved
  <2>3. CASE ~IsPending(job.at)
    <3>1. job' = [job EXCEPT !.at = @ + 1]
      BY <1>3, <2>3 DEF TakePosition
    <3>2. job.at + 1 \in 1..NumPositions + 1
      BY <2>1 DEF Positions
    <3>3. job' \in Job /\ job'.pc = "position"
      BY <1>1, <1>3, <3>1, <3>2, JobRecord DEF Job, TakePosition
    <3>4. Placed'
      BY <1>1, <1>3, <3>3 DEF Placed, TakePosition, InPosition, Sending, store
    <3> QED
      BY <1>3, <3>3, <3>4 DEF Shape, TypeOK, TakePosition, store, ReturnedIsSaved
  <2> QED
    BY <2>2, <2>3
<1>4. CASE EndRound
  <2>1. job' \in Job /\ job'.pc \in {"round", "idle"}
    <3>1. CASE ModeChanged /\ RoundsLeft
      <4>1. job' = [job EXCEPT !.pc = "round", !.round = @ + 1]
        BY <1>4, <3>1 DEF EndRound
      <4>2. job.round + 1 \in 1..MaxRounds
        BY <1>1, <3>1, JobRecord DEF RoundsLeft
      <4> QED
        <5>1. job' = [pc |-> "round", round |-> job.round + 1, at |-> job.at,
                      todo |-> job.todo, started |-> job.started, held |-> job.held,
                      replaced |-> job.replaced, silent |-> job.silent,
                      control |-> job.control, address |-> job.address,
                      taken |-> job.taken, answer |-> job.answer]
          BY <1>1, <4>1, JobRecord, Zenon
        <5> QED
          BY <1>1, <4>2, <5>1 DEF Job
    <3>2. CASE ~(ModeChanged /\ RoundsLeft)
      BY <1>4, <3>2, IdleJobType DEF EndRound, IdleJob
    <3> QED
      BY <3>1, <3>2
  <2>2. Placed'
    BY <1>1, <1>4, <2>1 DEF Placed, EndRound, InPosition, Sending, store
  <2> QED
    BY <1>4, <2>1, <2>2 DEF Shape, TypeOK, EndRound, store, ReturnedIsSaved
<1>5. CASE LeavePosition
  <2>1. job.at + 1 \in 1..NumPositions + 1
    BY <1>1, <1>5 DEF LeavePosition, Placed, InPosition, Positions
  <2>2. (job.replaced \/ job.todo # {}) \in BOOLEAN
    BY Zenon
  <2>3. job' = [pc |-> "position", round |-> job.round, at |-> job.at + 1, todo |-> {},
                started |-> job.started, held |-> job.held,
                replaced |-> (job.replaced \/ job.todo # {}),
                silent |-> job.silent, control |-> job.control, address |-> job.address,
                taken |-> job.taken, answer |-> job.answer]
    BY <1>1, <1>5, JobRecord, Zenon DEF LeavePosition
  <2>4. job' \in Job /\ job'.pc = "position"
    BY <1>1, <2>1, <2>2, <2>3 DEF Job
  <2>5. Placed'
    BY <1>1, <1>5, <2>4 DEF Placed, LeavePosition, InPosition, Sending, store
  <2> QED
    BY <1>5, <2>4, <2>5 DEF Shape, TypeOK, LeavePosition, store, ReturnedIsSaved
<1>6. ASSUME NEW c \in Gone, DiscardGone(c) PROVE Shape'
  <2>1. job.at \in Positions
    BY <1>1, <1>6 DEF DiscardGone, Placed, InPosition
  <2>2. Confirm(job.at, c)
    BY <1>6 DEF DiscardGone
  <2>3. job' \in Job /\ job'.pc = "control" /\ job'.at = job.at /\ job'.todo \subseteq job.todo
    BY <1>1, <1>6, JobRecord DEF DiscardGone, Job
  <2>4. positions' \in [Positions -> PositionState]
    BY <1>1, <2>1, <2>2, ConfirmType
  <2>5. \A q \in Positions : /\ positions'[q].pending \subseteq positions[q].pending
                             /\ positions[q].pending \subseteq positions'[q].pending \cup Gone
                             /\ positions'[q].mode = positions[q].mode
                             /\ positions'[q].error = positions[q].error
    BY <1>1, <2>1, <2>2, ConfirmType
  <2>6. Placed'
    BY <1>1, <1>6, <2>1, <2>3, <2>5 DEF Placed, DiscardGone, InPosition, Sending, store
  <2>7. ReturnedIsSaved'
    BY <1>1, <1>6, <2>5 DEF ReturnedIsSaved, DiscardGone, store
  <2> QED
    BY <1>6, <2>3, <2>4, <2>6, <2>7 DEF Shape, TypeOK, DiscardGone, store
<1>7. ASSUME NEW c \in Controls, SendSet(c) PROVE Shape'
  <2>1. Publication(positions[job.at].mode, c) \in Nat
    BY PublicationType
  <2>2. /\ job' \in Job /\ job'.pc = "sending" /\ job'.at = job.at
        /\ job'.todo \subseteq job.todo /\ job'.control = c
    BY <1>1, <1>7, <2>1, JobRecord DEF SendSet, Job
  <2>3. c \in ControlsOf(job.at)
    BY <1>1, <1>7 DEF SendSet, Placed, InPosition, Own, ControlsOf
  <2>4. Placed'
    BY <1>1, <1>7, <2>2, <2>3 DEF Placed, SendSet, InPosition, Sending, store
  <2>5. statuses' \subseteq statuses
    BY <1>7 DEF SendSet
  <2> QED
    BY <1>7, <2>2, <2>4, <2>5 DEF Shape, TypeOK, SendSet, store, ReturnedIsSaved
<1>8. CASE SendReturns
  <2>1. job' \in Job /\ job'.pc = "waiting" /\ job'.at = job.at /\ job'.todo = job.todo
        /\ job'.control = job.control
    BY <1>1, <1>8, JobRecord DEF SendReturns, Job
  <2>2. Placed'
    BY <1>1, <1>8, <2>1 DEF Placed, SendReturns, InPosition, Sending, store
  <2> QED
    BY <1>8, <2>1, <2>2 DEF Shape, TypeOK, SendReturns, store, ReturnedIsSaved
<1>9. CASE Answered
  <2>1. job' \in Job /\ job'.pc = "settling" /\ job'.at = job.at /\ job'.todo = job.todo
        /\ job'.control = job.control /\ job'.answer = job.answer
    BY <1>1, <1>9, JobRecord DEF Answered, Job
  <2>2. Placed'
    BY <1>1, <1>9, <2>1 DEF Placed, Answered, InPosition, Sending, store
  <2> QED
    BY <1>9, <2>1, <2>2 DEF Shape, TypeOK, Answered, store, ReturnedIsSaved
<1> QED
  BY <1>2, <1>3, <1>4, <1>5, <1>6, <1>7, <1>8, <1>9 DEF Loop, AnyGone, AnySend

(* The user replaces a position, with every control pending. *)
LEMMA SetModeShape ==
  ASSUME Shape, NEW p \in Positions, NEW mode \in Modes, AsyncSetMode(p, mode)
  PROVE  Shape'
<1> USE ConfiguratorAssumption
<1> DEFINE y == [mode |-> mode, pending |-> ControlsOf(p), error |-> FALSE]
<1>1. /\ job \in Job /\ positions \in [Positions -> PositionState]
      /\ disk \in [Positions -> PositionState]
      /\ counts \in [changes : 0..MaxChanges, mishaps : 0..MaxMishaps]
      /\ Placed
  BY DEF Shape, TypeOK
<1>2. y \in PositionState
  BY DEF PositionState, ControlsOf
<1>3. positions' = [positions EXCEPT ![p] = y]
  BY DEF AsyncSetMode
<1>4. positions' \in [Positions -> PositionState]
  BY <1>1, <1>2, <1>3
<1>5. (job.held /\ job.at # p) \in BOOLEAN
  BY Zenon
<1>6. job' = [pc |-> job.pc, round |-> job.round, at |-> job.at, todo |-> job.todo,
              started |-> job.started \ {p}, held |-> (job.held /\ job.at # p),
              replaced |-> job.replaced, silent |-> job.silent, control |-> job.control,
              address |-> job.address, taken |-> job.taken, answer |-> job.answer]
  BY <1>1, JobRecord, Zenon DEF AsyncSetMode
<1>7. /\ job' \in Job /\ job'.pc = job.pc /\ job'.at = job.at /\ job'.todo = job.todo
      /\ job'.control = job.control /\ job'.answer = job.answer
  BY <1>1, <1>5, <1>6 DEF Job
<1>8. ControlsOf(p) \subseteq Own(p)
  BY DEF ControlsOf, Own
<1>9. \A q \in Positions : positions'[q].pending \subseteq Own(q)
  BY <1>1, <1>3, <1>8 DEF Placed
<1>10. Placed'
  BY <1>1, <1>7, <1>9 DEF Placed, AsyncSetMode, InPosition, Sending, Save
<1>11. counts' \in [changes : 0..MaxChanges, mishaps : 0..MaxMishaps]
  <2>1. counts = [changes |-> counts.changes, mishaps |-> counts.mishaps]
        /\ counts.changes \in 0..MaxChanges /\ counts.mishaps \in 0..MaxMishaps
    BY <1>1
  <2>2. counts' = [changes |-> counts.changes + 1, mishaps |-> counts.mishaps]
    BY <2>1 DEF AsyncSetMode
  <2>3. counts.changes + 1 \in 0..MaxChanges
    BY <2>1 DEF AsyncSetMode
  <2> QED
    BY <2>1, <2>2, <2>3
<1> QED
  BY <1>4, <1>7, <1>10, <1>11 DEF Shape, TypeOK, AsyncSetMode, Save, ReturnedIsSaved

(* The remote, its statuses and the waits of a Set. *)
LEMMA SetShape ==
  ASSUME Shape, \/ OnRemoteActivity \/ Accepted \/ Refused
                \/ Unanswered \/ Settled \/ AnyAnswer \/ AnyConfirm
  PROVE  Shape'
<1> USE ConfiguratorAssumption
<1>1. /\ job \in Job /\ positions \in [Positions -> PositionState]
      /\ disk \in [Positions -> PositionState]
      /\ counts \in [changes : 0..MaxChanges, mishaps : 0..MaxMishaps]
      /\ real \in [Controls -> Nat] /\ writing \in BOOLEAN /\ failed \in BOOLEAN
      /\ statuses \subseteq [control : Controls, address : Nat, ok : BOOLEAN]
      /\ Placed /\ ReturnedIsSaved
  BY DEF Shape, TypeOK
<1>2. CASE OnRemoteActivity
  <2>1. job' = [IdleJob EXCEPT !.pc = "round"]
    BY <1>2 DEF OnRemoteActivity
  <2>2. job' \in Job /\ job'.pc = "round"
    BY <2>1, IdleJobType DEF Job, IdleJob
  <2>3. Placed'
    BY <1>1, <1>2, <2>2 DEF Placed, OnRemoteActivity, InPosition, Sending, store
  <2> QED
    BY <1>2, <2>2, <2>3 DEF Shape, TypeOK, OnRemoteActivity, store, ReturnedIsSaved
<1>3. ASSUME NEW ok \in BOOLEAN, RemoteTakes(ok) PROVE Shape'
  <2>1. /\ job' \in Job /\ job'.pc = "sending" /\ job'.at = job.at
        /\ job'.todo = job.todo /\ job'.control = job.control
    BY <1>1, <1>3, JobRecord DEF RemoteTakes, Job
  <2>2. job.control \in Controls /\ job.address \in Nat
    BY <1>1, <1>3 DEF RemoteTakes, Placed, Sending, ControlsOf, Job
  <2>3. real' \in [Controls -> Nat]
    BY <1>1, <1>3, <2>2 DEF RemoteTakes
  <2>4. statuses' \subseteq [control : Controls, address : Nat, ok : BOOLEAN]
    BY <1>1, <1>3, <2>2 DEF RemoteTakes
  <2>5. Placed'
    BY <1>1, <1>3, <2>1 DEF Placed, RemoteTakes, InPosition, Sending, store
  <2> QED
    BY <1>3, <2>1, <2>3, <2>4, <2>5 DEF Shape, TypeOK, RemoteTakes, store, ReturnedIsSaved
<1>4. CASE Unanswered
  <2>1. counts' \in [changes : 0..MaxChanges, mishaps : 0..MaxMishaps]
    BY <1>1, <1>4, CountsType DEF Unanswered
  <2>2. CASE job.silent + 1 >= MAX_SILENT
    <3>1. job' = [job EXCEPT !.pc = "giving up"]
      BY <1>4, <2>2 DEF Unanswered
    <3>2. job' \in Job /\ job'.pc = "giving up"
      BY <1>1, <3>1, JobRecord DEF Job
    <3>3. Placed'
      BY <1>1, <1>4, <2>2, <3>2 DEF Placed, Unanswered, InPosition, Sending, Save
    <3> QED
      BY <1>4, <2>1, <2>2, <3>2, <3>3
      DEF Shape, TypeOK, Unanswered, Save, ReturnedIsSaved
  <2>3. CASE ~(job.silent + 1 >= MAX_SILENT)
    <3>1. job' = [job EXCEPT !.pc = "control", !.silent = @ + 1] /\ UNCHANGED store
      BY <1>4, <2>3 DEF Unanswered
    <3>2. job.silent + 1 \in 0..MAX_SILENT - 1
      BY <1>1, <2>3, JobRecord
    <3>3. job' = [pc |-> "control", round |-> job.round, at |-> job.at, todo |-> job.todo,
                  started |-> job.started, held |-> job.held, replaced |-> job.replaced,
                  silent |-> job.silent + 1, control |-> job.control,
                  address |-> job.address, taken |-> job.taken, answer |-> job.answer]
      BY <1>1, <3>1, JobRecord, Zenon
    <3>4. job' \in Job /\ job'.pc = "control" /\ job'.at = job.at /\ job'.todo = job.todo
      BY <1>1, <3>2, <3>3 DEF Job
    <3>5. Placed'
      BY <1>1, <1>4, <3>1, <3>4 DEF Placed, Unanswered, InPosition, Sending, store
    <3> QED
      BY <1>4, <2>1, <3>1, <3>4, <3>5
      DEF Shape, TypeOK, Unanswered, store, ReturnedIsSaved
  <2> QED
    BY <2>2, <2>3
<1>5. CASE Settled
  <2>1. job.at \in Positions
    BY <1>1, <1>5 DEF Settled, Placed, InPosition
  <2>2. positions' \in [Positions -> PositionState]
    BY <1>1, <1>5, <2>1, SettleType DEF Settled
  <2>3. job' \in Job /\ job'.pc = "saving" /\ job'.at = job.at /\ job'.todo = job.todo
    BY <1>1, <1>5, JobRecord DEF Settled, Job
  <2>4. \A q \in Positions : positions'[q].pending \subseteq positions[q].pending
    BY <1>1, <1>5, <2>1, SettleType DEF Settled, Settle
  <2>5. Placed'
    BY <1>1, <1>5, <2>1, <2>3, <2>4 DEF Placed, Settled, InPosition, Sending, Save
  <2> QED
    BY <1>5, <2>2, <2>3, <2>5 DEF Shape, TypeOK, Settled, Save, ReturnedIsSaved
<1>6. ASSUME NEW s \in statuses, StatusAnswers(s) PROVE Shape'
  <2>1. /\ job' \in Job /\ job'.pc = job.pc /\ job'.at = job.at /\ job'.todo = job.todo
        /\ job'.control = job.control /\ job.pc # "settling"
    BY <1>1, <1>6, JobRecord DEF StatusAnswers, AnswersWaiter, Job
  <2>2. Placed'
    BY <1>1, <1>6, <2>1 DEF Placed, StatusAnswers, InPosition, Sending, store
  <2> QED
    BY <1>6, <2>1, <2>2 DEF Shape, TypeOK, StatusAnswers, store, ReturnedIsSaved
<1>7. ASSUME NEW s \in statuses, StatusConfirms(s) PROVE Shape'
  <2>1. s.control \in Controls /\ PositionOf[s.control] \in Positions
    BY <1>1
  <2>2. Confirm(PositionOf[s.control], s.control)
    BY <1>7 DEF StatusConfirms
  <2>3. positions' \in [Positions -> PositionState]
    BY <1>1, <2>1, <2>2, ConfirmType
  <2>4. \A q \in Positions : positions'[q].pending \subseteq positions[q].pending
    BY <1>1, <2>1, <2>2, ConfirmType
  <2>5. Placed'
    BY <1>1, <1>7, <2>4
    DEF Placed, StatusConfirms, SaveSpawned, InPosition, Sending, Save
  <2> QED
    BY <1>7, <2>3, <2>5
    DEF Shape, TypeOK, StatusConfirms, SaveSpawned, Save, ReturnedIsSaved
<1> QED
  BY <1>2, <1>3, <1>4, <1>5, <1>6, <1>7 DEF Accepted, Refused, AnyAnswer, AnyConfirm

(* The store. *)
LEMMA StoreShape ==
  ASSUME Shape, Written \/ WriteFails \/ Crash
  PROVE  Shape'
<1>1. /\ job \in Job /\ positions \in [Positions -> PositionState]
      /\ disk \in [Positions -> PositionState]
      /\ counts \in [changes : 0..MaxChanges, mishaps : 0..MaxMishaps]
      /\ Placed /\ ReturnedIsSaved
  BY DEF Shape, TypeOK
<1>2. IdleJob.pc = "idle"
  BY DEF IdleJob
<1>3. CASE Written
  <2>1. CASE job.pc = "saving"
    <3>1. job' = [job EXCEPT !.pc = "control"]
      BY <1>3, <2>1 DEF Written
    <3>2. job' \in Job /\ job'.pc = "control" /\ job'.at = job.at /\ job'.todo = job.todo
      BY <1>1, <3>1, JobRecord DEF Job
    <3>3. Placed'
      BY <1>1, <1>3, <2>1, <3>2 DEF Placed, Written, InPosition, Sending
    <3> QED
      BY <1>1, <1>3, <3>2, <3>3 DEF Shape, TypeOK, Written, ReturnedIsSaved
  <2>2. CASE job.pc # "saving"
    <3>1. job' = job \/ job' = IdleJob
      BY <1>3, <2>2 DEF Written
    <3>2. job' \in Job
      BY <1>1, <3>1, IdleJobType
    <3>3. Placed'
      BY <1>1, <1>2, <1>3, <3>1 DEF Placed, Written, InPosition, Sending
    <3> QED
      BY <1>1, <1>3, <3>2, <3>3 DEF Shape, TypeOK, Written, ReturnedIsSaved
  <2> QED
    BY <2>1, <2>2
<1>4. CASE WriteFails
  <2>1. job' = job \/ job' = IdleJob
    BY <1>4 DEF WriteFails, JobAfterFailure
  <2>2. job' \in Job
    BY <1>1, <2>1, IdleJobType
  <2>3. Placed'
    BY <1>1, <1>2, <1>4, <2>1 DEF Placed, WriteFails, InPosition, Sending
  <2>4. counts' \in [changes : 0..MaxChanges, mishaps : 0..MaxMishaps]
    BY <1>1, <1>4, CountsType DEF WriteFails
  <2> QED
    BY <1>1, <1>4, <2>2, <2>3, <2>4 DEF Shape, TypeOK, WriteFails, ReturnedIsSaved
<1>5. CASE Crash
  <2>1. job' \in Job /\ job'.pc = "idle"
    BY <1>2, <1>5, IdleJobType DEF Crash
  <2>2. Placed'
    BY <1>1, <1>5, <2>1 DEF Placed, Crash, InPosition, Sending
  <2>3. counts' \in [changes : 0..MaxChanges, mishaps : 0..MaxMishaps]
    BY <1>1, <1>5, CountsType DEF Crash
  <2> QED
    BY <1>1, <1>5, <2>1, <2>2, <2>3 DEF Shape, TypeOK, Crash, ReturnedIsSaved
<1> QED
  BY <1>3, <1>4, <1>5

(* What may be pending and what the job works on, and that nothing the user was *)
(* told is recorded can be forgotten, in every environment.                     *)
THEOREM ShapeInvariant == Spec => []Shape
<1>1. Init => Shape
  BY ShapeInit
<1>2. Shape /\ [Next]_vars => Shape'
  <2> SUFFICES ASSUME Shape, [Next]_vars PROVE Shape'
    OBVIOUS
  <2>1. CASE SetAnyMode
    BY <2>1, SetModeShape DEF SetAnyMode
  <2>2. CASE Loop \/ SendReturns \/ Answered
    BY <2>2, LoopShape
  <2>3. CASE \/ OnRemoteActivity \/ Accepted \/ Refused
             \/ Unanswered \/ Settled \/ AnyAnswer \/ AnyConfirm
    BY <2>3, SetShape
  <2>4. CASE Written \/ WriteFails \/ Crash
    BY <2>4, StoreShape
  <2>5. CASE UNCHANGED vars
    BY <2>5 DEF vars, Shape, TypeOK, Placed, ReturnedIsSaved, InPosition, Sending
  <2> QED
    BY <2>1, <2>2, <2>3, <2>4, <2>5 DEF Next, Wait
<1> QED
  BY <1>1, <1>2, PTL DEF Spec

(* Every variable keeps to its values; no job runs more than MaxRounds rounds. *)
THEOREM TypeCorrect == Spec => []TypeOK
<1>1. Shape => TypeOK
  BY DEF Shape
<1> QED
  BY <1>1, ShapeInvariant, PTL

(* With no write under way and none failed, the store has every mode, every *)
(* refusal and every pending control: async_set_mode keeps what it returns. *)
THEOREM NothingIsForgotten == Spec => []ReturnedIsSaved
<1>1. Shape => ReturnedIsSaved
  BY DEF Shape
<1> QED
  BY <1>1, ShapeInvariant, PTL

-----------------------------------------------------------------------------
(* Truth *)

DiskApplied(p) ==
  disk[p].mode # "none" /\ ~disk[p].error =>
    \A c \in ControlsOf(p) \ disk[p].pending :
      real[c] = Publication(disk[p].mode, c)

(* What is on its way, what has been heard, and both copies of the positions *)
(* agree with what the remote publishes.                                     *)
StatusesTrue == \A s \in statuses : s.ok => real[s.control] = s.address

Untaken ==
  job.pc = "sending" /\ ~job.taken =>
    /\ job.answer = "none"
    /\ \A s \in statuses : s.control # job.control
    /\ ~job.held => job.control \in positions[job.at].pending

HeldAddress ==
  Sending /\ job.held => job.address = Publication(positions[job.at].mode, job.control)

AnswerTrue == Sending /\ job.answer = "ok" => real[job.control] = job.address

StoreTrue == ~failed => \A p \in Positions : DiskApplied(p)

Truth ==
  StatusesTrue /\ Untaken /\ HeldAddress /\ AnswerTrue /\ ConfirmedIsApplied /\ StoreTrue

THEOREM TruthInit == Init => Truth
<1> SUFFICES ASSUME Init PROVE Truth
  OBVIOUS
<1>1. ~Sending /\ job.pc # "sending"
  BY DEF Init, IdleJob, Sending
<1>2. \A p \in Positions : \/ positions[p].mode = "none"
                          \/ ControlsOf(p) \subseteq positions[p].pending
  BY DEF Init, NotStored
<1>3. ConfirmedIsApplied
  BY <1>2 DEF ConfirmedIsApplied, Applied
<1>4. disk = positions /\ statuses = {}
  BY DEF Init
<1>5. StoreTrue
  BY <1>2, <1>4 DEF StoreTrue, DiskApplied
<1> QED
  BY <1>1, <1>3, <1>4, <1>5 DEF Truth, StatusesTrue, Untaken, HeldAddress, AnswerTrue

(* A step of the job that sends nothing. *)
LEMMA TruthQuiet ==
  ASSUME Truth, UNCHANGED <<positions, disk, failed, real, statuses>>, ~Sending'
  PROVE  Truth'
BY DEF Truth, StatusesTrue, Untaken, HeldAddress, AnswerTrue, ConfirmedIsApplied, Applied,
       StoreTrue, DiskApplied, Sending

LEMMA TruthLoop ==
  ASSUME Shape, Truth, ~LateStatuses, Loop \/ OnRemoteActivity \/ Unanswered
  PROVE  Truth'
<1>1. job \in Job /\ positions \in [Positions -> PositionState] /\ Placed
  BY DEF Shape, TypeOK
<1>2. CASE Round
  <2>1. ~Sending'
    BY <1>2 DEF Round, Sending, IdleJob
  <2> QED
    BY <1>2, <2>1, TruthQuiet DEF Round, store
<1>3. CASE TakePosition
  <2>1. job'.pc \in {"control", "position"}
    <3>1. CASE IsPending(job.at)
      BY <1>1, <1>3, <3>1, JobRecord DEF TakePosition
    <3>2. CASE ~IsPending(job.at)
      BY <1>1, <1>3, <3>2, JobRecord DEF TakePosition
    <3> QED
      BY <3>1, <3>2
  <2> QED
    BY <1>3, <2>1, TruthQuiet DEF TakePosition, store, Sending
<1>4. CASE EndRound
  <2>1. job'.pc \in {"round", "idle"}
    BY <1>1, <1>4, JobRecord DEF EndRound, IdleJob
  <2> QED
    BY <1>4, <2>1, TruthQuiet DEF EndRound, store, Sending
<1>5. CASE LeavePosition
  <2>1. job'.pc = "position"
    BY <1>1, <1>5, JobRecord DEF LeavePosition
  <2> QED
    BY <1>5, <2>1, TruthQuiet DEF LeavePosition, store, Sending
<1>6. ASSUME NEW c \in Gone, DiscardGone(c) PROVE Truth'
  <2>1. job.at \in Positions /\ Confirm(job.at, c)
    BY <1>1, <1>6 DEF DiscardGone, Placed, InPosition
  <2>2. \A q \in Positions : /\ positions'[q].mode = positions[q].mode
                             /\ positions'[q].error = positions[q].error
                             /\ positions[q].pending \ {c} \subseteq positions'[q].pending
    BY <1>1, <2>1, ConfirmType
  <2>3. job'.pc = "control"
    BY <1>1, <1>6, JobRecord DEF DiscardGone
  <2>4. \A q \in Positions : c \notin ControlsOf(q)
    BY <1>6, ConfiguratorAssumption DEF ControlsOf
  <2>5. ConfirmedIsApplied'
    BY <1>6, <2>2, <2>4 DEF Truth, ConfirmedIsApplied, Applied, DiscardGone
  <2> QED
    BY <1>6, <2>3, <2>5 DEF Truth, StatusesTrue, Untaken, HeldAddress, AnswerTrue,
       StoreTrue, DiskApplied, Sending, DiscardGone, store
<1>7. ASSUME NEW c \in Controls, SendSet(c) PROVE Truth'
  <2>1. /\ job'.pc = "sending" /\ job'.at = job.at /\ job'.control = c /\ job'.held
        /\ job'.address = Publication(positions[job.at].mode, c) /\ job'.answer = "none"
    BY <1>1, <1>7, JobRecord DEF SendSet
  <2>2. statuses' = {s \in statuses : s.control # c} /\ UNCHANGED <<positions, disk, failed, real>>
    BY <1>7 DEF SendSet, store
  <2>3. ConfirmedIsApplied' /\ StoreTrue'
    BY <2>2 DEF Truth, ConfirmedIsApplied, Applied, StoreTrue, DiskApplied
  <2>4. StatusesTrue'
    BY <2>2 DEF Truth, StatusesTrue
  <2>5. Untaken' /\ HeldAddress' /\ AnswerTrue'
    BY <2>1, <2>2 DEF Untaken, HeldAddress, AnswerTrue, Sending
  <2> QED
    BY <2>3, <2>4, <2>5 DEF Truth
<1>8. CASE OnRemoteActivity
  <2>1. job'.pc = "round"
    BY <1>8 DEF OnRemoteActivity, IdleJob
  <2> QED
    BY <1>8, <2>1, TruthQuiet DEF OnRemoteActivity, store, Sending
<1>9. CASE Unanswered
  <2>1. job'.pc \in {"giving up", "control"} /\ UNCHANGED <<disk, failed>>
    <3>1. CASE job.silent + 1 >= MAX_SILENT
      BY <1>1, <1>9, <3>1, JobRecord DEF Unanswered, Save
    <3>2. CASE ~(job.silent + 1 >= MAX_SILENT)
      BY <1>1, <1>9, <3>2, JobRecord DEF Unanswered, store
    <3> QED
      BY <3>1, <3>2
  <2> QED
    BY <1>9, <2>1, TruthQuiet DEF Unanswered, Sending
<1> QED
  BY <1>2, <1>3, <1>4, <1>5, <1>6, <1>7, <1>8, <1>9 DEF Loop, AnyGone, AnySend

(* The remote takes a Set: what it was confirmed to publish has not been asked *)
(* to change, in memory or in the store.                                       *)
LEMMA TruthTakes ==
  ASSUME Shape, Truth, ~Forgetful, NEW ok \in BOOLEAN, RemoteTakes(ok)
  PROVE  Truth'
<1> USE ConfiguratorAssumption
<1>1. /\ job \in Job /\ Placed /\ ReturnedIsSaved /\ real \in [Controls -> Nat]
      /\ statuses \subseteq [control : Controls, address : Nat, ok : BOOLEAN]
  BY DEF Shape, TypeOK
<1>2. /\ job'.pc = "sending" /\ job'.taken /\ job'.at = job.at /\ job'.held = job.held
      /\ job'.control = job.control /\ job'.address = job.address /\ job'.answer = job.answer
  BY <1>1, JobRecord DEF RemoteTakes
<1>3. /\ Sending /\ ~job.taken /\ ~writing
      /\ job.control \in Controls /\ job.at \in Positions
      /\ PositionOf[job.control] = job.at
  BY <1>1 DEF RemoteTakes, Sending, InPosition, Placed, ControlsOf
<1>4. /\ job.answer = "none" /\ \A s \in statuses : s.control # job.control
      /\ ~job.held => job.control \in positions[job.at].pending
  BY <1>3 DEF Truth, Untaken, RemoteTakes
<1>5. /\ \A c \in Controls \ {job.control} : real'[c] = real[c]
      /\ ok => real'[job.control] = job.address
      /\ ~ok => real' = real
  BY <1>1, <1>3 DEF RemoteTakes
<1>6. StatusesTrue'
  BY <1>1, <1>4, <1>5 DEF Truth, StatusesTrue, RemoteTakes
<1>7. Untaken' /\ HeldAddress' /\ AnswerTrue'
  BY <1>2, <1>3, <1>4 DEF Truth, Untaken, HeldAddress, AnswerTrue, Sending, RemoteTakes
<1>8. job.held => job.address = Publication(positions[job.at].mode, job.control)
  BY <1>3 DEF Truth, HeldAddress
<1>9. ConfirmedIsApplied'
  <2> SUFFICES ASSUME NEW p \in Positions, positions[p].mode # "none", ~positions[p].error,
                      NEW c \in ControlsOf(p) \ positions[p].pending
               PROVE  real'[c] = Publication(positions[p].mode, c)
    BY DEF ConfirmedIsApplied, Applied, RemoteTakes
  <2>1. real[c] = Publication(positions[p].mode, c)
    BY DEF Truth, ConfirmedIsApplied, Applied
  <2>2. CASE c # job.control
    BY <1>5, <2>1, <2>2 DEF ControlsOf
  <2>3. CASE c = job.control
    <3>1. p = job.at /\ job.held
      BY <1>3, <1>4, <2>3 DEF ControlsOf
    <3> QED
      BY <1>5, <1>8, <2>1, <2>3, <3>1
  <2> QED
    BY <2>2, <2>3
<1>10. StoreTrue'
  <2> SUFFICES ASSUME ~failed, NEW p \in Positions, disk[p].mode # "none", ~disk[p].error,
                      NEW c \in ControlsOf(p) \ disk[p].pending
               PROVE  real'[c] = Publication(disk[p].mode, c)
    BY DEF StoreTrue, DiskApplied, RemoteTakes, store
  <2>1. /\ positions[p].mode # "none" /\ ~positions[p].error
        /\ c \notin positions[p].pending /\ positions[p].mode = disk[p].mode
    BY <1>1, <1>3 DEF ReturnedIsSaved
  <2> QED
    BY <1>9, <2>1 DEF ConfirmedIsApplied, Applied, RemoteTakes
<1> QED
  BY <1>6, <1>7, <1>9, <1>10 DEF Truth

LEMMA TruthSetMode ==
  ASSUME Shape, Truth, NEW p \in Positions, NEW mode \in Modes, AsyncSetMode(p, mode)
  PROVE  Truth'
<1>1. job \in Job /\ positions \in [Positions -> PositionState] /\ Placed
  BY DEF Shape, TypeOK
<1>2. /\ positions'[p].pending = ControlsOf(p)
      /\ \A q \in Positions \ {p} : positions'[q] = positions[q]
  BY <1>1 DEF AsyncSetMode
<1>3. /\ job'.pc = job.pc /\ job'.at = job.at /\ job'.control = job.control
      /\ job'.address = job.address /\ job'.taken = job.taken /\ job'.answer = job.answer
  BY <1>1, JobRecord DEF AsyncSetMode
<1>4. job'.held <=> (job.held /\ job.at # p)
  BY <1>1, JobRecord, Zenon DEF AsyncSetMode
<1>5. UNCHANGED <<real, statuses, disk, failed>>
  BY DEF AsyncSetMode, Save
<1>6. ConfirmedIsApplied'
  BY <1>2, <1>5 DEF Truth, ConfirmedIsApplied, Applied, ControlsOf
<1>7. Untaken'
  <2> SUFFICES ASSUME job.pc = "sending", ~job.taken
               PROVE  /\ job.answer = "none"
                      /\ \A s \in statuses : s.control # job.control
                      /\ ~job'.held => job.control \in positions'[job.at].pending
    BY <1>3, <1>5 DEF Untaken
  <2>1. job.at \in Positions /\ job.control \in ControlsOf(job.at)
    BY <1>1 DEF Placed, InPosition, Sending
  <2> QED
    BY <1>2, <1>4, <2>1 DEF Truth, Untaken
<1>8. HeldAddress'
  <2> SUFFICES ASSUME Sending, job'.held
               PROVE  job.address = Publication(positions'[job.at].mode, job.control)
    BY <1>3 DEF HeldAddress, Sending
  <2>1. job.at \in Positions \ {p} /\ job.held
    BY <1>1, <1>4 DEF Placed, InPosition, Sending
  <2> QED
    BY <1>2, <2>1 DEF Truth, HeldAddress
<1>9. AnswerTrue'
  BY <1>3, <1>5 DEF Truth, AnswerTrue, Sending
<1>10. StatusesTrue' /\ StoreTrue'
  BY <1>5 DEF Truth, StatusesTrue, StoreTrue, DiskApplied
<1> QED
  BY <1>6, <1>7, <1>8, <1>9, <1>10 DEF Truth

(* The answer of a Set, from its arrival to the control it settles. *)
LEMMA TruthAnswer ==
  ASSUME Shape, Truth, SendReturns \/ Answered \/ AnyAnswer \/ Settled
  PROVE  Truth'
<1>1. job \in Job /\ positions \in [Positions -> PositionState] /\ Placed
  BY DEF Shape, TypeOK
<1>2. CASE SendReturns \/ Answered
  <2>1. /\ job'.pc \in {"waiting", "settling"} /\ Sending
        /\ job'.at = job.at /\ job'.control = job.control /\ job'.held = job.held
        /\ job'.address = job.address /\ job'.answer = job.answer
    BY <1>1, <1>2, JobRecord DEF SendReturns, Answered, Sending
  <2>2. UNCHANGED <<positions, disk, failed, real, statuses>>
    BY <1>2 DEF SendReturns, Answered, store
  <2> QED
    BY <2>1, <2>2 DEF Truth, StatusesTrue, Untaken, HeldAddress, AnswerTrue,
       ConfirmedIsApplied, Applied, StoreTrue, DiskApplied, Sending
<1>3. ASSUME NEW s \in statuses, StatusAnswers(s) PROVE Truth'
  <2>1. /\ job'.pc = job.pc /\ Sending /\ job'.at = job.at /\ job'.control = job.control
        /\ job'.held = job.held /\ job'.address = job.address /\ job'.taken = job.taken
        /\ job'.answer = IF s.ok THEN "ok" ELSE "refused"
    BY <1>1, <1>3, JobRecord DEF StatusAnswers, AnswersWaiter, Sending
  <2>2. UNCHANGED <<positions, disk, failed, real, statuses>>
    BY <1>3 DEF StatusAnswers, store
  <2>3. s.ok => real[job.control] = job.address
    BY <1>3 DEF StatusAnswers, AnswersWaiter, Truth, StatusesTrue
  <2>4. ~(job.pc = "sending" /\ ~job.taken)
    BY <1>3 DEF StatusAnswers, AnswersWaiter, Truth, Untaken
  <2>5. Untaken'
    BY <2>1, <2>4 DEF Untaken
  <2>6. HeldAddress' /\ AnswerTrue'
    BY <2>1, <2>2, <2>3 DEF Truth, HeldAddress, AnswerTrue, Sending
  <2>7. StatusesTrue' /\ ConfirmedIsApplied' /\ StoreTrue'
    BY <2>2 DEF Truth, StatusesTrue, ConfirmedIsApplied, Applied, StoreTrue, DiskApplied
  <2> QED
    BY <2>5, <2>6, <2>7 DEF Truth
<1>4. CASE Settled
  <2>1. job.at \in Positions /\ Sending /\ SettleHeld /\ job.answer # "none"
        /\ job.answer \in {"none", "ok", "refused"}
    BY <1>1, <1>4 DEF Settled, Placed, InPosition, Sending, Job
  <2>2. job'.pc = "saving"
    BY <1>1, <1>4, JobRecord DEF Settled
  <2>3. UNCHANGED <<real, statuses, disk, failed>>
    BY <1>4 DEF Settled, Save
  <2>4. ConfirmedIsApplied'
    <3> SUFFICES ASSUME NEW p \in Positions, positions'[p].mode # "none",
                        ~positions'[p].error,
                        NEW c \in ControlsOf(p) \ positions'[p].pending
                 PROVE  real[c] = Publication(positions'[p].mode, c)
      BY <2>3 DEF ConfirmedIsApplied, Applied
    <3>1. CASE p # job.at \/ ~job.held
      <4>1. positions'[p] = positions[p]
        BY <1>1, <2>1, <3>1, SettleType
      <4> QED
        BY <4>1 DEF Truth, ConfirmedIsApplied, Applied
    <3>2. CASE p = job.at /\ job.held
      <4>1. positions'[p] = Settle(positions[p])
        BY <1>1, <2>1, <3>2, SettleType
      <4>2. /\ positions'[p].mode = positions[p].mode
            /\ positions'[p].pending = positions[p].pending \ {job.control}
            /\ positions'[p].error = (job.answer = "refused" \/ positions[p].error)
        BY <4>1 DEF Settle
      <4>3. job.answer = "ok" /\ ~positions[p].error
        BY <2>1, <4>2
      <4>4. CASE c = job.control
        BY <2>1, <3>2, <4>2, <4>3, <4>4 DEF Truth, AnswerTrue, HeldAddress
      <4>5. CASE c # job.control
        BY <4>2, <4>3, <4>5 DEF Truth, ConfirmedIsApplied, Applied
      <4> QED
        BY <4>4, <4>5
    <3> QED
      BY <3>1, <3>2
  <2> QED
    BY <2>2, <2>3, <2>4 DEF Truth, StatusesTrue, Untaken, HeldAddress, AnswerTrue,
       StoreTrue, DiskApplied, Sending
<1> QED
  BY <1>2, <1>3, <1>4 DEF AnyAnswer

(* A late or repeated status tells what the remote publishes now. *)
LEMMA TruthConfirm ==
  ASSUME Shape, Truth, NEW s \in statuses, StatusConfirms(s)
  PROVE  Truth'
<1> USE ConfiguratorAssumption
<1> DEFINE p == PositionOf[s.control]
<1>1. /\ positions \in [Positions -> PositionState] /\ Placed
      /\ statuses \subseteq [control : Controls, address : Nat, ok : BOOLEAN]
  BY DEF Shape, TypeOK
<1>2. s.control \in Controls /\ p \in Positions /\ Confirm(p, s.control)
  BY <1>1 DEF StatusConfirms
<1>3. /\ \A q \in Positions : /\ positions'[q].mode = positions[q].mode
                             /\ positions'[q].error = positions[q].error
      /\ \A q \in Positions \ {p} : positions'[q] = positions[q]
      /\ positions'[p].pending = positions[p].pending \ {s.control}
  <2> HIDE DEF p
  <2> QED
    BY <1>1, <1>2, ConfirmType
<1>4. real[s.control] = Publication(positions[p].mode, s.control)
  BY DEF StatusConfirms, Confirms, Truth, StatusesTrue
<1>5. UNCHANGED <<real, statuses, disk, failed, job>>
  BY DEF StatusConfirms, SaveSpawned, Save
<1> HIDE DEF p
<1>6. ConfirmedIsApplied'
  <2> SUFFICES ASSUME NEW q \in Positions, positions[q].mode # "none", ~positions[q].error,
                      NEW c \in ControlsOf(q) \ positions'[q].pending
               PROVE  real[c] = Publication(positions[q].mode, c)
    BY <1>3, <1>5 DEF ConfirmedIsApplied, Applied
  <2>1. CASE c \notin positions[q].pending
    BY <2>1 DEF Truth, ConfirmedIsApplied, Applied
  <2>2. CASE c \in positions[q].pending
    <3>1. q = p /\ c = s.control
      BY <1>3, <2>2
    <3> QED
      BY <1>4, <3>1
  <2> QED
    BY <2>1, <2>2
<1>7. Untaken'
  <2> SUFFICES ASSUME job.pc = "sending", ~job.taken, ~job.held
               PROVE  job.control \in positions'[job.at].pending
    BY <1>5 DEF Truth, Untaken
  <2>1. job.at \in Positions /\ job.control # s.control
        /\ job.control \in positions[job.at].pending
    BY <1>1 DEF Placed, InPosition, Truth, Untaken
  <2> QED
    BY <1>3, <2>1
<1>8. HeldAddress'
  <2>1. Sending => job.at \in Positions
    BY <1>1 DEF Placed, InPosition, Sending
  <2> QED
    BY <1>3, <1>5, <2>1 DEF Truth, HeldAddress, Sending
<1> QED
  BY <1>5, <1>6, <1>7, <1>8
  DEF Truth, StatusesTrue, AnswerTrue, StoreTrue, DiskApplied, Sending

LEMMA TruthStore ==
  ASSUME Shape, Truth, ~Forgetful, Written \/ WriteFails \/ Crash
  PROVE  Truth'
<1>1. job \in Job
  BY DEF Shape, TypeOK
<1>2. CASE Written
  <2>1. StoreTrue' /\ ConfirmedIsApplied'
    BY <1>2 DEF Written, Truth, StoreTrue, DiskApplied, ConfirmedIsApplied, Applied
  <2>2. job' = job \/ ~Sending'
    <3>1. CASE job.pc = "saving"
      BY <1>1, <1>2, <3>1, JobRecord DEF Written, Sending
    <3>2. CASE job.pc # "saving"
      BY <1>2, <3>2 DEF Written, Sending, IdleJob
    <3> QED
      BY <3>1, <3>2
  <2> QED
    BY <1>2, <2>1, <2>2
    DEF Written, Truth, StatusesTrue, Untaken, HeldAddress, AnswerTrue, Sending
<1>3. CASE WriteFails
  <2>1. job' = job \/ ~Sending'
    BY <1>3 DEF WriteFails, JobAfterFailure, Sending, IdleJob
  <2> QED
    BY <1>3, <2>1 DEF WriteFails, Truth, StatusesTrue, Untaken, HeldAddress, AnswerTrue,
       Sending, StoreTrue, ConfirmedIsApplied, Applied
<1>4. CASE Crash
  <2>1. ~Sending' /\ ~failed
    BY <1>4 DEF Crash, Sending, IdleJob
  <2>2. ConfirmedIsApplied' /\ StoreTrue'
    BY <1>4, <2>1 DEF Crash, Truth, StoreTrue, DiskApplied, ConfirmedIsApplied, Applied
  <2> QED
    BY <1>4, <2>1, <2>2
    DEF Crash, Truth, StatusesTrue, Untaken, HeldAddress, AnswerTrue, Sending
<1> QED
  BY <1>2, <1>3, <1>4

(* A control that no longer counts as pending, in a position without error, has *)
(* the publication of the position's mode, through replaced modes, lost and     *)
(* repeated statuses, refusals, failed writes and crashes: unless a status      *)
(* comes after the next Set of its control, or the store forgets a change that  *)
(* the remote has taken.                                                        *)
THEOREM ConfirmedAlwaysApplied ==
  ASSUME ~LateStatuses, ~Forgetful
  PROVE  Spec => []ConfirmedIsApplied
<1>1. Init => Truth
  BY TruthInit
<1>2. Shape /\ Truth /\ [Next]_vars => Truth'
  <2> SUFFICES ASSUME Shape, Truth, [Next]_vars PROVE Truth'
    OBVIOUS
  <2>1. CASE SetAnyMode
    BY <2>1, TruthSetMode DEF SetAnyMode
  <2>2. CASE Loop \/ OnRemoteActivity \/ Unanswered
    BY <2>2, TruthLoop
  <2>3. CASE Accepted \/ Refused
    BY <2>3, TruthTakes DEF Accepted, Refused
  <2>4. CASE SendReturns \/ Answered \/ AnyAnswer \/ Settled
    BY <2>4, TruthAnswer
  <2>5. CASE AnyConfirm
    BY <2>5, TruthConfirm DEF AnyConfirm
  <2>6. CASE Written \/ WriteFails \/ Crash
    BY <2>6, TruthStore
  <2>7. CASE UNCHANGED vars
    BY <2>7 DEF vars, Truth, StatusesTrue, Untaken, HeldAddress, AnswerTrue, Sending,
       ConfirmedIsApplied, Applied, StoreTrue, DiskApplied
  <2> QED
    BY <2>1, <2>2, <2>3, <2>4, <2>5, <2>6, <2>7 DEF Next, Wait
<1>3. Truth => ConfirmedIsApplied
  BY DEF Truth
<1> QED
  BY <1>1, <1>2, <1>3, ShapeInvariant, PTL DEF Spec
-----------------------------------------------------------------------------
(* A job ends *)

(* What a job waits for is there: a Set the remote has taken has a status that may yet     *)
(* answer it, and a job that awaits the store has a write under way.                       *)
Answerable ==
  job.pc \in {"sending", "waiting"} /\ job.taken /\ job.answer = "none" =>
    \E s \in statuses : s.control = job.control /\ s.address = job.address

Awaited ==
  /\ job.pc = "waiting" => job.taken \/ job.answer # "none"
  /\ job.pc \in {"saving", "giving up"} => writing
  /\ Answerable

(* What may follow with the control a job is at; the next control has a smaller rest.      *)
Later(pc) ==
  CASE pc = "sending"               -> {"waiting", "settling", "saving", "giving up", "control"}
    [] pc = "waiting"               -> {"settling", "saving", "giving up", "control"}
    [] pc = "settling"              -> {"saving", "giving up", "control"}
    [] pc \in {"saving", "giving up"} -> {"control"}
    [] OTHER                        -> {}

(* Within a module, and in the job as a whole: round by round, module by module. *)
FurtherAt(j, k) ==
  /\ k.pc \in {"control", "sending", "waiting", "settling", "saving", "giving up"}
  /\ \/ j.pc = "position"
     \/ k.todo \subseteq j.todo /\ k.todo # j.todo
     \/ k.todo = j.todo /\ k.pc \in Later(j.pc)

Further(j, k) ==
  \/ k.round = j.round + 1 /\ k.pc = "round"
  \/ k.round = j.round /\ j.pc = "round" /\ k.pc = "position"
  \/ k.round = j.round /\ j.pc # "round" /\ k.at = j.at + 1 /\ k.pc = "position"
  \/ k.round = j.round /\ j.pc # "round" /\ k.at = j.at /\ FurtherAt(j, k)

SamePlace(j, k) == k.pc = j.pc /\ k.round = j.round /\ k.at = j.at /\ k.todo = j.todo

JobStep == Loop \/ Wait \/ Unanswered

Ends == EndRound \/ Crash \/ (job.pc \in {"saving", "giving up"} /\ writing /\ ~writing')

(* The job's own steps take it on; the user, the remote and the store leave it where it is *)
(* or take it on, and what ends it is the last round, its last write, or a crash.          *)
Forward ==
  job.pc # "idle" =>
    \/ SamePlace(job, job') /\ ~JobStep
    \/ Further(job, job')
    \/ job' = IdleJob /\ Ends

(* The conditions under which a job, the remote or the store has a step to take. *)
CanGoOn ==
  \/ job.pc \in {"round", "position", "settling"}
  \/ job.pc = "control" /\ (job.todo = {} \/ ~job.held \/ job.todo \cap (Gone \cup Controls) # {})
  \/ job.pc = "sending" /\ (job.taken \/ job.answer # "none" \/ Forgetful \/ ~writing)
  \/ job.pc = "waiting" /\ (job.answer # "none" \/ \E s \in statuses : AnswersWaiter(s))
  \/ AtAwait /\ writing

NobodyIsStuck == job.pc # "idle" => CanGoOn

(* Where the loop takes the job. *)
LEMMA LoopFurther ==
  ASSUME job \in Job, Loop
  PROVE  Further(job, job') \/ (job' = IdleJob /\ EndRound)
<1>1. CASE Round
  BY <1>1 DEF Round, IdleJob, Further
<1>2. CASE TakePosition
  <2>1. CASE IsPending(job.at)
    <3>1. job'.pc = "control" /\ job'.round = job.round /\ job'.at = job.at
      BY <1>2, <2>1, JobRecord DEF TakePosition
    <3> QED  BY <1>2, <3>1 DEF TakePosition, Further, FurtherAt
  <2>2. CASE ~IsPending(job.at)
    <3>1. job'.pc = "position" /\ job'.round = job.round /\ job'.at = job.at + 1
      BY <1>2, <2>2, JobRecord DEF TakePosition
    <3> QED  BY <1>2, <3>1 DEF TakePosition, Further
  <2> QED  BY <2>1, <2>2
<1>3. CASE EndRound
  <2>1. CASE ModeChanged /\ RoundsLeft
    <3>1. job'.pc = "round" /\ job'.round = job.round + 1
      BY <1>3, <2>1, JobRecord DEF EndRound
    <3> QED  BY <3>1 DEF Further
  <2>2. CASE ~(ModeChanged /\ RoundsLeft)
    BY <1>3, <2>2 DEF EndRound
  <2> QED  BY <2>1, <2>2
<1>4. CASE LeavePosition
  <2>1. job'.pc = "position" /\ job'.round = job.round /\ job'.at = job.at + 1
    BY <1>4, JobRecord DEF LeavePosition
  <2> QED  BY <1>4, <2>1 DEF LeavePosition, Further
<1>5. CASE AnyGone \/ AnySend
  <2>1. PICK c \in job.todo : DiscardGone(c) \/ SendSet(c)
    BY <1>5 DEF AnyGone, AnySend, DiscardGone, SendSet
  <2>2. /\ job'.pc \in {"control", "sending"} /\ job'.round = job.round /\ job'.at = job.at
        /\ job'.todo = job.todo \ {c} /\ job.pc = "control"
    BY <2>1, JobRecord DEF DiscardGone, SendSet
  <2>3. job'.todo \subseteq job.todo /\ job'.todo # job.todo
    BY <2>1, <2>2
  <2> QED  BY <2>2, <2>3 DEF Further, FurtherAt
<1> QED  BY <1>1, <1>2, <1>3, <1>4, <1>5 DEF Loop

(* Where an await of _set_publication takes it. *)
LEMMA WaitFurther ==
  ASSUME job \in Job, Wait \/ Unanswered
  PROVE  Further(job, job')
<1>1. /\ job'.round = job.round /\ job'.at = job.at /\ job'.todo = job.todo
      /\ \/ job.pc = "sending" /\ job'.pc \in {"waiting", "giving up", "control"}
         \/ job.pc = "waiting" /\ job'.pc \in {"settling", "giving up", "control"}
         \/ job.pc = "settling" /\ job'.pc = "saving"
  <2>1. CASE Wait
    BY <2>1, JobRecord DEF Wait, SendReturns, Answered, Settled
  <2>2. CASE Unanswered
    <3>1. job.pc \in {"sending", "waiting"}
      BY <2>2 DEF Unanswered
    <3>2. \/ job' = [job EXCEPT !.pc = "giving up"]
          \/ job' = [job EXCEPT !.pc = "control", !.silent = @ + 1]
      BY <2>2 DEF Unanswered
    <3>3. /\ job'.round = job.round /\ job'.at = job.at /\ job'.todo = job.todo
          /\ job'.pc \in {"giving up", "control"}
      BY <3>2, JobRecord
    <3> QED  BY <3>1, <3>3
  <2> QED  BY <2>1, <2>2
<1>2. job'.pc \in Later(job.pc)
  BY <1>1 DEF Later
<1> QED  BY <1>1, <1>2 DEF Further, FurtherAt

(* What the others do with a job. *)
LEMMA OthersForward ==
  ASSUME job \in Job, [Next]_vars, ~JobStep, job.pc # "idle"
  PROVE  SamePlace(job, job') \/ Further(job, job') \/ (job' = IdleJob /\ Ends)
<1>1. CASE SetAnyMode \/ Accepted \/ Refused \/ AnyAnswer
  BY <1>1, JobRecord
  DEF SetAnyMode, AsyncSetMode, Accepted, Refused, RemoteTakes, AnyAnswer, StatusAnswers, SamePlace
<1>2. CASE AnyConfirm \/ UNCHANGED vars
  BY <1>2 DEF AnyConfirm, StatusConfirms, vars, SamePlace
<1>3. CASE Written
  <2>1. CASE job.pc = "saving"
    <3>1. /\ job'.pc = "control" /\ job'.round = job.round /\ job'.at = job.at
          /\ job'.todo = job.todo
      BY <1>3, <2>1, JobRecord DEF Written
    <3> QED  BY <2>1, <3>1 DEF Further, FurtherAt, Later
  <2>2. CASE job.pc = "giving up"
    BY <1>3, <2>2 DEF Written, Ends
  <2>3. CASE job.pc \notin {"saving", "giving up"}
    BY <1>3, <2>3 DEF Written, SamePlace
  <2> QED  BY <2>1, <2>2, <2>3
<1>4. CASE WriteFails
  BY <1>4 DEF WriteFails, JobAfterFailure, Ends, SamePlace
<1>5. CASE Crash
  BY <1>5 DEF Crash, Ends
<1> QED  BY <1>1, <1>2, <1>3, <1>4, <1>5 DEF Next, JobStep, OnRemoteActivity

(* Nothing a job waits for goes away while it waits. *)
LEMMA AwaitedStep ==
  ASSUME Shape, Awaited, [Next]_vars
  PROVE  Awaited'
<1> USE DEF Awaited, Answerable
<1>1. job \in Job
  BY DEF Shape, TypeOK
<1>2. CASE OnRemoteActivity \/ Crash
  <2>1. IdleJob.pc = "idle" /\ [IdleJob EXCEPT !.pc = "round"].pc = "round"
    BY DEF IdleJob
  <2>2. job'.pc \in {"round", "idle"}
    BY <1>2, <2>1 DEF OnRemoteActivity, Crash
  <2> QED  BY <2>2
<1>3. CASE Loop
  <2>1. CASE AnySend
    BY <1>1, <2>1, JobRecord DEF AnySend, SendSet
  <2>2. CASE ~AnySend
    <3>1. job'.pc \in {"position", "control", "round", "idle"}
      <4>1. CASE Round
        BY <4>1 DEF Round, IdleJob
      <4>5. CASE EndRound
        <5>1. IdleJob.pc = "idle" /\ [job EXCEPT !.pc = "round", !.round = @ + 1].pc = "round"
          BY <1>1, JobRecord DEF IdleJob
        <5> QED  BY <4>5, <5>1 DEF EndRound
      <4>2. CASE TakePosition
        BY <1>1, <4>2, JobRecord DEF TakePosition
      <4>3. CASE LeavePosition
        BY <1>1, <4>3, JobRecord DEF LeavePosition
      <4>4. CASE AnyGone
        BY <1>1, <4>4, JobRecord DEF AnyGone, DiscardGone
      <4> QED  BY <1>3, <2>2, <4>1, <4>2, <4>3, <4>4, <4>5 DEF Loop
    <3> QED  BY <3>1
  <2> QED  BY <2>1, <2>2
<1>4. CASE SendReturns \/ Answered
  <2>1. /\ statuses' = statuses /\ job'.taken = job.taken /\ job'.answer = job.answer
        /\ job'.control = job.control /\ job'.address = job.address
        /\ \/ job.pc = "sending" /\ job'.pc = "waiting" /\ (job.taken \/ job.answer # "none")
           \/ job'.pc = "settling"
    BY <1>1, <1>4, JobRecord DEF SendReturns, Answered
  <2> QED  BY <2>1
<1>5. CASE Settled \/ Unanswered
  <2>1. \/ job'.pc = "control"
        \/ job'.pc \in {"saving", "giving up"} /\ writing'
    BY <1>1, <1>5, JobRecord DEF Settled, Unanswered, Save
  <2> QED  BY <2>1
<1>6. CASE Accepted \/ Refused
  <2>1. PICK ok \in BOOLEAN : RemoteTakes(ok)
    BY <1>6 DEF Accepted, Refused
  <2>2. /\ job'.pc = "sending" /\ job'.control = job.control /\ job'.address = job.address
    BY <1>1, <2>1, JobRecord DEF RemoteTakes
  <2>3. [control |-> job.control, address |-> job.address, ok |-> ok] \in statuses'
    BY <2>1 DEF RemoteTakes
  <2> QED  BY <2>2, <2>3
<1>7. CASE SetAnyMode \/ AnyAnswer \/ AnyConfirm \/ UNCHANGED vars
  <2>1. /\ statuses' = statuses /\ (writing => writing')
        /\ job'.pc = job.pc /\ job'.taken = job.taken
        /\ job'.control = job.control /\ job'.address = job.address
        /\ job'.answer = job.answer \/ job'.answer # "none"
    BY <1>1, <1>7, JobRecord
    DEF SetAnyMode, AsyncSetMode, AnyAnswer, StatusAnswers, AnyConfirm, StatusConfirms, SaveSpawned,
        Save, vars, store
  <2> QED  BY <2>1
<1>8. CASE Written \/ WriteFails
  <2>1. /\ statuses' = statuses
        /\ \/ job' = job /\ job.pc \notin {"saving", "giving up"}
           \/ job'.pc \in {"control", "idle"}
    <3>1. CASE Written
      BY <1>1, <3>1, JobRecord DEF Written, IdleJob
    <3>2. CASE WriteFails
      BY <3>2 DEF WriteFails, JobAfterFailure, IdleJob
    <3> QED  BY <1>8, <3>1, <3>2
  <2> QED  BY <2>1
<1> QED  BY <1>2, <1>3, <1>4, <1>5, <1>6, <1>7, <1>8 DEF Next, Wait

LEMMA AwaitedInvariant == Spec => []Awaited
<1>1. Init => Awaited
  BY DEF Init, IdleJob, Awaited, Answerable
<1>2. Shape /\ Awaited /\ [Next]_vars => Awaited'
  BY AwaitedStep
<1> QED  BY <1>1, <1>2, ShapeInvariant, PTL DEF Spec

(* A job comes to an end, however the user changes modes while it runs and whatever is     *)
(* lost, refused or repeated: every step it takes is one further in a round of at most     *)
(* MaxRounds, and nothing sets it back (remote_configurator.py 249-315).                   *)
THEOREM JobsEnd == Spec => [][Forward]_vars
<1>1. Shape /\ [Next]_vars => Forward
  BY LoopFurther, WaitFurther, OthersForward DEF Shape, TypeOK, Forward, JobStep, Ends
<1> QED  BY <1>1, ShapeInvariant, PTL DEF Spec

(* And on the way it never waits for what cannot come: for a status nobody has, or for a   *)
(* write nobody makes (remote_configurator.py 317-342).                                    *)
THEOREM JobsGoOn == Spec => []NobodyIsStuck
<1>1. Shape /\ Awaited => NobodyIsStuck
  <2> SUFFICES ASSUME Shape, Awaited, job.pc # "idle" PROVE CanGoOn
    BY DEF NobodyIsStuck
  <2>1. job \in Job
    BY DEF Shape, TypeOK
  <2>2. job.todo \subseteq Controls \cup Gone
    BY <2>1 DEF Job
  <2>3. job.pc \in {"round", "position", "control", "sending", "waiting", "settling", "saving",
                    "giving up"}
    BY <2>1 DEF Job
  <2>4. CASE job.pc = "waiting" /\ job.answer = "none"
    <3>1. PICK s \in statuses : s.control = job.control /\ s.address = job.address
      BY <2>4 DEF Awaited, Answerable
    <3>2. AnswersWaiter(s)
      BY <2>4, <3>1 DEF AnswersWaiter
    <3> QED  BY <2>4, <3>2 DEF CanGoOn
  <2>5. CASE job.pc = "sending"
    BY <2>5 DEF CanGoOn, AtAwait
  <2>6. CASE job.pc \in {"saving", "giving up"}
    BY <2>6 DEF CanGoOn, AtAwait, Awaited
  <2> QED  BY <2>2, <2>3, <2>4, <2>5, <2>6 DEF CanGoOn
<1> QED  BY <1>1, ShapeInvariant, AwaitedInvariant, PTL

-----------------------------------------------------------------------------
(* What comes of it *)

(* A job that nobody disturbs leaves nothing pending behind it: no mode was changed since  *)
(* its round began, and what is pending in its module is what it has still to send.        *)
Behind ==
  job.pc # "round" =>
    /\ ~job.replaced /\ job.started = Positions
    /\ \A q \in Positions : q < job.at => ~IsPending(q)

Rest == job.todo \cup (IF Sending THEN {job.control} ELSE {})

Here == InPosition => job.held /\ positions[job.at].pending \subseteq Rest

Clearing == job.pc \notin {"idle", "giving up"} /\ Behind /\ Here

AllApplied == job.pc = "idle" /\ \A p \in Positions : ~IsPending(p)

(* Neither a mode chosen nor a mishap. *)
Quiet == UNCHANGED counts

(* What counts is what disturbs a job. *)
LEMMA QuietSteps ==
  ASSUME Shape, [Next]_vars, Quiet
  PROVE  ~SetAnyMode /\ ~Unanswered /\ ~WriteFails /\ ~Crash
<1>1. /\ counts.changes \in Nat /\ counts.mishaps \in Nat
      /\ counts = [changes |-> counts.changes, mishaps |-> counts.mishaps]
  BY ConfiguratorAssumption DEF Shape, TypeOK
<1>2. ~Mishap
  BY <1>1 DEF Mishap, Quiet
<1>3. ~SetAnyMode
  <2>1. SetAnyMode => counts' = [counts EXCEPT !.changes = @ + 1]
    BY DEF SetAnyMode, AsyncSetMode
  <2> QED  BY <1>1, <2>1 DEF Quiet
<1> QED  BY <1>2, <1>3 DEF Unanswered, WriteFails, Crash

(* The loop, undisturbed. *)
LEMMA ClearingLoop ==
  ASSUME Shape, Clearing, Loop
  PROVE  Clearing' \/ AllApplied'
<1> USE ConfiguratorAssumption
<1>1. /\ job \in Job /\ positions \in [Positions -> PositionState] /\ Placed
      /\ job.at \in 1..NumPositions + 1
  BY JobRecord DEF Shape, TypeOK
<1>2. CASE Round
  <2>1. /\ job'.pc = "position" /\ job'.at = 1 /\ job'.started = Positions
        /\ job'.replaced = FALSE
    BY <1>2 DEF Round, IdleJob
  <2>2. \A q \in Positions : ~(q < 1)
    BY DEF Positions
  <2> QED  BY <2>1, <2>2 DEF Clearing, Behind, Here, InPosition
<1>3. CASE TakePosition
  <2>1. job.at \in Positions /\ positions' = positions /\ job.pc = "position"
    BY <1>1, <1>3 DEF TakePosition, Positions
  <2>2. CASE IsPending(job.at)
    <3>1. /\ job'.pc = "control" /\ job'.at = job.at /\ job'.held = TRUE
          /\ job'.todo = positions[job.at].pending
          /\ job'.started = job.started /\ job'.replaced = job.replaced
      BY <1>1, <1>3, <2>2, JobRecord DEF TakePosition
    <3> QED
      BY <2>1, <3>1 DEF Clearing, Behind, Here, Rest, InPosition, IsPending
  <2>3. CASE ~IsPending(job.at)
    <3>1. /\ job'.pc = "position" /\ job'.at = job.at + 1
          /\ job'.started = job.started /\ job'.replaced = job.replaced
      BY <1>1, <1>3, <2>3, JobRecord DEF TakePosition
    <3>2. \A q \in Positions : q < job.at + 1 => q < job.at \/ q = job.at
      BY <2>1 DEF Positions
    <3> QED
      BY <2>1, <2>3, <3>1, <3>2 DEF Clearing, Behind, Here, InPosition, IsPending
  <2> QED  BY <2>2, <2>3
<1>4. CASE EndRound
  <2>1. /\ job.at > NumPositions /\ job.pc = "position" /\ positions' = positions
        /\ ~job.replaced /\ job.started = Positions
    BY <1>4 DEF EndRound, Clearing, Behind
  <2>2. \A q \in Positions : ~IsPending(q)
    BY <1>1, <2>1 DEF Clearing, Behind, Positions
  <2>3. job' = IdleJob
    BY <1>4, <2>1 DEF EndRound, ModeChanged
  <2> QED  BY <2>1, <2>2, <2>3 DEF AllApplied, IsPending, IdleJob
<1>5. CASE LeavePosition
  <2>1. /\ job.pc = "control" /\ job.held /\ job.todo = {} /\ positions' = positions
        /\ positions[job.at].pending \subseteq Rest
    BY <1>5 DEF LeavePosition, Clearing, Here, InPosition
  <2>2. job.at \in Positions /\ ~IsPending(job.at)
    BY <1>1, <2>1 DEF Placed, InPosition, Rest, Sending, IsPending
  <2>3. /\ job'.pc = "position" /\ job'.at = job.at + 1
        /\ job'.started = job.started /\ job'.replaced = (job.replaced \/ job.todo # {})
    BY <1>1, <1>5, JobRecord, Zenon DEF LeavePosition
  <2>4. \A q \in Positions : q < job.at + 1 => q < job.at \/ q = job.at
    BY <2>2 DEF Positions
  <2>5. ~job'.replaced
    BY <2>1, <2>3 DEF Clearing, Behind
  <2> QED
    BY <2>1, <2>2, <2>3, <2>4, <2>5 DEF Clearing, Behind, Here, InPosition, IsPending
<1>6. CASE AnyGone
  <2>1. PICK c \in Gone : DiscardGone(c)
    BY <1>6 DEF AnyGone
  <2>2. job.pc = "control" /\ job.at \in Positions /\ Confirm(job.at, c)
    BY <1>1, <2>1 DEF DiscardGone, Placed, InPosition
  <2>3. /\ \A q \in Positions \ {job.at} : positions'[q] = positions[q]
        /\ positions'[job.at].pending = positions[job.at].pending \ {c}
    BY <1>1, <2>2, ConfirmType
  <2>4. /\ job'.pc = "control" /\ job'.at = job.at /\ job'.held = job.held
        /\ job'.todo = job.todo \ {c}
        /\ job'.started = job.started /\ job'.replaced = job.replaced
    BY <1>1, <2>1, JobRecord DEF DiscardGone
  <2>5. Here'
    BY <2>2, <2>3, <2>4 DEF Clearing, Here, Rest, Sending, InPosition
  <2>6. Behind'
    BY <2>2, <2>3, <2>4 DEF Clearing, Behind, IsPending, Positions
  <2> QED  BY <2>4, <2>5, <2>6 DEF Clearing
<1>7. CASE AnySend
  <2>1. PICK c \in Controls : SendSet(c)
    BY <1>7 DEF AnySend
  <2>2. job.pc = "control" /\ positions' = positions
    BY <2>1 DEF SendSet
  <2>3. /\ job'.pc = "sending" /\ job'.at = job.at /\ job'.held = job.held
        /\ job'.todo = job.todo \ {c} /\ job'.control = c
        /\ job'.started = job.started /\ job'.replaced = job.replaced
    BY <1>1, <2>1, JobRecord DEF SendSet
  <2> QED
    BY <2>2, <2>3 DEF Clearing, Behind, Here, Rest, Sending, InPosition, IsPending
<1> QED  BY <1>2, <1>3, <1>4, <1>5, <1>6, <1>7 DEF Loop

(* Its awaits, and all that happens meanwhile. *)
LEMMA ClearingMeanwhile ==
  ASSUME Shape, Clearing, [Next]_vars, Quiet, ~Loop
  PROVE  Clearing'
<1>1. job \in Job /\ positions \in [Positions -> PositionState] /\ Placed
  BY DEF Shape, TypeOK
<1>2. CASE SendReturns \/ Answered \/ Accepted \/ Refused \/ AnyAnswer
  <2>1. /\ positions' = positions /\ job'.at = job.at /\ job'.held = job.held
        /\ job'.todo = job.todo /\ job'.control = job.control
        /\ job'.started = job.started /\ job'.replaced = job.replaced
        /\ Sending /\ job'.pc \in {"sending", "waiting", "settling"}
    BY <1>1, <1>2, JobRecord
    DEF SendReturns, Answered, Accepted, Refused, RemoteTakes, AnyAnswer, StatusAnswers,
        AnswersWaiter, Sending
  <2> QED
    BY <2>1 DEF Clearing, Behind, Here, Rest, Sending, InPosition, IsPending
<1>3. CASE Settled
  <2>1. job.at \in Positions /\ job.pc = "settling" /\ job.held
    BY <1>1, <1>3 DEF Settled, Placed, InPosition, Clearing, Here
  <2>2. /\ \A q \in Positions \ {job.at} : positions'[q] = positions[q]
        /\ positions'[job.at].pending = positions[job.at].pending \ {job.control}
    BY <1>1, <1>3, <2>1, SettleType DEF Settled, Settle
  <2>3. /\ job'.pc = "saving" /\ job'.at = job.at /\ job'.held = job.held
        /\ job'.todo = job.todo
        /\ job'.started = job.started /\ job'.replaced = job.replaced
    BY <1>1, <1>3, JobRecord DEF Settled
  <2>4. Here'
    BY <2>1, <2>2, <2>3 DEF Clearing, Here, Rest, Sending, InPosition
  <2>5. Behind'
    BY <2>1, <2>2, <2>3 DEF Clearing, Behind, IsPending, Positions
  <2> QED  BY <2>3, <2>4, <2>5 DEF Clearing
<1>4. CASE AnyConfirm
  <2>1. PICK s \in statuses : StatusConfirms(s)
    BY <1>4 DEF AnyConfirm
  <2>2. s.control \in Controls /\ PositionOf[s.control] \in Positions
    BY ConfiguratorAssumption DEF Shape, TypeOK
  <2>3. job' = job /\ \A q \in Positions : positions'[q].pending \subseteq positions[q].pending
    BY <1>1, <2>1, <2>2, ConfirmType DEF StatusConfirms
  <2>4. InPosition => job.at \in Positions
    BY <1>1 DEF Placed
  <2> QED
    BY <2>3, <2>4 DEF Clearing, Behind, Here, Rest, Sending, InPosition, IsPending
<1>5. CASE Written
  <2>1. CASE job.pc = "saving"
    <3>1. /\ positions' = positions /\ job'.pc = "control" /\ job'.at = job.at
          /\ job'.held = job.held /\ job'.todo = job.todo
          /\ job'.started = job.started /\ job'.replaced = job.replaced
      BY <1>1, <1>5, <2>1, JobRecord DEF Written
    <3> QED
      BY <2>1, <3>1 DEF Clearing, Behind, Here, Rest, Sending, InPosition, IsPending
  <2>2. CASE job.pc # "saving"
    <3>1. positions' = positions /\ job' = job
      BY <1>5, <2>2 DEF Written, Clearing
    <3> QED
      BY <3>1 DEF Clearing, Behind, Here, Rest, Sending, InPosition, IsPending
  <2> QED  BY <2>1, <2>2
<1>6. CASE UNCHANGED vars
  BY <1>6 DEF vars, Clearing, Behind, Here, Rest, Sending, InPosition, IsPending
<1>7. ~OnRemoteActivity
  BY DEF OnRemoteActivity, Clearing
<1> QED
  BY <1>2, <1>3, <1>4, <1>5, <1>6, <1>7, QuietSteps DEF Next, Wait

(* A press starts a job that clears. *)
LEMMA StartsClearing ==
  ASSUME Shape, [Next]_vars, job.pc = "idle", job'.pc # "idle"
  PROVE  Clearing'
<1>1. OnRemoteActivity
  <2>1. ~SetAnyMode
    BY JobRecord DEF SetAnyMode, AsyncSetMode, Shape, TypeOK
  <2>2. ~(Loop \/ Wait \/ Unanswered \/ Accepted \/ Refused \/ AnyAnswer)
    BY DEF Loop, Round, TakePosition, EndRound, LeavePosition, AnyGone, DiscardGone, AnySend,
           SendSet, Wait, SendReturns, Answered, Settled, Unanswered, Accepted, Refused,
           RemoteTakes, AnyAnswer, StatusAnswers, AnswersWaiter
  <2>3. ~(AnyConfirm \/ Written \/ WriteFails \/ Crash \/ UNCHANGED vars)
    BY DEF AnyConfirm, StatusConfirms, Written, WriteFails, JobAfterFailure, Crash, IdleJob, vars
  <2> QED  BY <2>1, <2>2, <2>3 DEF Next
<1>2. job'.pc = "round"
  BY <1>1 DEF OnRemoteActivity, IdleJob
<1> QED  BY <1>2 DEF Clearing, Behind, Here, InPosition

(* WF_vars(Loop), WF_vars(Wait) and the answers, by JobsEnd and JobsGoOn: a job ends. *)
JobsFinish == job.pc # "idle" ~> job.pc = "idle"

CanStart == job.pc = "idle" /\ Reachable /\ \E p \in Positions : IsPending(p)

(* WF_vars(OnRemoteActivity), with the states in which a press starts a job spelt out. *)
PressesCome == []<>~CanStart \/ []<><<OnRemoteActivity>>_vars

(* The user has chosen, and the mishaps come to an end. *)
ComesToRest == <>[][counts' = counts]_vars

(* A mode chosen is applied in the end, or refused: the first job that is not disturbed     *)
(* leaves nothing pending, whatever the ones before it left half done                      *)
(* (remote_configurator.py 183-315).                                                       *)
THEOREM AppliedInTheEnd ==
  Spec /\ JobsFinish /\ PressesCome /\ ComesToRest => EventuallyApplied
<1> SUFFICES ASSUME NEW p \in Positions
             PROVE  Spec /\ JobsFinish /\ PressesCome /\ ComesToRest =>
                      (IsPending(p) ~> (~IsPending(p) \/ ~Reachable))
  BY DEF EventuallyApplied
<1>1. Shape /\ [Next]_vars /\ [counts' = counts]_vars /\ Clearing => Clearing' \/ AllApplied'
  BY ClearingLoop, ClearingMeanwhile DEF Quiet, vars
<1>2. Shape /\ [Next]_vars /\ job.pc = "idle" => (job.pc = "idle")' \/ Clearing'
  BY StartsClearing
<1>3. <<OnRemoteActivity>>_vars => ~(job.pc = "idle")'
  BY DEF OnRemoteActivity, IdleJob
<1>4. AllApplied => ~IsPending(p)
  BY DEF AllApplied
<1>5. IsPending(p) /\ Reachable /\ job.pc = "idle" => CanStart
  BY DEF CanStart
<1>6. Clearing => ~(job.pc = "idle")
  BY DEF Clearing
<1>7. job.pc # "idle" <=> ~(job.pc = "idle")
  OBVIOUS
<1> QED
  BY <1>1, <1>2, <1>3, <1>4, <1>5, <1>6, <1>7, ShapeInvariant, PTL
  DEF Spec, JobsFinish, PressesCome, ComesToRest
=============================================================================
