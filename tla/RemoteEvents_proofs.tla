------------------------- MODULE RemoteEvents_proofs -------------------------
(***************************************************************************)
(* RemoteEvents and Polling for any lights, groups, remotes, window and    *)
(* span of TIDs: one event per press, no press forgotten, nothing polled   *)
(* after shutdown, and until then every light asked again and again.       *)
(***************************************************************************)
EXTENDS RemoteEvents, FiniteSetTheorems, WellFoundedInduction, TLAPS

Distinct(q) == \A i, j \in DOMAIN q : q[i] = q[j] => i = j

(* A task polls exactly while it holds the lock or waits for it, once. *)
Queued ==
  /\ Distinct(queue)
  /\ \A t \in Tasks : t \in Range(queue) <=> task[t].pc = "polling"
  /\ \A t \in Tasks : task[t].pc # "polling" => task[t].left = {}

(* What shutdown has cancelled stays so, and it takes up no press. *)
Stopped ==
  /\ phase \in {"draining", "closed"} => task["periodic"] = Ended
  /\ phase = "closed" => task["quick"] = Ended
  /\ phase # "running" => unread = {}

PollInv ==
  /\ PollTypeOK
  /\ Queued
  /\ Stopped
  /\ PressIsQueued

(* Presses with one TID are far apart. *)
Spaced ==
  /\ \A i \in DOMAIN presses : presses[i].at <= clock
  /\ \A i, j \in DOMAIN presses :
       i < j /\ presses[i].source = presses[j].source /\ presses[i].tid = presses[j].tid
         => presses[j].at - presses[i].at >= DEDUP_WINDOW + SPREAD

(* A time seen is that of a copy of some press. *)
SeenOnce ==
  \A s \in Sources, tid \in Tids : seen[s][tid] # Never =>
    /\ seen[s][tid] <= clock
    /\ \E i \in DOMAIN presses :
         presses[i].source = s /\ presses[i].tid = tid /\ seen[s][tid] - presses[i].at <= SPREAD

(* While copies of a press may come: it was heard when a time is known for *)
(* it, and the time of an earlier one is forgotten.                        *)
Told ==
  \A i \in DOMAIN presses : clock - presses[i].at <= SPREAD =>
    LET time == seen[presses[i].source][presses[i].tid]
    IN IF presses[i].heard THEN time # Never /\ time >= presses[i].at
       ELSE time = Never \/ presses[i].at - time >= DEDUP_WINDOW

RemoteInv ==
  /\ clock \in Times
  /\ presses \in Seq(Presses)
  /\ seen \in [Sources -> [Tids -> Times \cup {Never}]]
  /\ Spaced
  /\ SeenOnce
  /\ Told
  /\ OneEventPerPress

IInv == PollInv /\ RemoteInv

-----------------------------------------------------------------------------
LEMMA Appended ==
  ASSUME NEW q \in Seq(Tasks), Distinct(q), NEW t \in Tasks, t \notin Range(q)
  PROVE  /\ Append(q, t) \in Seq(Tasks)
         /\ Distinct(Append(q, t))
         /\ Range(Append(q, t)) = Range(q) \cup {t}
<1> DEFINE r == Append(q, t)
<1>1. r \in Seq(Tasks) /\ Len(r) = Len(q) + 1 /\ Len(q) \in Nat
  OBVIOUS
<1>2. DOMAIN r = 1..(Len(q) + 1) /\ DOMAIN q = 1..Len(q)
  BY <1>1
<1>3. (\A i \in DOMAIN q : r[i] = q[i]) /\ r[Len(q) + 1] = t
  OBVIOUS
<1>4. DOMAIN r = DOMAIN q \cup {Len(q) + 1} /\ Len(q) + 1 \notin DOMAIN q
  BY <1>1, <1>2
<1> HIDE DEF r
<1>5. Range(r) = Range(q) \cup {t}
  BY <1>3, <1>4 DEF Range
<1>6. Distinct(r)
  BY <1>3, <1>4 DEF Range, Distinct
<1> QED BY <1>1, <1>5, <1>6 DEF r

LEMMA Tailed ==
  ASSUME NEW q \in Seq(Tasks), Distinct(q), q # <<>>
  PROVE  /\ Tail(q) \in Seq(Tasks)
         /\ Distinct(Tail(q))
         /\ Range(Tail(q)) = Range(q) \ {Head(q)}
<1> DEFINE r == Tail(q)
<1>1. r \in Seq(Tasks) /\ Len(r) = Len(q) - 1 /\ Len(q) \in Nat \ {0}
  OBVIOUS
<1>2. DOMAIN r = 1..(Len(q) - 1) /\ DOMAIN q = 1..Len(q)
  BY <1>1
<1>3. \A i \in DOMAIN r : i + 1 \in DOMAIN q /\ r[i] = q[i + 1]
  BY <1>1, <1>2
<1>4. \A i \in DOMAIN q : i # 1 => i - 1 \in DOMAIN r /\ (i - 1) + 1 = i
  BY <1>1, <1>2
<1>5. Head(q) = q[1] /\ 1 \in DOMAIN q
  BY <1>1, <1>2
<1> HIDE DEF r
<1>6. Distinct(r)
  BY <1>1, <1>2, <1>3 DEF Distinct
<1>7. Range(r) \subseteq Range(q) \ {Head(q)}
  <2> SUFFICES ASSUME NEW i \in DOMAIN r PROVE r[i] \in Range(q) /\ r[i] # Head(q)
    BY DEF Range
  <2>1. i + 1 \in DOMAIN q /\ i + 1 # 1 /\ r[i] = q[i + 1]
    BY <1>2, <1>3
  <2> QED BY <1>5, <2>1 DEF Range, Distinct
<1>8. Range(q) \ {Head(q)} \subseteq Range(r)
  <2> SUFFICES ASSUME NEW i \in DOMAIN q, q[i] # Head(q) PROVE q[i] \in Range(r)
    BY DEF Range
  <2>1. i - 1 \in DOMAIN r /\ r[i - 1] = q[i]
    BY <1>3, <1>4, <1>5
  <2> QED BY <2>1 DEF Range
<1> QED BY <1>1, <1>6, <1>7, <1>8 DEF r

(* The lock's holder is a task that polls. *)
LEMMA HolderPolls ==
  ASSUME PollInv, NEW t \in Tasks, Holds(t)
  PROVE  task[t].pc = "polling" /\ queue # <<>> /\ Head(queue) = t
<1>1. queue \in Seq(Tasks) /\ queue # <<>> /\ Head(queue) = t
  BY DEF PollInv, PollTypeOK, Holds
<1>2. 1 \in DOMAIN queue /\ queue[1] = t
  BY <1>1
<1>3. t \in Range(queue)
  BY <1>2 DEF Range
<1> QED BY <1>1, <1>3 DEF PollInv, Queued

LEMMA TargetsAreLights ==
  ASSUME NEW G \in SUBSET (Groups \cup {EveryLight})
  PROVE  Targets(G) \subseteq Lights /\ Targets({}) = {}
<1>1. \A g \in G : EveryLight \notin G => Member[g] \subseteq Lights
  BY PollingAssumption
<1> QED BY <1>1 DEF Targets

LEMMA TargetsGrow ==
  ASSUME NEW G \in SUBSET (Groups \cup {EveryLight}), NEW g \in Groups \cup {EveryLight}
  PROVE  Targets(G \cup {g}) = Targets(G) \cup Targets({g})
<1>1. CASE EveryLight \in G \cup {g}
  <2>1. Targets(G) \subseteq Lights /\ Targets({g}) \subseteq Lights
    BY TargetsAreLights
  <2> QED BY <1>1, <2>1 DEF Targets
<1>2. CASE EveryLight \notin G \cup {g}
  BY <1>2 DEF Targets
<1> QED BY <1>1, <1>2

-----------------------------------------------------------------------------
(* Each step keeps the polls in order. *)

LEMMA DispatchKeeps ==
  ASSUME PollInv, NEW g \in Groups \cup {EveryLight}, Dispatch(g)
  PROVE  PollInv'
<1> USE DEF PollInv
<1>1. CASE phase # "running"
  BY <1>1 DEF Dispatch, PollTypeOK, Queued, Stopped, PressIsQueued, Distinct
<1>2. CASE phase = "running"
  <2>1. /\ groups' = groups \cup {g}
        /\ unread' = unread \cup Targets({g})
        /\ task' = IF task["quick"] = Ended THEN [task EXCEPT !["quick"] = Sleeping] ELSE task
        /\ UNCHANGED <<phase, connected, queue>> /\ asked' = {}
    BY <1>2 DEF Dispatch
  <2>2. groups \subseteq Groups \cup {EveryLight} /\ Targets({g}) \subseteq Lights
    BY TargetsAreLights DEF PollTypeOK
  <2>3. Targets(groups') = Targets(groups) \cup Targets({g})
    BY <2>1, <2>2, TargetsGrow
  <2>4. PollTypeOK'
    BY <2>1, <2>2 DEF PollTypeOK, Sleeping, Tasks
  <2>5. Queued'
    BY <2>1 DEF Queued, Distinct, PollTypeOK, Sleeping, Ended, Tasks
  <2>6. Stopped'
    BY <1>2, <2>1 DEF Stopped
  <2>7. task["quick"].pc = "none" => task["quick"] = Ended
    BY DEF Queued, PollTypeOK, Ended, Tasks
  <2>8. /\ task'["quick"].pc # "none"
        /\ task["quick"].pc # "none" => task' = task
    BY <2>1, <2>7 DEF PollTypeOK, Sleeping, Ended, Tasks
  <2>9. PressIsQueued'
    BY <2>1, <2>3, <2>8 DEF PressIsQueued, Targets
  <2> QED BY <2>4, <2>5, <2>6, <2>9
<1> QED BY <1>1, <1>2

LEMMA QuickTakesKeeps == ASSUME PollInv, QuickTakes PROVE PollInv'
<1> USE DEF PollInv
<1>1. /\ task["quick"].pc = "sleeping"
      /\ groups' = {} /\ asked' = {} /\ UNCHANGED <<phase, connected>>
  BY DEF QuickTakes
<1>2. groups \subseteq Groups \cup {EveryLight}
  BY DEF PollTypeOK
<1>3. Targets(groups) \subseteq Lights
  BY <1>2, TargetsAreLights
<1>4. \A n \in unread : n \in Targets(groups)
  BY <1>1 DEF PressIsQueued
<1>5. phase # "closed"
  BY <1>1 DEF Stopped, Ended
<1>6. CASE connected
  <2>1. /\ task' = [task EXCEPT !["quick"] = [pc |-> "polling", left |-> Targets(groups)]]
        /\ queue' = Append(queue, "quick")
        /\ unread' = unread
    BY <1>6 DEF QuickTakes
  <2>2. "quick" \notin Range(queue) /\ queue \in Seq(Tasks) /\ Distinct(queue) /\ "quick" \in Tasks
    BY <1>1 DEF Queued, Tasks, PollTypeOK
  <2>3. queue' \in Seq(Tasks) /\ Distinct(queue') /\ Range(queue') = Range(queue) \cup {"quick"}
    BY <2>1, <2>2, Appended
  <2>4. PollTypeOK'
    BY <1>1, <1>3, <2>1, <2>3 DEF PollTypeOK, Tasks
  <2>5. Queued'
    BY <2>1, <2>3 DEF Queued, PollTypeOK, Tasks
  <2>6. Stopped'
    BY <1>1, <1>5, <2>1 DEF Stopped, PollTypeOK, Tasks
  <2>7. PressIsQueued'
    BY <1>4, <2>1 DEF PressIsQueued, PollTypeOK, Tasks
  <2> QED BY <2>4, <2>5, <2>6, <2>7
<1>7. CASE ~connected
  <2>1. /\ task' = [task EXCEPT !["quick"] = Ended]
        /\ queue' = queue
        /\ unread' = {}
    BY <1>4, <1>7 DEF QuickTakes
  <2>2. PollTypeOK'
    BY <1>1, <2>1 DEF PollTypeOK, Tasks, Ended
  <2>3. Queued'
    BY <1>1, <2>1 DEF Queued, PollTypeOK, Tasks, Distinct, Ended
  <2>4. Stopped' /\ PressIsQueued'
    BY <1>1, <1>5, <2>1 DEF Stopped, PressIsQueued, PollTypeOK, Tasks
  <2> QED BY <2>2, <2>3, <2>4
<1> QED BY <1>6, <1>7

LEMMA PeriodicWakesKeeps == ASSUME PollInv, PeriodicWakes PROVE PollInv'
<1> USE DEF PollInv
<1>1. /\ task["periodic"].pc = "sleeping"
      /\ task' = [task EXCEPT !["periodic"] = [pc |-> "polling", left |-> Lights]]
      /\ queue' = Append(queue, "periodic")
      /\ asked' = {} /\ UNCHANGED <<phase, connected, groups, unread>>
  BY DEF PeriodicWakes
<1>2. "periodic" \notin Range(queue) /\ queue \in Seq(Tasks) /\ Distinct(queue)
      /\ "periodic" \in Tasks
  BY <1>1 DEF Queued, Tasks, PollTypeOK
<1>3. queue' \in Seq(Tasks) /\ Distinct(queue') /\ Range(queue') = Range(queue) \cup {"periodic"}
  BY <1>1, <1>2, Appended
<1>4. PollTypeOK'
  BY <1>1, <1>3 DEF PollTypeOK, Tasks
<1>5. Queued'
  BY <1>1, <1>3 DEF Queued, PollTypeOK, Tasks
<1>6. phase \notin {"draining", "closed"} /\ task'["quick"] = task["quick"]
  BY <1>1 DEF Stopped, PollTypeOK, Tasks, Ended
<1>7. Stopped' /\ PressIsQueued'
  BY <1>1, <1>6 DEF Stopped, PressIsQueued, Targets
<1> QED BY <1>4, <1>5, <1>7

LEMMA AskNextKeeps == ASSUME PollInv, NEW t \in Tasks, AskNext(t) PROVE PollInv'
<1> USE DEF PollInv
<1>1. PICK n \in task[t].left :
        /\ task' = [task EXCEPT ![t].left = task[t].left \ {n}]
        /\ asked' = {n}
        /\ unread' = unread \ {n}
        /\ UNCHANGED <<phase, connected, groups, queue>>
  BY DEF AskNext
<1>2. task[t].pc = "polling"
  BY HolderPolls DEF AskNext
<1>3. task[t].left \subseteq Lights
  BY DEF PollTypeOK
<1>4. \A u \in Tasks : /\ task'[u].pc = task[u].pc
                       /\ task'[u].left = IF u = t THEN task[t].left \ {n} ELSE task[u].left
  BY <1>1 DEF PollTypeOK
<1>5. PollTypeOK'
  <2>1. task' \in [Tasks -> [pc : {"none", "sleeping", "polling"}, left : SUBSET Lights]]
    BY <1>1, <1>3 DEF PollTypeOK
  <2>2. {n} \subseteq Lights
    BY <1>3
  <2> QED BY <1>1, <2>1, <2>2 DEF PollTypeOK
<1>6. Queued'
  BY <1>1, <1>2, <1>4 DEF Queued, Distinct
<1>7. Stopped'
  <2>1. \A u \in Tasks : task[u] = Ended => u # t
    BY <1>2 DEF Ended
  <2>2. \A u \in Tasks : u # t => task'[u] = task[u]
    BY <1>1 DEF PollTypeOK
  <2>3. \A u \in Tasks : task[u] = Ended => task'[u] = Ended
    BY <2>1, <2>2
  <2> QED BY <1>1, <2>3 DEF Stopped, Tasks
<1>8. PressIsQueued'
  BY <1>1, <1>4 DEF PressIsQueued, Targets, Tasks
<1> QED BY <1>5, <1>6, <1>7, <1>8

LEMMA PassEndsKeeps == ASSUME PollInv, NEW t \in Tasks, PassEnds(t) PROVE PollInv'
<1> USE DEF PollInv
<1> DEFINE next == IF t = "quick" /\ groups = {} THEN Ended ELSE Sleeping
<1>1. /\ task[t].left = {}
      /\ task' = [task EXCEPT ![t] = next]
      /\ queue' = Tail(queue)
      /\ asked' = {} /\ UNCHANGED <<phase, connected, groups, unread>>
  BY DEF PassEnds
<1>2. task[t].pc = "polling" /\ queue # <<>> /\ Head(queue) = t
  BY HolderPolls DEF PassEnds
<1>3. queue' \in Seq(Tasks) /\ Distinct(queue') /\ Range(queue') = Range(queue) \ {t}
  BY <1>1, <1>2, Tailed DEF PollTypeOK, Queued
<1>4. next \in [pc : {"none", "sleeping", "polling"}, left : SUBSET Lights]
      /\ next.pc # "polling" /\ next.left = {}
  BY DEF Ended, Sleeping
<1>5. \A u \in Tasks : task'[u] = IF u = t THEN next ELSE task[u]
  BY <1>1 DEF PollTypeOK
<1>6. PollTypeOK'
  <2> HIDE DEF next
  <2> QED BY <1>1, <1>3, <1>4 DEF PollTypeOK
<1>7. Queued'
  <2> HIDE DEF next
  <2> QED BY <1>3, <1>4, <1>5 DEF Queued
<1>8. Stopped'
  <2>1. \A u \in Tasks : task[u] = Ended => u # t
    BY <1>2 DEF Ended
  <2> QED BY <1>1, <1>5, <2>1 DEF Stopped, Tasks
<1>9. PressIsQueued'
  <2>1. CASE t = "quick"
    <3>1. \A n \in unread : n \in Targets(groups)
      BY <1>1, <2>1 DEF PressIsQueued
    <3>2. unread # {} => groups # {}
      BY <3>1, TargetsAreLights
    <3>3. unread # {} => task'["quick"].pc # "none"
      BY <1>5, <2>1, <3>2 DEF Sleeping, Tasks
    <3> QED BY <1>1, <3>1, <3>3 DEF PressIsQueued, Targets
  <2>2. CASE t # "quick"
    <3>1. task'["quick"] = task["quick"]
      BY <1>5, <2>2 DEF Tasks
    <3> QED BY <1>1, <3>1 DEF PressIsQueued, Targets
  <2> QED BY <2>1, <2>2
<1> QED BY <1>6, <1>7, <1>8, <1>9

LEMMA LinkChangesKeeps == ASSUME PollInv, LinkChanges PROVE PollInv'
BY DEF PollInv, LinkChanges, PollTypeOK, Queued, Stopped, PressIsQueued, Targets, Distinct

LEMMA ShutdownKeeps == ASSUME PollInv, Shutdown PROVE PollInv'
BY DEF PollInv, Shutdown, PollTypeOK, Queued, Stopped, PressIsQueued, Targets, Distinct

(* What a cancelled task leaves. *)
LEMMA CancelledLeaves ==
  ASSUME PollInv, NEW t \in Tasks, Cancelled(t)
  PROVE  /\ queue' \in Seq(Tasks) /\ Distinct(queue')
         /\ Range(queue') = Range(queue) \ {t}
         /\ \A u \in Tasks : task'[u] = IF u = t THEN Ended ELSE task[u]
         /\ task' \in [Tasks -> [pc : {"none", "sleeping", "polling"}, left : SUBSET Lights]]
         /\ (Queued)'
<1> USE DEF PollInv
<1>1. queue' = <<>> \/ \E u \in Tasks : queue' = <<u>>
  BY DEF Cancelled
<1>2. queue' \in Seq(Tasks) /\ Distinct(queue')
  <2>1. CASE queue' = <<>>
    BY <2>1 DEF Distinct
  <2>2. ASSUME NEW u \in Tasks, queue' = <<u>>
        PROVE  queue' \in Seq(Tasks) /\ Distinct(queue')
    <3>1. DOMAIN queue' = {1}
      BY <2>2
    <3>2. Distinct(queue')
      BY <3>1 DEF Distinct
    <3> QED BY <2>2, <3>2
  <2> QED BY <1>1, <2>1, <2>2
<1>3. Range(queue') = Range(queue) \ {t}
  BY DEF Cancelled
<1>4. \A u \in Tasks : task'[u] = IF u = t THEN Ended ELSE task[u]
  BY DEF Cancelled, PollTypeOK
<1>5. task' \in [Tasks -> [pc : {"none", "sleeping", "polling"}, left : SUBSET Lights]]
  BY DEF Cancelled, PollTypeOK, Ended
<1>6. (Queued)'
  BY <1>2, <1>3, <1>4 DEF Queued, Ended
<1> QED BY <1>2, <1>3, <1>4, <1>5, <1>6

LEMMA PeriodicStoppedKeeps == ASSUME PollInv, PeriodicStopped PROVE PollInv'
<1> USE DEF PollInv
<1>1. /\ phase = "stopping" /\ phase' = "draining" /\ asked' = {}
      /\ Cancelled("periodic") /\ UNCHANGED <<connected, groups, unread>>
  BY DEF PeriodicStopped
<1>2. /\ queue' \in Seq(Tasks)
      /\ \A u \in Tasks : task'[u] = IF u = "periodic" THEN Ended ELSE task[u]
      /\ task' \in [Tasks -> [pc : {"none", "sleeping", "polling"}, left : SUBSET Lights]]
      /\ Queued'
  BY <1>1, CancelledLeaves DEF Tasks
<1>3. PollTypeOK'
  BY <1>1, <1>2 DEF PollTypeOK
<1>4. Stopped' /\ unread = {}
  BY <1>1, <1>2 DEF Stopped, Tasks
<1> QED BY <1>1, <1>2, <1>3, <1>4 DEF PressIsQueued

LEMMA QuickStoppedKeeps == ASSUME PollInv, QuickStopped PROVE PollInv'
<1> USE DEF PollInv
<1>1. /\ phase = "draining" /\ phase' = "closed" /\ asked' = {}
      /\ Cancelled("quick") /\ UNCHANGED <<connected, groups, unread>>
  BY DEF QuickStopped
<1>2. /\ queue' \in Seq(Tasks)
      /\ \A u \in Tasks : task'[u] = IF u = "quick" THEN Ended ELSE task[u]
      /\ task' \in [Tasks -> [pc : {"none", "sleeping", "polling"}, left : SUBSET Lights]]
      /\ Queued'
  BY <1>1, CancelledLeaves DEF Tasks
<1>3. PollTypeOK'
  BY <1>1, <1>2 DEF PollTypeOK
<1>4. Stopped' /\ unread = {}
  BY <1>1, <1>2 DEF Stopped, Tasks
<1> QED BY <1>1, <1>2, <1>3, <1>4 DEF PressIsQueued

LEMMA PollUnchanged == ASSUME PollInv, UNCHANGED pvars PROVE PollInv'
BY DEF pvars, PollInv, PollTypeOK, Queued, Stopped, PressIsQueued, Targets, Distinct

LEMMA PollKeeps == ASSUME PollInv, PollNext PROVE PollInv'
<1>1. "quick" \in Tasks /\ "periodic" \in Tasks
  BY DEF Tasks
<1>2. CASE QuickTakes
  BY <1>2, QuickTakesKeeps
<1>3. CASE AskNext("quick") \/ AskNext("periodic")
  BY <1>1, <1>3, AskNextKeeps
<1>4. CASE PassEnds("quick") \/ PassEnds("periodic")
  BY <1>1, <1>4, PassEndsKeeps
<1>5. CASE PeriodicWakes
  BY <1>5, PeriodicWakesKeeps
<1>6. CASE Shutdown
  BY <1>6, ShutdownKeeps
<1>7. CASE PeriodicStopped
  BY <1>7, PeriodicStoppedKeeps
<1>8. CASE QuickStopped
  BY <1>8, QuickStoppedKeeps
<1>9. CASE LinkChanges
  BY <1>9, LinkChangesKeeps
<1> QED BY <1>2, <1>3, <1>4, <1>5, <1>6, <1>7, <1>8, <1>9 DEF PollNext, QuickStep, PeriodicPoll

LEMMA PollInitOK == ASSUME PollInit PROVE PollInv
<1>1. queue = <<>> /\ Range(queue) = {} /\ Distinct(queue)
  BY DEF PollInit, Range, Distinct
<1>2. PollTypeOK
  BY <1>1 DEF PollInit, PollTypeOK, Ended, Sleeping, Tasks
<1> QED BY <1>1, <1>2 DEF PollInv, PollInit, Queued, Stopped, PressIsQueued, Ended, Sleeping, Tasks

-----------------------------------------------------------------------------
LEMMA Constants ==
  /\ DEDUP_WINDOW \in Nat /\ SPREAD \in Nat /\ SPREAD < DEDUP_WINDOW
  /\ MaxTime \in Nat /\ Times \subseteq Int /\ Never \in Int
BY RemoteAssumption DEF Times, Never

LEMMA Dom ==
  ASSUME NEW i \in DOMAIN presses, presses \in Seq(Presses)
  PROVE  /\ i \in Nat /\ DOMAIN presses = 1..Len(presses) /\ Len(presses) \in Nat
         /\ presses[i] \in Presses
         /\ presses[i].at \in Int
<1>1. DOMAIN presses = 1..Len(presses) /\ Len(presses) \in Nat
  OBVIOUS
<1>2. i \in Nat /\ presses[i] \in Presses
  BY <1>1
<1>3. presses[i].at \in Times
  BY <1>2 DEF Presses
<1> QED BY <1>1, <1>2, <1>3, Constants

LEMMA Typed ==
  ASSUME RemoteInv, NEW i \in DOMAIN presses
  PROVE  /\ presses[i].source \in Sources /\ presses[i].tid \in Tids
         /\ presses[i].heard \in BOOLEAN /\ presses[i].events \in Nat /\ presses[i].at \in Int
         /\ seen[presses[i].source][presses[i].tid] \in Int
<1>1. presses[i] \in Presses /\ presses[i].at \in Int
  BY Dom DEF RemoteInv
<1>2. /\ presses[i].source \in Sources /\ presses[i].tid \in Tids
      /\ presses[i].heard \in BOOLEAN /\ presses[i].events \in Nat
  BY <1>1 DEF Presses
<1>3. \A s \in Sources, tid \in Tids : seen[s][tid] \in Times \cup {Never}
  BY DEF RemoteInv
<1>4. seen[presses[i].source][presses[i].tid] \in Times \cup {Never}
  BY <1>2, <1>3
<1> QED BY <1>1, <1>2, <1>4, Constants

(* A press begins. *)
LEMMA PressKeeps ==
  ASSUME RemoteInv, NEW s \in Sources, NEW target \in Groups \cup {EveryLight, HaOnly},
         Press(s, target)
  PROVE  RemoteInv'
<1> USE DEF RemoteInv
<1> DEFINE tid == Cardinality(Of(s)) % TidSpan
           new == [source |-> s, tid |-> tid, at |-> clock, target |-> target,
                   heard |-> FALSE, events |-> 0]
           n   == Len(presses)
<1>1. /\ \A i \in Of(s) : presses[i].tid = tid => clock - presses[i].at >= DEDUP_WINDOW + SPREAD
      /\ presses' = Append(presses, new)
      /\ UNCHANGED <<clock, seen>>
  BY DEF Press
<1>2. tid \in Tids
  <2>1. DOMAIN presses = 1..n /\ n \in Nat
    OBVIOUS
  <2>2. IsFiniteSet(1..n)
    BY <2>1, FS_Interval
  <2>3. Of(s) \in SUBSET (1..n)
    BY <2>1 DEF Of
  <2>4. IsFiniteSet(Of(s))
    BY <2>2, <2>3, FS_Subset
  <2>5. Cardinality(Of(s)) \in Nat
    BY <2>4, FS_CardinalityType
  <2> QED BY <2>5, RemoteAssumption DEF Tids
<1>3. new \in Presses
  BY <1>2 DEF Presses
<1> HIDE DEF new
<1>4. /\ presses' \in Seq(Presses)
      /\ DOMAIN presses' = DOMAIN presses \cup {n + 1} /\ n + 1 \notin DOMAIN presses
      /\ DOMAIN presses = 1..n /\ n \in Nat
      /\ \A i \in DOMAIN presses : presses'[i] = presses[i]
      /\ presses'[n + 1] = new
  BY <1>1, <1>3
<1>5. /\ new.source = s /\ new.tid = tid /\ new.at = clock /\ ~new.heard /\ new.events = 0
  BY DEF new
<1> HIDE DEF tid, n
<1>6. \A i \in DOMAIN presses : presses[i].source = s /\ presses[i].tid = tid
        => clock - presses[i].at >= DEDUP_WINDOW + SPREAD
  BY <1>1 DEF Of
<1>7. clock \in Int
  BY Constants
<1>8. Spaced'
  <2>1. \A i \in DOMAIN presses' : presses'[i].at <= clock
    BY <1>4, <1>5, <1>7 DEF Spaced
  <2>2. ASSUME NEW i \in DOMAIN presses', NEW j \in DOMAIN presses', i < j,
               presses'[i].source = presses'[j].source, presses'[i].tid = presses'[j].tid
        PROVE  presses'[j].at - presses'[i].at >= DEDUP_WINDOW + SPREAD
    <3>1. i \in DOMAIN presses
      BY <1>4, <2>2
    <3>2. CASE j = n + 1
      BY <1>4, <1>5, <1>6, <3>1, <3>2, <2>2
    <3>3. CASE j \in DOMAIN presses
      BY <1>4, <3>1, <3>3, <2>2 DEF Spaced
    <3> QED BY <1>4, <3>2, <3>3
  <2> QED BY <1>1, <2>1, <2>2 DEF Spaced
<1>9. SeenOnce'
  <2> SUFFICES ASSUME NEW q \in Sources, NEW u \in Tids, seen[q][u] # Never
               PROVE  /\ seen[q][u] <= clock
                      /\ \E i \in DOMAIN presses' :
                           /\ presses'[i].source = q /\ presses'[i].tid = u
                           /\ seen[q][u] - presses'[i].at <= SPREAD
    BY <1>1 DEF SeenOnce
  <2>1. PICK i \in DOMAIN presses : presses[i].source = q /\ presses[i].tid = u
                                    /\ seen[q][u] - presses[i].at <= SPREAD
    BY DEF SeenOnce
  <2>2. i \in DOMAIN presses' /\ presses'[i] = presses[i]
    BY <1>4
  <2> QED BY <2>1, <2>2 DEF SeenOnce
<1>10. Told'
  <2> SUFFICES ASSUME NEW i \in DOMAIN presses', clock - presses'[i].at <= SPREAD
               PROVE  LET time == seen[presses'[i].source][presses'[i].tid]
                      IN IF presses'[i].heard THEN time # Never /\ time >= presses'[i].at
                         ELSE time = Never \/ presses'[i].at - time >= DEDUP_WINDOW
    BY <1>1 DEF Told
  <2>1. CASE i \in DOMAIN presses
    BY <1>4, <2>1 DEF Told
  <2>2. CASE i = n + 1
    <3> DEFINE time == seen[s][tid]
    <3> SUFFICES ASSUME time # Never PROVE clock - time >= DEDUP_WINDOW
      BY <1>4, <1>5, <2>2
    <3>1. PICK j \in DOMAIN presses : presses[j].source = s /\ presses[j].tid = tid
                                       /\ time - presses[j].at <= SPREAD
      BY <1>2 DEF SeenOnce
    <3>2. clock - presses[j].at >= DEDUP_WINDOW + SPREAD
      BY <1>6, <3>1
    <3>3. presses[j].at \in Int /\ time \in Int
      BY <1>2, Dom, Constants
    <3> HIDE DEF time
    <3> QED BY <1>7, <3>1, <3>2, <3>3, Constants
  <2> QED BY <1>4, <2>1, <2>2
<1>11. OneEventPerPress'
  BY <1>4, <1>5 DEF OneEventPerPress
<1> QED BY <1>1, <1>4, <1>8, <1>9, <1>10, <1>11

(* What a copy of press i does to the presses and the times. *)
Heard(i, known) ==
  /\ presses' \in Seq(Presses)
  /\ DOMAIN presses' = DOMAIN presses
  /\ \A j \in DOMAIN presses : j # i => presses'[j] = presses[j]
  /\ presses'[i].source = presses[i].source /\ presses'[i].tid = presses[i].tid
  /\ presses'[i].at = presses[i].at /\ presses'[i].heard
  /\ presses'[i].events = IF known THEN presses[i].events ELSE presses[i].events + 1
  /\ seen' \in [Sources -> [Tids -> Times \cup {Never}]]
  /\ \A s \in Sources, tid \in Tids :
       seen'[s][tid] = IF s = presses[i].source /\ tid = presses[i].tid /\ ~known THEN clock
                       ELSE IF Fresh(seen[s][tid]) THEN seen[s][tid] ELSE Never
  /\ clock' = clock

LEMMA HeardRecord ==
  ASSUME NEW p \in Presses, NEW e \in Nat
  PROVE  LET r == [p EXCEPT !.heard = TRUE, !.events = e] IN
         /\ r \in Presses
         /\ r.source = p.source /\ r.tid = p.tid /\ r.at = p.at /\ r.heard /\ r.events = e
BY DEF Presses

LEMMA KnownRecord ==
  ASSUME NEW p \in Presses
  PROVE  LET r == [p EXCEPT !.heard = TRUE] IN
         /\ r \in Presses
         /\ r.source = p.source /\ r.tid = p.tid /\ r.at = p.at /\ r.heard /\ r.events = p.events
BY DEF Presses

LEMMA SetEntry ==
  ASSUME NEW T, NEW f \in [Sources -> [Tids -> T]], NEW a \in Sources, NEW b \in Tids, NEW c \in T
  PROVE  /\ [f EXCEPT ![a][b] = c] \in [Sources -> [Tids -> T]]
         /\ \A s \in Sources, tid \in Tids :
              [f EXCEPT ![a][b] = c][s][tid] = IF s = a /\ tid = b THEN c ELSE f[s][tid]
OBVIOUS

LEMMA HearEffect ==
  ASSUME RemoteInv, NEW i \in DOMAIN presses, Hear(i)
  PROVE  Heard(i, Fresh(seen[presses[i].source][presses[i].tid]))
<1> USE DEF RemoteInv
<1> DEFINE p == presses[i]
           known == Fresh(seen[p.source][p.tid])
<1>1. p \in Presses /\ p.source \in Sources /\ p.tid \in Tids /\ p.events \in Nat
  BY Dom DEF Presses
<1>2. Pruned \in [Sources -> [Tids -> Times \cup {Never}]]
  BY DEF Pruned
<1>3. \A s \in Sources, tid \in Tids :
        Pruned[s][tid] = IF Fresh(seen[s][tid]) THEN seen[s][tid] ELSE Never
  BY DEF Pruned
<1>4. Pruned[p.source][p.tid] # Never <=> known
  BY <1>1, <1>3 DEF Fresh
<1>5. clock \in Times /\ clock' = clock
  BY DEF Hear
<1>7. presses \in [1..Len(presses) -> Presses] /\ Len(presses) \in Nat /\ i \in 1..Len(presses)
  OBVIOUS
<1>8. \E r \in Presses :
        /\ presses' = [presses EXCEPT ![i] = r]
        /\ r.source = p.source /\ r.tid = p.tid /\ r.at = p.at /\ r.heard
        /\ r.events = IF known THEN p.events ELSE p.events + 1
  <2>1. CASE known
    <3> DEFINE r == [p EXCEPT !.heard = TRUE]
    <3>1. presses' = [presses EXCEPT ![i] = r]
      BY <1>4, <2>1 DEF Hear
    <3>2. /\ r \in Presses /\ r.source = p.source /\ r.tid = p.tid /\ r.at = p.at
          /\ r.heard /\ r.events = p.events
      BY <1>1, KnownRecord
    <3> HIDE DEF r, known
    <3> QED BY <2>1, <3>1, <3>2
  <2>2. CASE ~known
    <3> DEFINE e == p.events + 1
               r == [p EXCEPT !.heard = TRUE, !.events = e]
    <3>1. presses' = [presses EXCEPT ![i] = r]
      BY <1>4, <2>2 DEF Hear
    <3>2. e \in Nat
      BY <1>1
    <3> HIDE DEF e
    <3>3. /\ r \in Presses /\ r.source = p.source /\ r.tid = p.tid /\ r.at = p.at
          /\ r.heard /\ r.events = e
      BY <1>1, <3>2, HeardRecord
    <3> HIDE DEF r, known
    <3> QED BY <2>2, <3>1, <3>3 DEF e
  <2> QED BY <2>1, <2>2
<1>9. /\ known  => seen' = Pruned
      /\ ~known => seen' = [Pruned EXCEPT ![p.source][p.tid] = clock]
  BY <1>4 DEF Hear
<1>10. /\ presses' \in Seq(Presses)
       /\ DOMAIN presses' = DOMAIN presses
       /\ \A j \in DOMAIN presses : j # i => presses'[j] = presses[j]
       /\ presses'[i].source = p.source /\ presses'[i].tid = p.tid /\ presses'[i].at = p.at
       /\ presses'[i].heard /\ presses'[i].events = IF known THEN p.events ELSE p.events + 1
  <2> HIDE DEF known
  <2>1. PICK r \in Presses :
          /\ presses' = [presses EXCEPT ![i] = r]
          /\ r.source = p.source /\ r.tid = p.tid /\ r.at = p.at /\ r.heard
          /\ r.events = IF known THEN p.events ELSE p.events + 1
    BY <1>8
  <2>2. presses' \in [1..Len(presses) -> Presses] /\ presses'[i] = r
    BY <1>7, <2>1
  <2> QED BY <1>7, <2>1, <2>2
<1>11. /\ seen' \in [Sources -> [Tids -> Times \cup {Never}]]
       /\ \A s \in Sources, tid \in Tids :
            seen'[s][tid] = IF s = p.source /\ tid = p.tid /\ ~known THEN clock
                            ELSE IF Fresh(seen[s][tid]) THEN seen[s][tid] ELSE Never
  <2>1. p.source \in Sources /\ p.tid \in Tids
    BY <1>1
  <2> HIDE DEF known, p
  <2>2. CASE known
    BY <1>2, <1>3, <1>9, <2>2
  <2>3. CASE ~known
    <3>1. seen' = [Pruned EXCEPT ![p.source][p.tid] = clock]
      BY <1>9, <2>3
    <3>2. /\ seen' \in [Sources -> [Tids -> Times \cup {Never}]]
          /\ \A s \in Sources, tid \in Tids :
               seen'[s][tid] = IF s = p.source /\ tid = p.tid THEN clock ELSE Pruned[s][tid]
      BY <1>2, <1>5, <2>1, <3>1, SetEntry
    <3> QED BY <1>3, <2>3, <3>2
  <2> QED BY <2>2, <2>3
<1> QED BY <1>5, <1>10, <1>11 DEF Heard

LEMMA HearKeeps == ASSUME RemoteInv, NEW i \in DOMAIN presses, Hear(i) PROVE RemoteInv'
<1> USE DEF RemoteInv
<1> DEFINE p == presses[i]
           time == seen[p.source][p.tid]
           known == Fresh(time)
<1>1. Heard(i, known)
  BY HearEffect
<1>2. /\ p.source \in Sources /\ p.tid \in Tids /\ p.heard \in BOOLEAN /\ p.events \in Nat
      /\ p.at \in Int /\ time \in Int /\ clock \in Int
  BY Typed, Constants
<1>3. clock - p.at <= SPREAD /\ p.at <= clock
  BY DEF Hear, Spaced
<1>4. known <=> p.heard
  <2>1. IF p.heard THEN time # Never /\ time >= p.at ELSE time = Never \/ p.at - time >= DEDUP_WINDOW
    BY <1>3 DEF Told
  <2> HIDE DEF time, p
  <2> QED BY <1>2, <1>3, <2>1, Constants DEF Fresh
<1>5. \A j \in DOMAIN presses : presses'[j].source = presses[j].source
        /\ presses'[j].tid = presses[j].tid /\ presses'[j].at = presses[j].at
  BY <1>1 DEF Heard
<1>6. DOMAIN presses' = DOMAIN presses /\ clock' = clock
  BY <1>1 DEF Heard
<1>7. Spaced'
  BY <1>5, <1>6 DEF Spaced
<1>8. SeenOnce'
  <2> SUFFICES ASSUME NEW s \in Sources, NEW tid \in Tids, seen'[s][tid] # Never
               PROVE  /\ seen'[s][tid] <= clock
                      /\ \E j \in DOMAIN presses :
                           /\ presses[j].source = s /\ presses[j].tid = tid
                           /\ seen'[s][tid] - presses[j].at <= SPREAD
    BY <1>5, <1>6 DEF SeenOnce
  <2>1. CASE s = p.source /\ tid = p.tid /\ ~known
    <3>1. seen'[s][tid] = clock
      BY <1>1, <1>2, <2>1 DEF Heard
    <3> QED BY <1>2, <1>3, <2>1, <3>1
  <2>2. CASE ~(s = p.source /\ tid = p.tid /\ ~known)
    <3>1. seen'[s][tid] = seen[s][tid]
      BY <1>1, <2>2 DEF Heard
    <3> QED BY <3>1 DEF SeenOnce
  <2> QED BY <2>1, <2>2
<1>9. Told'
  <2> SUFFICES ASSUME NEW j \in DOMAIN presses, clock - presses[j].at <= SPREAD
               PROVE  LET t == seen'[presses[j].source][presses[j].tid]
                      IN IF presses'[j].heard THEN t # Never /\ t >= presses[j].at
                         ELSE t = Never \/ presses[j].at - t >= DEDUP_WINDOW
    BY <1>5, <1>6 DEF Told
  <2> DEFINE q == presses[j]
             old == seen[q.source][q.tid]
             new == seen'[q.source][q.tid]
  <2>1. /\ q.source \in Sources /\ q.tid \in Tids /\ q.heard \in BOOLEAN
        /\ q.at \in Int /\ old \in Int /\ q.at <= clock
    BY Typed DEF Spaced
  <2>2. IF q.heard THEN old # Never /\ old >= q.at ELSE old = Never \/ q.at - old >= DEDUP_WINDOW
    BY DEF Told
  <2>3. q.heard => Fresh(old)
    <3> HIDE DEF q, old
    <3> QED BY <1>2, <2>1, <2>2, Constants DEF Fresh, q
  <2>4. CASE j = i
    <3>1. presses'[j].heard
      BY <1>1, <2>4 DEF Heard
    <3>2. new = IF known THEN old ELSE clock
      BY <1>1, <1>2, <2>4 DEF Heard
    <3>3. clock # Never
      BY Constants DEF Times, Never
    <3> QED BY <1>4, <2>1, <2>2, <2>4, <3>1, <3>2, <3>3
  <2>5. CASE j # i /\ q.source = p.source /\ q.tid = p.tid
    <3>1. i < j \/ j < i
      BY <2>5, Dom
    <3>2. q.at - p.at >= DEDUP_WINDOW + SPREAD \/ p.at - q.at >= DEDUP_WINDOW + SPREAD
      BY <2>5, <3>1 DEF Spaced
    <3>3. clock - q.at <= SPREAD
      OBVIOUS
    <3> HIDE DEF p, q
    <3> QED BY <1>2, <1>3, <2>1, <3>2, <3>3, Constants
  <2>6. CASE j # i /\ ~(q.source = p.source /\ q.tid = p.tid)
    <3>1. presses'[j] = q
      BY <1>1, <2>6 DEF Heard
    <3>2. new = IF Fresh(old) THEN old ELSE Never
      BY <1>1, <2>1, <2>6 DEF Heard
    <3> QED BY <2>2, <2>3, <3>1, <3>2
  <2> QED BY <2>4, <2>5, <2>6
<1>10. OneEventPerPress'
  <2> SUFFICES ASSUME NEW j \in DOMAIN presses
               PROVE  presses'[j].events = IF presses'[j].heard THEN 1 ELSE 0
    BY <1>6 DEF OneEventPerPress
  <2>1. presses[j].events = IF presses[j].heard THEN 1 ELSE 0
    BY DEF OneEventPerPress
  <2>2. CASE j = i
    <3>1. presses'[i].heard /\ presses'[i].events = IF known THEN p.events ELSE p.events + 1
      BY <1>1 DEF Heard
    <3> QED BY <1>4, <2>1, <2>2, <3>1
  <2>3. CASE j # i
    BY <1>1, <2>1, <2>3 DEF Heard
  <2> QED BY <2>2, <2>3
<1> QED BY <1>1, <1>6, <1>7, <1>8, <1>9, <1>10 DEF Heard

LEMMA TickKeeps == ASSUME RemoteInv, Tick PROVE RemoteInv'
<1> USE DEF RemoteInv
<1>1. clock' = clock + 1 /\ clock < MaxTime /\ UNCHANGED <<presses, seen>> /\ clock \in Nat
  BY Constants DEF Tick, Times
<1>2. clock' \in Times
  BY <1>1, Constants DEF Times
<1>3. \A i \in DOMAIN presses : presses[i].at \in Int
  BY Dom
<1>4. \A s \in Sources, tid \in Tids : seen[s][tid] \in Int
  BY Constants
<1>5. Spaced'
  BY <1>1, <1>3 DEF Spaced
<1>6. SeenOnce'
  BY <1>1, <1>4 DEF SeenOnce
<1>7. Told'
  <2>1. \A i \in DOMAIN presses : clock' - presses[i].at <= SPREAD => clock - presses[i].at <= SPREAD
    BY <1>1, <1>3, Constants
  <2> QED BY <1>1, <2>1 DEF Told
<1> QED BY <1>1, <1>2, <1>5, <1>6, <1>7 DEF OneEventPerPress

LEMMA RemoteUnchanged == ASSUME RemoteInv, UNCHANGED rvars PROVE RemoteInv'
BY DEF rvars, RemoteInv, Spaced, SeenOnce, Told, OneEventPerPress

-----------------------------------------------------------------------------
(* The invariant is inductive. *)
THEOREM Inductive == Spec => []IInv
<1>1. Init => IInv
  <2> SUFFICES ASSUME Init PROVE RemoteInv
    BY PollInitOK DEF Init, IInv
  <2>1. presses = <<>> /\ DOMAIN presses = {} /\ presses \in Seq(Presses)
    BY DEF Init
  <2>2. clock \in Times /\ seen \in [Sources -> [Tids -> Times \cup {Never}]]
    BY Constants DEF Init, Times
  <2>3. \A s \in Sources, tid \in Tids : seen[s][tid] = Never
    BY DEF Init
  <2> QED BY <2>1, <2>2, <2>3 DEF RemoteInv, Spaced, SeenOnce, Told, OneEventPerPress
<1>2. IInv /\ [Next]_vars => IInv'
  <2> SUFFICES ASSUME IInv, [Next]_vars PROVE IInv'
    OBVIOUS
  <2> USE DEF IInv
  <2>1. ASSUME NEW s \in Sources, NEW target \in Groups \cup {EveryLight, HaOnly}, Press(s, target)
        PROVE  IInv'
    BY <2>1, PressKeeps, PollUnchanged DEF Press
  <2>2. ASSUME NEW i \in DOMAIN presses, Hear(i) PROVE IInv'
    <3>1. RemoteInv'
      BY <2>2, HearKeeps
    <3>2. UNCHANGED pvars \/ (presses[i].target # HaOnly /\ Dispatch(presses[i].target))
      BY <2>2 DEF Hear
    <3>3. presses[i].target # HaOnly => presses[i].target \in Groups \cup {EveryLight}
      BY Dom DEF RemoteInv, Presses
    <3>4. PollInv'
      BY <3>2, <3>3, DispatchKeeps, PollUnchanged
    <3> QED BY <3>1, <3>4
  <2>3. CASE Tick
    BY <2>3, TickKeeps, PollUnchanged DEF Tick
  <2>4. CASE Polls
    BY <2>4, PollKeeps, RemoteUnchanged DEF Polls
  <2>5. CASE UNCHANGED vars
    BY <2>5, PollUnchanged, RemoteUnchanged DEF vars, pvars, rvars
  <2> QED BY <2>1, <2>2, <2>3, <2>4, <2>5 DEF Next
<1> QED BY <1>1, <1>2, PTL DEF Spec

(* decode: a press that is heard is one event, however many copies of it   *)
(* come and in whichever order, if copies come for less than DEDUP_WINDOW. *)
THEOREM PressIsOneEvent == Spec => []OneEventPerPress
<1>1. IInv => OneEventPerPress
  BY DEF IInv, RemoteInv
<1> QED BY <1>1, Inductive, PTL

(* _schedule_quick_poll and _quick_poll: the lights of a press are read    *)
(* after it, whenever it came while another poll was on its way.           *)
THEOREM NoPressForgotten == Spec => []PressIsQueued
<1>1. IInv => PressIsQueued
  BY DEF IInv, PollInv
<1> QED BY <1>1, Inductive, PTL

(* async_shutdown: nothing polls once it has cancelled the tasks.          *)
THEOREM NothingAfterShutdown == Spec => []ShutdownIsFinal
<1>1. IInv => ShutdownIsFinal
  <2> SUFFICES ASSUME IInv, phase = "closed" PROVE queue = <<>> /\ \A t \in Tasks : task[t] = Ended
    BY DEF ShutdownIsFinal
  <2>1. \A t \in Tasks : task[t] = Ended
    BY DEF IInv, PollInv, Stopped, Tasks
  <2>2. \A t \in Tasks : t \notin Range(queue)
    BY <2>1 DEF IInv, PollInv, Queued, Ended
  <2>3. queue \in Seq(Tasks)
    BY DEF IInv, PollInv, PollTypeOK
  <2>4. queue = <<>>
    <3>1. ASSUME queue # <<>> PROVE 1 \in DOMAIN queue /\ queue[1] \in Tasks
      BY <2>3, <3>1
    <3> QED BY <2>2, <3>1 DEF Range
  <2> QED BY <2>1, <2>4
<1> QED BY <1>1, Inductive, PTL
-----------------------------------------------------------------------------
(* The polls go on. *)

(* Only shutdown ends the periodic poll, and a press has its quick poll. *)
Alive ==
  /\ phase \in {"running", "stopping"} => task["periodic"].pc # "none"
  /\ groups # {} /\ phase # "closed" => task["quick"].pc # "none"

LEMMA AliveStep == ASSUME PollInv, PollTypeOK', Alive, [Next]_vars PROVE Alive'
<1> USE DEF PollInv
<1>0. ASSUME UNCHANGED pvars PROVE Alive'
  BY <1>0 DEF pvars, Alive
<1>1. task \in [Tasks -> [pc : {"none", "sleeping", "polling"}, left : SUBSET Lights]]
      /\ "quick" \in Tasks /\ "periodic" \in Tasks
  BY DEF PollTypeOK, Tasks
<1>2. ASSUME NEW g, Dispatch(g) PROVE Alive'
  <2>1. task'["periodic"] = task["periodic"] /\ phase' = phase
    BY <1>1, <1>2 DEF Dispatch
  <2>2. groups' = groups \/ task'["quick"].pc # "none"
    <3>1. CASE task["quick"] = Ended /\ phase = "running"
      BY <1>1, <1>2, <3>1 DEF Dispatch, Sleeping
    <3>2. CASE task["quick"] # Ended /\ phase = "running"
      BY <1>1, <1>2, <3>2 DEF Dispatch, Queued, Ended
    <3>3. CASE phase # "running"
      BY <1>2, <3>3 DEF Dispatch
    <3> QED BY <3>1, <3>2, <3>3
  <2>3. task["quick"].pc # "none" => task'["quick"].pc # "none"
    BY <1>1, <1>2 DEF Dispatch, Ended
  <2> QED BY <2>1, <2>2, <2>3 DEF Alive
<1>3. CASE QuickTakes
  <2>1. task'["periodic"] = task["periodic"] /\ phase' = phase /\ groups' = {}
    BY <1>1, <1>3 DEF QuickTakes
  <2> QED BY <2>1 DEF Alive
<1>4. CASE PeriodicWakes
  BY <1>1, <1>4 DEF PeriodicWakes, Alive
<1>5. ASSUME NEW t \in Tasks, AskNext(t) PROVE Alive'
  <2>1. \A u \in Tasks : task'[u].pc = task[u].pc
    BY <1>1, <1>5 DEF AskNext
  <2> QED BY <1>1, <1>5, <2>1 DEF AskNext, Alive
<1>6. ASSUME NEW t \in Tasks, PassEnds(t) PROVE Alive'
  <2>1. \A u \in Tasks :
          task'[u] = IF u = t THEN IF t = "quick" /\ groups = {} THEN Ended ELSE Sleeping
                     ELSE task[u]
    BY <1>1, <1>6 DEF PassEnds
  <2>2. groups' = groups /\ phase' = phase
    BY <1>6 DEF PassEnds
  <2> QED BY <1>1, <2>1, <2>2 DEF Alive, Sleeping
<1>7. CASE Shutdown \/ LinkChanges
  BY <1>7 DEF Shutdown, LinkChanges, Alive
<1>8. CASE PeriodicStopped
  <2>1. task'["quick"] = task["quick"] /\ phase = "stopping" /\ phase' = "draining" /\ groups' = groups
    BY <1>1, <1>8 DEF PeriodicStopped, Cancelled
  <2> QED BY <2>1 DEF Alive
<1>9. CASE QuickStopped
  BY <1>9 DEF QuickStopped, Alive
<1> QED
  BY <1>0, <1>1, <1>2, <1>3, <1>4, <1>5, <1>6, <1>7, <1>8, <1>9
  DEF Next, Press, Hear, Tick, Polls, PollNext, QuickStep, PeriodicPoll, vars, pvars

(* The holder of _poll_lock has a light to ask or is through, and whoever polls waits at most *)
(* for it. *)
NobodyIsStuck ==
  /\ Alive
  /\ queue # <<>> =>
       LET left == task[Head(queue)].left
       IN left = {} \/ \E n \in left : \A m \in left : n <= m
  /\ \A t \in Tasks : task[t].pc = "polling" <=> \E i \in DOMAIN queue : queue[i] = t

(* A pass of the periodic poll begins with all lights, one of the quick poll with those of    *)
(* the presses so far; it goes on light by light, and ends when all have been asked.          *)
NoLightSkipped ==
  \A t \in Tasks : phase' = phase =>
    IF task[t].pc # "polling"
    THEN task'[t].pc = "polling" =>
           task'[t].left = IF t = "periodic" THEN Lights ELSE Targets(groups)
    ELSE \/ task'[t] = task[t]
         \/ \E n \in task[t].left :
              task'[t] = [task[t] EXCEPT !.left = @ \ {n}] /\ asked' = {n}
         \/ task[t].left = {} /\ (task'[t] = Sleeping \/ (t = "quick" /\ task'[t] = Ended))

LEMMA SkippedStep == ASSUME PollInv, Next PROVE NoLightSkipped
<1> USE DEF PollInv
<1>0. ASSUME UNCHANGED task PROVE NoLightSkipped
  BY <1>0 DEF NoLightSkipped
<1>1. task \in [Tasks -> [pc : {"none", "sleeping", "polling"}, left : SUBSET Lights]]
      /\ "quick" \in Tasks /\ "periodic" \in Tasks /\ Tasks = {"quick", "periodic"}
  BY DEF PollTypeOK, Tasks
<1>2. ASSUME NEW g, Dispatch(g) PROVE NoLightSkipped
  BY <1>1, <1>2 DEF Dispatch, NoLightSkipped, Ended, Sleeping
<1>3. CASE QuickTakes
  BY <1>1, <1>3 DEF QuickTakes, NoLightSkipped, Ended
<1>4. CASE PeriodicWakes
  BY <1>1, <1>4 DEF PeriodicWakes, NoLightSkipped
<1>5. ASSUME NEW t \in Tasks, AskNext(t) PROVE NoLightSkipped
  <2>1. task[t].pc = "polling"
    BY <1>5, HolderPolls DEF AskNext
  <2> QED BY <1>1, <1>5, <2>1 DEF AskNext, NoLightSkipped
<1>6. ASSUME NEW t \in Tasks, PassEnds(t) PROVE NoLightSkipped
  <2>1. task[t].pc = "polling"
    BY <1>6, HolderPolls DEF PassEnds
  <2> QED BY <1>1, <1>6, <2>1 DEF PassEnds, NoLightSkipped
<1>7. CASE Shutdown \/ LinkChanges
  BY <1>0, <1>7 DEF Shutdown, LinkChanges
<1>8. CASE PeriodicStopped \/ QuickStopped
  BY <1>8 DEF PeriodicStopped, QuickStopped, NoLightSkipped
<1> QED
  BY <1>0, <1>1, <1>2, <1>3, <1>4, <1>5, <1>6, <1>7, <1>8
  DEF Next, Press, Hear, Tick, Polls, PollNext, QuickStep, PeriodicPoll, pvars

(* A set of lights that is not empty has a first one. *)
LEMMA FirstLight ==
  ASSUME NEW S \in SUBSET Lights, S # {}
  PROVE  \E n \in S : \A m \in S : n <= m
<1> DEFINE R == OpToRel(<, Nat)
<1>1. S \subseteq Nat
  BY DEF Lights
<1>2. PICK n \in S : \A m \in S : <<m, n>> \notin R
  BY <1>1, WFMin, NatLessThanWellFounded
<1>3. ASSUME NEW m \in S PROVE n <= m
  <2>1. <<m, n>> \in Nat \X Nat
    BY <1>1
  <2>2. ~(<<m, n>>[1] < <<m, n>>[2])
    BY <1>2, <2>1 DEF OpToRel
  <2> QED BY <1>1, <2>2
<1> QED BY <1>3

(* The polls never deadlock: as long as shutdown has not come, the periodic poll is there, a   *)
(* press has a quick poll, and the task that holds _poll_lock can go on (coordinator.py        *)
(* 274-301 and 851-880).                                                                       *)
THEOREM PollsNeverStop == Spec => []NobodyIsStuck
<1>1. Init => Alive
  BY DEF Init, PollInit, Alive, Sleeping, Tasks
<1>2. IInv /\ IInv' /\ Alive /\ [Next]_vars => Alive'
  BY AliveStep DEF IInv, PollInv
<1>3. IInv /\ Alive => NobodyIsStuck
  <2> SUFFICES ASSUME IInv, Alive PROVE NobodyIsStuck
    OBVIOUS
  <2>1. ASSUME queue # <<>>
        PROVE  Head(queue) \in Tasks /\ task[Head(queue)].left \subseteq Lights
    BY <2>1 DEF IInv, PollInv, PollTypeOK
  <2>2. \A t \in Tasks : task[t].pc = "polling" <=> \E i \in DOMAIN queue : queue[i] = t
    BY DEF IInv, PollInv, Queued, Range
  <2> QED BY <2>1, <2>2, FirstLight DEF NobodyIsStuck
<1> QED BY <1>1, <1>2, <1>3, Inductive, PTL DEF Spec

(* Each pass of a poll asks every light it began with, one by one: neither a press nor the     *)
(* other poll, nor the link, makes it skip one (coordinator.py 851-880).                       *)
THEOREM EveryPassIsWhole == Spec => [][NoLightSkipped]_vars
<1>1. IInv /\ [Next]_vars => [NoLightSkipped]_vars
  BY SkippedStep DEF IInv
<1> QED BY <1>1, Inductive, PTL DEF Spec
-----------------------------------------------------------------------------
(* What comes of it.  Fairness is spelt out, because ENABLED is out of reach here. *)

(* WF_vars of PeriodicPoll and of QuickStep, by NobodyIsStuck and NoLightSkipped: whoever      *)
(* holds _poll_lock has finitely many lights to ask, and one task at most is before it.        *)
PassesFinish == task["periodic"].pc = "polling" ~> ~(task["periodic"].pc = "polling")

(* WF_vars(PeriodicWakes), with the states in which it can happen spelt out. *)
SleepsEnd ==
  \/ []<>~(task["periodic"].pc = "sleeping" /\ connected)
  \/ []<>(task["periodic"].pc = "polling")

(* As long as the link stays up every light is asked again and again, whatever presses come    *)
(* and however the quick poll gets in between (coordinator.py 851-880).                        *)
THEOREM PolledForEver == Spec /\ PassesFinish /\ SleepsEnd => LightsArePolled
<1> SUFFICES ASSUME NEW n \in Lights
             PROVE  Spec /\ PassesFinish /\ SleepsEnd =>
                      (<>[](connected /\ phase = "running") => []<>(n \in asked))
  BY DEF LightsArePolled
<1> DEFINE P == task["periodic"].pc = "polling"
           Due == n \in task["periodic"].left
           Up == connected /\ phase = "running"
<1>1. NobodyIsStuck /\ IInv /\ Up => P \/ task["periodic"].pc = "sleeping"
  BY DEF NobodyIsStuck, Alive, IInv, PollInv, PollTypeOK, Tasks
<1>2. [NoLightSkipped]_vars /\ Up /\ Up' /\ ~P /\ P' => Due'
  BY DEF NoLightSkipped, Tasks, vars
<1>3. IInv /\ [NoLightSkipped]_vars /\ Up /\ Up' /\ P /\ P' /\ Due => Due' \/ (n \in asked)'
  <2> SUFFICES ASSUME IInv, NoLightSkipped, phase' = phase, P, P', Due, ~Due'
               PROVE  n \in asked'
    BY DEF vars
  <2>1. task["periodic"] \in [pc : {"none", "sleeping", "polling"}, left : SUBSET Lights]
    BY DEF IInv, PollInv, PollTypeOK, Tasks
  <2>2. PICK m \in task["periodic"].left :
          /\ task'["periodic"] = [task["periodic"] EXCEPT !.left = @ \ {m}]
          /\ asked' = {m}
    BY DEF NoLightSkipped, Tasks, Sleeping
  <2>3. n = m
    BY <2>1, <2>2
  <2> QED  BY <2>2, <2>3
<1>4. IInv /\ [NoLightSkipped]_vars /\ Up /\ Up' /\ P /\ Due => P'
  BY DEF NoLightSkipped, Tasks, vars, IInv, PollInv, PollTypeOK
<1> HIDE DEF P, Due
<1> QED
  BY <1>1, <1>2, <1>3, <1>4, PollsNeverStop, EveryPassIsWhole, Inductive, PTL
  DEF PassesFinish, SleepsEnd, P
=============================================================================
