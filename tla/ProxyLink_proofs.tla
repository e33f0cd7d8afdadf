-------------------------- MODULE ProxyLink_proofs --------------------------
(***************************************************************************)
(* ProxyLink for any number of candidates: its domains, that there is      *)
(* never a second link, that the _user_disconnecting flag is only up while *)
(* something is being disconnected, that attempts to connect end and a     *)
(* lost link is sought; and what comes of that in the end, from the        *)
(* fairness of the tasks.                                                  *)
(***************************************************************************)
EXTENDS ProxyLink, TLAPS

(* An attempt that has not put a link in _client found none there, and nobody else puts
   one there: _connect_lock. *)
NoLinkYet == client = "up" => attempt.at \notin {"pick", "establish", "notify"}

(* What a teardown will restore was up only if disconnect() had put it up. *)
SavedFlag == At("teardown") /\ wasFlagging => closing \notin {"no", "begun"}

IInv == TypeOK /\ NoLinkYet /\ FlagIsTemporary /\ SavedFlag

-----------------------------------------------------------------------------
(* Attempts *)

(* An attempt is idle, or one of a caller at a place. *)
LEMMA AttemptCases ==
  ASSUME NEW a \in Attempts
  PROVE  \/ a = Idle
         \/ /\ a \in [by : Callers, at : Places, left : 0..MaxCandidates]
            /\ a.by \in Callers /\ a.at \in Places /\ a.left \in 0..MaxCandidates
BY SMT DEF Attempts

(* Idle is nowhere. *)
LEMMA IdleFields == Idle.by = "none" /\ Idle.at = "none" /\ Idle \in Attempts
BY DEF Idle, Attempts

(* Moving an attempt that is somewhere keeps it an attempt of the same caller. *)
LEMMA Moved ==
  ASSUME NEW a \in Attempts, a.at \in Places, NEW p \in Places
  PROVE  /\ [a EXCEPT !.at = p] \in Attempts
         /\ [a EXCEPT !.at = p].at = p
         /\ [a EXCEPT !.at = p].by = a.by
<1>1. a # Idle
  BY IdleFields, "none" \notin Places DEF Places
<1>2. a \in [by : Callers, at : Places, left : 0..MaxCandidates]
  BY <1>1, AttemptCases
<1> QED  BY <1>2, SMT DEF Attempts

-----------------------------------------------------------------------------
(* The inductive invariant *)

(* A fresh coordinator has no link, no attempt and no flag. *)
LEMMA InitInv == Init => IInv
<1> SUFFICES ASSUME Init PROVE IInv
  OBVIOUS
<1> USE DEF Init
<1>1. TypeOK
  BY IdleFields DEF TypeOK, At
<1>2. NoLinkYet /\ FlagIsTemporary /\ SavedFlag
  BY IdleFields DEF NoLinkYet, FlagIsTemporary, SavedFlag, At
<1> QED  BY <1>1, <1>2 DEF IInv

(* The disconnected callback leaves the reconnect task in its domain, and a task at work
   stays at work. *)
LEMMA CallbackInv ==
  ASSUME TypeOK, OnDisconnected
  PROVE  /\ reconnect' \in {"none", "sleeping", "trying"}
         /\ reconnect = "trying" => reconnect' = "trying"
BY Zenon DEF TypeOK, OnDisconnected

LEMMA ByUsInv ==
  ASSUME TypeOK, NEW state, DisconnectedByUs(state)
  PROVE  /\ reconnect' \in {"none", "sleeping", "trying"}
         /\ reconnect = "trying" => reconnect' = "trying"
<1>1. CASE state = "up"
  BY <1>1, CallbackInv DEF DisconnectedByUs
<1>2. CASE state # "up"
  BY <1>2 DEF DisconnectedByUs, TypeOK
<1> QED  BY <1>1, <1>2

(* What a caller does with its result keeps the domains. *)
LEMMA ReturnInv ==
  ASSUME TypeOK, NEW by, NEW ok \in BOOLEAN, Return(by, ok)
  PROVE  /\ available' \in BOOLEAN
         /\ reconnect' \in {"none", "sleeping", "trying"}
<1>1. available' \in BOOLEAN
  <2>1. CASE by = "refresh"  BY <2>1, Zenon DEF Return
  <2>2. CASE by = "reconnect"
    BY <2>2, "reconnect" # "refresh", Zenon DEF Return, IsConnected
  <2>3. CASE by \notin {"refresh", "reconnect"}
    BY <2>3, Zenon DEF Return, TypeOK
  <2> QED  BY <2>1, <2>2, <2>3
<1>2. reconnect' \in {"none", "sleeping", "trying"}
  BY Zenon DEF Return, TypeOK
<1> QED  BY <1>1, <1>2

(* An attempt begins where there is no link. *)
LEMMA BeginsInv ==
  ASSUME IInv, NEW by \in Callers, ConnectBegins(by), by = "reconnect" => reconnect = "trying"
  PROVE  IInv'
<1>1. PICK n \in 1..MaxCandidates : attempt' = [by |-> by, at |-> "pick", left |-> n]
  BY DEF ConnectBegins
<1>2. /\ attempt' \in Attempts /\ attempt'.at = "pick" /\ attempt'.by = by
  BY <1>1, LinkAssumption, SMT DEF Attempts, Places
<1>3. UNCHANGED <<client, loose, disconnecting, wasFlagging, polling, pump, closing, available>>
  BY DEF ConnectBegins, link, flag
<1>4. attempt.at = "none" /\ client # "up"
  BY IdleFields DEF ConnectBegins, LockFree, NeedsLink, IsConnected
<1>5. reconnect' \in {"none", "sleeping", "trying"} /\ (by = "reconnect" => reconnect' = "trying")
  BY Zenon DEF ConnectBegins, IInv, TypeOK
<1>6. loose = "none"
  BY <1>4 DEF IInv, TypeOK, At
<1>7. TypeOK'
  BY <1>2, <1>3, <1>5, <1>6, Zenon DEF IInv, TypeOK, At
<1>8. ~disconnecting \/ closing \notin {"no", "begun"}
  BY <1>4 DEF IInv, FlagIsTemporary, At
<1>9. NoLinkYet' /\ FlagIsTemporary' /\ SavedFlag'
  BY <1>2, <1>3, <1>4, <1>8 DEF NoLinkYet, FlagIsTemporary, SavedFlag, At
<1> QED  BY <1>7, <1>9 DEF IInv

(* A caller that is answered at once changes nothing else. *)
LEMMA AtOnceInv ==
  ASSUME IInv, NEW by, ConnectAtOnce(by)
  PROVE  IInv'
<1>1. UNCHANGED <<client, loose, attempt, disconnecting, wasFlagging, polling, pump, closing>>
  BY DEF ConnectAtOnce, link, flag
<1>2. /\ available' \in BOOLEAN /\ reconnect' \in {"none", "sleeping", "trying"}
  BY ReturnInv DEF ConnectAtOnce, IInv, IsConnected
<1>3. attempt.by # "reconnect"
  BY IdleFields DEF ConnectAtOnce, LockFree
<1>4. TypeOK'
  BY <1>1, <1>2, <1>3, Zenon DEF IInv, TypeOK, At
<1>5. NoLinkYet' /\ FlagIsTemporary' /\ SavedFlag'
  BY <1>1 DEF IInv, NoLinkYet, FlagIsTemporary, SavedFlag, At
<1> QED  BY <1>4, <1>5 DEF IInv

(* Each await of an attempt ends with the invariant. *)
LEMMA ProgressInv ==
  ASSUME IInv, Progress
  PROVE  IInv'
<1> USE DEF Step, At
<1>1. CASE Pick
  <2>1. attempt.at = "pick" /\ attempt.left > 0
    BY <1>1 DEF Pick, HasCandidate
  <2>2. /\ attempt \in [by : Callers, at : Places, left : 0..MaxCandidates]
        /\ attempt.left \in 0..MaxCandidates
    BY <2>1, AttemptCases, IdleFields DEF IInv, TypeOK
  <2>3. attempt.left - 1 \in 0..MaxCandidates
    BY <2>1, <2>2, LinkAssumption
  <2>4. /\ attempt' \in Attempts /\ attempt'.at = "establish" /\ attempt'.by = attempt.by
    <3>1. attempt' = [by |-> attempt.by, at |-> "establish", left |-> attempt.left - 1]
      BY <1>1, <2>2 DEF Pick
    <3>2. attempt.by \in Callers
      BY <2>2
    <3> QED  BY <2>3, <3>1, <3>2 DEF Attempts, Places
  <2>5. UNCHANGED <<client, loose, disconnecting, wasFlagging, reconnect, polling, pump, closing,
                    available>>
    BY <1>1 DEF Pick, link, flag
  <2>6. loose = "none" /\ client # "up" /\ (~disconnecting \/ closing \notin {"no", "begun"})
    BY <2>1 DEF IInv, TypeOK, NoLinkYet, FlagIsTemporary
  <2>7. TypeOK'
    BY <2>4, <2>5, <2>6, Zenon DEF IInv, TypeOK
  <2>8. NoLinkYet' /\ FlagIsTemporary' /\ SavedFlag'
    BY <2>4, <2>5, <2>6 DEF NoLinkYet, FlagIsTemporary, SavedFlag
  <2> QED  BY <2>7, <2>8 DEF IInv
<1>2. CASE GiveUp \/ FilterDone
  <2>1. PICK ok \in BOOLEAN : Return(attempt.by, ok)
    BY <1>2 DEF GiveUp, FilterDone
  <2>2. /\ attempt' = Idle /\ attempt.at \in {"pick", "filter"}
        /\ UNCHANGED <<client, loose, disconnecting, wasFlagging, polling, pump, closing>>
    BY <1>2 DEF GiveUp, FilterDone, link, flag
  <2>3. /\ available' \in BOOLEAN /\ reconnect' \in {"none", "sleeping", "trying"}
    BY <2>1, ReturnInv DEF IInv
  <2>4. loose = "none" /\ (~disconnecting \/ closing \notin {"no", "begun"})
    BY <2>2 DEF IInv, TypeOK, FlagIsTemporary
  <2>5. TypeOK'
    BY <2>2, <2>3, <2>4, IdleFields, Zenon DEF IInv, TypeOK
  <2>6. NoLinkYet' /\ FlagIsTemporary' /\ SavedFlag'
    BY <2>2, <2>4, IdleFields DEF NoLinkYet, FlagIsTemporary, SavedFlag
  <2> QED  BY <2>5, <2>6 DEF IInv
<1>3. CASE EstablishFails \/ Established \/ NotifyFails \/ Notified
  <2>1. PICK p \in Places : /\ attempt' = [attempt EXCEPT !.at = p]
                            /\ \/ p = "pick" /\ (EstablishFails \/ NotifyFails)
                               \/ p = "notify" /\ Established
                               \/ p = "beacon" /\ Notified
    BY <1>3 DEF EstablishFails, Established, NotifyFails, Notified, GoTo, Places
  <2>2. attempt.at \in {"establish", "notify"} /\ attempt \in Attempts
    BY <1>3 DEF EstablishFails, Established, NotifyFails, Notified, IInv, TypeOK
  <2>3. /\ attempt' \in Attempts /\ attempt'.at = p /\ attempt'.by = attempt.by
    BY <2>1, <2>2, Moved DEF Places
  <2>4. UNCHANGED <<disconnecting, wasFlagging, polling, closing, available>>
    BY <1>3 DEF EstablishFails, Established, NotifyFails, Notified, flag
  <2>5. /\ reconnect' \in {"none", "sleeping", "trying"}
        /\ reconnect = "trying" => reconnect' = "trying"
    <3>1. CASE NotifyFails  BY <3>1, ByUsInv DEF NotifyFails, IInv
    <3>2. CASE ~NotifyFails
      BY <1>3, <3>2 DEF EstablishFails, Established, Notified, IInv, TypeOK
    <3> QED  BY <3>1, <3>2
  <2>6. client # "up" /\ (~disconnecting \/ closing \notin {"no", "begun"})
    BY <2>2 DEF IInv, NoLinkYet, FlagIsTemporary
  <2>7. /\ pump' \in BOOLEAN
        /\ client' \in {"none", "up", "down"} /\ loose' \in {"none", "up", "down"}
        /\ loose' # "none" => p = "notify"
        /\ client' = "up" => p = "beacon"
    <3>1. CASE p = "pick" /\ EstablishFails
      BY <2>2, <2>6, <3>1 DEF EstablishFails, link, IInv, TypeOK
    <3>2. CASE p = "notify" /\ Established
      BY <2>6, <3>2 DEF Established, IInv, TypeOK
    <3>3. CASE p = "pick" /\ NotifyFails
      BY <2>6, <3>3 DEF NotifyFails, IInv, TypeOK
    <3>4. CASE p = "beacon" /\ Notified
      BY <3>4 DEF Notified
    <3> QED  BY <2>1, <3>1, <3>2, <3>3, <3>4
  <2>8. TypeOK'
    BY <2>3, <2>4, <2>5, <2>7, Zenon DEF IInv, TypeOK
  <2>9. NoLinkYet' /\ FlagIsTemporary' /\ SavedFlag'
    BY <2>1, <2>3, <2>4, <2>6, <2>7 DEF NoLinkYet, FlagIsTemporary, SavedFlag
  <2> QED  BY <2>8, <2>9 DEF IInv
<1>4. CASE BeaconHeard \/ BeaconMissing
  <2>1. PICK p \in Places : /\ attempt' = [attempt EXCEPT !.at = p]
                            /\ p \in {"filter", "teardown"}
                            /\ p = "filter" => UNCHANGED <<disconnecting, wasFlagging>>
                            /\ p = "teardown" => wasFlagging' = disconnecting /\ disconnecting'
    BY <1>4 DEF BeaconHeard, BeaconMissing, GoTo, Places, flag
  <2>2. attempt.at = "beacon" /\ attempt \in Attempts
    BY <1>4 DEF BeaconHeard, BeaconMissing, IInv, TypeOK
  <2>3. /\ attempt' \in Attempts /\ attempt'.at = p /\ attempt'.by = attempt.by
    BY <2>1, <2>2, Moved DEF Places
  <2>4. UNCHANGED <<client, loose, reconnect, polling, pump, closing, available>>
    BY <1>4 DEF BeaconHeard, BeaconMissing, link, flag
  <2>5. loose = "none" /\ (~disconnecting \/ closing \notin {"no", "begun"})
    BY <2>2 DEF IInv, TypeOK, FlagIsTemporary
  <2>6. disconnecting' \in BOOLEAN /\ wasFlagging' \in BOOLEAN
    BY <1>4 DEF BeaconHeard, BeaconMissing, flag, IInv, TypeOK
  <2>7. TypeOK'
    BY <2>3, <2>4, <2>5, <2>6, Zenon DEF IInv, TypeOK
  <2>8. NoLinkYet' /\ FlagIsTemporary' /\ SavedFlag'
    BY <2>1, <2>3, <2>4, <2>5 DEF NoLinkYet, FlagIsTemporary, SavedFlag
  <2> QED  BY <2>7, <2>8 DEF IInv
<1>5. CASE TornDown
  <2>1. attempt.at = "teardown" /\ attempt \in Attempts
    BY <1>5 DEF TornDown, IInv, TypeOK
  <2>2. /\ attempt' \in Attempts /\ attempt'.at = "pick" /\ attempt'.by = attempt.by
    BY <1>5, <2>1, Moved DEF TornDown, GoTo, Places
  <2>3. /\ client' = "none" /\ disconnecting' = wasFlagging
        /\ UNCHANGED <<loose, wasFlagging, polling, pump, closing, available>>
    BY <1>5 DEF TornDown, FlagAfterTeardown
  <2>4. /\ reconnect' \in {"none", "sleeping", "trying"}
        /\ reconnect = "trying" => reconnect' = "trying"
    BY <1>5, ByUsInv DEF TornDown, IInv
  <2>5. loose = "none" /\ (wasFlagging => closing \notin {"no", "begun"})
    BY <2>1 DEF IInv, TypeOK, SavedFlag
  <2>6. TypeOK'
    BY <2>2, <2>3, <2>4, <2>5, Zenon DEF IInv, TypeOK
  <2>7. NoLinkYet' /\ FlagIsTemporary' /\ SavedFlag'
    BY <2>2, <2>3, <2>5 DEF NoLinkYet, FlagIsTemporary, SavedFlag
  <2> QED  BY <2>6, <2>7 DEF IInv
<1> QED  BY <1>1, <1>2, <1>3, <1>4, <1>5 DEF Progress

(* The tasks that connect keep the invariant. *)
LEMMA ConnectInv ==
  ASSUME IInv, \/ Refresh \/ RefreshSeesLink \/ ReconnectWakes \/ ReconnectTries
               \/ PollBegins \/ PollConnects \/ PollEnds \/ CommandConnects
  PROVE  IInv'
<1>1. CASE Refresh
  BY <1>1, AtOnceInv, BeginsInv DEF Refresh, Callers
<1>2. CASE ReconnectTries
  BY <1>2, AtOnceInv, BeginsInv DEF ReconnectTries, Callers
<1>3. CASE PollConnects \/ CommandConnects
  BY <1>3, BeginsInv DEF PollConnects, CommandConnects, Callers
<1>4. CASE RefreshSeesLink \/ ReconnectWakes \/ PollBegins \/ PollEnds
  <2>1. UNCHANGED <<client, loose, attempt, disconnecting, wasFlagging, pump, closing>>
    BY <1>4 DEF RefreshSeesLink, ReconnectWakes, PollBegins, PollEnds, link, flag
  <2>2. /\ available' \in BOOLEAN /\ polling' \in BOOLEAN
        /\ reconnect' \in {"none", "sleeping", "trying"}
    BY <1>4, Zenon DEF RefreshSeesLink, ReconnectWakes, PollBegins, PollEnds, IInv, TypeOK
  <2>3. attempt.by = "reconnect" => reconnect' = "trying"
    BY <1>4, "trying" # "sleeping"
    DEF RefreshSeesLink, ReconnectWakes, PollBegins, PollEnds, IInv, TypeOK
  <2>4. TypeOK'
    BY <2>1, <2>2, <2>3, Zenon DEF IInv, TypeOK, At
  <2>5. NoLinkYet' /\ FlagIsTemporary' /\ SavedFlag'
    BY <2>1 DEF IInv, NoLinkYet, FlagIsTemporary, SavedFlag, At
  <2> QED  BY <2>4, <2>5 DEF IInv
<1> QED  BY <1>1, <1>2, <1>3, <1>4

(* So does a link that is lost. *)
LEMMA DropInv ==
  ASSUME IInv, Drop \/ DropLoose
  PROVE  IInv'
<1>1. UNCHANGED <<attempt, disconnecting, wasFlagging, polling, pump, closing, available>>
  BY DEF Drop, DropLoose, flag
<1>2. /\ reconnect' \in {"none", "sleeping", "trying"}
      /\ reconnect = "trying" => reconnect' = "trying"
  BY CallbackInv DEF Drop, DropLoose, IInv
<1>3. /\ client' \in {"none", "up", "down"} /\ loose' \in {"none", "up", "down"}
      /\ client' = "up" => client = "up"
      /\ loose' # "none" => loose # "none"
  BY DEF Drop, DropLoose, IInv, TypeOK
<1>4. TypeOK'
  BY <1>1, <1>2, <1>3, Zenon DEF IInv, TypeOK, At
<1>5. NoLinkYet' /\ FlagIsTemporary' /\ SavedFlag'
  BY <1>1, <1>3 DEF IInv, NoLinkYet, FlagIsTemporary, SavedFlag, At
<1> QED  BY <1>4, <1>5 DEF IInv

(* And every step of unloading: a teardown that is cancelled restores what it saved, and
   until disconnect() has begun that is FALSE. *)
LEMMA ClosingInv ==
  ASSUME IInv, \/ Unload \/ DisconnectBegins \/ ReconnectCancelled \/ PumpStopped
               \/ ClientDisconnected
  PROVE  IInv'
<1> USE DEF At
<1>1. /\ wasFlagging' = wasFlagging /\ available' = available
      /\ pump' \in BOOLEAN /\ polling' \in BOOLEAN /\ disconnecting' \in BOOLEAN
  BY DEF Unload, DisconnectBegins, ReconnectCancelled, PumpStopped, ClientDisconnected, flag,
         AttemptCancelled, FlagAfterTeardown, IInv, TypeOK
<1>2. closing' \in {"begun", "reconnect", "pump", "client", "closed"}
  BY DEF Unload, DisconnectBegins, ReconnectCancelled, PumpStopped, ClientDisconnected
<1>3. closing' = "begun" => closing = "no" /\ Unload
  BY DEF Unload, DisconnectBegins, ReconnectCancelled, PumpStopped, ClientDisconnected
<1>4. /\ client' \in {client, "none"}
      /\ \/ attempt' = Idle /\ loose' = "none"
         \/ attempt' = attempt /\ loose' = loose
  BY DEF Unload, DisconnectBegins, ReconnectCancelled, PumpStopped, ClientDisconnected,
         AttemptCancelled, link
<1>5. /\ reconnect' \in {"none", "sleeping", "trying"}
      /\ attempt'.by = "reconnect" => attempt' = attempt /\ reconnect' = "trying"
  <2>1. CASE ReconnectCancelled
    BY <2>1, IdleFields DEF ReconnectCancelled, AttemptCancelled
  <2>2. CASE ClientDisconnected
    BY <2>2, ByUsInv DEF ClientDisconnected, IInv, TypeOK
  <2>3. CASE Unload \/ DisconnectBegins \/ PumpStopped
    BY <2>3, <1>4, IdleFields DEF Unload, DisconnectBegins, PumpStopped, IInv, TypeOK
  <2> QED  BY <2>1, <2>2, <2>3
<1>6. TypeOK'
  <2>1. /\ client' \in {"none", "up", "down"} /\ loose' \in {"none", "up", "down"}
        /\ attempt' \in Attempts /\ (loose' # "none" => attempt'.at = "notify")
    BY <1>4, IdleFields DEF IInv, TypeOK
  <2> QED  BY <1>1, <1>2, <1>5, <2>1, Zenon DEF IInv, TypeOK
<1>7. NoLinkYet'
  BY <1>4, IdleFields, "none" # "up" DEF IInv, NoLinkYet
<1>8. FlagIsTemporary'
  <2>1. CASE closing' = "begun"
    <3>1. ~disconnecting \/ attempt.at = "teardown"
      BY <1>3, <2>1 DEF IInv, FlagIsTemporary
    <3>2. attempt.at = "teardown" => ~wasFlagging
      BY <1>3, <2>1 DEF IInv, SavedFlag
    <3>3. CASE attempt.by = "poll"
      BY <1>3, <2>1, <3>1, <3>2, <3>3
      DEF Unload, AttemptCancelled, FlagAfterTeardown, FlagIsTemporary
    <3>4. CASE attempt.by # "poll"
      BY <1>3, <2>1, <3>1, <3>4 DEF Unload, FlagIsTemporary
    <3> QED  BY <3>3, <3>4
  <2>2. CASE closing' # "begun"
    BY <1>2, <2>2 DEF FlagIsTemporary
  <2> QED  BY <2>1, <2>2
<1>9. SavedFlag'
  <2>1. CASE closing' = "begun"
    BY <1>1, <1>3, <1>4, <2>1, IdleFields DEF IInv, SavedFlag
  <2>2. CASE closing' # "begun"
    BY <1>2, <2>2 DEF SavedFlag
  <2> QED  BY <2>1, <2>2
<1> QED  BY <1>6, <1>7, <1>8, <1>9 DEF IInv

(* Every step keeps the invariant. *)
LEMMA NextInv == IInv /\ [Next]_vars => IInv'
<1> SUFFICES ASSUME IInv, [Next]_vars PROVE IInv'
  OBVIOUS
<1>1. CASE Next
  BY <1>1, DropInv, ProgressInv, ConnectInv, ClosingInv DEF Next
<1>2. CASE UNCHANGED vars
  BY <1>2 DEF vars, IInv, TypeOK, NoLinkYet, FlagIsTemporary, SavedFlag, At
<1> QED  BY <1>1, <1>2

-----------------------------------------------------------------------------
(* Theorems *)

(* In every behaviour the connection keeps the inductive invariant. *)
THEOREM Inductive == Spec => []IInv
BY InitInv, NextInv, PTL DEF Spec

(* Every variable stays in its domain, a loose link has an attempt that holds it, and an
   attempt of the reconnect task has a reconnect task (gatt.py:835-914, 1016-1050). *)
THEOREM TypeCorrect == Spec => []TypeOK
<1>1. IInv => TypeOK
  BY DEF IInv
<1> QED  BY <1>1, Inductive, PTL

(* However many tasks ask for it at once, connect_any never opens a second GATT link while
   one is up (gatt.py:645-717). *)
THEOREM NeverASecondLink == Spec => []OneLink
<1>1. IInv => OneLink
  BY DEF IInv, TypeOK, NoLinkYet, OneLink, At
<1> QED  BY <1>1, Inductive, PTL

(* _user_disconnecting is only ever up during a teardown or a disconnect(): auto-reconnect
   is never switched off for good (gatt.py:975-995, 1052-1080). *)
THEOREM FlagComesDown == Spec => []FlagIsTemporary
<1>1. IInv => FlagIsTemporary
  BY DEF IInv
<1> QED  BY <1>1, Inductive, PTL
-----------------------------------------------------------------------------
(* An attempt ends, and a lost link is sought *)

(* An attempt of the poll is there only as long as the poll is, and start_notify is only
   awaited for a link. *)
HandsOver ==
  /\ attempt.by = "poll" => closing = "no"
  /\ At("notify") => loose # "none"

GInv == IInv /\ HandsOver

(* The awaits an attempt has still ahead of it for the candidate it is at. *)
Ahead(place) ==
  CASE place = "establish"            -> 4
    [] place = "notify"               -> 3
    [] place = "beacon"               -> 2
    [] place \in {"teardown", "filter"} -> 1
    [] OTHER                          -> 0

(* And for those it has not tried yet. *)
StepsLeft(a) == 5 * a.left + Ahead(a.at)

(* The candidates have all been tried, or one is connected. *)
Through == (At("pick") /\ attempt.left = 0) \/ At("filter")

(* Unloading ends an attempt of the poll or of the reconnect task. *)
Stopped ==
  \/ attempt.by = "poll" /\ closing = "no" /\ closing' = "begun"
  \/ attempt.by = "reconnect" /\ closing = "reconnect" /\ closing' = "pump"

(* A step of anyone leaves an attempt where it is, takes it on, or ends it for a reason; its
   own step does not leave it where it is. *)
Goes ==
  ~LockFree =>
    \/ attempt' = attempt /\ ~Progress
    \/ attempt'.by = attempt.by /\ StepsLeft(attempt') < StepsLeft(attempt)
    \/ attempt' = Idle /\ (Through \/ Stopped)

(* The conditions under which an attempt has a step to take. *)
CanGoOn ==
  \/ At("pick") \/ At("establish") \/ At("beacon") \/ At("teardown") \/ At("filter")
  \/ At("notify") /\ loose # "none"

(* Whoever holds _connect_lock has a step to take, or is about to be cancelled. *)
NobodyIsStuck == ~LockFree => IF Runs(attempt.by) THEN CanGoOn ELSE closing = "reconnect"

(* A link that is lost, and not by disconnect(), is sought: by the reconnect task, or by
   the attempt that has torn it down. *)
LostIsSought ==
  IsConnected /\ ~IsConnected' /\ closing = "no" => reconnect' # "none" \/ attempt'.by # "none"

(* A reconnect task that tries does so until it has an answer, which the availability then
   is, or is cancelled. *)
TriesToTheEnd ==
  reconnect = "trying" /\ reconnect' # "trying" =>
    /\ reconnect' = "none"
    /\ closing = "reconnect" \/ available' = IsConnected

(* An attempt that has been moved to another place. *)
LEMMA MovedOn ==
  ASSUME NEW a \in Attempts, a.at \in Places, NEW p \in Places, Ahead(p) < Ahead(a.at)
  PROVE  StepsLeft([a EXCEPT !.at = p]) < StepsLeft(a)
<1>1. a \in [by : Callers, at : Places, left : 0..MaxCandidates] /\ a.left \in Nat
  <2>1. a # Idle
    BY IdleFields, "none" \notin Places DEF Places
  <2>2. a \in [by : Callers, at : Places, left : 0..MaxCandidates] /\ a.left \in 0..MaxCandidates
    BY <2>1, AttemptCases
  <2> QED  BY <2>2
<1>2. [a EXCEPT !.at = p].at = p /\ [a EXCEPT !.at = p].left = a.left
  BY <1>1
<1>3. Ahead(p) \in Nat /\ Ahead(a.at) \in Nat
  BY DEF Ahead
<1> QED  BY <1>1, <1>2, <1>3 DEF StepsLeft

(* What an attempt's own step does with it. *)
LEMMA ProgressGoes ==
  ASSUME IInv, Progress
  PROVE  /\ ~LockFree /\ Runs(attempt.by)
         /\ \/ attempt'.by = attempt.by /\ StepsLeft(attempt') < StepsLeft(attempt)
            \/ attempt' = Idle /\ Through
         /\ attempt' # attempt
<1> USE DEF Step, At
<1>A. attempt \in Attempts
  BY DEF IInv, TypeOK
<1>1. attempt.at \in Places /\ ~LockFree /\ Runs(attempt.by)
  BY IdleFields
  DEF Progress, Pick, GiveUp, EstablishFails, Established, NotifyFails, Notified, BeaconHeard,
      BeaconMissing, TornDown, FilterDone, Places, LockFree
<1>2. attempt \in [by : Callers, at : Places, left : 0..MaxCandidates] /\ attempt.left \in Nat
  <2>1. /\ attempt \in [by : Callers, at : Places, left : 0..MaxCandidates]
        /\ attempt.left \in 0..MaxCandidates
    BY <1>1, <1>A, AttemptCases DEF LockFree
  <2> QED  BY <2>1
<1>3. CASE GiveUp \/ FilterDone
  <2>1. GiveUp => attempt.left = 0
    BY <1>2 DEF GiveUp, HasCandidate
  <2>2. attempt' = Idle /\ Through
    BY <1>3, <2>1 DEF GiveUp, FilterDone, Through
  <2> QED  BY <1>1, <2>2 DEF LockFree
<1>4. CASE Pick
  <2>1. /\ attempt.left > 0 /\ attempt.at = "pick"
        /\ attempt' = [by |-> attempt.by, at |-> "establish", left |-> attempt.left - 1]
    BY <1>2, <1>4 DEF Pick, HasCandidate
  <2>2. /\ attempt'.by = attempt.by /\ attempt'.at = "establish"
        /\ attempt'.left = attempt.left - 1
    BY <2>1
  <2>3. Ahead(attempt.at) = 0 /\ Ahead(attempt'.at) = 4
    BY <2>1, <2>2 DEF Ahead
  <2>4. StepsLeft(attempt') < StepsLeft(attempt)
    BY <1>2, <2>1, <2>2, <2>3 DEF StepsLeft
  <2> QED  BY <1>1, <2>1, <2>2, <2>4
<1>5. CASE \/ EstablishFails \/ Established \/ NotifyFails \/ Notified
           \/ BeaconHeard \/ BeaconMissing \/ TornDown
  <2>1. PICK p \in Places : attempt' = [attempt EXCEPT !.at = p] /\ Ahead(p) < Ahead(attempt.at)
    BY <1>5
    DEF EstablishFails, Established, NotifyFails, Notified, BeaconHeard, BeaconMissing, TornDown,
        GoTo, Places, Ahead
  <2>2. attempt'.by = attempt.by /\ attempt'.at = p
    BY <1>1, <1>A, <2>1, Moved
  <2>3. StepsLeft(attempt') < StepsLeft(attempt)
    BY <1>1, <1>A, <2>1, MovedOn
  <2>4. attempt' # attempt
    <3>1. Ahead(p) \in Nat /\ Ahead(p) < Ahead(attempt.at)
      BY <2>1 DEF Ahead
    <3>2. p # attempt.at
      BY <3>1
    <3> QED  BY <2>2, <3>2
  <2> QED  BY <1>1, <2>2, <2>3, <2>4
<1> QED  BY <1>1, <1>3, <1>4, <1>5 DEF Progress

(* Everyone else leaves a running attempt alone, or ends it when the entry is unloaded. *)
LEMMA OthersGo ==
  ASSUME IInv, [Next]_vars, ~Progress, ~LockFree
  PROVE  attempt' = attempt \/ (attempt' = Idle /\ Stopped)
<1>1. CASE Unload
  BY <1>1 DEF Unload, AttemptCancelled, Stopped
<1>2. CASE ReconnectCancelled
  BY <1>2 DEF ReconnectCancelled, AttemptCancelled, Stopped
<1>3. CASE ~Unload /\ ~ReconnectCancelled
  BY <1>3
  DEF Next, vars, Drop, DropLoose, Refresh, RefreshSeesLink, ReconnectWakes, ReconnectTries,
      PollBegins, PollConnects, PollEnds, CommandConnects, ConnectAtOnce, ConnectBegins,
      DisconnectBegins, PumpStopped, ClientDisconnected
<1> QED  BY <1>1, <1>2, <1>3

(* A poll's attempt is cancelled with the poll, and only Established awaits start_notify. *)
LEMMA HandsOverInv ==
  ASSUME GInv, [Next]_vars
  PROVE  HandsOver'
<1> USE DEF At
<1>1. attempt'.by = "poll" => closing' = "no"
  <2>1. CASE attempt' = attempt /\ closing' = closing
    BY <2>1 DEF GInv, HandsOver
  <2>2. CASE Progress
    <3>1. closing' = closing /\ attempt'.by \in {attempt.by, "none"}
      BY <2>2, ProgressGoes, IdleFields
      DEF GInv, Progress, Pick, GiveUp, EstablishFails, Established, NotifyFails, Notified,
          BeaconHeard, BeaconMissing, TornDown, FilterDone
    <3> QED  BY <3>1 DEF GInv, HandsOver
  <2>3. CASE \E by \in Callers : ConnectBegins(by)
    BY <2>3 DEF ConnectBegins, MayConnect
  <2>4. CASE Unload \/ DisconnectBegins \/ ReconnectCancelled \/ PumpStopped \/ ClientDisconnected
    BY <2>4, IdleFields
    DEF Unload, DisconnectBegins, ReconnectCancelled, PumpStopped, ClientDisconnected,
        AttemptCancelled, GInv, HandsOver
  <2>5. CASE \/ Drop \/ DropLoose \/ RefreshSeesLink \/ ReconnectWakes \/ PollBegins \/ PollEnds
             \/ (\E by \in Callers : ConnectAtOnce(by))
    BY <2>1, <2>5
    DEF Drop, DropLoose, RefreshSeesLink, ReconnectWakes, PollBegins, PollEnds, ConnectAtOnce
  <2> QED  BY <2>1, <2>2, <2>3, <2>4, <2>5
           DEF Next, vars, Refresh, ReconnectTries, PollConnects, CommandConnects, Callers
<1>2. attempt'.at = "notify" => loose' # "none"
  <2>1. CASE attempt' = attempt /\ (loose' = loose \/ loose' # "none")
    BY <2>1 DEF GInv, HandsOver
  <2>2. CASE Progress
    <3>1. CASE Established
      BY <3>1 DEF Established
    <3>2. CASE GiveUp \/ FilterDone
      BY <3>2, IdleFields DEF GiveUp, FilterDone
    <3>3. CASE Pick
      <4>1. attempt \in Attempts /\ attempt # Idle
        BY <3>3, IdleFields DEF Pick, Step, GInv, IInv, TypeOK
      <4>2. attempt \in [by : Callers, at : Places, left : 0..MaxCandidates]
        BY <4>1, AttemptCases
      <4> QED  BY <3>3, <4>2 DEF Pick
    <3>4. CASE EstablishFails \/ NotifyFails \/ Notified \/ BeaconHeard \/ BeaconMissing \/ TornDown
      <4>1. PICK p \in Places \ {"notify"} : attempt' = [attempt EXCEPT !.at = p]
        BY <3>4 DEF EstablishFails, NotifyFails, Notified, BeaconHeard, BeaconMissing, TornDown,
                    GoTo, Places
      <4>2. attempt.at \in Places /\ attempt \in Attempts
        BY <3>4 DEF EstablishFails, NotifyFails, Notified, BeaconHeard, BeaconMissing, TornDown,
                    Step, Places, GInv, IInv, TypeOK
      <4> QED  BY <4>1, <4>2, Moved
    <3> QED  BY <2>2, <3>1, <3>2, <3>3, <3>4 DEF Progress
  <2>3. CASE \E by \in Callers : ConnectBegins(by)
    BY <2>3 DEF ConnectBegins
  <2>4. CASE Unload \/ DisconnectBegins \/ ReconnectCancelled \/ PumpStopped \/ ClientDisconnected
    BY <2>1, <2>4, IdleFields
    DEF Unload, DisconnectBegins, ReconnectCancelled, PumpStopped, ClientDisconnected,
        AttemptCancelled, link
  <2>5. CASE \/ Drop \/ DropLoose \/ RefreshSeesLink \/ ReconnectWakes \/ PollBegins \/ PollEnds
             \/ (\E by \in Callers : ConnectAtOnce(by))
    BY <2>1, <2>5
    DEF Drop, DropLoose, RefreshSeesLink, ReconnectWakes, PollBegins, PollEnds, ConnectAtOnce, link
  <2> QED  BY <2>1, <2>2, <2>3, <2>4, <2>5
           DEF Next, vars, Refresh, ReconnectTries, PollConnects, CommandConnects, Callers
<1> QED  BY <1>1, <1>2 DEF HandsOver

(* In every behaviour attempts are handed over that way. *)
LEMMA GInductive == Spec => []GInv
<1>1. Init => GInv
  BY InitInv, IdleFields DEF Init, GInv, HandsOver, At
<1>2. GInv /\ [Next]_vars => GInv'
  BY NextInv, HandsOverInv DEF GInv
<1> QED  BY <1>1, <1>2, PTL DEF Spec

(* connect_any always comes to an end, whatever happens to its link, its task and the entry
   meanwhile: every step it takes leaves it fewer, and nothing else sets it back
   (gatt.py:645-717). *)
THEOREM AttemptsEnd == Spec => [][Goes]_vars
<1>1. IInv /\ [Next]_vars => Goes
  BY ProgressGoes, OthersGo DEF Goes
<1> QED  BY <1>1, Inductive, PTL DEF Spec

(* Nobody waits for _connect_lock in vain: its holder can always go on, or has been
   cancelled and lets it go (gatt.py:645-717, 1052-1063). *)
THEOREM HolderGoesOn == Spec => []NobodyIsStuck
<1>1. GInv => NobodyIsStuck
  <2> SUFFICES ASSUME GInv, ~LockFree
               PROVE  IF Runs(attempt.by) THEN CanGoOn ELSE closing = "reconnect"
    BY DEF NobodyIsStuck
  <2>1. attempt.at \in Places
    BY AttemptCases DEF GInv, IInv, TypeOK, LockFree
  <2>2. CanGoOn
    BY <2>1 DEF CanGoOn, GInv, HandsOver, Places, At
  <2>3. ~Runs(attempt.by) => closing = "reconnect"
    BY DEF Runs
  <2> QED  BY <2>2, <2>3
<1> QED  BY <1>1, GInductive, PTL

(* While the entry is loaded a link is never lost without anybody after it: the callback
   has started a reconnect, or the teardown's attempt tries the next proxy
   (gatt.py:975-1014). *)
THEOREM LostLinkIsSought == Spec => [][LostIsSought]_vars
<1>1. IInv /\ [Next]_vars => LostIsSought
  <2> SUFFICES ASSUME IInv, [Next]_vars, client = "up", client' # "up", closing = "no"
               PROVE  reconnect' # "none" \/ attempt'.by # "none"
    BY DEF LostIsSought, IsConnected
  <2>1. Drop \/ TornDown
    BY DEF Next, vars, link, Drop, DropLoose, Progress, Pick, GiveUp, EstablishFails, Established,
           NotifyFails, Notified, BeaconHeard, BeaconMissing, TornDown, FilterDone, Refresh,
           RefreshSeesLink, ReconnectWakes, ReconnectTries, PollBegins, PollConnects, PollEnds,
           CommandConnects, ConnectAtOnce, ConnectBegins, Unload, DisconnectBegins,
           ReconnectCancelled, PumpStopped, ClientDisconnected
  <2>2. attempt # Idle => attempt.by \in Callers
    BY AttemptCases DEF IInv, TypeOK
  <2>3. CASE Drop /\ ~disconnecting
    BY <2>3 DEF Drop, OnDisconnected
  <2>4. CASE Drop /\ disconnecting
    <3>1. attempt.at = "teardown" /\ attempt' = attempt
      BY <2>4 DEF Drop, IInv, FlagIsTemporary, At
    <3> QED  BY <2>2, <3>1, IdleFields DEF Callers
  <2>5. CASE TornDown
    <3>1. attempt.at = "teardown" /\ attempt' = [attempt EXCEPT !.at = "pick"]
      BY <2>5 DEF TornDown, Step, GoTo, At
    <3>2. attempt'.by = attempt.by /\ attempt # Idle
      BY <3>1, Moved, IdleFields DEF IInv, TypeOK, Places
    <3> QED  BY <2>2, <3>2 DEF Callers
  <2> QED  BY <2>1, <2>3, <2>4, <2>5
<1> QED  BY <1>1, Inductive, PTL DEF Spec

(* An auto-reconnect that has begun to try ends with an answer, and what the entities then
   show is the link itself (gatt.py:1016-1050, coordinator.py:755-775). *)
THEOREM ReconnectAnswers == Spec => [][TriesToTheEnd]_vars
<1>1. IInv /\ [Next]_vars => TriesToTheEnd
  <2> SUFFICES ASSUME IInv, [Next]_vars, reconnect = "trying", reconnect' # "trying"
               PROVE  /\ reconnect' = "none"
                      /\ closing = "reconnect" \/ available' = IsConnected
    BY DEF TriesToTheEnd
  <2>1. ASSUME NEW state, DisconnectedByUs(state) PROVE FALSE
    BY <2>1, ByUsInv DEF IInv
  <2>2. ~OnDisconnected
    BY CallbackInv DEF IInv
  <2>3. CASE \E by, ok : Return(by, ok)
    <3>1. PICK by, ok : Return(by, ok)
      BY <2>3
    <3>2. by = "reconnect"
      BY <3>1, Zenon DEF Return
    <3> QED  BY <3>1, <3>2, "reconnect" # "refresh", Zenon DEF Return
  <2>4. CASE ReconnectCancelled
    BY <2>4 DEF ReconnectCancelled
  <2>5. CASE ~ReconnectCancelled /\ ~(\E by, ok : Return(by, ok))
    BY <2>1, <2>2, <2>5
    DEF Next, vars, Drop, DropLoose, Progress, Pick, GiveUp, EstablishFails, Established,
        NotifyFails, Notified, BeaconHeard, BeaconMissing, TornDown, FilterDone, Refresh,
        RefreshSeesLink, ReconnectWakes, ReconnectTries, PollBegins, PollConnects, PollEnds,
        CommandConnects, ConnectAtOnce, ConnectBegins, Unload, DisconnectBegins, PumpStopped,
        ClientDisconnected
  <2> QED  BY <2>3, <2>4, <2>5
<1> QED  BY <1>1, Inductive, PTL DEF Spec

-----------------------------------------------------------------------------
(* What comes of it *)

(* WF_vars(Progress), by AttemptsEnd and HolderGoesOn: whoever holds the lock is through
   with it some day, unless the entry is unloaded first. *)
AttemptsFinish == ~LockFree ~> (LockFree \/ closing # "no")

(* SF_vars(Refresh), with the states in which a heartbeat has something to tell spelt out. *)
HeartbeatsCome == []<>(LockFree /\ available # IsConnected) => []<><<Refresh>>_vars

(* ProxyInRange, spelt out: heartbeats that find no link find a proxy again and again, and
   trying it again and again succeeds. *)
AProxyIsFound ==
  /\ []<>(LockFree /\ ~IsConnected) => []<><<ConnectBegins("refresh")>>_vars
  /\ []<>(At("establish") /\ closing = "no") => []<><<Established>>_vars
  /\ []<>(At("notify") /\ loose = "up" /\ closing = "no") => []<><<Notified>>_vars

(* An attempt of the heartbeat that has no link yet. *)
Seeking == attempt.by = "refresh" /\ attempt.at \in {"pick", "establish", "notify"}

(* One that has not tried its first candidate yet. *)
Fresh == attempt.by = "refresh" /\ At("pick") /\ attempt.left > 0

(* While the entry is loaded an attempt of the heartbeat is left alone by all others. *)
LEMMA HeartbeatsOwn ==
  ASSUME IInv, [Next]_vars, ~Progress, attempt.by = "refresh"
  PROVE  attempt' = attempt
<1>1. ~LockFree /\ ~Stopped
  BY IdleFields DEF LockFree, Stopped
<1> QED  BY <1>1, OthersGo

(* It goes on until it has a link, or tells that there is none. *)
LEMMA SeekingStep ==
  ASSUME IInv, [Next]_vars, Seeking, closing = "no", closing' = "no"
  PROVE  Seeking' \/ client' = "up" \/ available' = FALSE
<1> USE DEF Seeking, Step, At
<1>1. CASE ~Progress
  BY <1>1, HeartbeatsOwn
<1>2. CASE Progress
  <2>1. attempt \in Attempts /\ attempt # Idle
    BY IdleFields DEF IInv, TypeOK
  <2>2. attempt \in [by : Callers, at : Places, left : 0..MaxCandidates]
    BY <2>1, AttemptCases
  <2>3. CASE Pick
    BY <2>2, <2>3 DEF Pick
  <2>4. CASE GiveUp
    BY <2>4, Zenon DEF GiveUp, Return
  <2>5. CASE EstablishFails \/ Established \/ NotifyFails
    BY <2>1, <2>2, <2>5, Moved DEF EstablishFails, Established, NotifyFails, GoTo, Places
  <2>6. CASE Notified
    BY <2>6 DEF Notified
  <2>7. ~(BeaconHeard \/ BeaconMissing \/ TornDown \/ FilterDone)
    BY DEF BeaconHeard, BeaconMissing, TornDown, FilterDone
  <2> QED  BY <1>2, <2>3, <2>4, <2>5, <2>6, <2>7 DEF Progress
<1> QED  BY <1>1, <1>2

(* A heartbeat tells what the link is, or seeks one. *)
LEMMA RefreshTells ==
  ASSUME IInv, Refresh
  PROVE  \/ Seeking' /\ ~IsConnected
         \/ available' = IsConnected /\ client' = client
<1>1. CASE ConnectAtOnce("refresh")
  BY <1>1, Zenon DEF ConnectAtOnce, Return, link
<1>2. CASE ConnectBegins("refresh")
  <2>1. PICK n \in 1..MaxCandidates : attempt' = [by |-> "refresh", at |-> "pick", left |-> n]
    BY <1>2 DEF ConnectBegins
  <2>2. attempt'.by = "refresh" /\ attempt'.at = "pick"
    BY <2>1
  <2>3. ~IsConnected
    BY <1>2 DEF ConnectBegins, NeedsLink
  <2> QED  BY <2>2, <2>3 DEF Seeking
<1> QED  BY <1>1, <1>2 DEF Refresh

(* What the entities show does not stay wrong: whichever task found out, and however the
   others' answers overtook it, the heartbeat has the last word (coordinator.py:776-800). *)
THEOREM AvailabilityIsSettled ==
  Spec /\ AttemptsFinish /\ HeartbeatsCome => AvailabilitySettles
<1> SUFFICES ASSUME NEW up \in BOOLEAN
             PROVE  Spec /\ AttemptsFinish /\ HeartbeatsCome =>
                      ((IsConnected = up /\ available # up)
                         ~> (available = up \/ IsConnected # up \/ closing # "no"))
  BY DEF AvailabilitySettles
<1> DEFINE Right == available = up \/ IsConnected # up \/ closing # "no"
<1>1. IInv /\ ~Right /\ <<Refresh>>_vars => Right' \/ Seeking'
  BY RefreshTells DEF IsConnected
<1>2. IInv /\ [Next]_vars /\ ~Right /\ Seeking => Seeking' \/ Right'
  <2> SUFFICES ASSUME IInv, [Next]_vars, ~Right, Seeking, ~Seeking', ~Right' PROVE FALSE
    OBVIOUS
  <2>1. client # "up" /\ up = FALSE
    BY DEF IInv, NoLinkYet, Seeking, IsConnected
  <2>2. client' = "up" \/ available' = FALSE
    BY SeekingStep
  <2> QED  BY <2>1, <2>2 DEF IsConnected
<1>3. Seeking => ~LockFree
  BY IdleFields DEF Seeking, LockFree
<1>4. IInv /\ ~Right => available # IsConnected
  OBVIOUS
<1> QED
  BY <1>1, <1>2, <1>3, <1>4, Inductive, PTL DEF Spec, AttemptsFinish, HeartbeatsCome

(* A lost link comes back while the entry is loaded and a proxy is in range
   (gatt.py:645-717, coordinator.py:776-800). *)
THEOREM LinkIsBack ==
  Spec /\ AttemptsFinish /\ AProxyIsFound => (client # "up" ~> (client = "up" \/ closing # "no"))
<1>1. <<ConnectBegins("refresh")>>_vars => Fresh'
  BY LinkAssumption DEF ConnectBegins, Fresh, At
<1>2. IInv /\ [Next]_vars /\ Fresh => Fresh' \/ At("establish")'
  <2> SUFFICES ASSUME IInv, [Next]_vars, Fresh PROVE Fresh' \/ At("establish")'
    OBVIOUS
  <2>1. CASE ~Progress
    BY <2>1, HeartbeatsOwn DEF Fresh, At
  <2>2. CASE Progress
    <3>1. attempt \in Attempts /\ attempt # Idle /\ attempt.at = "pick" /\ attempt.left > 0
      BY IdleFields DEF IInv, TypeOK, Fresh, At
    <3>2. attempt \in [by : Callers, at : Places, left : 0..MaxCandidates]
      BY <3>1, AttemptCases
    <3>3. Pick
      BY <2>2, <3>1
      DEF Progress, GiveUp, EstablishFails, Established, NotifyFails, Notified, BeaconHeard,
          BeaconMissing, TornDown, FilterDone, HasCandidate, Step, At
    <3> QED  BY <3>2, <3>3 DEF Pick, At
  <2> QED  BY <2>1, <2>2
<1>3. Fresh => ~LockFree
  BY IdleFields DEF Fresh, LockFree
<1>4. IInv /\ <<Established>>_vars => (At("notify") /\ loose = "up")'
  <2> SUFFICES ASSUME IInv, Established PROVE (At("notify") /\ loose = "up")'
    OBVIOUS
  <2>1. attempt.at = "establish" /\ attempt \in Attempts
    BY DEF Established, Step, At, IInv, TypeOK
  <2> QED  BY <2>1, Moved DEF Established, GoTo, Places, At
<1>5. <<Notified>>_vars => (client = "up")'
  BY DEF Notified
<1>6. IsConnected <=> client = "up"
  BY DEF IsConnected
<1>7. (client # "up" <=> ~(client = "up")) /\ (closing # "no" <=> ~(closing = "no"))
  OBVIOUS
<1> QED
  BY <1>1, <1>2, <1>3, <1>4, <1>5, <1>6, <1>7, Inductive, PTL
  DEF Spec, AttemptsFinish, AProxyIsFound

(* The same for a proxy that stays in range, as soon as that is to find it again and again:
   SF_vars of the steps, with the states in which they can happen spelt out. *)
THEOREM LostLinkComesBack ==
  Spec /\ AttemptsFinish /\ (ProxyInRange => AProxyIsFound) => LinkComesBack
BY LinkIsBack DEF LinkComesBack
=============================================================================
