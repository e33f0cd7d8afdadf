------------------------------ MODULE ProxyLink ------------------------------
(***************************************************************************)
(* MeshProxyConnection's one GATT link: who opens it, what drops it, how   *)
(* it comes back, and how it is given up when the entry is unloaded.       *)
(*                                                                         *)
(* The heartbeat (and set-up) refresh, the auto-reconnect task, the state  *)
(* poll and commands all end in connect_any, which tries the candidates    *)
(* one after the other under _connect_lock; disconnect() and the           *)
(* disconnected callback do not take that lock.  Every await is a state of *)
(* its own, so a drop or a cancellation may come at any of them; ending    *)
(* the last link in disconnect() is one step.  What is sent over the link  *)
(* is the subject of ProxyFilter.                                          *)
(***************************************************************************)
EXTENDS Integers

CONSTANT MaxCandidates  \* bound: proxies one scan may find

ASSUME LinkAssumption == MaxCandidates \in Nat \ {0}

VARIABLES
  client,         \* _client: "none", "up", or "down" (is_connected is False)
  attempt,        \* the holder of _connect_lock: [by, at, left], see Idle
  loose,          \* a link the attempt has established and not yet put in _client
  disconnecting,  \* _user_disconnecting
  wasFlagging,    \* was_flagging of _teardown_active
  reconnect,      \* _reconnect_task: "none" (or done), "sleeping", "trying"
  polling,        \* a poll of the lights is under way
  pump,           \* _rx_task is running
  closing,        \* where async_shutdown and disconnect() are
  available       \* the coordinator's availability of its nodes

link == <<client, loose>>
flag == <<disconnecting, wasFlagging>>
vars == <<client, attempt, loose, disconnecting, wasFlagging, reconnect, polling, pump,
          closing, available>>

Callers  == {"refresh", "reconnect", "poll", "command"}
Idle     == [by |-> "none", at |-> "none", left |-> 0]
LockFree == attempt = Idle
At(place) == attempt.at = place

(* is_connected *)
IsConnected == client = "up"

-----------------------------------------------------------------------------
(* The disconnected callback *)

(* The link is gone: without the flag, and without a task that is already at it, a
   reconnect is started. *)
OnDisconnected ==
  reconnect' = IF ~disconnecting /\ reconnect = "none" THEN "sleeping" ELSE reconnect

(* The proxy, or the radio, ends a link. *)
Drop ==
  /\ client = "up" /\ client' = "down"
  /\ OnDisconnected
  /\ UNCHANGED <<attempt, loose, flag, polling, pump, closing, available>>

(* The same for a link that has not reached _client yet. *)
DropLoose ==
  /\ loose = "up" /\ loose' = "down"
  /\ OnDisconnected
  /\ UNCHANGED <<client, attempt, flag, polling, pump, closing, available>>

(* client.disconnect() on a link: the callback comes before it returns. *)
DisconnectedByUs(state) ==
  IF state = "up" THEN OnDisconnected ELSE UNCHANGED reconnect

-----------------------------------------------------------------------------
(* connect_any *)

(* Mutant: the lock is taken, the link is not looked at again. *)
NeedsNoCheck == TRUE

(* Mutant: a client that has lost its link still counts. *)
NeedsClient == client = "none"

NeedsLink == ~IsConnected

(* A task that disconnect() is cancelling does not get any further. *)
Runs(by) == ~(by = "reconnect" /\ closing = "reconnect")

(* The entry's own poll has ended before it closes; a heartbeat or a command may be late. *)
MayConnect(by) == Runs(by) /\ (by = "poll" => closing = "no")

(* Mutant: only good news is passed on. *)
ReturnGoodNews(by, ok) ==
  /\ available' = (available \/ (ok /\ by \in {"refresh", "reconnect"}))
  /\ reconnect' = IF by = "reconnect" THEN "none" ELSE reconnect

(* What the caller does with the result, before any other task runs.  The heartbeat takes
   it for the availability; _auto_reconnect ends with _on_proxy_reconnect, which looks at
   the link itself. *)
Return(by, ok) ==
  /\ available' = CASE by = "refresh"   -> ok
                     [] by = "reconnect" -> IsConnected
                     [] OTHER            -> available
  /\ reconnect' = IF by = "reconnect" THEN "none" ELSE reconnect

(* Under the lock: there is a link already, or there is no transport, or nobody
   advertises our network, now or five seconds from now. *)
ConnectAtOnce(by) ==
  /\ LockFree /\ MayConnect(by)
  /\ Return(by, IsConnected)
  /\ UNCHANGED <<link, attempt, flag, polling, pump, closing>>

(* There are candidates. *)
ConnectBegins(by) ==
  /\ LockFree /\ MayConnect(by)
  /\ NeedsLink
  /\ \E n \in 1..MaxCandidates : attempt' = [by |-> by, at |-> "pick", left |-> n]
  /\ reconnect' = IF by = "reconnect" THEN "trying" ELSE reconnect
  /\ UNCHANGED <<link, flag, polling, pump, closing, available>>

Step(place) == At(place) /\ Runs(attempt.by)
GoTo(place) == attempt' = [attempt EXCEPT !.at = place]

(* Mutant: one more than was discovered. *)
HasCandidateAlways == attempt.left >= 0

HasCandidate == attempt.left > 0

Pick ==
  /\ Step("pick") /\ HasCandidate
  /\ attempt' = [attempt EXCEPT !.at = "establish", !.left = attempt.left - 1]
  /\ UNCHANGED <<link, flag, reconnect, polling, pump, closing, available>>

GiveUp ==
  /\ Step("pick") /\ ~HasCandidate
  /\ attempt' = Idle
  /\ Return(attempt.by, FALSE)
  /\ UNCHANGED <<link, flag, polling, pump, closing>>

EstablishFails ==
  /\ Step("establish")
  /\ GoTo("pick")
  /\ UNCHANGED <<link, flag, reconnect, polling, pump, closing, available>>

Established ==
  /\ Step("establish")
  /\ GoTo("notify") /\ loose' = "up"
  /\ UNCHANGED <<client, flag, reconnect, polling, pump, closing, available>>

(* No proxy characteristics, or start_notify raises: client.disconnect() without the flag. *)
NotifyFails ==
  /\ Step("notify")
  /\ GoTo("pick") /\ loose' = "none"
  /\ DisconnectedByUs(loose)
  /\ UNCHANGED <<client, flag, polling, pump, closing, available>>

Notified ==
  /\ Step("notify") /\ loose = "up"
  /\ GoTo("beacon")
  /\ client' = "up" /\ loose' = "none" /\ pump' = TRUE
  /\ UNCHANGED <<flag, reconnect, polling, closing, available>>

(* A Secure Network Beacon: a real proxy, even if its link has ended in the meantime. *)
BeaconHeard ==
  /\ Step("beacon") /\ pump
  /\ GoTo("filter")
  /\ UNCHANGED <<link, flag, reconnect, polling, pump, closing, available>>

(* Five seconds of silence: _teardown_active, up to its await. *)
BeaconMissing ==
  /\ Step("beacon")
  /\ GoTo("teardown")
  /\ wasFlagging' = disconnecting /\ disconnecting' = TRUE
  /\ UNCHANGED <<link, reconnect, polling, pump, closing, available>>

(* Mutant: left set for the next time. *)
FlagAfterTeardownKept == TRUE

FlagAfterTeardown == wasFlagging

TornDown ==
  /\ Step("teardown")
  /\ GoTo("pick")
  /\ DisconnectedByUs(client)
  /\ client' = "none"
  /\ disconnecting' = FlagAfterTeardown
  /\ UNCHANGED <<loose, wasFlagging, polling, pump, closing, available>>

(* The filter is set up, or that failed: connected either way. *)
FilterDone ==
  /\ Step("filter")
  /\ attempt' = Idle
  /\ Return(attempt.by, TRUE)
  /\ UNCHANGED <<link, flag, polling, pump, closing>>

Progress ==
  \/ Pick \/ GiveUp \/ EstablishFails \/ Established \/ NotifyFails \/ Notified
  \/ BeaconHeard \/ BeaconMissing \/ TornDown \/ FilterDone

-----------------------------------------------------------------------------
(* The tasks that connect *)

(* _async_update_data: a heartbeat, or the end of async_setup. *)
Refresh == ConnectAtOnce("refresh") \/ ConnectBegins("refresh")

(* It looks before it takes the lock: a link that is still being tried will do. *)
RefreshSeesLink ==
  /\ MayConnect("refresh") /\ IsConnected
  /\ available' = TRUE
  /\ UNCHANGED <<link, attempt, flag, reconnect, polling, pump, closing>>

(* _auto_reconnect after its two seconds. *)
ReconnectWakes ==
  /\ reconnect = "sleeping" /\ Runs("reconnect")
  /\ reconnect' = IF disconnecting \/ IsConnected THEN "none" ELSE "trying"
  /\ UNCHANGED <<link, attempt, flag, polling, pump, closing, available>>

ReconnectTries ==
  /\ reconnect = "trying" /\ attempt.by # "reconnect"
  /\ ConnectAtOnce("reconnect") \/ ConnectBegins("reconnect")

(* _poll_nodes_locked: skipped without a link, but each Get it sends may have to connect. *)
PollBegins ==
  /\ closing = "no" /\ ~polling /\ IsConnected
  /\ polling' = TRUE
  /\ UNCHANGED <<link, attempt, flag, reconnect, pump, closing, available>>

PollConnects == polling /\ ConnectBegins("poll")

PollEnds ==
  /\ polling /\ attempt.by # "poll"
  /\ polling' = FALSE
  /\ UNCHANGED <<link, attempt, flag, reconnect, pump, closing, available>>

(* A light is switched: send_access. *)
CommandConnects == ConnectBegins("command")

-----------------------------------------------------------------------------
(* Cancellation, and disconnect() *)

(* The attempt's task is cancelled at the await it is in.  A link in _client stays there
   for disconnect() to close; a loose one is let go, and nobody closes it; the teardown's
   finally runs. *)
AttemptCancelled ==
  /\ attempt' = Idle
  /\ loose' = "none"
  /\ disconnecting' = IF At("teardown") THEN FlagAfterTeardown ELSE disconnecting

(* async_shutdown cancels the poll and waits for it; the link is next. *)
Unload ==
  /\ closing = "no"
  /\ closing' = "begun"
  /\ polling' = FALSE
  /\ IF attempt.by = "poll"
     THEN AttemptCancelled
     ELSE UNCHANGED <<attempt, loose, disconnecting>>
  /\ UNCHANGED <<client, wasFlagging, reconnect, pump, available>>

(* disconnect(), up to the await of the reconnect task it cancels. *)
DisconnectBegins ==
  /\ closing = "begun"
  /\ disconnecting' = TRUE
  /\ closing' = IF reconnect # "none" THEN "reconnect" ELSE "pump"
  /\ UNCHANGED <<link, attempt, wasFlagging, reconnect, polling, pump, available>>

ReconnectCancelled ==
  /\ closing = "reconnect"
  /\ closing' = "pump"
  /\ reconnect' = "none"
  /\ IF attempt.by = "reconnect"
     THEN AttemptCancelled
     ELSE UNCHANGED <<attempt, loose, disconnecting>>
  /\ UNCHANGED <<client, wasFlagging, polling, pump, available>>

(* The pump and the acknowledgments in flight are cancelled. *)
PumpStopped ==
  /\ closing = "pump"
  /\ closing' = "client" /\ pump' = FALSE
  /\ UNCHANGED <<link, attempt, flag, reconnect, polling, available>>

ClientDisconnected ==
  /\ closing = "client"
  /\ closing' = "closed"
  /\ DisconnectedByUs(client)
  /\ client' = "none"
  /\ disconnecting' = FALSE
  /\ UNCHANGED <<attempt, loose, wasFlagging, polling, pump, available>>

-----------------------------------------------------------------------------
Init ==
  /\ client = "none" /\ attempt = Idle /\ loose = "none"
  /\ disconnecting = FALSE /\ wasFlagging = FALSE
  /\ reconnect = "none" /\ polling = FALSE /\ pump = FALSE
  /\ closing = "no" /\ available = FALSE

Next ==
  \/ Drop \/ DropLoose
  \/ Progress
  \/ Refresh \/ RefreshSeesLink
  \/ ReconnectWakes \/ ReconnectTries
  \/ PollBegins \/ PollConnects \/ PollEnds
  \/ CommandConnects
  \/ Unload \/ DisconnectBegins \/ ReconnectCancelled \/ PumpStopped \/ ClientDisconnected

Spec == Init /\ [][Next]_vars

(* Every await of an attempt ends, by its timeout at the latest; timers fire: the
   heartbeat comes round, the reconnect wakes; and _connect_lock is first come, first
   served, so whoever waits for it gets it. *)
Fairness ==
  /\ WF_vars(Progress) /\ WF_vars(PollEnds)
  /\ WF_vars(ReconnectWakes) /\ SF_vars(ReconnectTries) /\ SF_vars(Refresh)

FairSpec == Spec /\ Fairness

-----------------------------------------------------------------------------
(* Properties *)

Places   == {"pick", "establish", "notify", "beacon", "teardown", "filter"}
Attempts == {Idle} \cup [by : Callers, at : Places, left : 0..MaxCandidates]

(* Every variable stays in its domain; a loose link has an attempt that holds it, and
   outside disconnect() the reconnect task and its attempt know of each other. *)
TypeOK ==
  /\ client \in {"none", "up", "down"} /\ loose \in {"none", "up", "down"}
  /\ attempt \in Attempts
  /\ disconnecting \in BOOLEAN /\ wasFlagging \in BOOLEAN
  /\ reconnect \in {"none", "sleeping", "trying"}
  /\ polling \in BOOLEAN /\ pump \in BOOLEAN /\ available \in BOOLEAN
  /\ closing \in {"no", "begun", "reconnect", "pump", "client", "closed"}
  /\ loose # "none" => At("notify")
  /\ attempt.by = "reconnect" => reconnect = "trying"

(* However many tasks ask for it at once, there is never a second GATT link: a proxy node
   accepts few of them, and the first would go on delivering into the same buffer. *)
OneLink == ~(client = "up" /\ loose = "up")

(* The flag is only ever up during a teardown or a disconnect(); left up by mistake it would
   silently switch auto-reconnect off for good. *)
FlagIsTemporary == disconnecting => At("teardown") \/ closing \notin {"no", "begun"}

(* While disconnect() is in flight, and has dealt with the reconnect task, the disconnected
   callback starts no other (gatt.py:600-601). *)
NoReconnectOnceClosing == closing \in {"pump", "client"} => reconnect = "none"

(* A proxy stays in range: heartbeats find it, and trying it again and again succeeds. *)
ProxyInRange ==
  /\ SF_vars(ConnectBegins("refresh")) /\ SF_vars(Established)
  /\ SF_vars(Notified) /\ SF_vars(BeaconHeard)

(* A lost link comes back while the entry is loaded and a proxy is in range, whatever the
   lost link was in the middle of: by the auto-reconnect, or failing that by a heartbeat. *)
LinkComesBack == ProxyInRange => (client # "up" ~> (client = "up" \/ closing # "no"))

(* The entities do not stay available over a link that is gone, nor unavailable over one
   that works, whichever task found out and however the others' answers overtook it. *)
AvailabilitySettles ==
  \A up \in BOOLEAN :
    (IsConnected = up /\ available # up) ~> (available = up \/ IsConnected # up \/ closing # "no")
=============================================================================
