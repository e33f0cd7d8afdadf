----------------------------- MODULE ProxyFilter -----------------------------
(***************************************************************************)
(* The filter of the connected proxy: which addresses it forwards to us.   *)
(*                                                                         *)
(* Three kinds of task send it Proxy Configuration messages: the set-up of *)
(* a new link (Set Filter Type, wait for the Filter Status, and, when that *)
(* does not come, the accept-list fallback), refresh_filter after a remote *)
(* position joins or leaves "HA only", and the push of a rotated SRC.      *)
(* Only single messages are serialised, by _tx_lock, so the tasks          *)
(* interleave message by message, first come, first served.                *)
(*                                                                         *)
(* The proxy is external: it starts every link on an empty accept list, it *)
(* may ignore a reject list or not answer, and it keeps only so many       *)
(* addresses.  A write may raise although the link stays up; then the      *)
(* proxy may have got the message or not.                                  *)
(***************************************************************************)
EXTENDS Integers, Sequences, FiniteSets, Functions

CONSTANTS
  HA_ONLY_ADDRESS,             \* 0xFEFF
  Others,                      \* the groups and lamps, in the order of _filter_addresses
  PROXY_FILTER_MAX_ADDRESSES,  \* addresses one message holds
  Capacities,                  \* external: how many addresses a proxy keeps
  NarrowWindows,               \* environment: a link may drop in the 50 ms between a write and
                               \* the statement after it, and a sender may wait for its turn
                               \* longer than the two seconds and more a reconnect takes
  MaxRotations,                \* bound: rotations of the SRC
  MaxChanges                   \* bound: changes of the "HA only" positions

ASSUME FilterAssumption ==
  /\ HA_ONLY_ADDRESS \in Nat /\ Others \in Seq(Nat)
  /\ PROXY_FILTER_MAX_ADDRESSES \in Nat \ {0}
  /\ Capacities \subseteq Nat \ {0}
  /\ NarrowWindows \in BOOLEAN
  /\ MaxRotations \in Nat /\ MaxChanges \in Nat

VARIABLES
  link,       \* "down"; "trying": _client is up and its beacon awaited; "up"
  proxy,      \* external: [type, list, room, honours]
  mode,       \* filter_mode: "none", "all", "accept"
  confirmed,  \* last_filter_status is that of an empty reject list
  src,        \* session.src, by number
  haOnly,     \* _ha_only_filtered
  recorded,   \* _filter_addresses
  setup,      \* _setup_proxy_filter: [at, rest], rest still to be added
  refresh,    \* refresh_filter, under _filter_refresh_lock: [at, rest]
  waiting,    \* refresh tasks that have not got that lock
  pushes,     \* the SRCs whose push task has not begun
  queue,      \* who waits for _tx_lock: [task, addr], addr for a push
  changes,    \* counter for MaxChanges
  missed      \* history: a write failed since the filter of this link was last set up

tasks == <<setup, refresh, waiting, pushes, queue>>
addrs == <<src, haOnly, recorded, changes>>
ours  == <<src, haOnly, recorded, changes, missed>>
vars  == <<link, proxy, mode, confirmed, src, haOnly, recorded, setup, refresh, waiting,
           pushes, queue, changes, missed>>

Done        == [at |-> "none", rest |-> <<>>]
At(place)   == [at |-> place, rest |-> <<>>]
IsConnected == link # "down"

(* _tx_lock *)
Turn(task, addr) == [task |-> task, addr |-> addr]
OurTurn(task)    == queue # <<>> /\ Head(queue).task = task
Enqueue(task)    == queue' = Append(queue, Turn(task, 0))

(* _filter_addresses() *)
FilterAddresses(s, only) == <<s>> \o (IF only THEN <<HA_ONLY_ADDRESS>> ELSE <<>>) \o Others

(* Mutant: only a connected proxy needs to know. *)
RecordIfConnected(s, only) ==
  recorded' = IF IsConnected THEN FilterAddresses(s, only) ELSE recorded

(* set_filter_addresses(self._filter_addresses()) *)
Record(s, only) == recorded' = FilterAddresses(s, only)

-----------------------------------------------------------------------------
(* The proxy *)

FreshProxies ==
  [type : {"accept"}, list : {{}}, room : Capacities, honours : BOOLEAN]

SetFilterType(type) ==
  proxy' = IF type = "accept" \/ proxy.honours
           THEN [proxy EXCEPT !.type = type, !.list = {}]
           ELSE proxy

Kept(addresses, n) == proxy.list \cup Range(SubSeq(addresses, 1, n))

(* New addresses are kept in order, as long as there is room. *)
AddAddresses(addresses) ==
  \E n \in 0..Len(addresses) :
    /\ Cardinality(Kept(addresses, n)) <= proxy.room
    /\ n < Len(addresses) => Cardinality(Kept(addresses, n + 1)) > proxy.room
    /\ proxy' = [proxy EXCEPT !.list = Kept(addresses, n)]

Forwards(a) == IF proxy.type = "reject" THEN a \notin proxy.list ELSE a \in proxy.list

-----------------------------------------------------------------------------
(* The link *)

NobodySending == refresh = Done /\ waiting = 0 /\ pushes = {} /\ queue = <<>>

Connect ==
  /\ link = "down" /\ setup = Done
  /\ NarrowWindows \/ NobodySending
  /\ link' = "trying" /\ proxy' \in FreshProxies
  /\ UNCHANGED <<mode, confirmed, ours, tasks>>

(* The link drops, or the candidate is torn down. *)
Drop ==
  /\ IsConnected
  /\ NarrowWindows \/ ~(setup.at = "accepted" \/ (setup.at = "waiting" /\ confirmed))
  /\ link' = "down" /\ mode' = "none"
  /\ UNCHANGED <<proxy, confirmed, ours, tasks>>

-----------------------------------------------------------------------------
(* add_filter_addresses: one message per chunk. *)
Chunk(list) == SubSeq(list, 1, IF Len(list) < PROXY_FILTER_MAX_ADDRESSES
                               THEN Len(list) ELSE PROXY_FILTER_MAX_ADDRESSES)
After(list) == SubSeq(list, PROXY_FILTER_MAX_ADDRESSES + 1, Len(list))

AfterChunk(task) ==
  IF After(task.rest) = <<>> THEN Done ELSE [task EXCEPT !.rest = After(task.rest)]

(* What is left queues up again. *)
Requeue(task) ==
  queue' = IF After(task.rest) = <<>> THEN Tail(queue) ELSE Append(Tail(queue), Head(queue))

-----------------------------------------------------------------------------
(* _setup_proxy_filter *)

(* Mutant: the status of the last link still counts. *)
StatusKept == confirmed

StatusAtStart == FALSE

SetupBegins ==
  /\ link = "trying" /\ link' = "up"
  /\ setup' = At("reject")
  /\ mode' = "none" /\ confirmed' = StatusAtStart
  /\ missed' = FALSE
  /\ Enqueue("setup")
  /\ UNCHANGED <<proxy, addrs, refresh, waiting, pushes>>

(* A task without a link gets ConnectionError. *)
SetupFails ==
  /\ OurTurn("setup") /\ ~IsConnected
  /\ setup' = Done /\ queue' = Tail(queue)
  /\ UNCHANGED <<link, proxy, mode, confirmed, ours, refresh, waiting, pushes>>

(* The write raises on a live link: _try_connect_device logs it, and the link stays. *)
SetupRaises ==
  /\ OurTurn("setup") /\ IsConnected
  /\ \/ UNCHANGED proxy
     \/ setup.at \in {"reject", "accept"} /\ SetFilterType(setup.at)
     \/ setup.at = "adding" /\ AddAddresses(Chunk(setup.rest))
  /\ missed' = TRUE
  /\ setup' = Done /\ queue' = Tail(queue)
  /\ UNCHANGED <<link, mode, confirmed, addrs, refresh, waiting, pushes>>

SetReject ==
  /\ OurTurn("setup") /\ setup.at = "reject" /\ IsConnected
  /\ SetFilterType("reject")
  /\ setup' = At("waiting") /\ queue' = Tail(queue)
  /\ UNCHANGED <<link, mode, confirmed, ours, refresh, waiting, pushes>>

(* _handle_proxy_config: the Filter Status of the reject list, if the proxy sends one. *)
StatusArrives ==
  /\ setup.at = "waiting" /\ IsConnected /\ ~confirmed
  /\ proxy.type = "reject" /\ proxy.list = {}
  /\ confirmed' = TRUE
  /\ UNCHANGED <<link, proxy, mode, ours, tasks>>

(* The status event, or two seconds. *)
WaitEnds ==
  /\ setup.at = "waiting"
  /\ IF confirmed
     THEN mode' = "all" /\ setup' = Done /\ UNCHANGED queue
     ELSE UNCHANGED mode /\ setup' = At("accept") /\ Enqueue("setup")
  /\ UNCHANGED <<link, proxy, confirmed, ours, refresh, waiting, pushes>>

SetAccept ==
  /\ OurTurn("setup") /\ setup.at = "accept" /\ IsConnected
  /\ SetFilterType("accept")
  /\ setup' = At("accepted") /\ queue' = Tail(queue)
  /\ UNCHANGED <<link, mode, confirmed, ours, refresh, waiting, pushes>>

SetupLists ==
  /\ setup.at = "accepted"
  /\ mode' = "accept"
  /\ setup' = [at |-> "adding", rest |-> recorded] /\ Enqueue("setup")
  /\ UNCHANGED <<link, proxy, confirmed, ours, refresh, waiting, pushes>>

SetupAdds ==
  /\ OurTurn("setup") /\ setup.at = "adding" /\ IsConnected
  /\ AddAddresses(Chunk(setup.rest))
  /\ setup' = AfterChunk(setup) /\ Requeue(setup)
  /\ UNCHANGED <<link, mode, confirmed, ours, refresh, waiting, pushes>>

-----------------------------------------------------------------------------
(* refresh_filter *)

(* _on_remote_config_change: the first position becomes "HA only", or the last one stops
   being it. *)
ConfigChange ==
  /\ changes < MaxChanges /\ changes' = changes + 1
  /\ haOnly' = ~haOnly
  /\ Record(src, ~haOnly)
  /\ waiting' = IF IsConnected THEN waiting + 1 ELSE waiting
  /\ UNCHANGED <<link, proxy, mode, confirmed, src, setup, refresh, pushes, queue, missed>>

RefreshBegins ==
  /\ waiting > 0 /\ refresh = Done
  /\ waiting' = waiting - 1
  /\ IF mode = "accept"
     THEN refresh' = At("set") /\ Enqueue("refresh")
     ELSE UNCHANGED <<refresh, queue>>
  /\ UNCHANGED <<link, proxy, mode, confirmed, ours, setup, pushes>>

RefreshFails ==
  /\ OurTurn("refresh") /\ ~IsConnected
  /\ refresh' = Done /\ queue' = Tail(queue)
  /\ UNCHANGED <<link, proxy, mode, confirmed, ours, setup, waiting, pushes>>

(* The write raises on a live link, and what the list was is gone. *)
RefreshRaises ==
  /\ OurTurn("refresh") /\ IsConnected
  /\ \/ UNCHANGED proxy
     \/ refresh.at = "set" /\ SetFilterType("accept")
     \/ refresh.at = "adding" /\ AddAddresses(Chunk(refresh.rest))
  /\ missed' = TRUE
  /\ refresh' = Done /\ queue' = Tail(queue)
  /\ UNCHANGED <<link, mode, confirmed, addrs, setup, waiting, pushes>>

RefreshSets ==
  /\ OurTurn("refresh") /\ refresh.at = "set" /\ IsConnected
  /\ SetFilterType("accept")
  /\ missed' = FALSE
  /\ refresh' = At("list") /\ queue' = Tail(queue)
  /\ UNCHANGED <<link, mode, confirmed, addrs, setup, waiting, pushes>>

RefreshLists ==
  /\ refresh.at = "list"
  /\ IF mode = "accept"
     THEN refresh' = [at |-> "adding", rest |-> recorded] /\ Enqueue("refresh")
     ELSE refresh' = Done /\ UNCHANGED queue
  /\ UNCHANGED <<link, proxy, mode, confirmed, ours, setup, waiting, pushes>>

RefreshAdds ==
  /\ OurTurn("refresh") /\ refresh.at = "adding" /\ IsConnected
  /\ AddAddresses(Chunk(refresh.rest))
  /\ refresh' = AfterChunk(refresh) /\ Requeue(refresh)
  /\ UNCHANGED <<link, mode, confirmed, ours, setup, waiting, pushes>>

-----------------------------------------------------------------------------
(* A rotated SRC *)

(* Mutant: the set-up adds the list itself. *)
PushesUnlessSetup == IsConnected /\ setup = Done

PushesNow == IsConnected

(* _on_src_rotated, under _seq_lock: the address is recorded, and pushed by a task. *)
Rotate ==
  /\ src <= MaxRotations
  /\ src' = src + 1
  /\ Record(src + 1, haOnly)
  /\ pushes' = IF PushesNow THEN pushes \cup {src + 1} ELSE pushes
  /\ UNCHANGED <<link, proxy, mode, confirmed, haOnly, setup, refresh, waiting, queue,
                 changes, missed>>

(* Mutant: it is only one address. *)
AddsAnyway == TRUE

AddsNow == mode = "accept"

PushBegins(addr) ==
  /\ pushes' = pushes \ {addr}
  /\ queue' = IF AddsNow THEN Append(queue, Turn("push", addr)) ELSE queue
  /\ UNCHANGED <<link, proxy, mode, confirmed, ours, setup, refresh, waiting>>

PushSends ==
  /\ OurTurn("push")
  /\ \/ IsConnected /\ AddAddresses(<<Head(queue).addr>>) /\ missed' \in {missed, TRUE}
     \/ UNCHANGED proxy /\ missed' = (missed \/ IsConnected)
  /\ queue' = Tail(queue)
  /\ UNCHANGED <<link, mode, confirmed, addrs, setup, refresh, waiting, pushes>>

-----------------------------------------------------------------------------
Init ==
  /\ link = "down" /\ proxy \in FreshProxies
  /\ mode = "none" /\ confirmed = FALSE
  /\ src = 1 /\ haOnly \in BOOLEAN /\ recorded = FilterAddresses(src, haOnly)
  /\ setup = Done /\ refresh = Done /\ waiting = 0 /\ pushes = {} /\ queue = <<>>
  /\ changes = 0 /\ missed = FALSE

Setup ==
  \/ SetupBegins \/ SetupFails \/ SetupRaises \/ SetReject \/ StatusArrives \/ WaitEnds
  \/ SetAccept \/ SetupLists \/ SetupAdds

Refresh ==
  \/ RefreshBegins \/ RefreshFails \/ RefreshRaises \/ RefreshSets \/ RefreshLists
  \/ RefreshAdds

Push == PushSends \/ \E addr \in pushes : PushBegins(addr)

Next == Connect \/ Drop \/ Setup \/ Refresh \/ Push \/ ConfigChange \/ Rotate

Spec == Init /\ [][Next]_vars

-----------------------------------------------------------------------------
(* Properties *)

Srcs      == 1..(MaxRotations + 1)
Addresses == Srcs \cup {HA_ONLY_ADDRESS} \cup Range(Others)
Lists     == {SubSeq(FilterAddresses(s, only), n, Len(FilterAddresses(s, only))) :
                s \in Srcs, only \in BOOLEAN, n \in 1..(Len(Others) + 3)}

(* Every variable stays in its domain; a proxy is never given more than it keeps, and what
   is still to be added is the end of a list that was recorded. *)
TypeOK ==
  /\ link \in {"down", "trying", "up"}
  /\ proxy \in [type : {"accept", "reject"}, list : SUBSET Addresses, room : Capacities,
                honours : BOOLEAN]
  /\ Cardinality(proxy.list) <= proxy.room
  /\ mode \in {"none", "all", "accept"} /\ confirmed \in BOOLEAN
  /\ src \in Srcs /\ haOnly \in BOOLEAN /\ recorded = FilterAddresses(src, haOnly)
  /\ setup \in [at : {"none", "reject", "waiting", "accept", "accepted", "adding"}, rest : Lists]
  /\ refresh \in [at : {"none", "set", "list", "adding"}, rest : Lists]
  /\ changes \in 0..MaxChanges /\ waiting \in 0..changes
  /\ pushes \subseteq Srcs /\ missed \in BOOLEAN
  /\ queue \in Seq([task : {"setup", "refresh"}, addr : {0}] \cup [task : {"push"}, addr : Srcs])

(* Nothing is ever added to a reject list: that would block the address, and the lamps'
   replies with it (gatt.py:1402-1405, 1456-1458). *)
NeverBlocks == proxy.type = "reject" => proxy.list = {}

(* filter_mode tells what the connected proxy does: "all" only once it has confirmed on this
   link, "accept" only while it runs our accept list, and nothing while there is no link
   (gatt.py:587-590).  Every later decision to add or not to add rests on it. *)
ModeIsTheProxys ==
  /\ mode = "all" => IsConnected /\ proxy.type = "reject"
  /\ mode = "accept" => IsConnected /\ proxy.type = "accept"

Settled == link = "up" /\ setup = Done /\ NobodySending

(* Once the tasks are done, whatever their messages did in between, a proxy that has the room
   forwards every address we are interested in: the SRC that is in use now, "HA only" presses,
   the groups.  A message that failed is made up for by the next refresh of an accept list. *)
InterestingIsForwarded ==
  Settled /\ ~missed /\ proxy.room >= Cardinality(Addresses)
    => \A a \in Range(recorded) : Forwards(a)

(* Status replies to the SRC in use reach us, whatever the proxy has room for
   (coordinator.py:576). *)
RepliesReachUs == Settled /\ ~missed => Forwards(src)
=============================================================================
