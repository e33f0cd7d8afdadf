------------------------- MODULE ProxyFilter_proofs -------------------------
(***************************************************************************)
(* ProxyFilter for every list of addresses, every proxy, any number of     *)
(* rotations and changes, and writes that fail on a live link.  With the   *)
(* narrow windows closed nothing is ever added to a reject list,           *)
(* filter_mode tells what the proxy does, and what is of interest is       *)
(* forwarded once the tasks are done.                                      *)
(***************************************************************************)
EXTENDS ProxyFilter, FiniteSetTheorems, SequenceTheorems, TLAPS

SetupPlaces   == {"none", "reject", "waiting", "accept", "accepted", "adding"}
RefreshPlaces == {"none", "set", "list", "adding"}
Turns         == [task : {"setup", "refresh", "push"}, addr : Int]

(* What the proof needs of the domains. *)
Shape ==
  /\ link \in {"down", "trying", "up"} /\ mode \in {"none", "all", "accept"}
  /\ confirmed \in BOOLEAN
  /\ proxy = [type |-> proxy.type, list |-> proxy.list, room |-> proxy.room,
              honours |-> proxy.honours]
  /\ proxy.type \in {"accept", "reject"}
  /\ setup = [at |-> setup.at, rest |-> setup.rest] /\ setup.at \in SetupPlaces
  /\ refresh = [at |-> refresh.at, rest |-> refresh.rest] /\ refresh.at \in RefreshPlaces
  /\ src \in Int /\ pushes \subseteq Int
  /\ queue \in Seq(Turns)

OnlySetupQueues == \A i \in 1..Len(queue) : queue[i].task = "setup"

(* A refresh or a push that may still send something does so to an accept list: the mode was
   "accept" when it looked, and a set-up begins only when all of them are done. *)
SendersNeedAccept ==
  IsConnected /\ (refresh.at # "none" \/ ~OnlySetupQueues) => mode = "accept"

(* Where the set-up is, and what it knows there. *)
SetupKnows ==
  /\ mode = "accept" => setup.at \in {"none", "adding"}
  /\ mode = "all" => setup.at = "none"
  /\ setup.at = "accepted" => IsConnected
  /\ IsConnected /\ setup.at \in {"accepted", "adding"} => proxy.type = "accept"
  /\ link = "trying" => mode = "none" /\ setup.at = "none"
  /\ setup.at = "reject" => ~confirmed
  /\ setup.at = "waiting" /\ confirmed => IsConnected /\ proxy.type = "reject"

IInv == Shape /\ NeverBlocks /\ ModeIsTheProxys /\ SendersNeedAccept /\ SetupKnows

-----------------------------------------------------------------------------
(* The queue *)

(* Taking the head off the queue, or adding the set-up, brings no other sender into it. *)
LEMMA TailOnlySetup ==
  ASSUME queue \in Seq(Turns), queue # <<>>, queue' = Tail(queue)
  PROVE  queue' \in Seq(Turns) /\ (OnlySetupQueues => OnlySetupQueues')
BY DEF OnlySetupQueues

LEMMA AppendSetup ==
  ASSUME queue \in Seq(Turns), Enqueue("setup")
  PROVE  queue' \in Seq(Turns) /\ (OnlySetupQueues => OnlySetupQueues')
<1>1. Turn("setup", 0) \in Turns /\ Turn("setup", 0).task = "setup"
  BY DEF Turn, Turns
<1> QED  BY <1>1 DEF Enqueue, OnlySetupQueues

LEMMA AppendTurn ==
  ASSUME queue \in Seq(Turns), NEW t \in {"setup", "refresh", "push"}, NEW a \in Int,
         queue' = Append(queue, Turn(t, a))
  PROVE  queue' \in Seq(Turns)
<1>1. Turn(t, a) \in Turns
  BY DEF Turn, Turns
<1> QED  BY <1>1

(* Queueing up again is leaving, or leaving and coming back. *)
LEMMA RequeueSeq ==
  ASSUME queue \in Seq(Turns), queue # <<>>, NEW task, Requeue(task)
  PROVE  /\ queue' \in Seq(Turns)
         /\ OnlySetupQueues => OnlySetupQueues'
<1>1. Head(queue) \in Turns /\ Tail(queue) \in Seq(Turns)
  OBVIOUS
<1>2. CASE queue' = Tail(queue)
  BY <1>2, TailOnlySetup
<1>3. CASE queue' = Append(Tail(queue), Head(queue))
  BY <1>1, <1>3 DEF OnlySetupQueues
<1> QED  BY <1>2, <1>3 DEF Requeue

(* A sender that is not the set-up, at the head, is a sender in the queue. *)
LEMMA HeadQueues ==
  ASSUME queue \in Seq(Turns), NEW t, OurTurn(t), t # "setup"
  PROVE  ~OnlySetupQueues
<1>1. Len(queue) >= 1 /\ queue[1].task = t
  BY DEF OurTurn
<1> QED  BY <1>1 DEF OnlySetupQueues

-----------------------------------------------------------------------------
(* The proxy *)

(* Adding leaves the type of the list alone. *)
LEMMA AddKeepsType ==
  ASSUME Shape, NEW addresses, AddAddresses(addresses)
  PROVE  /\ proxy'.type = proxy.type
         /\ proxy' = [type |-> proxy'.type, list |-> proxy'.list, room |-> proxy'.room,
                      honours |-> proxy'.honours]
<1>1. PICK l : proxy' = [proxy EXCEPT !.list = l]
  BY Zenon DEF AddAddresses
<1> QED  BY <1>1 DEF Shape

(* Setting a type that is honoured empties the list. *)
LEMMA SetEmpties ==
  ASSUME Shape, NeverBlocks, NEW type \in {"accept", "reject"}, SetFilterType(type)
  PROVE  /\ proxy' = [type |-> proxy'.type, list |-> proxy'.list, room |-> proxy'.room,
                      honours |-> proxy'.honours]
         /\ proxy'.type \in {"accept", "reject"}
         /\ type = "accept" => proxy'.type = "accept"
         /\ proxy'.type = "reject" => proxy'.list = {}
<1>1. \/ proxy' = proxy /\ type # "accept"
      \/ proxy' = [proxy EXCEPT !.type = type, !.list = {}]
  BY DEF SetFilterType
<1> QED  BY <1>1 DEF Shape, NeverBlocks

-----------------------------------------------------------------------------
(* The inductive invariant *)

LEMMA DoneAt == Done.at = "none" /\ Done = [at |-> Done.at, rest |-> Done.rest]
BY DEF Done

LEMMA PlaceAt ==
  ASSUME NEW place
  PROVE  At(place).at = place /\ At(place) = [at |-> At(place).at, rest |-> At(place).rest]
BY DEF At

(* What remains after a chunk is the task where it was, or done. *)
LEMMA AfterChunkAt ==
  ASSUME NEW at, NEW rest
  PROVE  LET task == [at |-> at, rest |-> rest]
         IN  /\ AfterChunk(task) = [at |-> AfterChunk(task).at, rest |-> AfterChunk(task).rest]
             /\ AfterChunk(task).at \in {at, "none"}
BY DoneAt DEF AfterChunk

LEMMA InitInv == Init => IInv
<1> SUFFICES ASSUME Init PROVE IInv
  OBVIOUS
<1>1. /\ proxy = [type |-> proxy.type, list |-> proxy.list, room |-> proxy.room,
                  honours |-> proxy.honours]
      /\ proxy.type = "accept"
  BY DEF Init, FreshProxies
<1>2. Shape
  <2>1. queue \in Seq(Turns) /\ src \in Int /\ pushes \subseteq Int
    BY DEF Init
  <2>2. setup = Done /\ refresh = Done
    BY DEF Init
  <2>3. /\ setup = [at |-> setup.at, rest |-> setup.rest] /\ setup.at \in SetupPlaces
        /\ refresh = [at |-> refresh.at, rest |-> refresh.rest] /\ refresh.at \in RefreshPlaces
    BY <2>2, DoneAt DEF SetupPlaces, RefreshPlaces
  <2>4. link = "down" /\ mode = "none" /\ confirmed = FALSE
    BY DEF Init
  <2> QED  BY <1>1, <2>1, <2>3, <2>4 DEF Shape
<1>3. NeverBlocks /\ ModeIsTheProxys /\ SendersNeedAccept /\ SetupKnows
  BY <1>1, DoneAt DEF Init, OnlySetupQueues, NeverBlocks, ModeIsTheProxys, SendersNeedAccept, SetupKnows, IsConnected
<1> QED  BY <1>2, <1>3 DEF IInv

(* The link comes, to a connection where nobody is sending any more, and goes. *)
LEMMA LinkInv ==
  ASSUME IInv, ~NarrowWindows, Connect \/ Drop
  PROVE  IInv'
<1>1. CASE Connect
  <2>1. /\ proxy' = [type |-> proxy'.type, list |-> proxy'.list, room |-> proxy'.room,
                     honours |-> proxy'.honours]
        /\ proxy'.type = "accept" /\ proxy'.list = {}
    BY <1>1 DEF Connect, FreshProxies
  <2>2. /\ link = "down" /\ link' = "trying" /\ setup = Done /\ NobodySending
        /\ UNCHANGED <<mode, confirmed, src, setup, refresh, pushes, queue>>
    BY <1>1 DEF Connect, ours, tasks
  <2>3. mode # "accept" /\ mode # "all"
    BY <2>2 DEF IInv, ModeIsTheProxys, IsConnected
  <2>4. Shape'
    BY <2>1, <2>2, Zenon DEF IInv, Shape
  <2>5. OnlySetupQueues' /\ refresh'.at = "none" /\ setup'.at = "none" /\ mode' = "none"
    BY <2>2, <2>3, DoneAt DEF NobodySending, OnlySetupQueues, IInv, Shape
  <2> QED
    BY <2>1, <2>2, <2>4, <2>5
    DEF IInv, NeverBlocks, ModeIsTheProxys, SendersNeedAccept, SetupKnows, IsConnected
<1>2. CASE Drop
  <2>1. /\ link' = "down" /\ mode' = "none"
        /\ UNCHANGED <<proxy, confirmed, src, setup, refresh, pushes, queue>>
        /\ ~(setup.at = "accepted" \/ (setup.at = "waiting" /\ confirmed))
    BY <1>2 DEF Drop, ours, tasks
  <2>2. Shape'
    BY <2>1, Zenon DEF IInv, Shape
  <2> QED
    BY <2>1, <2>2
    DEF IInv, NeverBlocks, ModeIsTheProxys, SendersNeedAccept, SetupKnows, IsConnected
<1> QED  BY <1>1, <1>2

(* The set-up runs alone until it has set the accept list: nobody else has a reason to
   send while the mode is "none". *)
LEMMA SetupInv ==
  ASSUME IInv, ~NarrowWindows, Setup
  PROVE  IInv'
<1> DEFINE Rest == UNCHANGED <<src, refresh, pushes>>
<1>0. /\ Shape /\ queue \in Seq(Turns)
      /\ setup = [at |-> setup.at, rest |-> setup.rest]
  BY DEF IInv, Shape
<1>1. CASE SetupBegins
  <2>1. /\ link = "trying" /\ link' = "up" /\ setup' = At("reject") /\ mode' = "none"
        /\ confirmed' = FALSE /\ Enqueue("setup") /\ UNCHANGED proxy /\ Rest
    BY <1>1 DEF SetupBegins, StatusAtStart, addrs
  <2>2. queue' \in Seq(Turns) /\ OnlySetupQueues' /\ refresh.at = "none"
    BY <1>0, <2>1, AppendSetup DEF IInv, SetupKnows, SendersNeedAccept, IsConnected
  <2>3. /\ setup'.at = "reject" /\ setup' = [at |-> setup'.at, rest |-> setup'.rest]
    BY <2>1, PlaceAt
  <2>4. Shape'
    BY <2>1, <2>2, <2>3, "reject" \in SetupPlaces, Zenon DEF IInv, Shape, SetupPlaces
  <2> QED
    BY <2>1, <2>2, <2>3, <2>4
    DEF IInv, NeverBlocks, ModeIsTheProxys, SendersNeedAccept, SetupKnows, IsConnected
<1>2. CASE SetupFails
  <2>1. /\ link = "down" /\ setup' = Done /\ queue # <<>> /\ queue' = Tail(queue)
        /\ UNCHANGED <<link, proxy, mode, confirmed>> /\ Rest
    BY <1>2 DEF SetupFails, OurTurn, IsConnected, ours
  <2>2. queue' \in Seq(Turns)
    BY <1>0, <2>1, TailOnlySetup
  <2>3. Shape'
    BY <2>1, <2>2, DoneAt, Zenon DEF IInv, Shape, SetupPlaces
  <2> QED
    BY <2>1, <2>3, DoneAt
    DEF IInv, NeverBlocks, ModeIsTheProxys, SendersNeedAccept, SetupKnows, IsConnected
<1>3. CASE SetReject
  <2>1. /\ setup.at = "reject" /\ IsConnected /\ SetFilterType("reject")
        /\ setup' = At("waiting") /\ queue # <<>> /\ queue' = Tail(queue)
        /\ UNCHANGED <<link, mode, confirmed>> /\ Rest
    BY <1>3 DEF SetReject, OurTurn, ours
  <2>2. mode \notin {"accept", "all"} /\ link # "trying"
    BY <2>1 DEF IInv, SetupKnows
  <2>3. OnlySetupQueues /\ refresh.at = "none"
    BY <2>1, <2>2 DEF IInv, SendersNeedAccept
  <2>4. queue' \in Seq(Turns) /\ OnlySetupQueues'
    BY <1>0, <2>1, <2>3, TailOnlySetup
  <2>5. /\ proxy' = [type |-> proxy'.type, list |-> proxy'.list, room |-> proxy'.room,
                     honours |-> proxy'.honours]
        /\ proxy'.type \in {"accept", "reject"}
        /\ proxy'.type = "reject" => proxy'.list = {}
    BY <1>0, <2>1, SetEmpties DEF IInv
  <2>6. setup'.at = "waiting" /\ setup' = [at |-> setup'.at, rest |-> setup'.rest]
    BY <2>1, PlaceAt
  <2>7. Shape'
    BY <2>1, <2>4, <2>5, <2>6, Zenon DEF IInv, Shape, SetupPlaces
  <2>8. ~confirmed
    BY <2>1 DEF IInv, SetupKnows
  <2> QED
    BY <2>1, <2>2, <2>3, <2>4, <2>5, <2>6, <2>7, <2>8
    DEF IInv, NeverBlocks, ModeIsTheProxys, SendersNeedAccept, SetupKnows, IsConnected
<1>4. CASE StatusArrives
  <2>1. /\ setup.at = "waiting" /\ IsConnected /\ proxy.type = "reject" /\ confirmed' = TRUE
        /\ UNCHANGED <<link, proxy, mode, setup, queue>> /\ Rest
    BY <1>4 DEF StatusArrives, ours, tasks
  <2>2. Shape'
    BY <2>1, Zenon DEF IInv, Shape
  <2> QED
    BY <2>1, <2>2
    DEF IInv, NeverBlocks, ModeIsTheProxys, SendersNeedAccept, SetupKnows, IsConnected,
        OnlySetupQueues
<1>5. CASE WaitEnds
  <2>1. setup.at = "waiting" /\ UNCHANGED <<link, proxy, confirmed>> /\ Rest
    BY <1>5 DEF WaitEnds, ours
  <2>2. mode = "none" /\ link # "trying"
    BY <2>1 DEF IInv, SetupKnows, Shape
  <2>3. CASE confirmed
    <3>1. mode' = "all" /\ setup' = Done /\ UNCHANGED queue
      BY <1>5, <2>3 DEF WaitEnds
    <3>2. Shape'
      BY <2>1, <3>1, DoneAt, Zenon DEF IInv, Shape, SetupPlaces
    <3> QED
      BY <2>1, <2>2, <2>3, <3>1, <3>2, DoneAt
      DEF IInv, NeverBlocks, ModeIsTheProxys, SendersNeedAccept, SetupKnows, IsConnected,
          OnlySetupQueues
  <2>4. CASE ~confirmed
    <3>1. UNCHANGED mode /\ setup' = At("accept") /\ Enqueue("setup")
      BY <1>5, <2>4 DEF WaitEnds
    <3>2. queue' \in Seq(Turns) /\ (OnlySetupQueues => OnlySetupQueues')
      BY <1>0, <3>1, AppendSetup
    <3>3. setup'.at = "accept" /\ setup' = [at |-> setup'.at, rest |-> setup'.rest]
      BY <3>1, PlaceAt
    <3>4. Shape'
      BY <2>1, <3>1, <3>2, <3>3, Zenon DEF IInv, Shape, SetupPlaces
    <3> QED
      BY <2>1, <2>2, <3>1, <3>2, <3>3, <3>4
      DEF IInv, NeverBlocks, ModeIsTheProxys, SendersNeedAccept, SetupKnows, IsConnected
  <2> QED  BY <2>3, <2>4
<1>6. CASE SetAccept
  <2>1. /\ setup.at = "accept" /\ IsConnected /\ SetFilterType("accept")
        /\ setup' = At("accepted") /\ queue # <<>> /\ queue' = Tail(queue)
        /\ UNCHANGED <<link, mode, confirmed>> /\ Rest
    BY <1>6 DEF SetAccept, OurTurn, ours
  <2>2. mode = "none" /\ link # "trying"
    BY <2>1 DEF IInv, SetupKnows, Shape
  <2>3. OnlySetupQueues /\ refresh.at = "none"
    BY <2>1, <2>2 DEF IInv, SendersNeedAccept
  <2>4. queue' \in Seq(Turns) /\ OnlySetupQueues'
    BY <1>0, <2>1, <2>3, TailOnlySetup
  <2>5. /\ proxy' = [type |-> proxy'.type, list |-> proxy'.list, room |-> proxy'.room,
                     honours |-> proxy'.honours]
        /\ proxy'.type = "accept"
    BY <1>0, <2>1, SetEmpties DEF IInv
  <2>6. setup'.at = "accepted" /\ setup' = [at |-> setup'.at, rest |-> setup'.rest]
    BY <2>1, PlaceAt
  <2>7. Shape'
    BY <2>1, <2>4, <2>5, <2>6, Zenon DEF IInv, Shape, SetupPlaces
  <2> QED
    BY <2>1, <2>2, <2>3, <2>4, <2>5, <2>6, <2>7
    DEF IInv, NeverBlocks, ModeIsTheProxys, SendersNeedAccept, SetupKnows, IsConnected
<1>7. CASE SetupLists
  <2>1. /\ setup.at = "accepted" /\ mode' = "accept" /\ Enqueue("setup")
        /\ setup' = [at |-> "adding", rest |-> recorded]
        /\ UNCHANGED <<link, proxy, confirmed>> /\ Rest
    BY <1>7 DEF SetupLists, ours
  <2>2. IsConnected /\ proxy.type = "accept" /\ link # "trying"
    BY <2>1 DEF IInv, SetupKnows
  <2>3. queue' \in Seq(Turns)
    BY <1>0, <2>1, AppendSetup
  <2>4. setup'.at = "adding" /\ setup' = [at |-> setup'.at, rest |-> setup'.rest]
    BY <2>1
  <2>5. Shape'
    BY <2>1, <2>3, <2>4, Zenon DEF IInv, Shape, SetupPlaces
  <2> QED
    BY <2>1, <2>2, <2>4, <2>5
    DEF IInv, NeverBlocks, ModeIsTheProxys, SendersNeedAccept, SetupKnows, IsConnected
<1>8. CASE SetupAdds
  <2>1. /\ setup.at = "adding" /\ IsConnected /\ AddAddresses(Chunk(setup.rest))
        /\ setup' = AfterChunk(setup) /\ queue # <<>> /\ Requeue(setup)
        /\ UNCHANGED <<link, mode, confirmed>> /\ Rest
    BY <1>8 DEF SetupAdds, OurTurn, ours
  <2>2. proxy.type = "accept" /\ link # "trying"
    BY <2>1 DEF IInv, SetupKnows
  <2>3. queue' \in Seq(Turns) /\ (OnlySetupQueues => OnlySetupQueues')
    BY <1>0, <2>1, RequeueSeq
  <2>4. /\ setup'.at \in {"adding", "none"}
        /\ setup' = [at |-> setup'.at, rest |-> setup'.rest]
    BY <1>0, <2>1, AfterChunkAt
  <2>5. /\ proxy'.type = "accept"
        /\ proxy' = [type |-> proxy'.type, list |-> proxy'.list, room |-> proxy'.room,
                     honours |-> proxy'.honours]
    BY <1>0, <2>1, <2>2, AddKeepsType
  <2>6. setup'.at \in SetupPlaces
    BY <2>4 DEF SetupPlaces
  <2>7. Shape'
    BY <2>1, <2>3, <2>4, <2>5, <2>6, Zenon DEF IInv, Shape
  <2> QED
    BY <2>1, <2>2, <2>3, <2>4, <2>5, <2>7
    DEF IInv, NeverBlocks, ModeIsTheProxys, SendersNeedAccept, SetupKnows, IsConnected
<1>9. CASE SetupRaises
  <2>1. /\ IsConnected /\ setup' = Done /\ queue # <<>> /\ queue' = Tail(queue)
        /\ UNCHANGED <<link, mode, confirmed>> /\ Rest
    BY <1>9 DEF SetupRaises, OurTurn, addrs
  <2>2. /\ proxy' = [type |-> proxy'.type, list |-> proxy'.list, room |-> proxy'.room,
                     honours |-> proxy'.honours]
        /\ proxy'.type \in {"accept", "reject"}
        /\ proxy'.type = "reject" => proxy'.list = {}
        /\ mode \in {"accept", "all"} => proxy'.type = proxy.type
    <3>1. CASE UNCHANGED proxy
      BY <1>0, <3>1 DEF IInv, NeverBlocks, Shape
    <3>2. CASE setup.at \in {"reject", "accept"} /\ SetFilterType(setup.at)
      <4>1. mode \notin {"accept", "all"} BY <3>2 DEF IInv, SetupKnows
      <4>2. setup.at \in {"accept", "reject"} BY <3>2
      <4>. QED BY <1>0, <3>2, <4>1, <4>2, SetEmpties DEF IInv
    <3>3. CASE setup.at = "adding" /\ AddAddresses(Chunk(setup.rest))
      <4>1. proxy.type = "accept" BY <2>1, <3>3 DEF IInv, SetupKnows
      <4>. QED BY <1>0, <3>3, <4>1, AddKeepsType
    <3> QED  BY <1>9, <3>1, <3>2, <3>3 DEF SetupRaises
  <2>3. queue' \in Seq(Turns) /\ (OnlySetupQueues => OnlySetupQueues')
    BY <1>0, <2>1, TailOnlySetup
  <2>4. Shape'
    BY <2>1, <2>2, <2>3, DoneAt, Zenon DEF IInv, Shape, SetupPlaces
  <2>5. setup'.at = "none" /\ (link = "trying" => mode = "none")
    BY <2>1, DoneAt DEF IInv, SetupKnows
  <2> QED
    BY <2>1, <2>2, <2>3, <2>4, <2>5
    DEF IInv, NeverBlocks, ModeIsTheProxys, SendersNeedAccept, SetupKnows, IsConnected
<1> QED  BY <1>1, <1>2, <1>3, <1>4, <1>5, <1>6, <1>7, <1>8, <1>9 DEF Setup

(* A refresh sends only to an accept list. *)
LEMMA RefreshInv ==
  ASSUME IInv, ~NarrowWindows, Refresh
  PROVE  IInv'
<1> DEFINE Rest == UNCHANGED <<link, mode, confirmed, src, setup, pushes>>
<1>0. /\ Shape /\ queue \in Seq(Turns)
      /\ refresh = [at |-> refresh.at, rest |-> refresh.rest]
      /\ Rest
  BY DEF Refresh, RefreshBegins, RefreshFails, RefreshRaises, RefreshSets, RefreshLists,
         RefreshAdds, addrs, ours, IInv, Shape
<1>1. CASE RefreshBegins \/ RefreshLists
  <2>1. UNCHANGED proxy
    BY <1>1 DEF RefreshBegins, RefreshLists
  <2>2. CASE mode = "accept"
    <3>1. PICK place \in RefreshPlaces : refresh'.at = place
                                        /\ refresh' = [at |-> refresh'.at, rest |-> refresh'.rest]
      BY <1>1, <2>2, PlaceAt DEF RefreshBegins, RefreshLists, RefreshPlaces
    <3>2. queue' \in Seq(Turns)
      BY <1>0, <1>1, <2>2, AppendTurn DEF RefreshBegins, RefreshLists, Enqueue
    <3>3. Shape'
      BY <1>0, <2>1, <3>1, <3>2, Zenon DEF Shape
    <3> QED
      BY <1>0, <2>1, <2>2, <3>3
      DEF IInv, NeverBlocks, ModeIsTheProxys, SendersNeedAccept, SetupKnows, IsConnected
  <2>3. CASE mode # "accept"
    <3>1. UNCHANGED queue /\ (refresh' = refresh \/ refresh' = Done)
      BY <1>1, <2>3 DEF RefreshBegins, RefreshLists
    <3>2. /\ refresh'.at \in {refresh.at, "none"}
          /\ refresh' = [at |-> refresh'.at, rest |-> refresh'.rest]
      BY <1>0, <3>1, DoneAt
    <3>3. refresh'.at \in RefreshPlaces
      BY <1>0, <3>2 DEF Shape, RefreshPlaces
    <3>4. Shape'
      BY <1>0, <2>1, <3>1, <3>2, <3>3, Zenon DEF Shape
    <3> QED
      BY <1>0, <2>1, <3>1, <3>2, <3>4
      DEF IInv, NeverBlocks, ModeIsTheProxys, SendersNeedAccept, SetupKnows, IsConnected,
          OnlySetupQueues
  <2> QED  BY <2>2, <2>3
<1>2. CASE RefreshFails
  <2>1. link = "down" /\ refresh' = Done /\ UNCHANGED proxy /\ queue # <<>> /\ queue' = Tail(queue)
    BY <1>2 DEF RefreshFails, IsConnected, OurTurn
  <2>2. queue' \in Seq(Turns)
    BY <1>0, <2>1, TailOnlySetup
  <2>3. Shape'
    BY <1>0, <2>1, <2>2, DoneAt, "none" \in RefreshPlaces, Zenon DEF Shape, RefreshPlaces
  <2> QED
    BY <1>0, <2>1, <2>3
    DEF IInv, NeverBlocks, ModeIsTheProxys, SendersNeedAccept, SetupKnows, IsConnected
<1>3. CASE RefreshSets \/ RefreshAdds
  <2>1. OurTurn("refresh") /\ IsConnected
    BY <1>3 DEF RefreshSets, RefreshAdds
  <2>2. mode = "accept" /\ proxy.type = "accept"
    BY <1>0, <2>1, HeadQueues DEF IInv, SendersNeedAccept, ModeIsTheProxys
  <2>3. /\ proxy'.type = "accept"
        /\ proxy' = [type |-> proxy'.type, list |-> proxy'.list, room |-> proxy'.room,
                     honours |-> proxy'.honours]
    BY <1>0, <1>3, <2>2, AddKeepsType, SetEmpties DEF RefreshSets, RefreshAdds, IInv
  <2>4. queue' \in Seq(Turns)
    BY <1>0, <1>3, <2>1, TailOnlySetup, RequeueSeq DEF RefreshSets, RefreshAdds, OurTurn
  <2>5. /\ refresh'.at \in {"list", "adding", "none"}
        /\ refresh' = [at |-> refresh'.at, rest |-> refresh'.rest]
    <3>1. CASE RefreshSets
      BY <3>1, PlaceAt DEF RefreshSets
    <3>2. CASE RefreshAdds
      <4>1. refresh.at = "adding" /\ refresh' = AfterChunk(refresh)
        BY <3>2 DEF RefreshAdds
      <4>2. /\ refresh'.at \in {"adding", "none"}
            /\ refresh' = [at |-> refresh'.at, rest |-> refresh'.rest]
        BY <1>0, <4>1, AfterChunkAt
      <4> QED  BY <4>2
    <3> QED  BY <1>3, <3>1, <3>2
  <2>6. refresh'.at \in RefreshPlaces
    BY <2>5 DEF RefreshPlaces
  <2>7. Shape'
    BY <1>0, <2>3, <2>4, <2>5, <2>6, Zenon DEF Shape
  <2> QED
    BY <1>0, <2>1, <2>2, <2>3, <2>7
    DEF IInv, NeverBlocks, ModeIsTheProxys, SendersNeedAccept, SetupKnows, IsConnected
<1>4. CASE RefreshRaises
  <2>1. /\ OurTurn("refresh") /\ IsConnected /\ refresh' = Done
        /\ queue # <<>> /\ queue' = Tail(queue)
    BY <1>4 DEF RefreshRaises, OurTurn
  <2>2. mode = "accept" /\ proxy.type = "accept"
    BY <1>0, <2>1, HeadQueues DEF IInv, SendersNeedAccept, ModeIsTheProxys
  <2>3. /\ proxy'.type = "accept"
        /\ proxy' = [type |-> proxy'.type, list |-> proxy'.list, room |-> proxy'.room,
                     honours |-> proxy'.honours]
    <3>1. CASE UNCHANGED proxy
      BY <1>0, <2>2, <3>1 DEF Shape
    <3> QED  BY <1>0, <1>4, <2>2, <3>1, AddKeepsType, SetEmpties DEF RefreshRaises, IInv
  <2>4. queue' \in Seq(Turns)
    BY <1>0, <2>1, TailOnlySetup
  <2>5. Shape'
    BY <1>0, <2>1, <2>3, <2>4, DoneAt, "none" \in RefreshPlaces, Zenon DEF Shape, RefreshPlaces
  <2> QED
    BY <1>0, <2>1, <2>2, <2>3, <2>5
    DEF IInv, NeverBlocks, ModeIsTheProxys, SendersNeedAccept, SetupKnows, IsConnected
<1> QED  BY <1>1, <1>2, <1>3, <1>4 DEF Refresh

(* So does a push; and a rotation or a change only leaves them something to do. *)
LEMMA PushInv ==
  ASSUME IInv, ~NarrowWindows, Push \/ ConfigChange \/ Rotate
  PROVE  IInv'
<1>0. /\ Shape /\ queue \in Seq(Turns)
      /\ UNCHANGED <<link, mode, confirmed, setup, refresh>>
  BY DEF Push, PushSends, PushBegins, ConfigChange, Rotate, addrs, ours, IInv, Shape
<1>1. CASE PushSends
  <2>1. UNCHANGED <<src, pushes>> /\ queue # <<>> /\ queue' = Tail(queue)
    BY <1>1 DEF PushSends, OurTurn, addrs
  <2>2. queue' \in Seq(Turns) /\ (OnlySetupQueues => OnlySetupQueues')
    BY <1>0, <2>1, TailOnlySetup
  <2>3. /\ proxy'.type = proxy.type
        /\ proxy' = [type |-> proxy'.type, list |-> proxy'.list, room |-> proxy'.room,
                     honours |-> proxy'.honours]
        /\ proxy'.type = "reject" => proxy' = proxy
    <3>1. CASE IsConnected
      <4>1. proxy.type = "accept"
        BY <1>0, <1>1, <3>1, HeadQueues DEF PushSends, IInv, SendersNeedAccept, ModeIsTheProxys
      <4>2. UNCHANGED proxy \/ AddAddresses(<<Head(queue).addr>>)
        BY <1>1 DEF PushSends
      <4>3. CASE UNCHANGED proxy
        BY <1>0, <4>1, <4>3 DEF Shape
      <4> QED  BY <1>0, <4>1, <4>2, <4>3, AddKeepsType
    <3>2. CASE ~IsConnected
      BY <1>0, <1>1, <3>2 DEF PushSends, Shape
    <3> QED  BY <3>1, <3>2
  <2>4. Shape'
    BY <1>0, <2>1, <2>2, <2>3, Zenon DEF Shape
  <2> QED
    BY <1>0, <2>2, <2>3, <2>4
    DEF IInv, NeverBlocks, ModeIsTheProxys, SendersNeedAccept, SetupKnows, IsConnected
<1>2. CASE \E addr \in pushes : PushBegins(addr)
  <2>1. PICK addr \in pushes : PushBegins(addr)
    BY <1>2
  <2>2. UNCHANGED <<proxy, src>> /\ addr \in Int /\ pushes' \subseteq Int
    <3>1. src' = src /\ proxy' = proxy /\ pushes' = pushes \ {addr}
      BY <2>1 DEF PushBegins, ours
    <3>2. pushes \subseteq Int
      BY <1>0 DEF Shape
    <3> QED  BY <3>1, <3>2
  <2>3. /\ queue' \in Seq(Turns)
        /\ mode = "accept" \/ queue' = queue
    BY <1>0, <2>1, <2>2, AppendTurn DEF PushBegins, AddsNow
  <2>4. Shape'
    BY <1>0, <2>2, <2>3, Zenon DEF Shape
  <2> QED
    BY <1>0, <2>2, <2>3, <2>4
    DEF IInv, NeverBlocks, ModeIsTheProxys, SendersNeedAccept, SetupKnows, IsConnected,
        OnlySetupQueues
<1>3. CASE ConfigChange \/ Rotate
  <2>1. UNCHANGED <<proxy, queue>> /\ src' \in Int /\ pushes' \subseteq Int
    BY <1>0, <1>3 DEF ConfigChange, Rotate, Shape
  <2>2. Shape'
    BY <1>0, <2>1, Zenon DEF Shape
  <2> QED
    BY <1>0, <2>1, <2>2
    DEF IInv, NeverBlocks, ModeIsTheProxys, SendersNeedAccept, SetupKnows, IsConnected,
        OnlySetupQueues
<1> QED  BY <1>1, <1>2, <1>3 DEF Push

(* Every step keeps the invariant. *)
LEMMA NextInv == IInv /\ ~NarrowWindows /\ [Next]_vars => IInv'
<1> SUFFICES ASSUME IInv, ~NarrowWindows, [Next]_vars PROVE IInv'
  OBVIOUS
<1>1. CASE Next
  BY <1>1, LinkInv, SetupInv, RefreshInv, PushInv DEF Next
<1>2. CASE UNCHANGED vars
  BY <1>2 DEF vars, IInv, Shape, NeverBlocks, ModeIsTheProxys, SendersNeedAccept, SetupKnows,
              IsConnected, OnlySetupQueues
<1> QED  BY <1>1, <1>2

-----------------------------------------------------------------------------
(* Theorems *)

(* With the narrow windows closed, in every behaviour, the inductive invariant holds. *)
THEOREM Inductive == ASSUME ~NarrowWindows PROVE Spec => []IInv
<1>1. IInv /\ [Next]_vars => IInv'
  BY NextInv
<1> QED  BY <1>1, InitInv, PTL DEF Spec

(* Neither a refresh nor a pushed SRC is ever added to a reject list, which would block the
   address: a set-up that tries the reject list is alone (gatt.py:1402-1405, 1456-1458). *)
THEOREM NothingIsBlocked == ASSUME ~NarrowWindows PROVE Spec => []NeverBlocks
<1>1. IInv => NeverBlocks
  BY DEF IInv
<1> QED  BY <1>1, Inductive, PTL

(* filter_mode always tells what the connected proxy does, and is None without a link
   (gatt.py:587-591). *)
THEOREM ModeIsTrue == ASSUME ~NarrowWindows PROVE Spec => []ModeIsTheProxys
<1>1. IInv => ModeIsTheProxys
  BY DEF IInv
<1> QED  BY <1>1, Inductive, PTL

-----------------------------------------------------------------------------
(* Lists of addresses *)

LEMMA AddressesFinite == IsFiniteSet(Addresses)
<1>1. IsFiniteSet(Srcs)
  BY FilterAssumption, FS_Interval DEF Srcs
<1>2. Others \in Surjection(1..Len(Others), Range(Others))
  BY FilterAssumption DEF Surjection, Range
<1>3. Len(Others) \in Nat
  BY FilterAssumption
<1>4. IsFiniteSet(1..Len(Others))
  BY <1>3, FS_Interval
<1>5. IsFiniteSet(Range(Others))
  BY <1>2, <1>4, FS_Surjection
<1>6. IsFiniteSet({HA_ONLY_ADDRESS})
  BY FS_Singleton
<1> QED  BY <1>1, <1>5, <1>6, FS_Union DEF Addresses

(* The list of a SRC: that SRC first, and all of it addresses. *)
LEMMA ListTyped ==
  ASSUME NEW s \in Srcs, NEW only \in BOOLEAN
  PROVE  /\ FilterAddresses(s, only) \in Seq(Addresses)
         /\ Len(FilterAddresses(s, only)) \in {Len(Others) + 1, Len(Others) + 2}
<1> DEFINE mid == IF only THEN <<HA_ONLY_ADDRESS>> ELSE <<>>
<1>1. Others \in Seq(Addresses)
  <2>1. \A i \in 1..Len(Others) : Others[i] \in Addresses
    BY FilterAssumption DEF Addresses, Range
  <2> QED  BY <2>1, FilterAssumption
<1>2. <<s>> \in Seq(Addresses) /\ Len(<<s>>) = 1
  BY DEF Addresses
<1>3. mid \in Seq(Addresses) /\ Len(mid) \in {0, 1}
  <2>1. HA_ONLY_ADDRESS \in Addresses
    BY DEF Addresses
  <2> QED  BY <2>1
<1>4. FilterAddresses(s, only) = <<s>> \o mid \o Others
  BY DEF FilterAddresses
<1> HIDE DEF mid
<1>5. /\ <<s>> \o mid \in Seq(Addresses)
      /\ Len(<<s>> \o mid) = 1 + Len(mid)
  BY <1>2, <1>3
<1>6. /\ (<<s>> \o mid) \o Others \in Seq(Addresses)
      /\ Len((<<s>> \o mid) \o Others) = 1 + Len(mid) + Len(Others)
  BY <1>1, <1>5
<1>7. Len(Others) \in Nat
  BY <1>1
<1> DEFINE list == (<<s>> \o mid) \o Others
<1>8. list \in Seq(Addresses) /\ Len(list) = 1 + Len(mid) + Len(Others)
  BY <1>6
<1>9. FilterAddresses(s, only) = list
  BY <1>4
<1> HIDE DEF list
<1>10. Len(list) \in {Len(Others) + 1, Len(Others) + 2}
  <2>1. CASE Len(mid) = 0
    <3>1. Len(list) = 1 + 0 + Len(Others)
      BY <1>8, <2>1
    <3> QED  BY <1>7, <3>1
  <2>2. CASE Len(mid) = 1
    <3>1. Len(list) = 1 + 1 + Len(Others)
      BY <1>8, <2>2
    <3> QED  BY <1>7, <3>1
  <2> QED  BY <1>3, <2>1, <2>2
<1> QED  BY <1>8, <1>9, <1>10

(* A rotation changes one address of the list. *)
LEMMA ListOfNextSrc ==
  ASSUME NEW s \in Srcs, NEW t \in Srcs, NEW only \in BOOLEAN,
         NEW a \in Range(FilterAddresses(t, only))
  PROVE  a = t \/ a \in Range(FilterAddresses(s, only))
<1> DEFINE mid == IF only THEN <<HA_ONLY_ADDRESS>> ELSE <<>>
           rest == mid \o Others
<1>1. Others \in Seq(Nat) /\ mid \in Seq(Nat)
  BY FilterAssumption
<1>2. rest \in Seq(Nat)
  BY <1>1
<1>3. \A u \in Srcs : FilterAddresses(u, only) = <<u>> \o rest
  <2>1. \A u \in Srcs : <<u>> \in Seq(Nat)
    BY DEF Srcs
  <2> HIDE DEF mid
  <2>2. \A u \in Srcs : (<<u>> \o mid) \o Others = <<u>> \o (mid \o Others)
    BY <1>1, <2>1
  <2>3. \A u \in Srcs : FilterAddresses(u, only) = <<u>> \o mid \o Others
    BY DEF FilterAddresses, mid
  <2> QED  BY <2>2, <2>3
<1> HIDE DEF rest
<1>4. PICK i \in 1..(Len(rest) + 1) : a = (<<t>> \o rest)[i]
  <2>1. PICK i \in DOMAIN (<<t>> \o rest) : a = (<<t>> \o rest)[i]
    BY <1>3, Zenon DEF Range
  <2>2. DOMAIN (<<t>> \o rest) = 1..(Len(rest) + 1)
    BY <1>2
  <2> QED  BY <2>1, <2>2
<1>5. CASE i = 1
  BY <1>4, <1>5
<1>6. CASE i > 1
  <2>1. a = (<<s>> \o rest)[i] /\ i \in DOMAIN (<<s>> \o rest)
    BY <1>2, <1>4, <1>6
  <2> QED  BY <1>3, <2>1 DEF Range
<1> QED  BY <1>4, <1>5, <1>6

(* What a message of the list takes away leaves an end of it; both together are all of it. *)
LEMMA AfterTyped ==
  ASSUME NEW S, NEW list \in Seq(S)
  PROVE  /\ Chunk(list) \in Seq(S) /\ After(list) \in Seq(S)
         /\ Range(list) = Range(Chunk(list)) \cup Range(After(list))
<1> DEFINE K == PROXY_FILTER_MAX_ADDRESSES
           c == IF Len(list) < K THEN Len(list) ELSE K
<1>1. K \in Nat /\ K > 0 /\ c \in Nat /\ c <= Len(list) /\ c <= K
  BY FilterAssumption
<1>2. /\ Chunk(list) \in Seq(S) /\ Len(Chunk(list)) = c
      /\ \A i \in 1..c : Chunk(list)[i] = list[i]
  <2>1. Chunk(list) = SubSeq(list, 1, c)
    BY DEF Chunk
  <2> HIDE DEF c
  <2>2. \A i \in 1..c : list[i] \in S
    BY <1>1
  <2>3. c \in Int /\ (c = IF 1 <= c THEN c - 1 + 1 ELSE 0) /\ c - 1 + 1 = c
    BY <1>1
  <2>4. \A i \in 1..c : 1 + i - 1 = i
    BY <1>1
  <2> QED  BY <1>1, <2>1, <2>2, <2>3, <2>4, SubSeqProperties
<1>3. CASE K < Len(list)
  <2>1. c = K /\ K + 1 \in Int /\ Len(list) \in Int
    BY <1>1, <1>3
  <2>2. \A i \in (K + 1)..Len(list) : list[i] \in S
    BY <1>1
  <2>3. /\ After(list) \in Seq(S) /\ Len(After(list)) = Len(list) - K
        /\ \A i \in 1..(Len(list) - K) : After(list)[i] = list[K + i]
    <3>1. /\ After(list) \in Seq(S)
          /\ Len(After(list)) = IF K + 1 <= Len(list) THEN Len(list) - (K + 1) + 1 ELSE 0
          /\ \A i \in 1..(Len(list) - (K + 1) + 1) : After(list)[i] = list[(K + 1) + i - 1]
      BY <2>1, <2>2, SubSeqProperties DEF After
    <3> QED  BY <1>1, <1>3, <3>1
  <2>4. \A i \in 1..Len(list) :
           \/ i \in 1..Len(Chunk(list)) /\ list[i] = Chunk(list)[i]
           \/ i - K \in 1..Len(After(list)) /\ list[i] = After(list)[i - K]
    BY <1>1, <1>2, <2>1, <2>3
  <2>5. \A i \in 1..Len(Chunk(list)) : i \in 1..Len(list) /\ list[i] = Chunk(list)[i]
    BY <1>1, <1>2
  <2>6. \A i \in 1..Len(After(list)) : K + i \in 1..Len(list) /\ list[K + i] = After(list)[i]
    BY <1>1, <2>3
  <2>7. /\ DOMAIN list = 1..Len(list) /\ DOMAIN Chunk(list) = 1..Len(Chunk(list))
        /\ DOMAIN After(list) = 1..Len(After(list))
    BY <1>2, <2>3
  <2> HIDE DEF K, c
  <2> QED  BY <1>2, <2>3, <2>4, <2>5, <2>6, <2>7 DEF Range
<1>4. CASE Len(list) <= K
  <2>1. After(list) = <<>>
    BY <1>1, <1>4, SubSeqEmpty DEF After
  <2>2. c = Len(list)
    BY <1>1, <1>4
  <2>3. Chunk(list) = list
    BY <2>2, SubSeqFull DEF Chunk
  <2>4. Range(<<>>) = {}
    BY DEF Range
  <2> QED  BY <2>1, <2>3, <2>4
<1> QED  BY <1>1, <1>3, <1>4

(* Lists: ends of what was recorded at some time. *)
LEMMA ListsMember ==
  ASSUME NEW s \in Srcs, NEW only \in BOOLEAN, NEW n \in 1..(Len(Others) + 3)
  PROVE  SubSeq(FilterAddresses(s, only), n, Len(FilterAddresses(s, only))) \in Lists
BY DEF Lists

LEMMA ListsEmpty == <<>> \in Lists
<1> DEFINE f == FilterAddresses(1, TRUE)
<1>1. 1 \in Srcs
  BY FilterAssumption DEF Srcs
<1>2. f \in Seq(Addresses) /\ Len(f) \in {Len(Others) + 1, Len(Others) + 2}
  BY <1>1, ListTyped
<1>0. f = FilterAddresses(1, TRUE)
  OBVIOUS
<1> HIDE DEF f
<1>3. Len(Others) \in Nat /\ Len(f) \in Nat
  BY <1>2, FilterAssumption
<1>4. Len(f) + 1 \in 1..(Len(Others) + 3)
  BY <1>2, <1>3
<1>5. SubSeq(f, Len(f) + 1, Len(f)) = <<>>
  <2>1. Len(f) + 1 \in Int /\ Len(f) \in Int /\ Len(f) < Len(f) + 1
    BY <1>3
  <2> QED  BY <2>1, SubSeqEmpty
<1>6. SubSeq(f, Len(f) + 1, Len(f)) \in Lists
  BY <1>0, <1>1, <1>4, ListsMember
<1> QED  BY <1>5, <1>6

LEMMA ListsWhole ==
  ASSUME NEW s \in Srcs, NEW only \in BOOLEAN
  PROVE  FilterAddresses(s, only) \in Lists
<1> DEFINE f == FilterAddresses(s, only)
<1>1. SubSeq(f, 1, Len(f)) = f
  BY ListTyped, SubSeqFull
<1>2. 1 \in 1..(Len(Others) + 3)
  BY FilterAssumption
<1> QED  BY <1>1, <1>2 DEF Lists

LEMMA ListsTyped ==
  ASSUME NEW list \in Lists
  PROVE  list \in Seq(Addresses) /\ After(list) \in Lists
<1>1. PICK s \in Srcs, only \in BOOLEAN, n \in 1..(Len(Others) + 3) :
        list = SubSeq(FilterAddresses(s, only), n, Len(FilterAddresses(s, only)))
  BY DEF Lists
<1> DEFINE f == FilterAddresses(s, only)
           K == PROXY_FILTER_MAX_ADDRESSES
<1>2. f \in Seq(Addresses) /\ Len(f) \in Nat /\ Len(f) < Len(Others) + 3
  <2>1. f \in Seq(Addresses) /\ Len(f) \in {Len(Others) + 1, Len(Others) + 2}
    BY ListTyped
  <2>2. Len(Others) \in Nat
    BY FilterAssumption
  <2> QED  BY <2>1, <2>2
<1>3. n \in Nat /\ n >= 1 /\ K \in Nat /\ K >= 1 /\ Len(Others) \in Nat
  BY FilterAssumption
<1>0. list = SubSeq(f, n, Len(f))
  BY <1>1
<1>6. f = FilterAddresses(s, only)
  OBVIOUS
<1> HIDE DEF f, K
<1>4. CASE n > Len(f)
  <2>1. list = <<>>
    BY <1>0, <1>2, <1>3, <1>4, SubSeqEmpty
  <2>2. After(list) = <<>>
    <3>1. Len(list) < K + 1 /\ Len(list) \in Int
      BY <1>3, <2>1
    <3> QED  BY <1>3, <3>1, SubSeqEmpty DEF After, K
  <2> QED  BY <2>1, <2>2, ListsEmpty
<1>5. CASE n <= Len(f)
  <2>1. list \in Seq(Addresses) /\ Len(list) = Len(f) - n + 1
    <3>1. \A i \in n..Len(f) : f[i] \in Addresses
      BY <1>2, <1>3
    <3> QED  BY <1>0, <1>2, <1>3, <1>5, <3>1, SubSeqProperties
  <2>2. CASE K >= Len(list)
    <3>1. After(list) = <<>>
      BY <1>3, <2>1, <2>2, SubSeqEmpty DEF After, K
    <3> QED  BY <2>1, <3>1, ListsEmpty
  <2>3. CASE K < Len(list)
    <3>1. /\ n \in 1..Len(f) /\ Len(f) \in 1..Len(f)
          /\ K + 1 \in 1..(Len(f) - n + 1) /\ Len(list) \in 1..(Len(f) - n + 1)
      BY <1>2, <1>3, <1>5, <2>1, <2>3
    <3>2. /\ list \in Seq(Addresses)
          /\ \A i \in 1..Len(list) : list[i] = f[n + i - 1]
      <4>1. \A i \in n..Len(f) : f[i] \in Addresses
        BY <1>2, <1>3
      <4>2. \A i \in 1..(Len(f) - n + 1) : list[i] = f[n + i - 1]
        BY <1>0, <1>2, <1>3, <4>1, SubSeqProperties
      <4> QED  BY <2>1, <4>2
    <3>3. /\ After(list) \in Seq(Addresses) /\ Len(After(list)) = Len(list) - K
          /\ \A i \in 1..(Len(list) - K) : After(list)[i] = list[K + i]
      <4>1. \A i \in (K + 1)..Len(list) : list[i] \in Addresses
        BY <1>3, <2>1
      <4>2. /\ After(list) \in Seq(Addresses)
            /\ Len(After(list)) = IF K + 1 <= Len(list) THEN Len(list) - (K + 1) + 1 ELSE 0
            /\ \A i \in 1..(Len(list) - (K + 1) + 1) : After(list)[i] = list[(K + 1) + i - 1]
        <5>1. K + 1 \in Int /\ Len(list) \in Int
          BY <1>3, <2>1
        <5>2. LET rest == SubSeq(list, K + 1, Len(list))
              IN  /\ rest \in Seq(Addresses)
                  /\ Len(rest) = IF K + 1 <= Len(list) THEN Len(list) - (K + 1) + 1 ELSE 0
                  /\ \A i \in 1..(Len(list) - (K + 1) + 1) : rest[i] = list[(K + 1) + i - 1]
          BY <4>1, <5>1, SubSeqProperties
        <5>3. After(list) = SubSeq(list, K + 1, Len(list))
          BY DEF After, K
        <5> HIDE DEF After
        <5> QED  BY <5>2, <5>3
      <4> QED  BY <1>3, <2>1, <2>3, <4>2
    <3>4. After(list) = SubSeq(f, n + K, Len(f))
      <4>1. \A i \in (n + K)..Len(f) : f[i] \in Addresses
        BY <1>2, <1>3
      <4>2. n + K \in Int /\ Len(f) \in Int
        BY <1>2, <1>3
      <4> DEFINE g == SubSeq(f, n + K, Len(f))
      <4>3. /\ g \in Seq(Addresses)
            /\ Len(g) = IF n + K <= Len(f) THEN Len(f) - (n + K) + 1 ELSE 0
            /\ \A i \in 1..(Len(f) - (n + K) + 1) : g[i] = f[(n + K) + i - 1]
        BY <4>1, <4>2, SubSeqProperties
      <4> HIDE DEF g
      <4>4. Len(g) = Len(After(list))
        BY <1>2, <1>3, <2>1, <2>3, <3>3, <4>3
      <4>5. \A i \in 1..Len(g) : g[i] = After(list)[i]
        <5>1. TAKE i \in 1..Len(g)
        <5>2. g[i] = f[(n + K) + i - 1]
          BY <1>2, <1>3, <2>1, <2>3, <4>3
        <5>3. K + i \in 1..Len(list) /\ i \in 1..(Len(list) - K)
          BY <1>3, <2>1, <2>3, <3>3, <4>4
        <5>4. After(list)[i] = f[n + (K + i) - 1]
          BY <3>2, <3>3, <5>3
        <5>5. (n + K) + i - 1 = n + (K + i) - 1
          BY <1>3
        <5> QED  BY <5>2, <5>4, <5>5
      <4>6. g = After(list)
        BY <3>3, <4>3, <4>4, <4>5
      <4> QED  BY <4>6 DEF g
    <3>5. n + K \in 1..(Len(Others) + 3)
      BY <1>2, <1>3, <2>1, <2>3
    <3>6. After(list) \in Lists
      <4>1. SubSeq(f, n + K, Len(f)) \in Lists
        BY <1>6, <3>5, ListsMember
      <4> QED  BY <3>4, <4>1
    <3> QED  BY <2>1, <3>6
  <2> QED  BY <1>3, <2>1, <2>2, <2>3
<1> QED  BY <1>2, <1>3, <1>4, <1>5

-----------------------------------------------------------------------------
(* Types *)

ProxyTyped ==
  /\ proxy \in [type : {"accept", "reject"}, list : SUBSET Addresses, room : Capacities,
                honours : BOOLEAN]
  /\ Cardinality(proxy.list) <= proxy.room

LinkTyped ==
  /\ link \in {"down", "trying", "up"} /\ mode \in {"none", "all", "accept"}
  /\ confirmed \in BOOLEAN /\ missed \in BOOLEAN

OursTyped ==
  /\ src \in Srcs /\ haOnly \in BOOLEAN /\ recorded = FilterAddresses(src, haOnly)
  /\ changes \in 0..MaxChanges

SetupTyped   == setup \in [at : SetupPlaces, rest : Lists]
RefreshTyped == refresh \in [at : RefreshPlaces, rest : Lists]
WaitTyped    == waiting \in 0..changes /\ pushes \subseteq Srcs
AllTurns     == [task : {"setup", "refresh"}, addr : {0}] \cup [task : {"push"}, addr : Srcs]
QueueTyped   == queue \in Seq(AllTurns)

LEMMA TypesAre ==
  TypeOK <=> /\ ProxyTyped /\ LinkTyped /\ OursTyped /\ SetupTyped /\ RefreshTyped
             /\ WaitTyped /\ QueueTyped
BY DEF TypeOK, ProxyTyped, LinkTyped, OursTyped, SetupTyped, RefreshTyped, WaitTyped,
       QueueTyped, SetupPlaces, RefreshPlaces, AllTurns

LEMMA AddTyped ==
  ASSUME ProxyTyped, NEW addresses \in Seq(Addresses), AddAddresses(addresses)
  PROVE  ProxyTyped'
<1>1. PICK n \in 0..Len(addresses) :
        /\ Cardinality(Kept(addresses, n)) <= proxy.room
        /\ proxy' = [proxy EXCEPT !.list = Kept(addresses, n)]
  BY DEF AddAddresses
<1>2. Kept(addresses, n) \subseteq Addresses
  <2>1. \A i \in 1..n : addresses[i] \in Addresses
    OBVIOUS
  <2>2. SubSeq(addresses, 1, n) \in Seq(Addresses)
    BY <2>1, SubSeqProperties
  <2>3. Range(SubSeq(addresses, 1, n)) \subseteq Addresses
    BY <2>2 DEF Range
  <2> QED  BY <2>3 DEF Kept, ProxyTyped
<1> QED  BY <1>1, <1>2 DEF ProxyTyped

LEMMA SetTyped ==
  ASSUME ProxyTyped, NEW type \in {"accept", "reject"}, SetFilterType(type)
  PROVE  ProxyTyped'
<1>1. proxy.room \in Nat /\ Cardinality({}) = 0
  BY FilterAssumption, FS_EmptySet DEF ProxyTyped
<1>2. proxy' = proxy \/ proxy' = [proxy EXCEPT !.type = type, !.list = {}]
  BY DEF SetFilterType
<1>3. CASE proxy' = [proxy EXCEPT !.type = type, !.list = {}]
  <2>1. proxy' \in [type : {"accept", "reject"}, list : SUBSET Addresses, room : Capacities,
                    honours : BOOLEAN]
    BY <1>3 DEF ProxyTyped
  <2>2. proxy'.list = {} /\ proxy'.room = proxy.room
    BY <1>3 DEF ProxyTyped
  <2>3. Cardinality(proxy'.list) <= proxy'.room
    BY <1>1, <2>2
  <2> QED  BY <2>1, <2>3 DEF ProxyTyped
<1> QED  BY <1>2, <1>3 DEF ProxyTyped

LEMMA ChunkTyped ==
  ASSUME NEW list \in Lists
  PROVE  Chunk(list) \in Seq(Addresses)
BY ListsTyped, AfterTyped

LEMMA PlacesTyped ==
  /\ Done \in [at : {"none"}, rest : Lists]
  /\ \A place : At(place) \in [at : {place}, rest : Lists]
  /\ \A at, list : list \in Lists
       => AfterChunk([at |-> at, rest |-> list]) \in [at : {at, "none"}, rest : Lists]
<1>1. Done \in [at : {"none"}, rest : Lists]
  BY ListsEmpty DEF Done
<1>2. ASSUME NEW place PROVE At(place) \in [at : {place}, rest : Lists]
  BY ListsEmpty DEF At
<1>3. ASSUME NEW at, NEW list \in Lists
      PROVE  AfterChunk([at |-> at, rest |-> list]) \in [at : {at, "none"}, rest : Lists]
  BY <1>1, ListsTyped DEF AfterChunk
<1> QED  BY <1>1, <1>2, <1>3

LEMMA TailTyped ==
  ASSUME QueueTyped, queue # <<>>, queue' = Tail(queue)
  PROVE  QueueTyped'
BY DEF QueueTyped

LEMMA EnqueueTyped ==
  ASSUME QueueTyped, NEW t \in {"setup", "refresh"}, Enqueue(t)
  PROVE  QueueTyped'
<1>1. Turn(t, 0) \in AllTurns
  BY DEF Turn, AllTurns
<1> QED  BY <1>1 DEF QueueTyped, Enqueue

LEMMA PushTyped ==
  ASSUME QueueTyped, NEW a \in Srcs, queue' = Append(queue, Turn("push", a))
  PROVE  QueueTyped'
<1>1. Turn("push", a) \in AllTurns
  BY DEF Turn, AllTurns
<1> QED  BY <1>1 DEF QueueTyped

LEMMA PushedTyped ==
  ASSUME QueueTyped, OurTurn("push")
  PROVE  <<Head(queue).addr>> \in Seq(Addresses)
<1>1. Head(queue) \in AllTurns /\ Head(queue).task = "push"
  BY DEF OurTurn, QueueTyped
<1>2. Head(queue).addr \in Srcs
  BY <1>1 DEF AllTurns
<1> QED  BY <1>2 DEF Addresses

LEMMA RequeueTyped ==
  ASSUME QueueTyped, queue # <<>>, NEW task, Requeue(task)
  PROVE  QueueTyped'
<1>1. Head(queue) \in AllTurns /\ Tail(queue) \in Seq(AllTurns)
  BY DEF QueueTyped
<1>2. queue' = Tail(queue) \/ queue' = Append(Tail(queue), Head(queue))
  BY DEF Requeue
<1> QED  BY <1>1, <1>2 DEF QueueTyped

LEMMA InitTyped == Init => TypeOK
<1> SUFFICES ASSUME Init PROVE TypeOK
  OBVIOUS
<1>1. ProxyTyped
  <2>1. proxy \in [type : {"accept"}, list : {{}}, room : Capacities, honours : BOOLEAN]
    BY DEF Init, FreshProxies
  <2>2. proxy.list = {} /\ proxy.room \in Nat
    BY <2>1, FilterAssumption
  <2>3. Cardinality(proxy.list) = 0
    BY <2>2, FS_EmptySet
  <2> QED  BY <2>1, <2>2, <2>3 DEF ProxyTyped
<1>2. LinkTyped /\ OursTyped /\ WaitTyped
  <2>1. LinkTyped
    BY DEF Init, LinkTyped
  <2>2. OursTyped
    <3>1. src = 1 /\ haOnly \in BOOLEAN /\ recorded = FilterAddresses(src, haOnly) /\ changes = 0
      BY DEF Init
    <3>2. 1 \in Srcs /\ 0 \in 0..MaxChanges
      BY FilterAssumption DEF Srcs
    <3> QED  BY <3>1, <3>2 DEF OursTyped
  <2>3. WaitTyped
    BY DEF Init, WaitTyped
  <2> QED  BY <2>1, <2>2, <2>3
<1>3. SetupTyped /\ RefreshTyped
  <2>1. setup = Done /\ refresh = Done
    BY DEF Init
  <2> QED  BY <2>1, PlacesTyped DEF SetupTyped, RefreshTyped, SetupPlaces, RefreshPlaces
<1>4. QueueTyped
  BY DEF Init, QueueTyped
<1> QED  BY <1>1, <1>2, <1>3, <1>4, TypesAre

LEMMA StepTyped == TypeOK /\ [Next]_vars => TypeOK'
<1> SUFFICES ASSUME TypeOK, [Next]_vars PROVE TypeOK'
  OBVIOUS
<1>0. /\ ProxyTyped /\ LinkTyped /\ OursTyped /\ SetupTyped /\ RefreshTyped /\ WaitTyped
      /\ QueueTyped
  BY TypesAre
<1> SUFFICES /\ ProxyTyped' /\ LinkTyped' /\ OursTyped' /\ SetupTyped' /\ RefreshTyped'
             /\ WaitTyped' /\ QueueTyped'
  BY TypesAre DEF TypeOK, ProxyTyped, LinkTyped, OursTyped, SetupTyped, RefreshTyped,
     WaitTyped, QueueTyped, SetupPlaces, RefreshPlaces, AllTurns
<1>a. /\ UNCHANGED proxy => ProxyTyped'
      /\ UNCHANGED <<link, mode, confirmed, missed>> => LinkTyped'
      /\ UNCHANGED <<src, haOnly, recorded, changes>> => OursTyped'
      /\ UNCHANGED setup => SetupTyped'
      /\ UNCHANGED refresh => RefreshTyped'
      /\ UNCHANGED <<waiting, pushes, changes>> => WaitTyped'
      /\ UNCHANGED queue => QueueTyped'
  BY <1>0 DEF ProxyTyped, LinkTyped, OursTyped, SetupTyped, RefreshTyped, WaitTyped, QueueTyped
<1>b. /\ setup = [at |-> setup.at, rest |-> setup.rest] /\ setup.rest \in Lists
      /\ refresh = [at |-> refresh.at, rest |-> refresh.rest] /\ refresh.rest \in Lists
      /\ recorded \in Lists
  BY <1>0, ListsWhole DEF SetupTyped, RefreshTyped, OursTyped
<1>c. /\ setup' = Done \/ (\E p \in SetupPlaces : setup' = At(p)) => SetupTyped'
      /\ refresh' = Done \/ (\E p \in RefreshPlaces : refresh' = At(p)) => RefreshTyped'
      /\ setup.at = "adding" /\ setup' = AfterChunk(setup) => SetupTyped'
      /\ refresh.at = "adding" /\ refresh' = AfterChunk(refresh) => RefreshTyped'
      /\ setup' = [at |-> "adding", rest |-> recorded] => SetupTyped'
      /\ refresh' = [at |-> "adding", rest |-> recorded] => RefreshTyped'
  <2>1. (setup' = Done => SetupTyped') /\ (refresh' = Done => RefreshTyped')
    BY PlacesTyped DEF SetupTyped, RefreshTyped, SetupPlaces, RefreshPlaces
  <2>2. ASSUME NEW p \in SetupPlaces, setup' = At(p) PROVE SetupTyped'
    BY <2>2, PlacesTyped DEF SetupTyped
  <2>3. ASSUME NEW p \in RefreshPlaces, refresh' = At(p) PROVE RefreshTyped'
    BY <2>3, PlacesTyped DEF RefreshTyped
  <2>4. ASSUME setup.at = "adding", setup' = AfterChunk(setup) PROVE SetupTyped'
    <3>1. setup' \in [at : {"adding", "none"}, rest : Lists]
      BY <1>b, <2>4, PlacesTyped
    <3> QED  BY <3>1 DEF SetupTyped, SetupPlaces
  <2>5. ASSUME refresh.at = "adding", refresh' = AfterChunk(refresh) PROVE RefreshTyped'
    <3>1. refresh' \in [at : {"adding", "none"}, rest : Lists]
      BY <1>b, <2>5, PlacesTyped
    <3> QED  BY <3>1 DEF RefreshTyped, RefreshPlaces
  <2>6. /\ setup' = [at |-> "adding", rest |-> recorded] => SetupTyped'
        /\ refresh' = [at |-> "adding", rest |-> recorded] => RefreshTyped'
    BY <1>b DEF SetupTyped, RefreshTyped, SetupPlaces, RefreshPlaces
  <2> QED  BY <2>1, <2>2, <2>3, <2>4, <2>5, <2>6
<1>d. /\ AddAddresses(Chunk(setup.rest)) \/ AddAddresses(Chunk(refresh.rest)) => ProxyTyped'
      /\ SetFilterType("accept") \/ SetFilterType("reject") => ProxyTyped'
  BY <1>0, <1>b, ChunkTyped, AddTyped, SetTyped
<1>e. \A t : OurTurn(t) => queue # <<>>
  BY DEF OurTurn
<1>1. CASE Connect \/ Drop
  <2>1. proxy' \in FreshProxies => ProxyTyped'
    <3>1. ASSUME proxy' \in FreshProxies PROVE ProxyTyped'
      <4>1. proxy'.list = {} /\ proxy'.room \in Nat
        BY <3>1, FilterAssumption DEF FreshProxies
      <4>2. Cardinality(proxy'.list) = 0
        BY <4>1, FS_EmptySet
      <4> QED  BY <3>1, <4>1, <4>2 DEF ProxyTyped, FreshProxies
    <3> QED  BY <3>1
  <2>2. LinkTyped'
    BY <1>0, <1>1 DEF Connect, Drop, LinkTyped, ours
  <2> QED  BY <1>1, <1>a, <2>1, <2>2 DEF Connect, Drop, ours, tasks
<1>2. CASE Setup
  <2>1. UNCHANGED <<src, haOnly, recorded, changes, refresh, waiting, pushes>>
    BY <1>2 DEF Setup, SetupBegins, SetupFails, SetupRaises, SetReject, StatusArrives, WaitEnds,
                SetAccept, SetupLists, SetupAdds, addrs, ours, tasks
  <2>2. LinkTyped'
    BY <1>0, <1>2 DEF Setup, SetupBegins, SetupFails, SetupRaises, SetReject, StatusArrives,
        WaitEnds, SetAccept, SetupLists, SetupAdds, StatusAtStart, addrs, ours, LinkTyped
  <2>3. ProxyTyped'
    BY <1>2, <1>a, <1>d DEF Setup, SetupBegins, SetupFails, SetupRaises, SetReject,
        StatusArrives, WaitEnds, SetAccept, SetupLists, SetupAdds
  <2>4. SetupTyped'
    BY <1>2, <1>a, <1>c DEF Setup, SetupBegins, SetupFails, SetupRaises, SetReject,
        StatusArrives, WaitEnds, SetAccept, SetupLists, SetupAdds, SetupPlaces, tasks
  <2>5. QueueTyped'
    BY <1>0, <1>2, <1>a, <1>e, TailTyped, EnqueueTyped, RequeueTyped
    DEF Setup, SetupBegins, SetupFails, SetupRaises, SetReject, StatusArrives, WaitEnds,
        SetAccept, SetupLists, SetupAdds, tasks
  <2> QED  BY <1>a, <2>1, <2>2, <2>3, <2>4, <2>5
<1>3. CASE Refresh
  <2>1. UNCHANGED <<link, mode, confirmed, src, haOnly, recorded, changes, setup, pushes>>
    BY <1>3 DEF Refresh, RefreshBegins, RefreshFails, RefreshRaises, RefreshSets, RefreshLists,
                RefreshAdds, addrs, ours
  <2>2. LinkTyped' /\ WaitTyped'
    <3>1. missed' \in {missed, TRUE, FALSE}
      BY <1>3 DEF Refresh, RefreshBegins, RefreshFails, RefreshRaises, RefreshSets,
          RefreshLists, RefreshAdds, ours
    <3>2. waiting' = waiting \/ (waiting > 0 /\ waiting' = waiting - 1)
      BY <1>3 DEF Refresh, RefreshBegins, RefreshFails, RefreshRaises, RefreshSets,
          RefreshLists, RefreshAdds
    <3>3. waiting' \in 0..changes
      BY <1>0, <3>2, FilterAssumption DEF WaitTyped, OursTyped
    <3> QED  BY <1>0, <2>1, <3>1, <3>3 DEF LinkTyped, WaitTyped
  <2>3. ProxyTyped'
    BY <1>3, <1>a, <1>d DEF Refresh, RefreshBegins, RefreshFails, RefreshRaises, RefreshSets,
        RefreshLists, RefreshAdds
  <2>4. RefreshTyped'
    BY <1>3, <1>a, <1>c DEF Refresh, RefreshBegins, RefreshFails, RefreshRaises, RefreshSets,
        RefreshLists, RefreshAdds, RefreshPlaces
  <2>5. QueueTyped'
    BY <1>0, <1>3, <1>a, <1>e, TailTyped, EnqueueTyped, RequeueTyped
    DEF Refresh, RefreshBegins, RefreshFails, RefreshRaises, RefreshSets, RefreshLists,
        RefreshAdds
  <2> QED  BY <1>a, <2>1, <2>2, <2>3, <2>4, <2>5
<1>4. CASE PushSends
  <2>1. UNCHANGED <<link, mode, confirmed, src, haOnly, recorded, changes, setup, refresh,
                    waiting, pushes>>
        /\ queue # <<>> /\ queue' = Tail(queue)
    BY <1>4, <1>e DEF PushSends, addrs
  <2>2. LinkTyped'
    BY <1>0, <1>4, <2>1 DEF PushSends, LinkTyped, IsConnected
  <2>3. ProxyTyped'
    BY <1>0, <1>4, <1>a, PushedTyped, AddTyped DEF PushSends
  <2> QED  BY <1>0, <1>a, <2>1, <2>2, <2>3, TailTyped
<1>5. CASE \E addr \in pushes : PushBegins(addr)
  <2>1. PICK addr \in pushes : PushBegins(addr)
    BY <1>5
  <2>2. addr \in Srcs /\ WaitTyped'
    BY <1>0, <2>1 DEF WaitTyped, PushBegins, ours
  <2>3. QueueTyped'
    BY <1>0, <1>a, <2>1, <2>2, PushTyped DEF PushBegins
  <2> QED  BY <1>a, <2>1, <2>2, <2>3 DEF PushBegins, ours
<1>6. CASE ConfigChange
  <2>1. UNCHANGED <<proxy, link, mode, confirmed, missed, setup, refresh, queue>>
    BY <1>6 DEF ConfigChange
  <2>2. OursTyped'
    BY <1>0, <1>6, FilterAssumption DEF ConfigChange, OursTyped, Record
  <2>3. waiting' \in 0..changes'
    BY <1>0, <1>6, FilterAssumption DEF WaitTyped, OursTyped, ConfigChange
  <2> QED  BY <1>0, <1>6, <1>a, <2>1, <2>2, <2>3 DEF ConfigChange, WaitTyped
<1>7. CASE Rotate
  <2>1. UNCHANGED <<proxy, link, mode, confirmed, missed, setup, refresh, queue, waiting>>
    BY <1>7 DEF Rotate
  <2>2. src' \in Srcs
    BY <1>0, <1>7, FilterAssumption DEF Rotate, OursTyped, Srcs
  <2>3. OursTyped' /\ WaitTyped'
    BY <1>0, <1>7, <2>2 DEF Rotate, OursTyped, WaitTyped, Record, PushesNow
  <2> QED  BY <1>a, <2>1, <2>3
<1>8. CASE UNCHANGED vars
  BY <1>8, <1>a DEF vars
<1> QED  BY <1>1, <1>2, <1>3, <1>4, <1>5, <1>6, <1>7, <1>8 DEF Next, Push

(* Every variable of the filter stays in its domain in every environment; in particular a
   proxy never holds more than it has room for. *)
THEOREM TypeCorrect == Spec => []TypeOK
<1> QED  BY InitTyped, StepTyped, PTL DEF Spec

-----------------------------------------------------------------------------
(* What is on its way into the accept list *)

Room == proxy.room >= Cardinality(Addresses)

PushQueued(a) == \E i \in 1..Len(queue) : queue[i].task = "push" /\ queue[i].addr = a

(* The proxy has the address, or a task that is under way will still add it. *)
Coming(a) ==
  \/ a \in proxy.list
  \/ setup.at = "adding" /\ a \in Range(setup.rest)
  \/ refresh.at \in {"set", "list"}
  \/ refresh.at = "adding" /\ a \in Range(refresh.rest)
  \/ waiting > 0
  \/ a \in pushes
  \/ PushQueued(a)

(* On a link where no message failed, a set-up that is over has chosen a mode, and in the
   accept list's every address of interest is there or on its way. *)
Covered ==
  link = "up" /\ ~missed /\ Room =>
    /\ mode = "none" => setup.at # "none"
    /\ mode = "accept" => \A a \in Range(recorded) : Coming(a)

AddsAccept == IsConnected /\ setup.at = "adding" => mode = "accept"

CInv == IInv /\ TypeOK /\ AddsAccept /\ Covered

LEMMA AllFits ==
  ASSUME ProxyTyped, Room, NEW addresses \in Seq(Addresses), AddAddresses(addresses)
  PROVE  proxy'.list = proxy.list \cup Range(addresses) /\ proxy'.room = proxy.room
<1>1. PICK n \in 0..Len(addresses) :
        /\ n < Len(addresses) => Cardinality(Kept(addresses, n + 1)) > proxy.room
        /\ proxy' = [proxy EXCEPT !.list = Kept(addresses, n)]
  BY DEF AddAddresses
<1>2. CASE n < Len(addresses)
  <2>1. \A i \in 1..(n + 1) : addresses[i] \in Addresses
    BY <1>2
  <2>2. SubSeq(addresses, 1, n + 1) \in Seq(Addresses)
    BY <2>1, SubSeqProperties
  <2>3. Kept(addresses, n + 1) \in SUBSET Addresses
    BY <2>2 DEF Kept, ProxyTyped, Range
  <2>4. Cardinality(Kept(addresses, n + 1)) <= Cardinality(Addresses)
    BY <2>3, AddressesFinite, FS_Subset
  <2>5. /\ Cardinality(Kept(addresses, n + 1)) \in Nat /\ Cardinality(Addresses) \in Nat
        /\ proxy.room \in Nat
    BY <2>3, AddressesFinite, FS_Subset, FS_CardinalityType, FilterAssumption DEF ProxyTyped
  <2> QED  BY <1>1, <1>2, <2>4, <2>5 DEF Room
<1>3. CASE n = Len(addresses)
  <2>1. SubSeq(addresses, 1, n) = addresses
    BY <1>3, SubSeqFull
  <2> QED  BY <1>1, <2>1 DEF Kept, ProxyTyped
<1> QED  BY <1>2, <1>3

(* The pushes in the queue stay there when another task takes its turn or joins. *)
LEMMA PushesStay ==
  ASSUME QueueTyped,
         \/ UNCHANGED queue
         \/ queue # <<>> /\ Head(queue).task # "push" /\ queue' = Tail(queue)
         \/ \E turn \in AllTurns : queue' = Append(queue, turn)
         \/ queue # <<>> /\ queue' = Append(Tail(queue), Head(queue)),
         NEW a, PushQueued(a)
  PROVE  PushQueued(a)'
<1>1. PICK i \in 1..Len(queue) : queue[i].task = "push" /\ queue[i].addr = a
  BY DEF PushQueued
<1>2. CASE UNCHANGED queue
  BY <1>1, <1>2 DEF PushQueued
<1>3. CASE queue # <<>> /\ Head(queue).task # "push" /\ queue' = Tail(queue)
  <2>1. i # 1
    BY <1>1, <1>3 DEF QueueTyped
  <2>2. i - 1 \in 1..Len(queue') /\ queue'[i - 1] = queue[i]
    BY <1>1, <1>3, <2>1 DEF QueueTyped
  <2> QED  BY <1>1, <2>2 DEF PushQueued
<1>4. CASE \E turn \in AllTurns : queue' = Append(queue, turn)
  <2>1. i \in 1..Len(queue') /\ queue'[i] = queue[i]
    BY <1>1, <1>4 DEF QueueTyped
  <2> QED  BY <1>1, <2>1 DEF PushQueued
<1>5. CASE queue # <<>> /\ queue' = Append(Tail(queue), Head(queue))
  <2>1. CASE i = 1
    <3>1. Len(queue) \in 1..Len(queue') /\ queue'[Len(queue)] = queue[i]
      BY <1>1, <1>5, <2>1 DEF QueueTyped
    <3> QED  BY <1>1, <3>1 DEF PushQueued
  <2>2. CASE i # 1
    <3>1. i - 1 \in 1..Len(queue') /\ queue'[i - 1] = queue[i]
      BY <1>1, <1>5, <2>2 DEF QueueTyped
    <3> QED  BY <1>1, <3>1 DEF PushQueued
  <2> QED  BY <2>1, <2>2
<1> QED  BY <1>2, <1>3, <1>4, <1>5

LEMMA AfterChunkIs ==
  ASSUME NEW at, NEW rest
  PROVE  LET task == [at |-> at, rest |-> rest]
         IN  IF After(rest) = <<>> THEN AfterChunk(task) = Done
             ELSE AfterChunk(task) = [at |-> at, rest |-> After(rest)]
BY DEF AfterChunk

LEMMA HeadOfTurn ==
  ASSUME NEW t, OurTurn(t)
  PROVE  queue # <<>> /\ Head(queue).task = t
BY DEF OurTurn

(* A step that keeps the mode and all that is coming. *)
LEMMA StillCovered ==
  ASSUME Covered, UNCHANGED <<link, mode, recorded>>, proxy'.room = proxy.room,
         missed => missed', mode = "none" /\ setup.at # "none" => setup'.at # "none",
         \A a : Coming(a) => Coming(a)'
  PROVE  Covered'
BY DEF Covered, Room

LEMMA LinkCovered ==
  ASSUME CInv, Connect \/ Drop \/ SetupFails \/ SetupRaises \/ RefreshFails \/ RefreshRaises
  PROVE  AddsAccept' /\ Covered'
<1>1. CASE Connect
  BY <1>1, DoneAt DEF Connect, tasks, AddsAccept, Covered
<1>2. CASE Drop
  BY <1>2 DEF Drop, AddsAccept, Covered, IsConnected
<1>3. CASE SetupFails
  BY <1>3, DoneAt DEF SetupFails, IsConnected, AddsAccept, Covered
<1>4. CASE SetupRaises
  BY <1>4, DoneAt DEF SetupRaises, AddsAccept, Covered
<1>5. CASE RefreshFails
  BY <1>5 DEF RefreshFails, IsConnected, AddsAccept, Covered
<1>6. CASE RefreshRaises
  BY <1>6 DEF RefreshRaises, AddsAccept, Covered, CInv, IsConnected
<1> QED  BY <1>1, <1>2, <1>3, <1>4, <1>5, <1>6

(* The set-up has something to do until it has chosen, and then the whole list is coming. *)
LEMMA SetupCovered ==
  ASSUME CInv, SetupBegins \/ SetReject \/ StatusArrives \/ WaitEnds \/ SetAccept \/ SetupLists
  PROVE  AddsAccept' /\ Covered'
<1>1. CASE SetupBegins
  <2>1. mode' = "none" /\ setup'.at = "reject"
    BY <1>1, PlaceAt DEF SetupBegins
  <2> QED  BY <2>1 DEF AddsAccept, Covered
<1>2. CASE SetReject \/ SetAccept
  <2>1. mode = "none" /\ mode' = "none" /\ setup'.at \in {"waiting", "accepted"}
    BY <1>2, PlaceAt DEF SetReject, SetAccept, CInv, IInv, SetupKnows, Shape
  <2> QED  BY <2>1 DEF AddsAccept, Covered
<1>3. CASE StatusArrives
  <2>1. UNCHANGED <<link, proxy, mode, missed, recorded, setup, refresh, waiting, pushes, queue>>
    BY <1>3 DEF StatusArrives, ours, tasks
  <2>2. \A a : Coming(a) => Coming(a)'
    BY <2>1 DEF Coming, PushQueued
  <2>3. AddsAccept'
    BY <2>1 DEF CInv, AddsAccept, IsConnected
  <2> QED  BY <2>1, <2>2, <2>3, StillCovered DEF CInv
<1>4. CASE WaitEnds
  <2>1. \/ mode' = "all" /\ setup' = Done
        \/ mode' = mode /\ setup' = At("accept")
    BY <1>4 DEF WaitEnds
  <2>3. At("accept").at = "accept"
    BY PlaceAt
  <2>2. mode = "none"
    BY <1>4 DEF WaitEnds, CInv, IInv, SetupKnows, Shape
  <2> QED  BY <2>1, <2>2, <2>3, DoneAt DEF AddsAccept, Covered
<1>5. CASE SetupLists
  <2>1. /\ mode' = "accept" /\ setup'.at = "adding" /\ setup'.rest = recorded
        /\ recorded' = recorded
    BY <1>5 DEF SetupLists, ours
  <2> QED  BY <2>1 DEF AddsAccept, Covered, Coming
<1> QED  BY <1>1, <1>2, <1>3, <1>4, <1>5

(* A message of a list puts into the proxy what it takes off the list. *)
LEMMA AddsCovered ==
  ASSUME CInv, SetupAdds \/ RefreshAdds
  PROVE  AddsAccept' /\ Covered'
<1>0. ProxyTyped /\ SetupTyped /\ RefreshTyped /\ QueueTyped
  BY TypesAre DEF CInv
<1>1. UNCHANGED <<link, mode, recorded, missed, waiting, pushes>>
  BY DEF SetupAdds, RefreshAdds, ours
<1>2. QueueTyped /\ (\/ queue # <<>> /\ Head(queue).task # "push" /\ queue' = Tail(queue)
                     \/ queue # <<>> /\ queue' = Append(Tail(queue), Head(queue)))
  <2>1. queue # <<>> /\ Head(queue).task # "push"
    BY HeadOfTurn DEF SetupAdds, RefreshAdds
  <2> QED  BY <1>0, <2>1 DEF SetupAdds, RefreshAdds, Requeue
<1>3. \A a : PushQueued(a) => PushQueued(a)'
  BY <1>2, PushesStay
<1>4. ASSUME NEW list \in Lists, AddAddresses(Chunk(list)), Room
      PROVE  /\ proxy.list \subseteq proxy'.list /\ proxy'.room = proxy.room
             /\ \A a \in Range(list) : a \in proxy'.list \/ a \in Range(After(list))
  BY <1>0, <1>4, ChunkTyped, AllFits, ListsTyped, AfterTyped
<1>5. proxy'.room = proxy.room
  <2>1. PICK l : proxy' = [proxy EXCEPT !.list = l]
    BY Zenon DEF SetupAdds, RefreshAdds, AddAddresses
  <2> QED  BY <1>0, <2>1 DEF ProxyTyped
<1>6. CASE SetupAdds
  <2>1. /\ setup.at = "adding" /\ AddAddresses(Chunk(setup.rest)) /\ UNCHANGED refresh
        /\ setup' = AfterChunk(setup) /\ setup.rest \in Lists /\ IsConnected
    BY <1>0, <1>6 DEF SetupAdds, SetupTyped
  <2>2. \/ setup' = Done /\ After(setup.rest) = <<>>
        \/ setup'.at = "adding" /\ setup'.rest = After(setup.rest)
    <3>1. setup = [at |-> setup.at, rest |-> setup.rest]
      BY <1>0 DEF SetupTyped
    <3>2. IF After(setup.rest) = <<>> THEN AfterChunk(setup) = Done
          ELSE AfterChunk(setup) = [at |-> setup.at, rest |-> After(setup.rest)]
      BY <3>1, AfterChunkIs, Zenon
    <3>3. CASE After(setup.rest) = <<>>
      BY <2>1, <3>2, <3>3
    <3>4. CASE After(setup.rest) # <<>>
      <4>1. setup' = [at |-> "adding", rest |-> After(setup.rest)]
        BY <2>1, <3>2, <3>4
      <4> QED  BY <4>1
    <3> QED  BY <3>3, <3>4
  <2>3. mode = "accept"
    BY <2>1 DEF CInv, AddsAccept
  <2>4. Room => \A a : Coming(a) => Coming(a)'
    <3> SUFFICES ASSUME Room, NEW a, Coming(a) PROVE Coming(a)'
      OBVIOUS
    <3>1. Range(<<>>) = {}
      BY DEF Range
    <3>2. CASE a \in Range(setup.rest)
      <4>1. a \in proxy'.list \/ (a \in Range(After(setup.rest)))
        BY <1>4, <2>1, <3>2
      <4> QED  BY <2>2, <3>1, <4>1 DEF Coming
    <3>3. CASE ~(a \in Range(setup.rest))
      BY <1>1, <1>3, <1>4, <2>1, <3>3 DEF Coming
    <3> QED  BY <3>2, <3>3
  <2>5. Covered'
    BY <1>1, <1>5, <2>3, <2>4 DEF CInv, Covered, Room
  <2> QED  BY <1>1, <2>3, <2>5 DEF AddsAccept
<1>7. CASE RefreshAdds
  <2>1. /\ refresh.at = "adding" /\ AddAddresses(Chunk(refresh.rest)) /\ UNCHANGED setup
        /\ refresh' = AfterChunk(refresh) /\ refresh.rest \in Lists
    BY <1>0, <1>7 DEF RefreshAdds, RefreshTyped
  <2>2. \/ refresh' = Done /\ After(refresh.rest) = <<>>
        \/ refresh'.at = "adding" /\ refresh'.rest = After(refresh.rest)
    <3>1. refresh = [at |-> refresh.at, rest |-> refresh.rest]
      BY <1>0 DEF RefreshTyped
    <3>2. IF After(refresh.rest) = <<>> THEN AfterChunk(refresh) = Done
          ELSE AfterChunk(refresh) = [at |-> refresh.at, rest |-> After(refresh.rest)]
      BY <3>1, AfterChunkIs, Zenon
    <3>3. CASE After(refresh.rest) = <<>>
      BY <2>1, <3>2, <3>3
    <3>4. CASE After(refresh.rest) # <<>>
      <4>1. refresh' = [at |-> "adding", rest |-> After(refresh.rest)]
        BY <2>1, <3>2, <3>4
      <4> QED  BY <4>1
    <3> QED  BY <3>3, <3>4
  <2>4. Room => \A a : Coming(a) => Coming(a)'
    <3> SUFFICES ASSUME Room, NEW a, Coming(a) PROVE Coming(a)'
      OBVIOUS
    <3>1. Range(<<>>) = {}
      BY DEF Range
    <3>2. CASE a \in Range(refresh.rest)
      <4>1. a \in proxy'.list \/ (a \in Range(After(refresh.rest)))
        BY <1>4, <2>1, <3>2
      <4> QED  BY <2>2, <3>1, <4>1 DEF Coming
    <3>3. CASE ~(a \in Range(refresh.rest))
      BY <1>1, <1>3, <1>4, <2>1, <3>3 DEF Coming
    <3> QED  BY <3>2, <3>3
  <2>5. Covered'
    BY <1>1, <1>5, <2>1, <2>4 DEF CInv, Covered, Room
  <2> QED  BY <1>1, <2>1, <2>5 DEF CInv, AddsAccept, IsConnected
<1> QED  BY <1>6, <1>7

(* A refresh that has begun brings all of the list. *)
LEMMA RefreshCovered ==
  ASSUME CInv, ~NarrowWindows, RefreshBegins \/ RefreshSets \/ RefreshLists
  PROVE  AddsAccept' /\ Covered'
<1>1. UNCHANGED <<link, mode, recorded, setup>>
  BY DEF RefreshBegins, RefreshSets, RefreshLists, ours, addrs
<1>2. AddsAccept'
  BY <1>1 DEF CInv, AddsAccept, IsConnected
<1>3. CASE RefreshBegins
  <2>1. UNCHANGED <<proxy, missed>> /\ (mode = "accept" => refresh'.at = "set")
    BY <1>3, PlaceAt DEF RefreshBegins, ours
  <2>2. mode = "accept" => \A a : Coming(a)'
    BY <2>1 DEF Coming
  <2> QED  BY <1>1, <1>2, <2>1, <2>2 DEF CInv, Covered, Room
<1>4. CASE RefreshSets
  <2>1. mode = "accept"
    <3>1. ~OnlySetupQueues /\ IsConnected
      BY <1>4, HeadQueues DEF RefreshSets, CInv, IInv, Shape
    <3> QED  BY <3>1 DEF CInv, IInv, SendersNeedAccept
  <2>2. \A a : Coming(a)'
    BY <1>4, PlaceAt DEF RefreshSets, Coming
  <2> QED  BY <1>1, <1>2, <2>1, <2>2 DEF Covered
<1>5. CASE RefreshLists
  <2>1. UNCHANGED <<proxy, missed>> /\ refresh.at = "list"
    BY <1>5 DEF RefreshLists, ours
  <2>2. CASE link = "up"
    <3>1. mode = "accept"
      BY <2>1, <2>2 DEF CInv, IInv, SendersNeedAccept, IsConnected
    <3>2. refresh'.at = "adding" /\ refresh'.rest = recorded
      BY <1>5, <3>1 DEF RefreshLists
    <3> QED  BY <1>1, <1>2, <3>1, <3>2 DEF Covered, Coming
  <2>3. CASE link # "up"
    BY <1>1, <1>2, <2>3 DEF Covered
  <2> QED  BY <2>2, <2>3
<1> QED  BY <1>3, <1>4, <1>5

(* A change of the list leaves a task that brings it, and the task brings it. *)
LEMMA PushCovered ==
  ASSUME CInv, PushSends \/ (\E addr \in pushes : PushBegins(addr)) \/ ConfigChange \/ Rotate
  PROVE  AddsAccept' /\ Covered'
<1>0. ProxyTyped /\ OursTyped /\ WaitTyped /\ QueueTyped
  BY TypesAre DEF CInv
<1>1. UNCHANGED <<link, mode, setup, refresh>>
  BY DEF PushSends, PushBegins, ConfigChange, Rotate
<1>2. AddsAccept'
  BY <1>1 DEF CInv, AddsAccept, IsConnected
<1>3. CASE PushSends
  <2>1. /\ UNCHANGED <<recorded, waiting, pushes>> /\ queue # <<>>
        /\ Head(queue).task = "push" /\ queue' = Tail(queue)
    BY <1>3, HeadOfTurn DEF PushSends, addrs
  <2>2. link = "up" /\ ~missed' =>
          AddAddresses(<<Head(queue).addr>>) /\ ~missed
    BY <1>0, <1>3 DEF PushSends, IsConnected, CInv, TypeOK
  <2>3. proxy'.room = proxy.room
    <3>1. UNCHANGED proxy \/ \E l : proxy' = [proxy EXCEPT !.list = l]
      BY <1>3, Zenon DEF PushSends, AddAddresses
    <3> QED  BY <1>0, <3>1 DEF ProxyTyped
  <2>4. ASSUME link = "up", ~missed', Room, NEW a, Coming(a)
        PROVE  Coming(a)'
    <3>1. proxy'.list = proxy.list \cup Range(<<Head(queue).addr>>)
      BY <1>0, <1>3, <2>2, <2>4, AllFits, PushedTyped DEF PushSends
    <3>2. CASE PushQueued(a)
      <4>1. PICK i \in 1..Len(queue) : queue[i].task = "push" /\ queue[i].addr = a
        BY <3>2 DEF PushQueued
      <4>2. CASE i = 1
        <5>1. Head(queue).addr = a
          BY <1>0, <4>1, <4>2 DEF QueueTyped
        <5> QED  BY <3>1, <5>1 DEF Coming, Range
      <4>3. CASE i # 1
        <5>1. i - 1 \in 1..Len(queue') /\ queue'[i - 1] = queue[i]
          BY <1>0, <2>1, <4>1, <4>3 DEF QueueTyped
        <5> QED  BY <4>1, <5>1 DEF Coming, PushQueued
      <4> QED  BY <4>2, <4>3
    <3>3. CASE ~PushQueued(a)
      BY <1>1, <2>1, <2>4, <3>1, <3>3 DEF Coming
    <3> QED  BY <3>2, <3>3
  <2> QED  BY <1>1, <1>2, <2>1, <2>2, <2>3, <2>4 DEF CInv, Covered, Room
<1>4. CASE \E addr \in pushes : PushBegins(addr)
  <2>1. PICK addr \in pushes : PushBegins(addr)
    BY <1>4
  <2>2. UNCHANGED <<proxy, missed, recorded, waiting>> /\ pushes' = pushes \ {addr}
    BY <2>1 DEF PushBegins, ours
  <2>3. ASSUME mode = "accept", NEW a, Coming(a)
        PROVE  Coming(a)'
    <3>1. queue' = Append(queue, Turn("push", addr)) /\ Turn("push", addr) \in AllTurns
      BY <1>0, <2>1, <2>3 DEF PushBegins, AddsNow, Turn, AllTurns, WaitTyped
    <3>2. PushQueued(a) => PushQueued(a)'
      BY <1>0, <3>1, PushesStay
    <3>3. PushQueued(addr)'
      <4>1. /\ Len(queue) + 1 \in 1..Len(queue')
            /\ queue'[Len(queue) + 1] = Turn("push", addr)
        BY <1>0, <3>1 DEF QueueTyped
      <4> QED  BY <4>1 DEF PushQueued, Turn
    <3> QED  BY <1>1, <2>2, <2>3, <3>2, <3>3 DEF Coming
  <2> QED  BY <1>1, <1>2, <2>2, <2>3 DEF CInv, Covered, Room
<1>5. CASE ConfigChange
  <2>1. UNCHANGED <<proxy, missed>> /\ (link = "up" => waiting' > 0)
    BY <1>0, <1>5, FilterAssumption DEF ConfigChange, IsConnected, WaitTyped, OursTyped
  <2>2. link = "up" => \A a : Coming(a)'
    BY <2>1 DEF Coming
  <2> QED  BY <1>1, <1>2, <2>1, <2>2 DEF CInv, Covered, Room
<1>6. CASE Rotate
  <2>1. src \in Srcs /\ haOnly \in BOOLEAN /\ src + 1 \in Srcs
    BY <1>0, <1>6, FilterAssumption DEF Rotate, OursTyped, Srcs
  <2>2. PICK new \in Srcs : new = src + 1
    BY <2>1
  <2>3. /\ UNCHANGED <<proxy, missed, waiting, queue>>
        /\ recorded' = FilterAddresses(new, haOnly)
        /\ link = "up" => pushes' = pushes \cup {new}
    BY <1>6, <2>2 DEF Rotate, Record, PushesNow, IsConnected
  <2>4. \A a \in Range(recorded') : a = new \/ a \in Range(recorded)
    BY <1>0, <2>1, <2>3, ListOfNextSrc DEF OursTyped
  <2>5. link = "up" => /\ \A a : Coming(a) => Coming(a)'
                       /\ Coming(new)'
    BY <1>1, <2>3 DEF Coming, PushQueued
  <2> QED  BY <1>1, <1>2, <2>3, <2>4, <2>5 DEF CInv, Covered, Room
<1> QED  BY <1>3, <1>4, <1>5, <1>6

LEMMA StepCInv == CInv /\ ~NarrowWindows /\ [Next]_vars => CInv'
<1> SUFFICES ASSUME CInv, ~NarrowWindows, [Next]_vars PROVE CInv'
  OBVIOUS
<1>1. IInv' /\ TypeOK'
  BY NextInv, StepTyped DEF CInv
<1>2. CASE Next
  <2>1. AddsAccept' /\ Covered'
    BY <1>2, LinkCovered, SetupCovered, AddsCovered, RefreshCovered, PushCovered
    DEF Next, Setup, Refresh, Push
  <2> QED  BY <1>1, <2>1 DEF CInv
<1>3. CASE UNCHANGED vars
  <2>1. \A a : Coming(a) => Coming(a)'
    BY <1>3 DEF vars, Coming, PushQueued
  <2>2. Covered'
    BY <1>3, <2>1, StillCovered DEF vars, CInv
  <2>3. AddsAccept'
    BY <1>3 DEF vars, CInv, AddsAccept, IsConnected
  <2> QED  BY <1>1, <2>2, <2>3 DEF CInv
<1> QED  BY <1>2, <1>3

(* With the narrow windows closed the inductive invariant of the forwarding holds: whatever is
   of interest is in the proxy or on its way. *)
THEOREM ForwardingInductive == ASSUME ~NarrowWindows PROVE Spec => []CInv
<1>1. Init => CInv
  <2> SUFFICES ASSUME Init PROVE AddsAccept /\ Covered
    BY InitInv, InitTyped DEF CInv
  <2> QED  BY DEF Init, AddsAccept, Covered, IsConnected
<1>2. CInv /\ [Next]_vars => CInv'
  BY StepCInv
<1> QED  BY <1>1, <1>2, PTL DEF Spec

(* Once the tasks are done a proxy with room forwards all we are interested in, whatever
   rotations, changes and drops came between the messages (gatt.py:1389-1451). *)
THEOREM Forwarded == ASSUME ~NarrowWindows PROVE Spec => []InterestingIsForwarded
<1>1. CInv => InterestingIsForwarded
  <2> SUFFICES ASSUME CInv, Settled, ~missed, Room, NEW a \in Range(recorded)
               PROVE  Forwards(a)
    BY DEF InterestingIsForwarded, Room
  <2>1. /\ link = "up" /\ setup = Done /\ refresh = Done /\ waiting = 0 /\ pushes = {}
        /\ queue = <<>>
    BY DEF Settled, NobodySending
  <2>2. mode # "none"
    BY <2>1, DoneAt DEF CInv, Covered
  <2>3. CASE mode = "all"
    BY <2>3 DEF CInv, IInv, ModeIsTheProxys, NeverBlocks, Forwards
  <2>4. CASE mode = "accept"
    <3>1. Coming(a)
      BY <2>1, <2>4 DEF CInv, Covered
    <3>2. ~PushQueued(a)
      BY <2>1 DEF PushQueued
    <3>3. a \in proxy.list
      BY <2>1, <3>1, <3>2, DoneAt DEF Coming
    <3> QED  BY <2>4, <3>3 DEF CInv, IInv, ModeIsTheProxys, Forwards
  <2> QED  BY <2>2, <2>3, <2>4 DEF CInv, TypeOK
<1> QED  BY <1>1, ForwardingInductive, PTL
=============================================================================
