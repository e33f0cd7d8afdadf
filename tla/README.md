# Verification of the Häfele Connect Mesh integration

TLA+ models of `custom_components/haefele_mesh`, the Home Assistant integration for Häfele
Connect Mesh lights and remotes, checked on small instances with TLC and, for the results
listed under *Proofs*, proved with TLAPS for every value of the constants.

Line references (`gatt.py:1297`) are to `src/custom_components/haefele_mesh/`. The entry
`map` of `PROJECT.json` gives the lines each definition models, `hazards` what can go wrong
and which property looks for it.

## Inventory of the system

The integration is one asyncio program: tasks interleave only at an `await`. It talks to one
proxy node over Bluetooth LE, which relays to the mesh, and keeps two small files.

| Component (source) | State | Operations | Must hold |
|---|---|---|---|
| SEQ store and SRC rotation (coordinator) | `_seq_state`, `_seq_reserved`, `_active_src`, a JSON file | set-up with its jump, `next_seq`, rotation to a fresh address, shutdown | a SEQ is never used twice per SRC, across crashes; a rotation lands on an address never heard; it survives a restart |
| IV Index (gatt, coordinator) | `session.iv_index`, `iv_update`, `iv_confirmed`, a copy in the same file | handle a beacon, save, restore | never ahead of the network, never back, in step with the last beacon heard |
| Proxy connection (gatt, coordinator) | `_client`, `_connect_lock`, `_user_disconnecting`, `_reconnect_task` | `connect_any`, candidate attempt, teardown, drop, auto-reconnect, heartbeat, `disconnect()` | one link at a time; a lost one comes back; nothing restarts while unloading |
| Proxy filter (gatt, coordinator) | the proxy's filter list, `filter_mode`, `last_filter_status`, the recorded addresses | filter set-up and its fallback, `refresh_filter`, push of a rotated SRC | what interests us is forwarded, nothing is blocked, the mode is the proxy's |
| Transmission (gatt) | `_tx_lock`, `_acks`, `_ack_event` | `send_access`, `send_devkey` with retransmissions, Segment Acks | SEQs leave in order; an answer is about this message; every send ends |
| Segmentation and reassembly (transport, gatt) | `Reassembler._pending`: the parts of a message by node and SeqAuth | a segment arrives, entries expire, a Block Ack is answered | a message is delivered once, complete and unmixed; acknowledged when, and only when, it was delivered |
| Remote position configuration (remote_configurator, remote_config) | stored positions and pending controls, a job per remote, waiters | choose a mode, a press starts a job, statuses, saves | what counts as confirmed is applied; what is chosen gets applied; nothing is forgotten |
| State polling and remote events (coordinator, remote) | `_poll_lock`, `_quick_poll_groups`, the two poll tasks, `RemoteDecoder._seen` | periodic poll, quick poll, press, shutdown | one event per press; a press is followed by a read of its lights; nothing polls after shutdown |
| Light entity (light) | `_is_on`, `_brightness`, availability, the initial sync | commands, statuses, polls, heartbeat | what is shown is in the end what the lamp does; turning on sends light |
| Address planning (addressing, config_flow, coordinator) | none | ranges, initial SRC, reserved addresses | the address chosen is free, and the coordinator agrees |
| Config flow, parser, crypto, diagnostics, select and trigger entities | none of their own | forms, parsing, pure functions | - |

How they interact: every transmission takes a SEQ from the SEQ store, then the link from the
proxy connection; a rotation changes `session.src` and tells the filter; a beacon received on
the link moves the IV Index, which the SEQ store persists; a press seen by the event code
starts the configurator's job, whose Sets go through the segmented sender, and a quick poll of
the lights it changed, whose answers correct the light entities; reports of remotes come in
segments that the reassembler puts together and acknowledges; a changed "HA only"
position refreshes the filter; unloading shuts all of them down in an order that matters.

What is hard in it: writes that fail or are cancelled with the file possibly replaced; a crash
between any two awaits; drops of the link in the middle of everything; several tasks sharing
one link, one lock and one filter list; acknowledgments and statuses that are late, repeated,
lost or about something that has been replaced; battery remotes that are reachable only for
seconds after a press; counters that must never repeat or go back.

## The modules

| Module | Models | Checked by | Proved in |
|---|---|---|---|
| `SeqSource` | abstract: growing SEQs per SRC, for ever | (refined by `SeqAllocator`) | |
| `SeqAllocator` | SEQ store and SRC rotation | `MCSeqAllocator` | `SeqAllocator_proofs` |
| `AddressPlanning` | what the config flow and the coordinator read in an export (operators) | through `FirstStart` | `SeqAllocator_proofs` |
| `FirstStart` | `SeqAllocator` for an entry made from an export | `MCSeqAllocator` | `SeqAllocator_proofs` |
| `IvIndex` | IV Index, beacons, its persistence | `MCIvIndex` | `IvIndex_proofs` |
| `ProxyLink` | the one GATT link and its availability | `MCProxyLink` | `ProxyLink_proofs` |
| `ProxyFilter` | the proxy's filter and its three writers | `MCProxyFilter` | `ProxyFilter_proofs` |
| `SegmentedTx` | sending under `_tx_lock`, Segment Acks | `MCSegmentedTx` | `SegmentedTx_proofs` |
| `RemoteConfigurator` | modes of remote positions, the job | `MCRemoteConfigurator` | `RemoteConfigurator_proofs` |
| `MeshInbox` | abstract: messages handed up whole, and once | (refined by `Reassembly`) | |
| `Reassembly` | the receiver of segmented messages and its Block Acks | `MCReassembly` | `Reassembly_proofs` |
| `Polling` | the two polls, their lock and their end | through `RemoteEvents` | `RemoteEvents_proofs` |
| `RemoteEvents` | presses, their copies, deduplication; extends `Polling` | `MCRemoteEvents` | `RemoteEvents_proofs` |
| `Light` | what is shown of one lamp, and the lamp | `MCLight` | |

Each module has one action per stretch of code between two awaits, and takes the other
components as what they promise: `SegmentedTx` takes growing SEQs, which `SeqSource` promises;
`RemoteConfigurator` takes a send that ends with true or false, which `SegmentedTx` shows;
`ProxyFilter` takes a link that comes and goes as it likes; `Light` takes a lamp that is asked
again and again, which `Polling` shows (`LightsArePolled`).

### SeqAllocator, SeqSource

`disk` is the file, `seqState`, `seqReserved`, `activeSrc` the coordinator's memory, `call` the
one holder of `_seq_lock` with what it is writing, `phase` the place between `async_setup` and
`async_shutdown`. A write is two actions (request, outcome); it may fail, be cancelled, or die
with the process, and in all three cases the new file may or may not be in place. `LoadSeq`,
`Prepare`, `RotateAtStartup`, `StartupSaved` and their failures are set-up; `NextSeqCovered`,
`NextSeqReserves`, `NextSeqExhausted`, `BlockSaved`, `RotationSaved` and their failures are
`next_seq`; `FinalSave` is the save of `async_shutdown`, which does not take the lock.
`last` and `out` are the state of `SeqSource`, so `KeepsPromise == Promise!Spec` is refinement.

`LateCallers` lets tasks that the coordinator does not own (an entity's command) call
`next_seq` during and after shutdown. The good results are for its absence; what it breaks
is under *Observations*.

`AddressPlanning` holds the pure functions on addresses: `valid_ranges`,
`_known_node_addresses` and `pick_initial_src` of the config flow, and the coordinator's
readings of the same data. `FirstStart` extends `SeqAllocator` and instantiates it:
`Entry(created, export)` is the entry made from one export, refreshed from another by a
Reconfigure, which keeps `src_address_base`. `FirstStartStays` composes the two: what the flow
chose, the coordinator's start does not have to leave. `MCSeqAllocator` builds its config
entries from two exports with it.

### IvIndex

`net` is the network (Normal n, In Progress n+1, Normal n+1, ...). Every beacon it has ever
sent may arrive now, again, or never, together with forged and foreign ones. `Hear` is the
whole of `_parse_secure_network_beacon`. `Payload`, `Saved`, `SaveFails`, `FinalSave` are what
the SEQ store's writes do to the IV Index kept in the same file. `OutOfReach` (the network is
more than 42 ahead of a confirmed session) and `StartedInUpdate` (below) are the two
exceptions the properties name.

### ProxyLink

`attempt` is the holder of `_connect_lock` and the await it is in (`pick`, `establish`,
`notify`, `beacon`, `teardown`, `filter`); `loose` is a link that is established but not yet in
`_client`; `reconnect` is `_reconnect_task`; `closing` walks through `async_shutdown` and
`disconnect()`. A drop, or a cancellation, may come at any await. Ending the last link in
`disconnect()` is one step.

### ProxyFilter

`setup`, `refresh`, `pushes` are the three kinds of tasks, `queue` the FIFO `_tx_lock`; one
action sends one Proxy Configuration message. The proxy is external: it may ignore a reject
list, not answer, and keep few addresses. A write may raise on a live link, with the message
taken or not: the task ends, the link stays. `missed` remembers it until a set-up or a refresh
starts the list over. `NarrowWindows` opens two windows of 50 ms (a drop
between a write and the statement after it, and senders that wait for the lock longer than a
reconnect takes); with them, see *Observations*.

### SegmentedTx

`send[n]` is a `send_devkey` to node n with its entry in `_acks` (`block`, `cancelled`),
`other[o]` a `send_access` or `_send_ack`, `queue` is `_tx_lock`. A build, each SEQ awaited and
each PDU written are separate steps, so acknowledgments, rotations and failures fall between
them. Written PDUs arrive or are lost; acknowledgments in `acks` may arrive any number of
times and in any order, but die before the SEQs of their SRC have moved on by 2^13. Without
that assumption no implementation of the protocol could tell two messages with equal SeqZero
apart. Taking the TID of a command from `next_seq` outside the lock is part of `Command`.
A PDU is written as a whole: its chunks are kept together by `_send_lock`.

### RemoteConfigurator

`positions` and `disk` are the stored positions in memory and in the file, `job` the task of
one remote with the locals of `_apply`, `_apply_once` and `_set_publication`, `statuses` the
Publication Statuses that may still arrive, `real` what the remote publishes to. The three
non-await steps `Round`, `TakePosition`, `LeavePosition` exclude everything else (`AtAwait`).
`job.held` says whether the job's position record is still the stored one.

`LateStatuses` lets a status arrive after the next Set of its control; `Forgetful` lets a
failed or unfinished write be followed by a crash after the remote has taken the mode. The
good results are for both absent; see *Observations* for the first.

### Reassembly, MeshInbox

`sent` is what the mesh's nodes have begun to send, each with the SeqAuth of its first segment;
any segment may arrive (`Arrives`) at any moment while its node still repeats the message, or
never, with any SEQ less than a SeqZero span past the first. `Arrives` is the whole path of one
segment: `seq_auth_for`, `Reassembler.add` with its expiry of every entry, the message handed
up, and the acknowledgment `decode_network_pdu` decides on. `Key` is the key of an entry, node
and SeqAuth. A part (`Part`) tells the node, the message and the place it really came from, so
parts of two messages of a node, or of two nodes, or in the wrong order, show in `inbox`. An
entry's parts are a function on the places that have arrived, as its dict is. `Life` is how
long a node repeats a message: a `Brief` node stops before the entry expires (10 s), and for
those the promise of `MeshInbox` ("handed up once") holds; the wholeness holds for all.
`Rotate` changes our address between segments.

### Polling, RemoteEvents

`task["quick"]` and `task["periodic"]` are the two poll tasks, each sleeping, or polling with
the lights still `left`; `queue` is `_poll_lock` with its waiters in order; `groups` is
`_quick_poll_groups`. `AskNext` begins a Get to the next light, or skips it: a Get that raises
is caught, so there is one step for both. `Shutdown`, `PeriodicStopped`, `QuickStopped` are
`async_shutdown` up to `proxy.disconnect()`, with its awaits between the cancellations.
`RemoteEvents` adds what starts a quick poll: `Hear` is `_dispatch_remote` with
`RemoteDecoder.decode` for one copy of a press. Copies of a press come in any order until
`SPREAD` after it, a TID is used again after `TidSpan` presses but not within
`DEDUP_WINDOW + SPREAD`; that is the model's assumption on hands and retransmissions.
`unread` and `asked` are history: what a press has changed and what a step has asked.

### Light

`entity`, `available` and `shown` are the entity, `commands` the service calls between what
they set before their await and after it, `sync` the Gets of `_initial_sync`, `air` the
statuses on their way, each with the state the lamp had when it answered, `lamp` the lamp.
Brightness and lightness keep their conversion (`Brightness`, `Lightness`, with its rounding
and its ratio as a constant), because some lightness that is not zero is brightness zero.
Colour is left out: it is set and reported along with the lightness.

## Runs

Passing runs:

| Run | Instance | What it shows |
|---|---|---|
| `seq` | 4 addresses, SEQs 0..5, blocks of 1, threshold 3, a Reconfigure that puts a node on our address | refinement of `SeqSource`; a ceiling on disk over every SEQ out; rotations to fresh addresses that survive crashes; stuck on a bad or exhausted address only when nothing else was possible; a new entry starts on an address it may keep |
| `iv` | jump limit 2, network up to IV Index 5, stored values below, at and beyond it, forged beacons | never ahead, never back (in transmission and on disk), in step after a current beacon, decrypts nodes during updates, catches up |
| `link` | scans with one or two candidates | never two links, the flag always comes down, the link comes back, availability settles |
| `filter` | messages of 2 addresses, room for 3 or 9, one rotation, two changes | nothing blocked, `filter_mode` true, and all forwarded when there is room and no message of the set-up or of a refresh failed |
| `tx` | one remote, one single-PDU task, 2 segments, 2 retransmissions, SeqZero modulo 3, one rotation | positive and negative answers are true, SEQs leave in order, every send ends |
| `remote_config` | two positions, one control each and one control that left the export, 2 changes, 2 mishaps, 2 rounds | confirmed is applied, returned is saved, pending is applied in the end |
| `reassembly` | a brief and a lasting node, two messages of one or two segments, SeqAuths 0 to 2, SeqZero modulo 2, one rotation | delivered whole, unmixed, once; acknowledged exactly when delivered |
| `presses` | two lights, one group, two sources, two presses that may share a TID, a window of 2 and copies for 1 | one event per press, none lost; a press is read by a pass that begins after it; nothing polls after shutdown; every light is read again and again |
| `light` | every capability, brightness 0-2 with three units of lightness each, two commands, one change by others, two statuses in the air | what is shown settles on what the lamp does, whatever order commands, statuses and failures come in |

Bounds. The SEQ space of 6 with a threshold of 3 reaches each boundary of the real one
(block end, threshold, end of space) within few steps, and 4 addresses allow every one to be
burnt. The two exports of `seq` put a node of two elements on SRC_ADDRESS_BASE, so that the
search of `pick_initial_src` begins, passes an element and ends, and leave one address
outside the ranges for a rotation to prefer. The IV bounds allow two full updates while the
session is down, within and beyond the jump limit. Two candidates are enough for a teardown followed by another attempt under the
same lock. Two addresses per message make a list that needs two messages, so others fall in
between; room 3 is less and room 9 more than all there is. In `tx`, `MaxTaken` = 3 stops new
sends, not resends, after three SEQs: a second message whose SEQ comes after the TID of a
command has the SeqZero of the first, and a message of the second SRC meets late
acknowledgments of the first. In
`remote_config` two rounds instead of three let a run hit the limit, and two mishaps are a job
that gives up (MAX_SILENT = 2), or a failed write and a crash. In `reassembly` the
SeqAuths 0 to 2 with a SeqZero span of 2 let a node send two messages of two segments with the
same SeqZero (0 and 2), and let both be partly there at once; a reassembler that looks its
entries up by SeqZero (the mutant `ZeroKey`) mixes them. Two nodes use the same SeqAuth at
once. Two ticks see an entry expire under a node that goes on. Two presses with `TidSpan` 1 share a
TID; the third tick lets the window pass. In `light` the lightness 1 is on with brightness 0.

Runs that refute what a comment, a document or a guard of the code says:

| Run | Says | What happens |
|---|---|---|
| `seq_setup_loss` | coordinator.py:125, a rotation survives restarts | a set-up that fails between reading the SEQ store and choosing the SRC saves a file without it |
| `remote_config_reach` | README.md:130, the last position can't be disabled | a position whose way out of disabled is still pending counts as enabled |
| `light_zero` | light.py:320-321, without a brightness a remembered 0 is replaced by 255 | a turn_on without a brightness sends 0 when a status has left brightness 0 with the light shown as on |

In `remote_config_reach` TLC's shortest trace ends a job by a crash; two unanswered Sets, or a
refusal, do the same.

## Fairness

- `IvIndex`: the proxy sends its current beacon again and again and the pump handles it
  (`WF` on hearing it).
- `ProxyLink`: every await of an attempt ends (each has a timeout); timers fire (heartbeat,
  two-second reconnect delay); `asyncio.Lock` is first come first served, so a task that asks
  for the link again and again gets it (`SF`). That a proxy is in range is no fairness of the
  code: it is the antecedent `ProxyInRange` of `LinkComesBack`.
- `SegmentedTx`: tasks go on (`WF` on the steps of each); the wait for an acknowledgment ends
  with its timer. Nothing makes the mesh deliver.
- `RemoteConfigurator`: tasks and writes go on; while something is pending the user presses
  again, and the awake remote takes and answers every Set except `MaxMishaps` of them. This is
  what README.md:130 asks of the user; without it nothing can be promised.

- `RemoteEvents`: a poll task goes on when it can (`WF` on the steps of each): sleeps end, Gets
  end (each has its timeouts, `EverySendEnds`), and `_poll_lock` is first come, first served.
  That the link stays up is the antecedent of `LightsArePolled`.
- `Light`: polls and heartbeats come again and again (`WF`; the first is `LightsArePolled`),
  and of all the statuses one arrives again and again (`SF`): a mesh that loses every answer
  corrects nothing.

`CHECK_DEADLOCK FALSE` is set where the system may stop: an unloaded entry (`ProxyLink`), a
model that has spent its bound of sends, changes, messages, ticks or commands (`SegmentedTx`,
`RemoteConfigurator`, `Reassembly`, `RemoteEvents`, `Light`).

## Proofs

All proofs are for arbitrary constants satisfying the named ASSUMEs.

- `SeqAllocator_proofs`: `TypeCorrect` (in any environment), and without `LateCallers`
  `CeilingAlwaysOnDisk`, `Refinement` (`Spec => Promise!Spec`) and `RotationAlwaysFresh`.
  `CeilingOnDisk` alone is not inductive: a SEQ is handed out against `seqReserved`, not
  against the file. `IInv` adds that what is reserved in memory is on disk while running,
  that memory is at or ahead of `last`, that the payload being written covers both, and that
  the final save's payload does.
  The rest speaks of where SRCs come from and why one is still in use: `CrashKeepsRotation`
  (`RotationSurvivesCrash`), `CollidesOnlyIfStuck` (`NodeAddressOnlyIfStuck`) and
  `ExhaustedOnlyAtTheEnd` (`ExhaustedOnlyIfStuck`). `JInv` adds `Lineage` (whoever calls knows
  the active SRC or one that is burnt, a rotation leaves the active SRC for another, and an
  SRC on disk that is not the active one is known to nobody) and `Moved` (a collision or a
  passed threshold has led to a rotation, one that failed, or there is no address).
  `ExhaustedOnlyAtTheEnd` takes a clock that seeds below `SEQ_MAX`: in one second of 2^24 a
  fresh SRC starts at the end of its space (coordinator.py:406) and is exhausted at once.
  `FirstStartAlwaysStays` (`FirstStartStays`) is for every export with room, in any
  environment. It joins two arguments: `InitialSrcIsFree` and `ReadingsAgree`, about the
  operators of `AddressPlanning` (the search returns an address no node has, and what the
  coordinator calls occupied is what the flow avoided), and the invariant `FromFile` (between
  reading the store and choosing an SRC, memory is what the file and the clamped jump say).
- `IvIndex_proofs`: `TypeCorrect`, `NeverAhead`, `TransmitsForward`, `DiskForward`. `IInv`
  orders the places a confirmed IV Index is copied through: file, write in flight, what was
  read, session, network; each is at most the next.
  `InStepWithNetwork` (`InStep`) and `ReportsDecrypt` (`DecryptsNodes`) need the other bound,
  that we are not behind what was heard: in `SInv` the beacon handled last and, but for what a
  session started from, the state it believes were sent by the network (`Informed`).
  `OneBeaconIsEnough`: the step that hears the network's present beacon brings the session all
  the way unless it is out of reach, and nothing takes it back while the network rests.
  `CatchesUpInTheEnd` concludes `CatchesUp` from it.
- `ProxyLink_proofs`: `TypeCorrect`, `NeverASecondLink`, `FlagComesDown`. The strengthening:
  an attempt that has not reached `_client` found no live link there (nobody else can open
  one), and a teardown saved a raised flag only from `disconnect()`.
  `AttemptsEnd` gives `connect_any` a variant (`StepsLeft`: candidates left and the awaits of
  the present one), which each of its own steps lowers and no other task raises;
  `HolderGoesOn` says that the holder of `_connect_lock` always has a step to take (`GInv`: a
  link under construction is handed over from await to await). `LostLinkIsSought` and
  `ReconnectAnswers` say what a drop and a reconnect task leave behind.
  `AvailabilityIsSettled` (`AvailabilitySettles`) and `LostLinkComesBack` (`LinkComesBack`)
  follow with the fairness.
- `ProxyFilter_proofs`: `TypeCorrect`, and with `~NarrowWindows` `NothingIsBlocked`,
  `ModeIsTrue` and `Forwarded` (`InterestingIsForwarded`). The strengthening for the first two:
  a refresh or push that may still send found the mode "accept" on this link, and while a
  set-up tries the reject list nobody else has a turn. For `Forwarded`, `Covered` names for
  every address of interest what still brings it: the list, what a set-up or a refresh has left
  to add, a refresh that waits, a push that has not begun or is in the queue. A set-up that is
  over on a link where nothing failed has chosen a mode. That all addresses fit rests on
  `AllFits`: whatever the proxy is given, in whatever order, is part of a finite set it has
  room for.
- `SegmentedTx_proofs`: `TypeCorrect`, `AcknowledgedIsHeld` (`AckIsForThisMessage`),
  `FalseOnlyIfIncomplete` (`FalseIsTrue`) and `InOrder` (`SeqsInOrder`), for any number
  of remotes, senders and segments and any span of SeqZero. The strengthening has four parts.
  `Shape`: only the holder of the lock has SEQs that are taken and not out. `Ordered`: those
  are above what went out. `Begun` and `Newest`: the message being sent is the newest its node
  knows of, and an older one of the same SRC that may still be acknowledged is less than a span
  away, so its SeqZero differs. `Truth`: an acknowledgment in the air reports at most what its
  node holds, and so does the accumulated block. That acknowledgments of a span ago are gone is
  an assumption of the model (above), and the proof rests on it. The steps are reduced once to
  their `Effect` on a message, its node and the acknowledgments; the last three parts follow
  from that.
  `FalseOnlyIfIncomplete` adds `Heard`: while our SRC is that of the message, what its
  acknowledgments have reported, put together, is in its block.
  Why sends end: `LinedUp` (exactly the tasks that need `_tx_lock` are in its queue, once
  each), `LockIsGivenOn` (its holder has a step to take, everybody else is in the queue or
  waits for a timer), `FirstComeFirstServed` (places in the queue only get better) and
  `EveryStepCounts` (each step of a send lowers what is left of the attempt, or uses one of
  the retransmissions, and nobody else's step raises it).
- `RemoteConfigurator_proofs`: `TypeCorrect` and `NothingIsForgotten` in every environment,
  `ConfirmedAlwaysApplied` without `LateStatuses` and `Forgetful`. `Truth` adds that every
  status in the air tells what the remote does, that a Set not yet taken leaves the old
  publication with its control still pending, that the answer a waiter holds is that of this
  Set, and that the store on disk is as true as memory, so a crash may put it back.
  Why a choice is applied: `JobsEnd` (each step of a job takes it further in an order of
  rounds, positions, controls left and awaits), `JobsGoOn` (it never waits for what cannot
  come: `Awaited`), both in every environment, and `AppliedInTheEnd` (`EventuallyApplied`). The
  last rests on `Clearing`: while a job runs undisturbed, what is pending behind it is nothing,
  and in its position is what it has still to send; it may begin on anything that earlier
  jobs, crashes and refusals left, because a job starts with what is pending then.

- `Reassembly_proofs`: `NeverMixed` (for every node: what is handed up is one message, whole),
  `ImplementsInbox` (`Spec => DeliversOnce`), `AckTrue` (`AckedWhenDelivered`). The promise is
  not inductive over `inbox` alone. The strengthening: no node uses a SeqAuth for two messages
  (`Unique`); an entry belongs to one sent message, and every part in it is that message's
  (`Sound`); and a message of a brief node that was handed up still has its finished entry as
  long as the node may repeat it (`Remembered`).
- `RemoteEvents_proofs`: `PressIsOneEvent` (`OneEventPerPress`), `NoPressForgotten`
  (`PressIsQueued`), `NothingAfterShutdown` (`ShutdownIsFinal`), for any number of lights,
  groups, sources and presses. For the polls: a task is in `queue` exactly while it polls, and
  once (`Queued`), and what shutdown has cancelled stays ended (`Stopped`). For the events:
  presses that share a TID are far enough apart (`Spaced`), and while copies of a press may
  come, `_seen` holds its TID since the press if it was heard, and only a time that no longer
  counts if it was not (`Told`). `PollsNeverStop`: until shutdown the periodic poll is there,
  groups that wait have a quick poll, and the holder of `_poll_lock` can go on (`Alive`);
  `EveryPassIsWhole`: a pass asks each light it began with. `PolledForEver`
  (`LightsArePolled`) follows with the fairness.

Liveness and fairness in the proofs. ENABLED is out of the prover's reach, and with it WF and
SF. The theorems about liveness have the form `Spec /\ <fairness spelt out> => <property>`:

| Theorem | Hypotheses | Stand for |
|---|---|---|
| `CatchesUpInTheEnd` | `BeaconsKeepComing`, `NetworkRests` | `WF` on hearing the beacon; the model's bound on updates |
| `AvailabilityIsSettled` | `AttemptsFinish`, `HeartbeatsCome` | `WF_vars(Progress)`; `SF_vars(Refresh)` |
| `LostLinkComesBack` | `AttemptsFinish`, `AProxyIsFound` (if `ProxyInRange`) | `WF_vars(Progress)`; the `SF`s of `ProxyInRange` |
| `AppliedInTheEnd` | `JobsFinish`, `PressesCome`, `ComesToRest` | `WF` on the job's steps and the answers; `WF` on the press; the bounds on changes and mishaps |
| `PolledForEver` | `PassesFinish`, `SleepsEnd` | `WF` on the polls' steps; `WF` on waking |

A hypothesis about one step says in which states the step can happen and change something,
which is what ENABLED would say. The ones that something finite comes to an end
(`AttemptsFinish`, `JobsFinish`, `PassesFinish`) would follow from weak fairness by an
induction over the variant, which for temporal formulas is out of reach as well; what is
needed for it is proved without fairness: that each step lowers the variant and nobody raises
it (`AttemptsEnd`, `JobsEnd`, `EveryPassIsWhole`), and that a step can be taken
(`HolderGoesOn`, `JobsGoOn`, `PollsNeverStop`). Given as PROPERTY to TLC, each hypothesis
holds of `FairSpec` in the instance of the component's run (`AProxyIsFound` under
`ProxyInRange`), so they are not empty.

Only model-checked: `EverySendEnds`, whose proof would be an induction over the
retransmissions and the queue (its steps are proved, above); `SettlesOnLamp` of `Light`; and for the five properties of the table
the way from `WF` and `SF` to the hypotheses. Induction over data and RECURSIVE operators are
out of the prover's reach as well; no module declares one.

## Observations

Met while modelling, and not the subject of a run:

- An unload that overlaps a light command (coordinator.py:751): the final save does not take
  `_seq_lock`, and a task the coordinator does not own is not cancelled, so the save may
  overwrite the block this command has just written; after a crash its SEQ could be used
  again. `MCSeqAllocator.cfg` with `Configs <- Plain` and `LateCallers = TRUE` finds
  `CeilingOnDisk` violated.
- A teardown restores `_user_disconnecting` to the value it had before its await
  (gatt.py:995), also when `disconnect()` raised it meanwhile: the drop that follows starts a
  reconnect although gatt.py:600-601 says none is started. `MCProxyLink.cfg` with
  `MaxCandidates = 1` finds `NoReconnectOnceClosing` violated.
- The accept list of a proxy that keeps four addresses is full when a rotation pushes the new
  SRC (coordinator.py:584), and replies to it do not arrive, which coordinator.py:576 says they
  do. `MCProxyFilter.cfg` with `Capacities = {4}` and `MaxChanges = 0` finds `RepliesReachUs`
  violated.
- A message of the filter set-up that fails on a live link (gatt.py:912) is logged, and the
  link counts as connected: after a failed fallback the mode is None and nothing is forwarded
  until the next connection. `InterestingIsForwarded` excepts it (`missed`); a failed push or
  refresh of an accept list is made up for by the next refresh, which it does not except.
- A status that arrives after the next Set of its control (remote_configurator.py:223) confirms
  a later choice of the same mode which the remote has not taken, while README.md:130 says
  pending until the remote confirms. `MCRemoteConfigurator.cfg` with `LateStatuses = TRUE`,
  `Gone = {}`, `MaxRounds = 3`, `MaxChanges = 3`, `MaxMishaps = 1` finds `ConfirmedIsApplied`
  violated.
- A node that repeats one message for longer than the reassembler keeps its entry (10 s) has
  it handed up a second time; `MeshInbox` promises "once" for `Brief` nodes only.
- A command that fails marks its light unavailable; a later poll whose status changes nothing
  does not mark it available (`_on_status` returns early), the next heartbeat does.
- The poll of a light that is not tunable white asks for OnOff only, so a brightness changed by
  a remote without a report is not corrected; `SettlesOnLamp` claims brightness for tunable
  white lights only.
- A Generic Level Status of a lightness that rounds to brightness 0 shows the light as off, a
  Lightness Status as on with brightness 0.
- `ProxyFilter` with `NarrowWindows = TRUE`: `_setup_proxy_filter` sets `filter_mode` after the
  50 ms sleep of its last send; when the link drops inside it the mode is left set without a
  link. On the next link, before its set-up begins, `refresh_filter` takes that mode for this
  proxy's, and its second message follows the set-up's Set Filter Type reject: the addresses
  are blocked (gatt.py:1424, 1456). TLC finds `NeverBlocks` violated in that instance.
- Persisted IV Index during an update: `iv_update` is not stored (gatt.py:1229), so a session
  restarted in an update transmits with the new IV Index until the update completes; the
  beacons that would tell it are ignored as old. `InStep` excepts it (`StartedInUpdate`).
- A rotation forced at set-up because of an address collision, whose write fails, is not
  retried by the next SEQ, as the comment at coordinator.py:546-548 has it: `next_seq` rotates
  only past the threshold.
- A candidate whose notification subscription fails is disconnected without the flag
  (gatt.py:866, 876), so the callback starts a reconnect that the comment at 1001-1003 says a
  failed candidate does not start. It finds the lock taken and then a link; no harm follows.
- An attempt cancelled while it subscribes leaves its link open with nobody to close it
  (`loose` in `AttemptCancelled`).
- A Segment Ack is compared with the present SRC (gatt.py:1146). When the SRC is rotated
  while a Configuration message is under way, its acknowledgments are not heard, and it is
  sent again and then reported as failed although it arrived; `FalseIsTrue` excepts it. The
  configurator tries again at the next press.
- The first accept-list messages of a set-up's fallback and those of `refresh_filter` may
  interleave; with little room it depends on their order which addresses stay.
- `pick_initial_src` returns SRC_ADDRESS_BASE whenever the export has no ranges, also when a
  node has that address (addressing.py:64-67), and "when nothing says it is unsafe" is its
  docstring (55). The forced rotation of the first start leaves it; `FirstStartStays` is about
  exports with ranges.
- `NODE_ADDRESS_MARGIN` is kept after lights by a rotation (coordinator.py:451-456), not by
  `pick_initial_src`: a first SRC may lie inside the margin of a light.

## Not modelled, and why

Encryption, key derivation and byte layouts are pure functions; the models take
authentication and decryption to succeed for the right key only. The parser, the forms of
the config flow, diagnostics and the thin entities keep no state between calls. Colours of a
light, which message of a remote is which event, and the "HA only" test of a press are taken
as given. The scan is reduced to which candidates it finds. `can_configure` and the export's
contents are constants.

## Plan

Done: the modules above, each with its proofs except `Light`. What is left, most useful first:

1. `EverySendEnds` for a fixed number of retransmissions, from hypotheses of the same form as
   the other liveness theorems.
2. The "HA only" test of a press (`is_ha_only`, `uses_ha_only`) composed from
   `RemoteConfigurator` and `RemoteEvents`.
