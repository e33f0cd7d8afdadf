------------------------------- MODULE IvIndex -------------------------------
(***************************************************************************)
(* The IV Index: what the session believes about it, what Secure Network   *)
(* Beacons may change, and what the SEQ store remembers of it.             *)
(*                                                                         *)
(* The network moves through Normal(n), In Progress(n + 1), Normal(n + 1)  *)
(* and so on.  Every beacon it ever sent may still arrive, in any order    *)
(* and more than once: relays and lagging nodes repeat old ones.  The      *)
(* coordinator starts, saves, stops and crashes around it; the SEQ         *)
(* counters saved in the same file are the subject of SeqAllocator.        *)
(***************************************************************************)
EXTENDS Integers

CONSTANTS
  MaxJump,     \* IV_INDEX_MAX_JUMP
  ConfigIvs,   \* values the config entry's iv_index may have
  ForeignIvs,  \* IV Indexes in beacons that are not ours or do not authenticate
  NetMax       \* bound: the network stops updating at this IV Index

NoIv == -1     \* None
Ivs  == Nat

ASSUME IvAssumption ==
  /\ MaxJump \in Nat \ {0} /\ NetMax \in Nat
  /\ ConfigIvs \subseteq Nat /\ ConfigIvs # {} /\ ForeignIvs \subseteq Nat

VARIABLES
  net,        \* external: the IV Index of the network and whether an update is in progress
  disk,       \* the entry's file: [iv, confirmed]
  phase,      \* where the coordinator is between async_setup and async_shutdown
  persisted,  \* _persisted_iv_index, _persisted_iv_confirmed
  ivIndex,    \* session.iv_index, NoIv while there is no session
  ivUpdate,   \* session.iv_update
  ivConfirmed,\* session.iv_confirmed
  saving,     \* the payload of the write in flight, or NotSaving
  heard       \* history: the last authentic beacon the session has handled

session == <<ivIndex, ivUpdate, ivConfirmed>>
vars    == <<net, disk, phase, persisted, session, saving, heard>>

Stored    == [iv : Ivs \cup {NoIv}, confirmed : BOOLEAN]
NotSaving == [iv |-> NoIv - 1, confirmed |-> FALSE]
Beacon    == [iv : Ivs, update : BOOLEAN, ours : BOOLEAN]
NoBeacon  == [iv |-> 0, update |-> FALSE, ours |-> FALSE]

-----------------------------------------------------------------------------
(* The network *)

NetBeacon == [iv |-> net.iv, update |-> net.update, ours |-> TRUE]

(* Sent by the network so far: everything up to its present state. *)
Sent(b) ==
  /\ b.ours /\ (b.update => b.iv > 0)
  /\ b.iv <= net.iv
  /\ b.iv = net.iv /\ ~b.update => ~net.update

Foreign(b) == ~b.ours /\ b.iv \in ForeignIvs

(* The IV Index the nodes transmit with. *)
NodeTxIv == IF net.update THEN net.iv - 1 ELSE net.iv

UpdateBegins ==
  /\ ~net.update /\ net.iv < NetMax
  /\ net' = [iv |-> net.iv + 1, update |-> TRUE]
  /\ UNCHANGED <<disk, phase, persisted, session, saving, heard>>

UpdateCompletes ==
  /\ net.update
  /\ net' = [net EXCEPT !.update = FALSE]
  /\ UNCHANGED <<disk, phase, persisted, session, saving, heard>>

-----------------------------------------------------------------------------
(* The session *)

(* Mutant: the update in progress is not looked at. *)
TxIvAlwaysCurrent == ivIndex

(* tx_iv_index *)
TxIv == IF ivUpdate /\ ivIndex > 0 THEN ivIndex - 1 ELSE ivIndex

(* Mutant: the current IV Index for everyone. *)
RxIvCurrent(ivi) == ivIndex

(* rx_iv_index: the IVI bit tells the current IV Index from the one before. *)
RxIv(ivi) == IF ivIndex % 2 = ivi \/ ivIndex = 0 THEN ivIndex ELSE ivIndex - 1

(* Mutant: any well-formed beacon will do. *)
AuthenticAll(b) == TRUE

(* Our Network ID, and the authentication value checks. *)
Authentic(b) == b.ours

(* Mutant: off by one. *)
WithinReachStrict(b) == b.iv >= ivIndex /\ b.iv < ivIndex + MaxJump

WithinReach(b) == b.iv >= ivIndex /\ b.iv <= ivIndex + MaxJump

(* Mutant: a beacon that would move us back to IV - 1 is taken. *)
ReopensNothing(b) == FALSE

(* An update that begins for the IV Index we already have is an old beacon. *)
Reopens(b) == b.update /\ ~ivUpdate /\ b.iv = ivIndex

Adoptable(b) == Authentic(b) /\ (ivConfirmed => WithinReach(b) /\ ~Reopens(b))

(* _parse_secure_network_beacon *)
Hear(b) ==
  /\ phase = "up"
  /\ heard' = IF b.ours THEN b ELSE heard
  /\ IF Adoptable(b)
     THEN ivIndex' = b.iv /\ ivUpdate' = b.update /\ ivConfirmed' = TRUE
     ELSE UNCHANGED session
  /\ UNCHANGED <<net, disk, phase, persisted, saving>>

HearAny ==
  \E b \in [iv : 0..net.iv \cup ForeignIvs, update : BOOLEAN, ours : BOOLEAN] :
    (Sent(b) \/ Foreign(b)) /\ Hear(b)

-----------------------------------------------------------------------------
(* The store *)

(* Mutant: without a session nothing is known to be confirmed. *)
PayloadForgetful ==
  IF ivIndex # NoIv THEN [iv |-> ivIndex, confirmed |-> ivConfirmed]
                    ELSE [iv |-> persisted.iv, confirmed |-> FALSE]

(* _store_payload: the session's values, else the ones that were read. *)
Payload ==
  IF ivIndex # NoIv THEN [iv |-> ivIndex, confirmed |-> ivConfirmed] ELSE persisted

Begin(payload) == saving = NotSaving /\ saving' = payload

(* A write ends: the new file is in place if it returned, and may be if it did not. *)
WriteReturns == disk' = saving /\ saving' = NotSaving
WriteFails   == disk' \in {disk, saving} /\ saving' = NotSaving

(* The iv confirmed flag only counts when an IV Index was stored with it. *)
Read == [iv |-> disk.iv, confirmed |-> disk.confirmed /\ disk.iv # NoIv]

Forget ==
  /\ ivIndex' = NoIv /\ ivUpdate' = FALSE /\ ivConfirmed' = FALSE
  /\ persisted' = [iv |-> NoIv, confirmed |-> FALSE] /\ heard' = NoBeacon

(* A fresh install, an entry of a release without the flag, or a confirmed IV Index
   that may be long out of date. *)
Init ==
  /\ net \in [iv : 0..NetMax, update : {FALSE}]
  /\ disk \in [iv : {NoIv} \cup ConfigIvs, confirmed : {FALSE}]
        \cup [iv : 0..net.iv, confirmed : {TRUE}]
  /\ phase = "off"
  /\ persisted = [iv |-> NoIv, confirmed |-> FALSE]
  /\ ivIndex = NoIv /\ ivUpdate = FALSE /\ ivConfirmed = FALSE
  /\ saving = NotSaving
  /\ heard = NoBeacon

(* _load_seq *)
LoadSeq ==
  /\ phase = "off"
  /\ phase' = "loaded"
  /\ persisted' = Read
  /\ UNCHANGED <<net, disk, session, saving, heard>>

(* remote_config.async_load raises: async_shutdown is next, without a session. *)
RemoteLoadRaises ==
  /\ phase = "loaded"
  /\ phase' = "closing"
  /\ UNCHANGED <<net, disk, persisted, session, saving, heard>>

(* Mutant: nothing stored is taken for a value. *)
InitialIvsStored == {persisted.iv}

(* The stored IV Index, else what the import recorded. *)
InitialIvs == IF persisted.iv # NoIv THEN {persisted.iv} ELSE ConfigIvs

(* The session of async_setup; what it saves may be written several times before the
   proxy is there, by a rotation and by _save_seq. *)
StartSession ==
  /\ phase = "loaded"
  /\ phase' = "starting"
  /\ ivIndex' \in InitialIvs
  /\ ivUpdate' = FALSE
  /\ ivConfirmed' = persisted.confirmed
  /\ UNCHANGED <<net, disk, persisted, saving, heard>>

(* A rotation's write, the start-up save after it, or a block of SEQs reserved by next_seq. *)
Save ==
  /\ phase \in {"starting", "up"}
  /\ Begin(Payload)
  /\ UNCHANGED <<net, disk, phase, persisted, session, heard>>

Saved ==
  /\ saving # NotSaving /\ WriteReturns
  /\ phase' \in CASE phase = "final" -> {"off"}
                  [] phase = "starting" -> {"starting", "up"}
                  [] OTHER -> {phase}
  /\ IF phase = "final" THEN Forget ELSE UNCHANGED <<persisted, session, heard>>
  /\ UNCHANGED net

(* Raised or cancelled.  During set-up that ends it (a rotation's failed write does not,
   and is followed by the start-up save); a caller of next_seq just gets no SEQ; at
   shutdown it is swallowed. *)
SaveFails ==
  /\ saving # NotSaving /\ WriteFails
  /\ phase' \in CASE phase = "final" -> {"off"}
                  [] phase = "starting" -> {"starting", "closing"}
                  [] OTHER -> {phase}
  /\ IF phase = "final" THEN Forget ELSE UNCHANGED <<persisted, session, heard>>
  /\ UNCHANGED net

(* async_shutdown: the tasks of the coordinator and the link are gone. *)
Shutdown ==
  /\ phase = "up" /\ saving = NotSaving
  /\ phase' = "closing"
  /\ UNCHANGED <<net, disk, persisted, session, saving, heard>>

FinalSave ==
  /\ phase = "closing"
  /\ Begin(Payload)
  /\ phase' = "final"
  /\ UNCHANGED <<net, disk, persisted, session, heard>>

(* The process dies, with or without the write in flight. *)
Crash ==
  /\ phase # "off"
  /\ IF saving = NotSaving THEN UNCHANGED <<disk, saving>> ELSE WriteFails
  /\ phase' = "off"
  /\ Forget
  /\ UNCHANGED net

-----------------------------------------------------------------------------
Next ==
  \/ UpdateBegins \/ UpdateCompletes
  \/ HearAny
  \/ LoadSeq \/ RemoteLoadRaises \/ StartSession
  \/ Save \/ Saved \/ SaveFails
  \/ Shutdown \/ FinalSave \/ Crash

Spec == Init /\ [][Next]_vars

(* The proxy node sends its beacon on every connection and every few seconds from then
   on, and the incoming pump handles whatever arrives. *)
FairSpec == Spec /\ WF_vars(Hear(NetBeacon))

-----------------------------------------------------------------------------
(* Properties *)

Phases == {"off", "loaded", "starting", "up", "closing", "final"}

(* Every variable stays in its domain, and the coordinator is only up with a session. *)
TypeOK ==
  /\ net \in [iv : Ivs, update : BOOLEAN] /\ (net.update => net.iv > 0)
  /\ disk \in Stored /\ persisted \in Stored
  /\ phase \in Phases
  /\ ivIndex \in Ivs \cup {NoIv} /\ ivUpdate \in BOOLEAN /\ ivConfirmed \in BOOLEAN
  /\ saving \in Stored \cup {NotSaving}
  /\ heard \in Beacon
  /\ phase \in {"starting", "up"} => ivIndex # NoIv
  /\ phase \in {"off", "loaded"} => ivIndex = NoIv

(* What counts as confirmed, in memory, on disk or on its way there, never runs ahead of
   the network: a session that did could never come back, since a known IV Index only
   moves forward (gatt.py:1212-1219). *)
ConfirmedNeverAhead ==
  /\ ivConfirmed => ivIndex <= net.iv
  /\ disk.confirmed => disk.iv <= net.iv

(* The network is too far ahead for a confirmed session to follow (gatt.py:1220-1225). *)
OutOfReach == ivConfirmed /\ net.iv > ivIndex + MaxJump

(* The update in progress was already under way when this session started from it. *)
StartedInUpdate == net.update /\ persisted.confirmed /\ persisted.iv = net.iv

(* Having handled the network's present beacon, we transmit with the IV Index the nodes
   transmit with, whatever old beacons, saves and restarts came before. *)
InStep ==
  phase = "up" /\ heard = NetBeacon /\ ~OutOfReach /\ ~StartedInUpdate
    => ivIndex = net.iv /\ TxIv = NodeTxIv

(* From then on every node's reports decrypt, during an update too (CHANGELOG 0.4.7). *)
DecryptsNodes ==
  phase = "up" /\ heard = NetBeacon /\ ~OutOfReach => RxIv(NodeTxIv % 2) = NodeTxIv

(* A replayed beacon never sends a confirmed session back to an earlier IV Index for
   its own messages (gatt.py:1226-1234). *)
TxNeverBack ==
  [][phase = "up" /\ phase' = "up" /\ ivConfirmed => TxIv' >= TxIv]_vars

(* A confirmed IV Index on disk is never replaced by an older or an unconfirmed one, not
   even by the final save of a set-up that failed half way. *)
DiskNeverBack ==
  [][disk.confirmed => disk'.confirmed /\ disk'.iv >= disk.iv]_vars

(* A session that stays up reaches the network's IV Index and keeps it, unless the network
   is out of its reach. *)
CatchesUp == <>[](phase = "up") => <>[](ivIndex = net.iv \/ OutOfReach)
=============================================================================
