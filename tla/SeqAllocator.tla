----------------------------- MODULE SeqAllocator -----------------------------
(***************************************************************************)
(* HaefeleCoordinator's SEQ store: how sequence numbers are seeded,        *)
(* reserved on disk in blocks, handed out, and how the source address      *)
(* (SRC) is rotated before its SEQ space runs out, through set-up,         *)
(* failing writes, cancelled calls, shutdown and crashes.                  *)
(*                                                                         *)
(* next_seq and the rotation run under _seq_lock, so at most one of them   *)
(* is ever inside the store: `call` is that one.  Every await of a write   *)
(* is a pair of steps, the request and its outcome, and a crash or a       *)
(* cancellation may come between them.  The IV Index that travels in the   *)
(* same file is the subject of module IvIndex.                             *)
(***************************************************************************)
EXTENDS Integers

CONSTANTS
  UnicastMax,       \* UNICAST_MAX, the last unicast address
  RotationTop,      \* ROTATION_SEARCH_TOP
  LegacySrcs,       \* LEGACY_SRC_ADDRESSES
  SeqMax,           \* SEQ_MAX
  SeedMin,          \* SEQ_SEED_MIN
  RotateThreshold,  \* SEQ_ROTATE_THRESHOLD
  RotatedStart,     \* ROTATED_SRC_SEQ_START
  PersistBlock,     \* SEQ_PERSIST_BLOCK
  StartupJump,      \* SEQ_STARTUP_JUMP
  Clock,            \* values int(time.time()) may show
  Configs,          \* config entries: set-up reads one, a Reconfigure picks another
  RemoteStoreFails, \* environment: remote_config.async_load() may raise during set-up
  LateCallers       \* environment: tasks the coordinator does not own (an entity's
                    \* command) may still call next_seq once shutdown has begun

Unicast == 1..UnicastMax
NoSrc   == 0     \* None
Absent  == -1    \* no entry in the dictionary; reads as get(src, -1)
Seqs    == 0..SeqMax
Counter == Absent..SeqMax

ASSUME NumbersAssumption ==
  /\ UnicastMax \in Nat \ {0} /\ RotationTop \in 0..UnicastMax
  /\ SeqMax \in Nat /\ SeedMin \in Seqs /\ RotateThreshold \in 1..SeqMax
  /\ PersistBlock \in Nat /\ StartupJump \in Nat
  /\ RotatedStart \in Nat /\ RotatedStart + PersistBlock \in Seqs
  /\ RotatedStart < RotateThreshold

ASSUME EnvironmentAssumption ==
  /\ LegacySrcs \subseteq Unicast
  /\ Clock \subseteq Nat /\ Clock # {}
  /\ Configs \subseteq [src : Unicast, occupied : SUBSET Unicast,
                        clear : SUBSET Unicast, allocated : SUBSET Unicast]
  /\ Configs # {} /\ \A c \in Configs : c.occupied \subseteq c.clear
  /\ RemoteStoreFails \in BOOLEAN /\ LateCallers \in BOOLEAN

VARIABLES
  disk,         \* the entry's file: [reserved, active]
  config,       \* src: the configured SRC; occupied: addresses of node elements and the
                \* provisioner; clear: those and the margin kept free after every light;
                \* allocated: the addresses inside the provisioners' ranges
  phase,        \* where the coordinator is between async_setup and async_shutdown
  seqLoaded,    \* _seq_loaded
  seqState,     \* _seq_state, Absent for a SRC that has no entry
  seqReserved,  \* _seq_reserved
  activeSrc,    \* _active_src, and session.src
  thwarted,     \* history: the last attempt to rotate failed or was cancelled
  sources,      \* SRCs a running caller may have read from session.src
  call,         \* the holder of _seq_lock: [op, src, seq, new]
  saving,       \* the payload of shutdown's final write while it is in flight, or NoStore
  retired,      \* history: SRCs a rotation has moved away from
  last, out     \* history and result, see SeqSource

mem  == <<seqLoaded, seqState, seqReserved, activeSrc, thwarted, sources>>
vars == <<disk, config, phase, mem, call, saving, retired, last, out>>

Promise == INSTANCE SeqSource WITH Unicast <- Unicast, SeqMax <- SeqMax,
                                   last <- last, out <- out

Nothing        == Promise!Nothing
Granted(s, n)  == Promise!Granted(s, n)
Raised(why, s) == Promise!Raised(why, s)

SmallerOf(m, n) == IF m <= n THEN m ELSE n
LargerOf(m, n)  == IF m >= n THEN m ELSE n
Empty           == [s \in Unicast |-> Absent]
Idle            == [op |-> "idle", src |-> NoSrc, seq |-> Absent, new |-> NoSrc]

-----------------------------------------------------------------------------
(* The file: a missing one reads as an empty one.  A first start with per-entry storage
   reads the shared file of earlier releases instead, which is a value Init allows; the
   later mirroring into that file is written, never read, and its failure is swallowed. *)

Store   == [reserved : [Unicast -> Counter], active : Unicast \cup {NoSrc}]
NoStore == [reserved |-> Empty, active |-> NoSrc]

(* _store_payload *)
StorePayload(reserved, active) == [reserved |-> reserved, active |-> active]
CurrentPayload == StorePayload(seqReserved, activeSrc)

(* _write_store, done *)
Written(payload) == disk' = payload

(* _write_store did not return: it raised, was cancelled, or the process died.
   The new file may be in place all the same. *)
MaybeWritten(payload) == Written(payload) \/ UNCHANGED disk

-----------------------------------------------------------------------------
(* Choosing a fresh SRC *)

(* Every SRC we have ever emitted from. *)
BurntAddresses == {s \in Unicast : seqState[s] # Absent \/ seqReserved[s] # Absent}

(* Mutant: the retired SRCs are forgotten. *)
ReservedButNotBurnt == config.clear \cup LegacySrcs \cup {activeSrc}

(* _reserved_addresses *)
ReservedAddresses == config.clear \cup LegacySrcs \cup {activeSrc} \cup BurntAddresses

FreeAddresses == Unicast \ ReservedAddresses
Unallocated   == {s \in FreeAddresses : s <= RotationTop /\ s \notin config.allocated}
StepsAbove(s) == (s - activeSrc - 1) % UnicastMax

(* _pick_rotation_src returns new: the highest address outside every provisioner's range
   when the ranges are known, else the next free address above the current one, wrapping.
   It returns None only when FreeAddresses is empty. *)
IsRotationPick(new) ==
  IF config.allocated # {} /\ Unallocated # {}
  THEN new \in Unallocated /\ \A s \in Unallocated : s <= new
  ELSE \A s \in FreeAddresses : StepsAbove(new) <= StepsAbove(s)

(* Mutant: the SEQ is compared with the end of its space. *)
PastTheEnd(seq) == seq > SeqMax

PastThreshold(seq) == seq >= RotateThreshold

(* _active_src_collides_with_node *)
Collides == activeSrc \in config.occupied

(* Persisted before the switch: the new SRC with its first block. *)
RotationReserved(new) == [seqReserved EXCEPT ![new] = RotatedStart + PersistBlock]

(* The part of _maybe_rotate_src_locked after its write: seqs is _seq_state by then. *)
CommitRotation(seqs, new) ==
  /\ seqReserved' = RotationReserved(new)
  /\ seqState' = [seqs EXCEPT ![new] = RotatedStart]
  /\ activeSrc' = new
  /\ retired' = retired \cup {activeSrc}
  /\ thwarted' = FALSE

(* The coordinator object, with its dictionaries, is gone. *)
Forget ==
  /\ seqLoaded' = FALSE /\ seqState' = Empty /\ seqReserved' = Empty
  /\ activeSrc' = NoSrc /\ thwarted' = FALSE /\ sources' = {}

-----------------------------------------------------------------------------
(* Set-up *)

Init ==
  /\ disk \in {NoStore}
       \cup {StorePayload([s \in Unicast |-> IF s = c.src THEN n ELSE Absent], NoSrc) :
               c \in Configs, n \in Seqs}
  /\ config \in Configs
  /\ phase = "off"
  /\ seqLoaded = FALSE /\ seqState = Empty /\ seqReserved = Empty
  /\ activeSrc = NoSrc /\ thwarted = FALSE /\ sources = {}
  /\ call = Idle
  /\ saving = NoStore
  /\ retired = {}
  /\ last = disk.reserved      \* earlier releases stored the last SEQ itself
  /\ out = Nothing

(* A new coordinator for the entry; _load_seq. *)
LoadSeq ==
  /\ phase = "off" /\ call = Idle /\ out = Nothing
  /\ config' \in Configs
  /\ phase' = "loaded"
  /\ seqLoaded' = TRUE
  /\ seqState' = disk.reserved /\ seqReserved' = disk.reserved
  /\ activeSrc' = NoSrc /\ thwarted' = FALSE /\ sources' = {}
  /\ UNCHANGED <<disk, call, saving, retired, last, out>>

(* The store cannot be read: async_setup_entry shuts the coordinator down again. *)
LoadSeqRaises ==
  /\ phase = "off" /\ call = Idle /\ out = Nothing
  /\ config' \in Configs
  /\ phase' = "closing"
  /\ Forget
  /\ UNCHANGED <<disk, call, saving, retired, last, out>>

(* remote_config.async_load raises, before _active_src is set. *)
RemoteLoadRaises ==
  /\ RemoteStoreFails
  /\ phase = "loaded"
  /\ phase' = "closing"
  /\ UNCHANGED <<disk, config, mem, call, saving, retired, last, out>>

Jumped(n) == IF n = Absent THEN Absent ELSE SmallerOf(n + StartupJump, SeqMax)

(* The start-up jump and the session: a persisted rotation wins over the entry's SRC. *)
Prepare ==
  /\ phase = "loaded"
  /\ phase' = "prepared"
  /\ seqState' = [s \in Unicast |-> Jumped(seqState[s])]
  /\ seqReserved' = seqState'      \* they were equal, see LoadSeq
  /\ activeSrc' = IF disk.active # NoSrc THEN disk.active ELSE config.src
  /\ UNCHANGED <<disk, config, seqLoaded, thwarted, sources, call, saving, retired, last, out>>

(* Mutant: the collision is logged and no more. *)
MustRotateNearEnd == PastThreshold(seqState[activeSrc])

MustRotateAtStartup == Collides \/ PastThreshold(seqState[activeSrc])

RotateAtStartup ==
  /\ phase = "prepared" /\ call = Idle
  /\ MustRotateAtStartup
  /\ \E new \in FreeAddresses :
       /\ IsRotationPick(new)
       /\ call' = [op |-> "rotate", src |-> NoSrc, seq |-> Absent, new |-> new]
  /\ UNCHANGED <<disk, config, phase, mem, saving, retired, last, out>>

SkipRotation ==
  /\ phase = "prepared" /\ call = Idle
  /\ ~(MustRotateAtStartup /\ FreeAddresses # {})
  /\ phase' = "saving"
  /\ UNCHANGED <<disk, config, mem, call, saving, retired, last, out>>

(* The `await self._save_seq()` of async_setup, in flight while phase = "saving". *)
StartupSaved ==
  /\ phase = "saving"
  /\ Written(CurrentPayload)
  /\ phase' = "running"
  /\ sources' = {activeSrc}
  /\ UNCHANGED <<config, seqLoaded, seqState, seqReserved, activeSrc, thwarted,
                 call, saving, retired, last, out>>

StartupSaveRaises ==
  /\ phase = "saving"
  /\ MaybeWritten(CurrentPayload)
  /\ phase' = "closing"
  /\ UNCHANGED <<config, mem, call, saving, retired, last, out>>

-----------------------------------------------------------------------------
(* next_seq *)

(* Who may call: everyone while running.  Shutdown waits for the tasks the coordinator
   owns; the others are the late callers. *)
MayCall(src) ==
  /\ src \in sources
  /\ phase = "running" \/ (LateCallers /\ phase \in {"closing", "final", "off"})
  /\ call = Idle /\ out = Nothing

Seed(t) == LargerOf(SeedMin, t % (SeqMax + 1))
NextValue(src, t) == (IF seqState[src] = Absent THEN Seed(t) ELSE seqState[src]) + 1

(* Mutant: the block is not clamped to the end of the space. *)
CeilingUnclamped(seq) == seq + PersistBlock

Ceiling(seq) == SmallerOf(seq + PersistBlock, SeqMax)
BlockReserved(src, seq) == [seqReserved EXCEPT ![src] = Ceiling(seq)]

(* The tail of next_seq once a ceiling >= seq is on disk: commit the SEQ, and rotate if
   it is the active SRC's and past the threshold; else return it. *)
Settle(src, seq) ==
  /\ seqState' = [seqState EXCEPT ![src] = seq]
  /\ IF src = activeSrc /\ PastThreshold(seq) /\ FreeAddresses # {}
     THEN /\ \E new \in FreeAddresses :
               /\ IsRotationPick(new)
               /\ call' = [op |-> "rotate", src |-> src, seq |-> seq, new |-> new]
          /\ UNCHANGED <<last, out>>
     ELSE /\ call' = Idle
          /\ last' = [last EXCEPT ![src] = seq]
          /\ out' = Granted(src, seq)

(* Never wrap: SeqExhaustedError. *)
NextSeqExhausted(src, t) ==
  /\ MayCall(src)
  /\ NextValue(src, t) > SeqMax
  /\ out' = Raised("exhausted", src)
  /\ UNCHANGED <<disk, config, phase, mem, call, saving, retired, last>>

(* The block on disk covers the SEQ. *)
NextSeqCovered(src, t) ==
  /\ MayCall(src)
  /\ LET seq == NextValue(src, t) IN
       /\ seq <= SeqMax /\ seq <= seqReserved[src]
       /\ Settle(src, seq)
  /\ UNCHANGED <<disk, config, phase, seqLoaded, seqReserved, activeSrc, thwarted, sources,
                 saving, retired>>

(* A new block has to be written first. *)
NextSeqReserves(src, t) ==
  /\ MayCall(src)
  /\ LET seq == NextValue(src, t) IN
       /\ seq <= SeqMax /\ seq > seqReserved[src]
       /\ call' = [op |-> "block", src |-> src, seq |-> seq, new |-> NoSrc]
  /\ UNCHANGED <<disk, config, phase, mem, saving, retired, last, out>>

(* Mutant: the rotation's write still names the old SRC. *)
CallPayloadOldSrc ==
  IF call.op = "block"
  THEN StorePayload(BlockReserved(call.src, call.seq), activeSrc)
  ELSE StorePayload(RotationReserved(call.new), activeSrc)

(* What the holder of the lock is writing. *)
CallPayload ==
  IF call.op = "block"
  THEN StorePayload(BlockReserved(call.src, call.seq), activeSrc)
  ELSE StorePayload(RotationReserved(call.new), call.new)

BlockSaved ==
  /\ call.op = "block"
  /\ Written(CallPayload)
  /\ seqReserved' = BlockReserved(call.src, call.seq)
  /\ Settle(call.src, call.seq)
  /\ UNCHANGED <<config, phase, seqLoaded, activeSrc, thwarted, sources, saving, retired>>

(* Mutant: the block is committed in memory although its write failed. *)
BlockSaveRaisesCommitted ==
  /\ call.op = "block"
  /\ MaybeWritten(CallPayload)
  /\ call' = Idle
  /\ out' = Raised("failed", call.src)
  /\ seqReserved' = BlockReserved(call.src, call.seq)
  /\ UNCHANGED <<config, phase, seqLoaded, seqState, activeSrc, thwarted, sources,
                 saving, retired, last>>

(* The exception reaches the caller; nothing is committed. *)
BlockSaveRaises ==
  /\ call.op = "block"
  /\ MaybeWritten(CallPayload)
  /\ call' = Idle
  /\ out' = Raised("failed", call.src)
  /\ UNCHANGED <<config, phase, mem, saving, retired, last>>

(* The rotation is over, saved or not.  During a call the SEQ that triggered it is
   returned; during set-up the start-up save follows. *)
AfterRotation ==
  /\ call' = Idle
  /\ IF call.src = NoSrc
     THEN /\ phase' = "saving" /\ UNCHANGED <<last, out>>
     ELSE /\ last' = [last EXCEPT ![call.src] = call.seq]
          /\ out' = Granted(call.src, call.seq)
          /\ UNCHANGED phase

RotationSaved ==
  /\ call.op = "rotate"
  /\ Written(CallPayload)
  /\ CommitRotation(seqState, call.new)
  /\ sources' = IF call.src = NoSrc THEN sources ELSE sources \cup {call.new}
  /\ AfterRotation
  /\ UNCHANGED <<config, seqLoaded, saving>>

(* The failure is swallowed: stay on the old SRC. *)
RotationSaveFails ==
  /\ call.op = "rotate"
  /\ MaybeWritten(CallPayload)
  /\ thwarted' = TRUE
  /\ AfterRotation
  /\ UNCHANGED <<config, seqLoaded, seqState, seqReserved, activeSrc, sources, saving, retired>>

(* The caller's task is cancelled inside a write: the lock is released, the SEQ is lost. *)
CancelCall ==
  /\ call # Idle /\ call.src # NoSrc
  /\ MaybeWritten(CallPayload)
  /\ call' = Idle
  /\ thwarted' = (thwarted \/ call.op = "rotate")
  /\ UNCHANGED <<config, phase, seqLoaded, seqState, seqReserved, activeSrc, sources,
                 saving, retired, last, out>>

(* The caller puts the SEQ in its PDU, or handles the exception. *)
UseResult ==
  /\ out # Nothing
  /\ out' = Nothing
  /\ UNCHANGED <<disk, config, phase, mem, call, saving, retired, last>>

-----------------------------------------------------------------------------
(* async_shutdown, and the end of the process *)

(* Unload or reload of the entry, or the first refresh raised. *)
Shutdown ==
  /\ phase = "running"
  /\ phase' = "closing"
  /\ UNCHANGED <<disk, config, mem, call, saving, retired, last, out>>

(* Mutant: saved even if the store was never read. *)
FinalSaveAlways ==
  /\ phase = "closing"
  /\ call = Idle \/ LateCallers
  /\ phase' = "final" /\ saving' = CurrentPayload
  /\ UNCHANGED <<disk, config, mem, call, retired, last, out>>

(* Skipped when the store was never read.  _save_seq does not take _seq_lock. *)
FinalSave ==
  /\ phase = "closing"
  /\ call = Idle \/ LateCallers
  /\ IF seqLoaded
     THEN phase' = "final" /\ saving' = CurrentPayload
     ELSE phase' = "off" /\ UNCHANGED saving
  /\ UNCHANGED <<disk, config, mem, call, retired, last, out>>

(* Its failure is swallowed too. *)
FinalSaveEnds ==
  /\ phase = "final"
  /\ MaybeWritten(saving)
  /\ phase' = "off" /\ saving' = NoStore
  /\ IF LateCallers THEN UNCHANGED mem ELSE Forget
  /\ UNCHANGED <<config, call, retired, last, out>>

(* The process dies, which is also how Home Assistant stops: it does not unload entries.
   A write in flight may or may not have reached the file. *)
Crash ==
  /\ phase # "off" \/ call # Idle
  /\ \/ UNCHANGED disk
     \/ call # Idle /\ Written(CallPayload)
     \/ phase = "saving" /\ Written(CurrentPayload)
     \/ phase = "final" /\ Written(saving)
  /\ phase' = "off" /\ saving' = NoStore
  /\ call' = Idle /\ out' = Nothing
  /\ Forget
  /\ UNCHANGED <<config, retired, last>>

-----------------------------------------------------------------------------
NextSeq(src, t) ==
  NextSeqExhausted(src, t) \/ NextSeqCovered(src, t) \/ NextSeqReserves(src, t)

Next ==
  \/ LoadSeq \/ LoadSeqRaises \/ RemoteLoadRaises \/ Prepare
  \/ RotateAtStartup \/ SkipRotation \/ StartupSaved \/ StartupSaveRaises
  \/ \E src \in Unicast, t \in Clock : NextSeq(src, t)
  \/ BlockSaved \/ BlockSaveRaises \/ RotationSaved \/ RotationSaveFails
  \/ CancelCall \/ UseResult
  \/ Shutdown \/ FinalSave \/ FinalSaveEnds \/ Crash

Spec == Init /\ [][Next]_vars

-----------------------------------------------------------------------------
(* Properties *)

Phases == {"off", "loaded", "prepared", "saving", "running", "closing", "final"}

Calls ==
  {Idle}
    \cup [op : {"block"}, src : Unicast, seq : Seqs, new : {NoSrc}]
    \cup [op : {"rotate"}, src : Unicast, seq : Seqs, new : Unicast]
    \cup [op : {"rotate"}, src : {NoSrc}, seq : {Absent}, new : Unicast]

RotatesInSetup == call.op = "rotate" /\ call.src = NoSrc

(* Every variable stays in its domain, and set-up past _active_src has one. *)
TypeOK ==
  /\ disk \in Store
  /\ config \in Configs /\ phase \in Phases
  /\ seqLoaded \in BOOLEAN /\ thwarted \in BOOLEAN
  /\ seqState \in [Unicast -> Counter] /\ seqReserved \in [Unicast -> Counter]
  /\ activeSrc \in Unicast \cup {NoSrc}
  /\ phase \in {"prepared", "saving", "running"} => activeSrc # NoSrc
  /\ RotatesInSetup => phase = "prepared"
  /\ sources \in SUBSET Unicast /\ retired \in SUBSET (Unicast \cup {NoSrc})
  /\ call \in Calls /\ saving \in Store
  /\ Promise!TypeOK

(* A SEQ is only ever out when a ceiling at or above it is on disk: whatever dies next,
   the start that follows resumes above it (coordinator.py:418-421). *)
CeilingOnDisk == \A s \in Unicast : last[s] <= disk.reserved[s]

(* next_seq keeps the promise of SeqSource: per SRC, strictly growing SEQs for ever, through
   crashes, failed and cancelled writes, rotations and restarts. *)
KeepsPromise == Promise!Spec

(* A rotation lands on an address no node, provisioner or earlier release uses, that no lamp
   has ever heard from us: its SEQs can start from the bottom. *)
RotationIsFresh ==
  [][retired' # retired =>
       /\ activeSrc' \notin config.clear \cup LegacySrcs
       /\ last[activeSrc'] = Absent]_vars

(* While running, the file names the SRC we emit from, or one we never emitted from that a
   rotation chose without its save being reported: a crash at any moment does not send
   the next start back to a SRC that was rotated away from (coordinator.py:125-126). *)
RotationSurvivesCrash ==
  phase = "running" =>
    disk.active = activeSrc \/ (disk.active # NoSrc /\ last[disk.active] = Absent)

(* We emit from an address a node owns only if there was no other, or the move to
   another could not be saved. *)
NodeAddressOnlyIfStuck ==
  phase = "running" /\ Collides => thwarted \/ FreeAddresses = {}

(* SeqExhaustedError means what it says: the active SRC is used up, and there was no address
   to move to or the move could not be saved. *)
ExhaustedOnlyIfStuck ==
  out.kind = "exhausted" /\ out.src = activeSrc => thwarted \/ FreeAddresses = {}

(* As the comment has it: a rotated SRC stays the active one across restarts. *)
RetiredStaysRetired == activeSrc \in retired => last[activeSrc] = Absent
=============================================================================
