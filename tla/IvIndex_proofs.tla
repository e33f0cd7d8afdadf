--------------------------- MODULE IvIndex_proofs ---------------------------
(***************************************************************************)
(* Proofs about IvIndex, for every jump limit, every configured or foreign *)
(* IV Index and any number of updates of the network: who is never ahead   *)
(* of whom, and that a session catches up.                                 *)
(***************************************************************************)
EXTENDS IvIndex, TLAPS

LEMMA PayloadType == TypeOK => Payload \in Stored
  BY DEF TypeOK, Payload, Stored

LEMMA ReadType == TypeOK => Read \in Stored
  BY DEF TypeOK, Read, Stored

LEMMA InitTypeOK == Init => TypeOK
  <1> SUFFICES ASSUME Init PROVE TypeOK
    OBVIOUS
  <1>1. ConfigIvs \subseteq Nat /\ NetMax \in Nat
    BY IvAssumption
  <1>2. net \in [iv : Ivs, update : BOOLEAN] /\ net.update = FALSE /\ net.iv \in Nat
    <2>1. PICK n \in 0..NetMax : net = [iv |-> n, update |-> FALSE]
      BY DEF Init
    <2>2. n \in Nat
      BY <1>1, <2>1
    <2> QED
      BY <2>1, <2>2 DEF Ivs
  <1>3. disk \in Stored
    <2>1. CASE disk \in [iv : {NoIv} \cup ConfigIvs, confirmed : {FALSE}]
      BY <1>1, <2>1 DEF Stored, Ivs
    <2>2. CASE disk \in [iv : 0..net.iv, confirmed : {TRUE}]
      <3>1. PICK n \in 0..net.iv : disk = [iv |-> n, confirmed |-> TRUE]
        BY <2>2
      <3>2. n \in Nat
        BY <1>2, <3>1
      <3> QED
        BY <3>1, <3>2 DEF Stored, Ivs
    <2> QED
      BY <2>1, <2>2 DEF Init
  <1>4. persisted \in Stored
    BY DEF Init, Stored
  <1> QED
    BY <1>2, <1>3, <1>4 DEF Init, TypeOK, Phases, Ivs, NoIv, NoBeacon, Beacon, NotSaving

LEMMA ForgetTypes ==
  ASSUME Forget
  PROVE  /\ ivIndex' = NoIv /\ ivUpdate' \in BOOLEAN /\ ivConfirmed' \in BOOLEAN
         /\ persisted' \in Stored /\ heard' \in Beacon
  BY DEF Forget, Stored, NoBeacon, Beacon, Ivs, NoIv

(* No step takes a variable out of its domain. *)
LEMMA NextTypeOK == TypeOK /\ [Next]_vars => TypeOK'
  <1> SUFFICES ASSUME TypeOK, [Next]_vars PROVE TypeOK'
    OBVIOUS
  <1>A. ConfigIvs \subseteq Nat /\ ForeignIvs \subseteq Nat
    BY IvAssumption
  <1>P. Payload \in Stored /\ Read \in Stored
    BY PayloadType, ReadType
  <1>1. CASE UpdateBegins
    <2>1. net.iv + 1 \in Nat /\ net.iv + 1 > 0
      BY DEF TypeOK, Ivs
    <2> QED
      BY <1>1, <2>1 DEF UpdateBegins, TypeOK, session, Ivs
  <1>2. CASE UpdateCompletes
    BY <1>2 DEF UpdateCompletes, TypeOK, session
  <1>3. CASE HearAny
    <2>1. PICK b \in [iv : 0..net.iv \cup ForeignIvs, update : BOOLEAN, ours : BOOLEAN] : Hear(b)
      BY <1>3 DEF HearAny
    <2>2. b \in Beacon /\ b.iv \in Nat /\ b.update \in BOOLEAN
      <3>1. b.iv \in 0..net.iv \/ b.iv \in ForeignIvs
        OBVIOUS
      <3>2. b.iv \in Nat
        <4>1. net.iv \in Nat
          BY DEF TypeOK, Ivs
        <4>2. CASE b.iv \in 0..net.iv
          BY <4>1, <4>2
        <4>3. CASE b.iv \in ForeignIvs
          BY <1>A, <4>3
        <4> QED
          BY <3>1, <4>2, <4>3
      <3>3. b \in [iv : Nat, update : BOOLEAN, ours : BOOLEAN]
        BY <3>2, Zenon
      <3>4. b.update \in BOOLEAN
        OBVIOUS
      <3> QED
        BY <3>2, <3>3, <3>4 DEF Beacon, Ivs
    <2>3. heard' \in Beacon
      BY <2>1, <2>2 DEF Hear, TypeOK
    <2>4. ivIndex' \in Nat /\ ivUpdate' \in BOOLEAN /\ ivConfirmed' \in BOOLEAN
      BY <2>1, <2>2 DEF Hear, TypeOK, session, Ivs, NoIv
    <2> QED
      BY <2>1, <2>3, <2>4 DEF Hear, TypeOK, Ivs, NoIv
  <1>4. CASE LoadSeq
    BY <1>4, <1>P DEF LoadSeq, TypeOK, session, Phases
  <1>5. CASE RemoteLoadRaises
    BY <1>5 DEF RemoteLoadRaises, TypeOK, session, Phases
  <1>6. CASE StartSession
    <2>1. ivIndex' \in Nat
      BY <1>6, <1>A DEF StartSession, InitialIvs, TypeOK, Stored, Ivs
    <2>2. ivConfirmed' \in BOOLEAN
      BY <1>6 DEF StartSession, TypeOK, Stored
    <2>3. ivIndex' \in Ivs \cup {NoIv} /\ ivIndex' # NoIv
      BY <2>1 DEF Ivs, NoIv
    <2> QED
      BY <1>6, <2>2, <2>3 DEF StartSession, TypeOK, Phases
  <1>7. CASE Save
    BY <1>7, <1>P DEF Save, Begin, TypeOK, session
  <1>8. CASE Saved
    <2>1. disk' \in Stored /\ saving' = NotSaving
      BY <1>8 DEF Saved, WriteReturns, TypeOK
    <2>2. CASE phase = "final"
      BY <1>8, <2>1, <2>2, ForgetTypes DEF Saved, TypeOK, Phases
    <2>3. CASE phase # "final"
      BY <1>8, <2>1, <2>3 DEF Saved, TypeOK, session, Phases
    <2> QED
      BY <2>2, <2>3
  <1>9. CASE SaveFails
    <2>1. disk' \in Stored /\ saving' = NotSaving
      BY <1>9 DEF SaveFails, WriteFails, TypeOK
    <2>2. CASE phase = "final"
      BY <1>9, <2>1, <2>2, ForgetTypes DEF SaveFails, TypeOK, Phases
    <2>3. CASE phase # "final"
      BY <1>9, <2>1, <2>3 DEF SaveFails, TypeOK, session, Phases
    <2> QED
      BY <2>2, <2>3
  <1>10. CASE Shutdown
    BY <1>10 DEF Shutdown, TypeOK, session, Phases
  <1>11. CASE FinalSave
    BY <1>11, <1>P DEF FinalSave, Begin, TypeOK, session, Phases
  <1>12. CASE Crash
    <2>1. disk' \in Stored /\ saving' \in Stored \cup {NotSaving}
      BY <1>12 DEF Crash, WriteFails, TypeOK
    <2> QED
      BY <1>12, <2>1, ForgetTypes DEF Crash, TypeOK, Phases
  <1>13. CASE UNCHANGED vars
    BY <1>13 DEF vars, session, TypeOK
  <1> QED
    BY <1>1, <1>2, <1>3, <1>4, <1>5, <1>6, <1>7, <1>8, <1>9, <1>10, <1>11, <1>12, <1>13 DEF Next

(* Every variable stays in its domain, and the coordinator is up only with a session. *)
THEOREM TypeCorrect == Spec => []TypeOK
  <1>1. Init => TypeOK
    BY InitTypeOK
  <1>2. TypeOK /\ [Next]_vars => TypeOK'
    BY NextTypeOK
  <1> QED
    BY <1>1, <1>2, PTL DEF Spec

-----------------------------------------------------------------------------
(* What is confirmed anywhere, in order of age: the file, the write in flight, what this
   start has read, the session, the network.  Each was copied from the next, and the
   network and a confirmed session only move forward. *)

NetBound ==
  /\ disk.confirmed => disk.iv <= net.iv
  /\ persisted.confirmed => persisted.iv <= net.iv
  /\ saving.confirmed => saving.iv <= net.iv
  /\ ivConfirmed => ivIndex <= net.iv

(* A confirmed value is one. *)
Real ==
  /\ disk.confirmed => disk.iv # NoIv
  /\ persisted.confirmed => persisted.iv # NoIv
  /\ saving.confirmed => saving.iv # NoIv /\ saving # NotSaving
  /\ ivConfirmed => ivIndex # NoIv

Covers(old, new) == old.confirmed => new.confirmed /\ old.iv <= new.iv

(* Once the store is read, what a write stores covers what is on disk. *)
PayloadCovers ==
  /\ phase # "off" => Covers(disk, Payload) /\ Covers(saving, Payload)
  /\ saving # NotSaving => Covers(disk, saving)
  /\ phase \in {"off", "loaded"} => saving = NotSaving

IInv == TypeOK /\ NetBound /\ Real /\ PayloadCovers

LEMMA Numbers ==
  ASSUME TypeOK
  PROVE  /\ net.iv \in Int /\ disk.iv \in Int /\ persisted.iv \in Int
         /\ saving.iv \in Int /\ ivIndex \in Int /\ Payload.iv \in Int
         /\ Payload # NotSaving
  <1>1. /\ net.iv \in Int /\ disk.iv \in Int /\ persisted.iv \in Int
        /\ saving.iv \in Int /\ ivIndex \in Int
    BY DEF TypeOK, Stored, Ivs, NoIv, NotSaving
  <1>2. Payload.iv \in Ivs \cup {NoIv}
    BY PayloadType DEF Stored
  <1>3. Payload.iv \in Int /\ Payload.iv # NoIv - 1
    BY <1>2 DEF Ivs, NoIv
  <1> QED
    BY <1>1, <1>3 DEF NotSaving

(* What Payload is, field by field. *)
LEMMA PayloadFields ==
  /\ ivIndex # NoIv => Payload.iv = ivIndex /\ Payload.confirmed = ivConfirmed
  /\ ivIndex = NoIv => Payload = persisted
  BY DEF Payload

LEMMA NotSavingFields == NotSaving.confirmed = FALSE
  BY DEF NotSaving

LEMMA CoversSelf ==
  ASSUME NEW r, r.iv \in Int
  PROVE  Covers(r, r)
  BY DEF Covers

(* A step that only moves the network, or nothing, keeps the order. *)
LEMMA QuietStep ==
  ASSUME IInv, TypeOK', net'.iv >= net.iv,
         UNCHANGED <<disk, persisted, session, saving>>,
         phase = phase' \/ (phase # "off" /\ phase' \notin {"off", "loaded"})
  PROVE  IInv'
  <1>1. /\ net.iv \in Int /\ disk.iv \in Int /\ persisted.iv \in Int
        /\ saving.iv \in Int /\ ivIndex \in Int /\ net'.iv \in Int
    <2>1. net'.iv \in Int
      BY DEF TypeOK, Ivs
    <2> QED
      BY <2>1, Numbers DEF IInv
  <1>2. NetBound'
    <2>1. /\ disk' = disk /\ persisted' = persisted /\ saving' = saving
          /\ ivIndex' = ivIndex /\ ivConfirmed' = ivConfirmed
      BY DEF session
    <2> QED
      BY <1>1, <2>1 DEF IInv, NetBound
  <1>3. Real'
    BY DEF IInv, Real, session
  <1>4. Payload' = Payload
    BY DEF Payload, session
  <1>5. PayloadCovers'
    BY <1>4 DEF IInv, PayloadCovers, Covers
  <1> QED
    BY <1>2, <1>3, <1>5 DEF IInv

LEMMA InitIInv == Init => IInv
  <1> SUFFICES ASSUME Init PROVE IInv
    OBVIOUS
  <1>1. TypeOK
    BY InitTypeOK
  <1>2. disk.confirmed => disk.iv \in 0..net.iv
    BY DEF Init
  <1>3. /\ ~persisted.confirmed /\ ~ivConfirmed
        /\ saving = NotSaving /\ ~saving.confirmed /\ phase = "off"
    BY NotSavingFields DEF Init
  <1>4. NetBound
    BY <1>1, <1>2, <1>3, Numbers DEF NetBound
  <1>5. Real
    BY <1>1, <1>2, <1>3, Numbers DEF Real, NoIv
  <1>6. PayloadCovers
    BY <1>3 DEF PayloadCovers
  <1> QED
    BY <1>1, <1>4, <1>5, <1>6 DEF IInv

(* A beacon moves the session to an IV Index the network has had, and never back. *)
LEMMA HearMoves ==
  ASSUME IInv, HearAny
  PROVE  /\ phase = "up" /\ phase' = "up" /\ ivIndex # NoIv
         /\ UNCHANGED <<net, disk, persisted, saving>>
         /\ \/ UNCHANGED session
            \/ /\ ivIndex' \in Nat /\ ivIndex' <= net.iv /\ ivConfirmed' = TRUE
               /\ ivConfirmed => ivIndex' >= ivIndex /\ TxIv' >= TxIv
  <1>1. PICK b \in [iv : 0..net.iv \cup ForeignIvs, update : BOOLEAN, ours : BOOLEAN] :
          (Sent(b) \/ Foreign(b)) /\ Hear(b)
    BY DEF HearAny
  <1>2. phase = "up" /\ phase' = "up" /\ UNCHANGED <<net, disk, persisted, saving>>
    BY <1>1 DEF Hear
  <1>3. ivIndex # NoIv /\ ivIndex \in Nat /\ net.iv \in Nat
    BY <1>2 DEF IInv, TypeOK, Ivs, NoIv
  <1>4. CASE ~Adoptable(b)
    BY <1>1, <1>2, <1>3, <1>4 DEF Hear
  <1>5. CASE Adoptable(b)
    <2>1. /\ ivIndex' = b.iv /\ ivUpdate' = b.update /\ ivConfirmed' = TRUE
      BY <1>1, <1>5 DEF Hear
    <2>2. b.iv <= net.iv
      BY <1>1, <1>5 DEF Adoptable, Authentic, Sent, Foreign
    <2>3. b.iv \in Nat
      <3>1. CASE b.iv \in 0..net.iv
        BY <1>3, <3>1
      <3>2. CASE b.iv \in ForeignIvs
        BY <3>2, IvAssumption
      <3>3. b.iv \in 0..net.iv \/ b.iv \in ForeignIvs
        OBVIOUS
      <3> QED
        BY <3>1, <3>2, <3>3
    <2>4. ASSUME ivConfirmed
          PROVE  b.iv >= ivIndex /\ (b.update => ivUpdate \/ b.iv # ivIndex)
      BY <1>5, <2>4 DEF Adoptable, WithinReach, Reopens
    <2>5. ASSUME ivConfirmed
          PROVE  TxIv' >= TxIv
      <3>1. TxIv' = IF ivUpdate' /\ ivIndex' > 0 THEN ivIndex' - 1 ELSE ivIndex'
        BY DEF TxIv
      <3>2. CASE ivUpdate
        BY <1>3, <2>1, <2>3, <2>4, <2>5, <3>1, <3>2 DEF TxIv
      <3>3. CASE ~ivUpdate
        BY <1>3, <2>1, <2>3, <2>4, <2>5, <3>1, <3>3 DEF TxIv
      <3> QED
        BY <3>2, <3>3
    <2> QED
      BY <1>2, <1>3, <2>1, <2>2, <2>3, <2>4, <2>5
  <1> QED
    BY <1>4, <1>5

(* A write that is done, or may be: the file is now the payload or still what it was. *)
LEMMA WriteEnds ==
  ASSUME IInv, saving # NotSaving,
         disk' = disk \/ disk' = saving, saving' = NotSaving, net' = net
  PROVE  /\ disk'.confirmed => disk'.iv <= net'.iv
         /\ disk'.confirmed => disk'.iv # NoIv
         /\ saving'.confirmed = FALSE
         /\ Covers(disk, disk')
         /\ phase # "off" => Covers(disk', Payload)
  <1>1. disk.iv \in Int /\ saving.iv \in Int
    BY Numbers DEF IInv
  <1>2. Covers(disk, disk')
    BY <1>1 DEF IInv, PayloadCovers, Covers
  <1>3. phase # "off" => Covers(disk', Payload)
    BY DEF IInv, PayloadCovers
  <1>4. /\ disk'.confirmed => disk'.iv <= net'.iv
        /\ disk'.confirmed => disk'.iv # NoIv
    BY DEF IInv, NetBound, Real
  <1> QED
    BY <1>2, <1>3, <1>4, NotSavingFields

(* After a write that ends outside shutdown, the session is what it was. *)
LEMMA EndedInPlace ==
  ASSUME IInv, TypeOK', saving # NotSaving,
         disk' = disk \/ disk' = saving, saving' = NotSaving, net' = net,
         UNCHANGED <<persisted, session>>
  PROVE  IInv'
  <1>1. phase # "off"
    BY DEF IInv, PayloadCovers
  <1>2. Payload' = Payload
    BY DEF Payload, session
  <1>3. NetBound' /\ Real'
    BY WriteEnds DEF IInv, NetBound, Real, session
  <1>4. Covers(disk, Payload)' /\ Covers(saving, Payload)'
    BY <1>1, <1>2, WriteEnds DEF Covers
  <1>5. PayloadCovers'
    BY <1>4 DEF PayloadCovers
  <1> QED
    BY <1>3, <1>5 DEF IInv

(* After one that ends the coordinator, or a crash, nothing is left but the file. *)
LEMMA EndedForGood ==
  ASSUME IInv, TypeOK', Forget, phase' = "off", saving' = NotSaving, net' = net,
         disk' = disk \/ (saving # NotSaving /\ disk' = saving)
  PROVE  IInv'
  <1>1. /\ disk'.confirmed => disk'.iv <= net'.iv
        /\ disk'.confirmed => disk'.iv # NoIv
    BY DEF IInv, NetBound, Real
  <1>2. ~ivConfirmed' /\ ~persisted'.confirmed /\ ~saving'.confirmed
    BY NotSavingFields DEF Forget
  <1>3. NetBound' /\ Real'
    BY <1>1, <1>2 DEF NetBound, Real
  <1>4. PayloadCovers'
    BY DEF PayloadCovers
  <1> QED
    BY <1>3, <1>4 DEF IInv

LEMMA StepIInv == IInv /\ [Next]_vars => IInv'
  <1> SUFFICES ASSUME IInv, [Next]_vars PROVE IInv'
    OBVIOUS
  <1>T. TypeOK /\ TypeOK'
    BY NextTypeOK DEF IInv
  <1>N. /\ net.iv \in Int /\ disk.iv \in Int /\ persisted.iv \in Int
        /\ saving.iv \in Int /\ ivIndex \in Int /\ Payload.iv \in Int
        /\ Payload # NotSaving
    BY <1>T, Numbers
  <1>1. CASE UpdateBegins
    <2>1. net'.iv >= net.iv
      BY <1>1, <1>N DEF UpdateBegins
    <2> QED
      BY <1>1, <1>T, <2>1, QuietStep DEF UpdateBegins
  <1>2. CASE UpdateCompletes
    <2>1. net'.iv = net.iv
      BY <1>2, <1>T DEF UpdateCompletes, TypeOK
    <2> QED
      BY <1>2, <1>N, <1>T, <2>1, QuietStep DEF UpdateCompletes
  <1>3. CASE HearAny
    <2>1. CASE UNCHANGED session
      BY <1>3, <1>N, <1>T, <2>1, HearMoves, QuietStep
    <2>2. CASE ~UNCHANGED session
      <3>1. /\ phase = "up" /\ phase' = "up" /\ ivIndex # NoIv
            /\ UNCHANGED <<net, disk, persisted, saving>>
            /\ ivIndex' \in Nat /\ ivIndex' <= net.iv /\ ivConfirmed' = TRUE
            /\ ivConfirmed => ivIndex' >= ivIndex
        BY <1>3, <2>2, HearMoves
      <3>2. NetBound' /\ Real'
        BY <3>1 DEF IInv, NetBound, Real, NoIv
      <3>3. Payload'.iv = ivIndex' /\ Payload'.confirmed = TRUE
        BY <3>1 DEF Payload, NoIv
      <3>4. Payload.iv = ivIndex /\ Payload.confirmed = ivConfirmed
        BY <3>1, PayloadFields
      <3>5. /\ disk.confirmed => ivConfirmed /\ disk.iv <= ivIndex
            /\ saving.confirmed => ivConfirmed /\ saving.iv <= ivIndex
        BY <3>1, <3>4 DEF IInv, PayloadCovers, Covers
      <3>6. Covers(disk, Payload)' /\ Covers(saving, Payload)'
        BY <1>N, <3>1, <3>3, <3>5 DEF Covers
      <3>7. PayloadCovers'
        BY <3>1, <3>6 DEF IInv, PayloadCovers, Covers
      <3> QED
        BY <1>T, <3>2, <3>7 DEF IInv
    <2> QED
      BY <2>1, <2>2
  <1>4. CASE LoadSeq
    <2>1. /\ phase = "off" /\ phase' = "loaded" /\ persisted' = Read
          /\ UNCHANGED <<net, disk, session, saving>>
      BY <1>4 DEF LoadSeq
    <2>2. ivIndex = NoIv /\ saving = NotSaving
      BY <2>1, <1>T DEF TypeOK, IInv, PayloadCovers
    <2>3. Payload' = Read
      BY <2>1, <2>2 DEF Payload, session
    <2>4. Read.iv = disk.iv /\ (disk.confirmed => Read.confirmed)
      BY DEF Read, IInv, Real
    <2>5. Read.confirmed => disk.confirmed /\ disk.iv # NoIv
      BY DEF Read
    <2>6. NetBound' /\ Real'
      BY <2>1, <2>4, <2>5 DEF IInv, NetBound, Real, session
    <2>7. Covers(disk, Payload)' /\ Covers(saving, Payload)'
      BY <1>N, <2>1, <2>2, <2>3, <2>4, NotSavingFields DEF Covers
    <2>8. PayloadCovers'
      BY <2>1, <2>2, <2>7 DEF PayloadCovers
    <2> QED
      BY <1>T, <2>6, <2>8 DEF IInv
  <1>5. CASE RemoteLoadRaises
    BY <1>5, <1>N, <1>T, QuietStep DEF RemoteLoadRaises
  <1>6. CASE StartSession
    <2>1. /\ phase = "loaded" /\ phase' = "starting" /\ ivConfirmed' = persisted.confirmed
          /\ UNCHANGED <<net, disk, persisted, saving>> /\ ivIndex' \in InitialIvs
      BY <1>6 DEF StartSession
    <2>2. ivIndex = NoIv /\ ivIndex' # NoIv /\ saving = NotSaving
      BY <2>1, <1>T DEF TypeOK, IInv, PayloadCovers
    <2>3. Payload = persisted
      BY <2>2, PayloadFields
    <2>4. Payload'.iv = ivIndex' /\ Payload'.confirmed = persisted.confirmed
      BY <2>1, <2>2 DEF Payload
    <2>5. persisted.confirmed => ivIndex' = persisted.iv
      BY <2>1 DEF InitialIvs, IInv, Real
    <2>6. NetBound' /\ Real'
      BY <2>1, <2>2, <2>5 DEF IInv, NetBound, Real
    <2>7. disk.confirmed => persisted.confirmed /\ disk.iv <= persisted.iv
      BY <2>1, <2>3 DEF IInv, PayloadCovers, Covers
    <2>8. Covers(disk, Payload)' /\ Covers(saving, Payload)'
      BY <2>1, <2>2, <2>4, <2>5, <2>7, NotSavingFields DEF Covers
    <2>9. PayloadCovers'
      BY <2>1, <2>2, <2>8 DEF PayloadCovers
    <2> QED
      BY <1>T, <2>6, <2>9 DEF IInv
  <1>7. CASE Save \/ FinalSave
    <2>1. /\ phase \notin {"off", "loaded"} /\ phase' \notin {"off", "loaded"}
          /\ saving' = Payload /\ UNCHANGED <<net, disk, persisted, session>>
      BY <1>7 DEF Save, FinalSave, Begin
    <2>2. Payload' = Payload
      BY <2>1 DEF Payload, session
    <2>3. Payload.confirmed => Payload.iv <= net.iv /\ Payload.iv # NoIv
      BY PayloadFields DEF IInv, NetBound, Real
    <2>4. NetBound' /\ Real'
      BY <1>N, <2>1, <2>3 DEF IInv, NetBound, Real, session
    <2>5. Covers(Payload, Payload)
      BY <1>N, CoversSelf
    <2>6. Covers(disk, Payload)
      BY <2>1 DEF IInv, PayloadCovers
    <2>7. PayloadCovers'
      BY <2>1, <2>2, <2>5, <2>6 DEF PayloadCovers, Covers
    <2> QED
      BY <1>T, <2>4, <2>7 DEF IInv
  <1>8. CASE Saved \/ SaveFails
    <2>1. /\ saving # NotSaving /\ saving' = NotSaving /\ net' = net
          /\ disk' = disk \/ disk' = saving
      BY <1>8 DEF Saved, SaveFails, WriteReturns, WriteFails
    <2>2. CASE phase = "final"
      BY <1>8, <1>T, <2>1, <2>2, EndedForGood DEF Saved, SaveFails
    <2>3. CASE phase # "final"
      BY <1>8, <1>T, <2>1, <2>3, EndedInPlace DEF Saved, SaveFails, session
    <2> QED
      BY <2>2, <2>3
  <1>9. CASE Shutdown
    BY <1>9, <1>N, <1>T, QuietStep DEF Shutdown
  <1>10. CASE Crash
    BY <1>10, <1>T, EndedForGood DEF Crash, WriteFails
  <1>11. CASE UNCHANGED vars
    BY <1>11, <1>N, <1>T, QuietStep DEF vars
  <1> QED
    BY <1>1, <1>2, <1>3, <1>4, <1>5, <1>6, <1>7, <1>8, <1>9, <1>10, <1>11 DEF Next

(* The inductive invariant: NetBound and Real say which values may be confirmed, and
   PayloadCovers that what would be written next covers what is on disk. *)
THEOREM Inductive == Spec => []IInv
  <1>1. Init => IInv
    BY InitIInv
  <1>2. IInv /\ [Next]_vars => IInv'
    BY StepIInv
  <1> QED
    BY <1>1, <1>2, PTL DEF Spec

(* What counts as confirmed, in memory or on disk, never runs ahead of the network. *)
THEOREM NeverAhead == Spec => []ConfirmedNeverAhead
  <1>1. IInv => ConfirmedNeverAhead
    BY DEF IInv, NetBound, ConfirmedNeverAhead
  <1> QED
    BY <1>1, Inductive, PTL

(* While a session is up, a confirmed one never transmits with an earlier IV Index than
   before, whatever beacons it hears in whatever order. *)
THEOREM TransmitsForward == Spec => TxNeverBack
  <1>1. ASSUME IInv, [Next]_vars
        PROVE  [phase = "up" /\ phase' = "up" /\ ivConfirmed => TxIv' >= TxIv]_vars
    <2>1. SUFFICES ASSUME phase = "up", phase' = "up", ivConfirmed PROVE TxIv' >= TxIv
      OBVIOUS
    <2>2. ivIndex \in Int /\ TxIv \in Int
      <3>1. ivIndex \in Int
        BY <1>1, Numbers DEF IInv
      <3> QED
        BY <3>1 DEF TxIv
    <2>3. CASE HearAny
      <3>1. CASE UNCHANGED session
        BY <2>2, <3>1 DEF TxIv, session
      <3>2. CASE ~UNCHANGED session
        BY <1>1, <2>1, <2>3, <3>2, HearMoves
      <3> QED
        BY <3>1, <3>2
    <2>4. CASE ~HearAny
      <3>1. UNCHANGED session
        BY <1>1, <2>1, <2>4
           DEF Next, vars, UpdateBegins, UpdateCompletes, LoadSeq, RemoteLoadRaises,
               StartSession, Save, Saved, SaveFails, Shutdown, FinalSave, Crash
      <3> QED
        BY <2>2, <3>1 DEF TxIv, session
    <2> QED
      BY <2>3, <2>4
  <1> QED
    BY <1>1, Inductive, PTL DEF Spec, TxNeverBack

(* A confirmed IV Index on disk is never replaced by an older or an unconfirmed one. *)
THEOREM DiskForward == Spec => DiskNeverBack
  <1>1. ASSUME IInv, [Next]_vars
        PROVE  [disk.confirmed => disk'.confirmed /\ disk'.iv >= disk.iv]_vars
    <2>1. disk.iv \in Int /\ saving.iv \in Int
      BY <1>1, Numbers DEF IInv
    <2>2. CASE disk' = disk
      BY <2>1, <2>2
    <2>3. CASE disk' # disk
      <3>1. saving # NotSaving /\ disk' = saving
        BY <1>1, <2>3
           DEF Next, vars, UpdateBegins, UpdateCompletes, HearAny, Hear, LoadSeq,
               RemoteLoadRaises, StartSession, Save, Saved, SaveFails, Shutdown,
               FinalSave, Crash, WriteReturns, WriteFails
      <3>2. Covers(disk, disk')
        BY <1>1, <3>1 DEF IInv, PayloadCovers, Covers
      <3> QED
        BY <2>1, <3>1, <3>2 DEF Covers
    <2> QED
      BY <2>2, <2>3
  <1> QED
    BY <1>1, Inductive, PTL DEF Spec, DiskNeverBack

-----------------------------------------------------------------------------
(* What is in use is what the network said, now or earlier: the beacon     *)
(* handled last was sent, and so was one that tells what a confirmed       *)
(* session has, unless the session still has what it started from.         *)

Believed == [iv |-> ivIndex, update |-> ivUpdate, ours |-> TRUE]

AsStarted == persisted.confirmed /\ persisted.iv = ivIndex /\ ~ivUpdate

Informed ==
  /\ heard.ours => Sent(heard)
  /\ phase \in {"off", "loaded", "starting"} => ~heard.ours
  /\ phase \in {"starting", "up"} /\ ivConfirmed => Sent(Believed) \/ AsStarted

InTouch ==
  phase = "up" /\ heard = NetBeacon /\ ~OutOfReach
    => ivIndex = net.iv /\ (StartedInUpdate \/ TxIv = NodeTxIv)

SInv == IInv /\ Informed /\ InTouch

(* The network's beacon has just been handled. *)
LEMMA HeardPresent ==
  ASSUME SInv, Hear(NetBeacon), ~OutOfReach'
  PROVE  ivIndex' = net'.iv /\ (StartedInUpdate \/ TxIv = NodeTxIv)'
<1>1. /\ net.iv \in Nat /\ net.update \in BOOLEAN /\ (net.update => net.iv > 0)
      /\ ivIndex \in Nat /\ ivUpdate \in BOOLEAN /\ phase = "up" /\ MaxJump \in Nat
  BY IvAssumption DEF SInv, IInv, TypeOK, Ivs, NoIv, Hear
<1>2. UNCHANGED <<net, persisted>>
  BY DEF Hear
<1>3. CASE Adoptable(NetBeacon)
  <2>1. ivIndex' = net.iv /\ ivUpdate' = net.update
    BY <1>3 DEF Hear, NetBeacon
  <2> QED BY <1>1, <1>2, <2>1 DEF TxIv, NodeTxIv
<1>4. CASE ~Adoptable(NetBeacon)
  <2>1. UNCHANGED session
    BY <1>4 DEF Hear
  <2>2. ivConfirmed /\ (~WithinReach(NetBeacon) \/ Reopens(NetBeacon))
    BY <1>4 DEF Adoptable, Authentic, NetBeacon
  <2>3. ivIndex <= net.iv
    BY <2>2 DEF SInv, IInv, NetBound
  <2>4. net.iv <= ivIndex + MaxJump
    BY <1>1, <1>2, <2>1, <2>2 DEF OutOfReach, session
  <2>5. Reopens(NetBeacon)
    BY <1>1, <2>2, <2>3, <2>4 DEF WithinReach, NetBeacon
  <2>6. net.update /\ ~ivUpdate /\ net.iv = ivIndex
    BY <2>5 DEF Reopens, NetBeacon
  <2>7. ~Sent(Believed)
    BY <2>6 DEF Sent, Believed
  <2>8. AsStarted
    BY <1>1, <2>2, <2>7 DEF SInv, Informed
  <2> QED BY <1>2, <2>1, <2>6, <2>8 DEF AsStarted, StartedInUpdate, session
<1> QED BY <1>3, <1>4

LEMMA HearKeepsInformed ==
  ASSUME SInv, HearAny
  PROVE  Informed' /\ InTouch'
<1>1. PICK b \in [iv : 0..net.iv \cup ForeignIvs, update : BOOLEAN, ours : BOOLEAN] :
        (Sent(b) \/ Foreign(b)) /\ Hear(b)
  BY DEF HearAny
<1>2. phase = "up" /\ phase' = "up" /\ UNCHANGED <<net, persisted>>
  BY <1>1 DEF Hear
<1>3. b = [iv |-> b.iv, update |-> b.update, ours |-> b.ours]
  OBVIOUS
<1>4. b.ours => Sent(b)
  BY <1>1 DEF Foreign
<1>5. heard'.ours => Sent(heard')
  BY <1>1, <1>4 DEF Hear, SInv, Informed
<1>6. ivConfirmed' => (Sent(Believed) \/ AsStarted)'
  <2>1. CASE Adoptable(b)
    <3>1. b.ours /\ ivIndex' = b.iv /\ ivUpdate' = b.update
      BY <1>1, <2>1 DEF Hear, Adoptable, Authentic
    <3>2. Believed' = b
      BY <1>3, <3>1 DEF Believed
    <3> QED BY <1>2, <1>4, <3>1, <3>2 DEF Sent
  <2>2. CASE ~Adoptable(b)
    <3>1. UNCHANGED session
      BY <1>1, <2>2 DEF Hear
    <3> QED BY <1>2, <3>1 DEF SInv, Informed, Believed, AsStarted, Sent, session
  <2> QED BY <2>1, <2>2
<1>7. Informed'
  BY <1>2, <1>5, <1>6 DEF Informed, Sent
<1>8. InTouch'
  <2> SUFFICES ASSUME heard' = NetBeacon', ~OutOfReach'
               PROVE  ivIndex' = net'.iv /\ (StartedInUpdate \/ TxIv = NodeTxIv)'
    BY DEF InTouch
  <2>1. NetBeacon' = NetBeacon /\ NetBeacon.ours
    BY <1>2 DEF NetBeacon
  <2>2. CASE b.ours
    <3>1. Hear(NetBeacon)
      BY <1>1, <2>1, <2>2 DEF Hear
    <3> QED BY <3>1, HeardPresent
  <2>3. CASE ~b.ours
    <3>1. UNCHANGED session /\ heard' = heard
      BY <1>1, <2>3 DEF Hear, Adoptable, Authentic
    <3>2. ~OutOfReach /\ heard = NetBeacon
      BY <1>2, <2>1, <3>1 DEF OutOfReach, session
    <3> QED
      BY <1>2, <3>1, <3>2 DEF SInv, InTouch, StartedInUpdate, TxIv, NodeTxIv, session
  <2> QED BY <2>2, <2>3
<1> QED BY <1>7, <1>8

LEMMA StepSInv == SInv /\ [Next]_vars => SInv'
<1> SUFFICES ASSUME SInv, [Next]_vars PROVE SInv'
  OBVIOUS
<1>I. IInv' /\ TypeOK
  BY StepIInv DEF SInv, IInv
<1>1. CASE UpdateBegins \/ UpdateCompletes
  <2>1. UNCHANGED <<phase, persisted, session, heard>>
    BY <1>1 DEF UpdateBegins, UpdateCompletes
  <2>2. heard.iv \in Nat /\ (phase \in {"starting", "up"} => ivIndex \in Nat)
    BY <1>I DEF TypeOK, Beacon, Ivs, NoIv
  <2>3. heard.ours => Sent(heard)'
    <3>1. heard' = heard
      BY <2>1
    <3> QED
      BY <1>1, <1>I, <2>2, <3>1 DEF SInv, Informed, TypeOK, Ivs, UpdateBegins, UpdateCompletes, Sent
  <2>4. phase \in {"starting", "up"} /\ Sent(Believed) => Sent(Believed)'
    <3>1. Believed' = Believed /\ (phase \in {"starting", "up"} => Believed.iv \in Nat)
      BY <2>1, <2>2 DEF Believed, session
    <3> QED BY <1>1, <1>I, <3>1 DEF TypeOK, Ivs, UpdateBegins, UpdateCompletes, Sent
  <2>5. Informed'
    BY <2>1, <2>3, <2>4 DEF SInv, Informed, AsStarted, Sent, session
  <2>6. ~(heard' = NetBeacon')
    <3>1. CASE UpdateBegins
      <4>1. heard.ours => heard.iv <= net.iv
        BY DEF SInv, Informed, Sent
      <4>2. NetBeacon'.iv = net.iv + 1 /\ NetBeacon'.ours
        BY <3>1 DEF UpdateBegins, NetBeacon
      <4> QED BY <1>I, <2>1, <2>2, <4>1, <4>2 DEF TypeOK, Ivs
    <3>2. CASE UpdateCompletes
      <4>1. net.update /\ NetBeacon'.iv = net.iv /\ ~NetBeacon'.update /\ NetBeacon'.ours
        BY <1>I, <3>2 DEF UpdateCompletes, NetBeacon, TypeOK
      <4> QED BY <2>1, <4>1 DEF SInv, Informed, Sent
    <3> QED BY <1>1, <3>1, <3>2
  <2>7. InTouch'
    BY <2>6 DEF InTouch
  <2> QED BY <1>I, <2>5, <2>7 DEF SInv
<1>2. CASE HearAny
  BY <1>2, <1>I, HearKeepsInformed DEF SInv
<1>3. CASE StartSession
  <2>1. /\ phase = "loaded" /\ phase' = "starting" /\ ivIndex' \in InitialIvs
        /\ ~ivUpdate' /\ ivConfirmed' = persisted.confirmed /\ UNCHANGED <<net, persisted, heard>>
    BY <1>3 DEF StartSession
  <2>2. persisted.confirmed => ivIndex' = persisted.iv
    BY <2>1 DEF SInv, IInv, Real, InitialIvs
  <2> QED
    BY <1>I, <2>1, <2>2 DEF SInv, Informed, InTouch, AsStarted, Sent
<1>4. CASE Forget /\ phase' = "off"
  BY <1>4, <1>I DEF SInv, Informed, InTouch, Forget, NoBeacon
<1>5. CASE /\ UNCHANGED <<net, persisted, session, heard>>
           /\ phase' \in {"starting", "up"} => phase \in {"starting", "up"}
           /\ phase' \in {"off", "loaded", "starting"} => phase \in {"off", "loaded", "starting"}
           /\ phase = "starting" \/ phase' # "up" \/ phase = "up"
  <2>1. Informed'
    BY <1>5 DEF SInv, Informed, Believed, AsStarted, Sent, session
  <2>2. phase = "starting" => ~(heard' = NetBeacon')
    BY <1>5 DEF SInv, Informed, NetBeacon
  <2>3. InTouch'
    BY <1>5, <2>2 DEF SInv, InTouch, NetBeacon, OutOfReach, StartedInUpdate, TxIv, NodeTxIv, session
  <2> QED BY <1>I, <2>1, <2>3 DEF SInv
<1>6. CASE LoadSeq
  BY <1>6, <1>I DEF LoadSeq, SInv, Informed, InTouch, Sent
<1>7. CASE RemoteLoadRaises \/ Save \/ Shutdown \/ FinalSave
  BY <1>5, <1>7 DEF RemoteLoadRaises, Save, Shutdown, FinalSave
<1>8. CASE Saved \/ SaveFails
  <2>1. CASE phase = "final"
    BY <1>4, <1>8, <2>1 DEF Saved, SaveFails
  <2>2. CASE phase # "final"
    BY <1>5, <1>8, <2>2 DEF Saved, SaveFails
  <2> QED BY <2>1, <2>2
<1>9. CASE Crash
  BY <1>4, <1>9 DEF Crash
<1>10. CASE UNCHANGED vars
  BY <1>5, <1>10 DEF vars
<1> QED
  BY <1>1, <1>2, <1>3, <1>6, <1>7, <1>8, <1>9, <1>10 DEF Next

(* Every belief of the session is one the network has had. *)
THEOREM InformedInductive == Spec => []SInv
<1>1. Init => SInv
  <2> SUFFICES ASSUME Init PROVE SInv
    OBVIOUS
  <2>1. phase = "off" /\ ~heard.ours
    BY DEF Init, NoBeacon
  <2> QED BY <2>1, InitIInv DEF SInv, Informed, InTouch
<1>2. SInv /\ [Next]_vars => SInv'
  BY StepSInv
<1> QED BY <1>1, <1>2, PTL DEF Spec

(* Once the network's present beacon is handled, messages go out with the  *)
(* IV Index the nodes transmit with, whatever came before.                 *)
THEOREM InStepWithNetwork == Spec => []InStep
<1>1. SInv => InStep
  BY DEF SInv, InTouch, InStep
<1> QED BY <1>1, InformedInductive, PTL

(* And every report of a node decrypts, during an update too.              *)
THEOREM ReportsDecrypt == Spec => []DecryptsNodes
<1>1. ASSUME SInv PROVE DecryptsNodes
  <2> SUFFICES ASSUME phase = "up", heard = NetBeacon, ~OutOfReach
               PROVE  RxIv(NodeTxIv % 2) = NodeTxIv
    BY DEF DecryptsNodes
  <2>1. ivIndex = net.iv
    BY <1>1 DEF SInv, InTouch
  <2>2. net.iv \in Nat /\ (net.update => net.iv > 0)
    BY <1>1 DEF SInv, IInv, TypeOK, Ivs
  <2>3. CASE net.update
    <3>1. NodeTxIv = net.iv - 1 /\ net.iv % 2 # (net.iv - 1) % 2
      BY <2>2, <2>3 DEF NodeTxIv
    <3> QED BY <2>1, <2>2, <2>3, <3>1 DEF RxIv
  <2>4. CASE ~net.update
    BY <2>1, <2>2, <2>4 DEF NodeTxIv, RxIv
  <2> QED BY <2>3, <2>4
<1> QED BY <1>1, InformedInductive, PTL
-----------------------------------------------------------------------------
(* A session reaches the network *)

CaughtUp == ivConfirmed /\ ivIndex = net.iv

(* The network's present beacon brings a session all the way. *)
Catches == Hear(NetBeacon) => CaughtUp' \/ OutOfReach'

(* As long as the network rests, nothing a session that is up hears takes it back from
   there, out of its reach, or to being unconfirmed. *)
Keeps ==
  phase = "up" /\ phase' = "up" /\ net' = net =>
    /\ CaughtUp => CaughtUp'
    /\ ivConfirmed => ivConfirmed' /\ (OutOfReach' => OutOfReach)

(* The present beacon is one the session may hear at any time it is up: Next has it. *)
LEMMA PresentIsHeard ==
  ASSUME TypeOK, Hear(NetBeacon)
  PROVE  HearAny
<1>1. net.iv \in Nat /\ net.update \in BOOLEAN /\ (net.update => net.iv > 0)
  BY DEF TypeOK, Ivs
<1>2. NetBeacon \in [iv : 0..net.iv \cup ForeignIvs, update : BOOLEAN, ours : BOOLEAN]
  <2>1. net.iv \in 0..net.iv
    BY <1>1
  <2> QED  BY <1>1, <2>1 DEF NetBeacon
<1>3. Sent(NetBeacon)
  BY <1>1 DEF Sent, NetBeacon
<1> QED  BY <1>2, <1>3 DEF HearAny

LEMMA HearingCatches ==
  ASSUME SInv, Hear(NetBeacon)
  PROVE  CaughtUp' \/ OutOfReach'
<1>1. SUFFICES ASSUME ~OutOfReach' PROVE CaughtUp'
  OBVIOUS
<1>2. ivIndex' = net'.iv
  BY <1>1, HeardPresent
<1>3. ivConfirmed'
  BY DEF Hear, Adoptable, Authentic, NetBeacon, session
<1> QED  BY <1>2, <1>3 DEF CaughtUp

LEMMA StepKeeps ==
  ASSUME IInv, [Next]_vars, phase = "up", phase' = "up", net' = net
  PROVE  /\ CaughtUp => CaughtUp'
         /\ ivConfirmed => ivConfirmed' /\ (OutOfReach' => OutOfReach)
<1>1. CASE UNCHANGED session
  BY <1>1 DEF CaughtUp, OutOfReach, session
<1>2. CASE HearAny /\ ~UNCHANGED session
  <2>1. /\ ivIndex' \in Nat /\ ivIndex' <= net.iv /\ ivConfirmed' = TRUE
        /\ ivConfirmed => ivIndex' >= ivIndex
    BY <1>2, HearMoves
  <2>2. net.iv \in Int /\ ivIndex \in Int /\ MaxJump \in Nat
    BY Numbers, IvAssumption DEF IInv
  <2>3. CaughtUp => ivIndex' = net.iv
    BY <2>1, <2>2 DEF CaughtUp
  <2>4. ivConfirmed /\ OutOfReach' => OutOfReach
    BY <2>1, <2>2 DEF OutOfReach
  <2> QED  BY <2>1, <2>3, <2>4 DEF CaughtUp
<1>3. ~HearAny => UNCHANGED session
  BY DEF Next, vars, UpdateBegins, UpdateCompletes, LoadSeq, RemoteLoadRaises, StartSession, Save,
         Saved, SaveFails, Shutdown, FinalSave, Crash
<1> QED  BY <1>1, <1>2, <1>3

(* One beacon of the network is enough for a session that is within reach, however many old
   ones come before and after it (gatt.py:1164-1250). *)
THEOREM OneBeaconIsEnough == Spec => [][Catches /\ Keeps]_vars
<1>1. SInv /\ [Next]_vars => Catches /\ Keeps
  BY HearingCatches, StepKeeps DEF SInv, Catches, Keeps
<1> QED  BY <1>1, InformedInductive, PTL DEF Spec

(* There is something in the present beacon that the session has not taken in. *)
HasNews ==
  /\ phase = "up"
  /\ \/ heard # NetBeacon
     \/ Adoptable(NetBeacon) /\ session # <<net.iv, net.update, TRUE>>

(* WF_vars(Hear(NetBeacon)), with the states in which it can be heard and changes something
   spelt out. *)
BeaconsKeepComing == []<>~HasNews \/ []<><<Hear(NetBeacon)>>_vars

NetworkRests == <>[][net' = net]_vars

(* Nothing new in the present beacon: the session has caught up with it, or cannot. *)
LEMMA NoNews == SInv /\ phase = "up" /\ ~HasNews => CaughtUp \/ OutOfReach
<1> SUFFICES ASSUME SInv, phase = "up", ~HasNews, ~OutOfReach PROVE CaughtUp
  OBVIOUS
<1>1. heard = NetBeacon
  BY DEF HasNews
<1>2. ivIndex = net.iv
  BY <1>1 DEF SInv, InTouch
<1>3. ivConfirmed
  BY DEF HasNews, Adoptable, Authentic, NetBeacon, session
<1> QED  BY <1>2, <1>3 DEF CaughtUp

(* A session that stays up reaches the network's IV Index for good once the network rests,
   unless that is out of its reach, as long as the network's beacon keeps coming
   (gatt.py:1164-1250). *)
THEOREM CatchesUpInTheEnd == Spec /\ BeaconsKeepComing /\ NetworkRests => CatchesUp
<1>1. SInv /\ phase = "up" /\ ~HasNews => CaughtUp \/ OutOfReach
  BY NoNews
<1>2. SInv /\ <<Hear(NetBeacon)>>_vars => CaughtUp' \/ OutOfReach'
  BY HearingCatches
<1>3. SInv /\ [Next]_vars /\ phase = "up" /\ (phase = "up")' /\ [net' = net]_vars
      => /\ CaughtUp => CaughtUp'
         /\ ivConfirmed => ivConfirmed' /\ (OutOfReach' => OutOfReach)
  BY StepKeeps DEF SInv, vars
<1>4. OutOfReach => ivConfirmed
  BY DEF OutOfReach
<1>5. CaughtUp => ivIndex = net.iv
  BY DEF CaughtUp
<1> QED
  BY <1>1, <1>2, <1>3, <1>4, <1>5, InformedInductive, PTL
  DEF Spec, BeaconsKeepComing, NetworkRests, CatchesUp
=============================================================================
