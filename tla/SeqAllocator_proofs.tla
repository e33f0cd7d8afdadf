-------------------------- MODULE SeqAllocator_proofs --------------------------
(***************************************************************************)
(* Machine-checked proofs about SeqAllocator, for every number of          *)
(* addresses, every SEQ space, block, threshold and jump, every set of     *)
(* config entries, and every export of the app.                            *)
(***************************************************************************)
EXTENDS FirstStart, WellFoundedInduction, TLAPS

(* A clamped jump or ceiling stays in the SEQ space and never goes down. *)
LEMMA JumpedBounds ==
  ASSUME NEW n \in Counter
  PROVE  Jumped(n) \in Counter /\ n <= Jumped(n)
BY NumbersAssumption DEF Jumped, SmallerOf, Counter, Absent, Seqs

LEMMA CeilingBounds ==
  ASSUME NEW n \in Seqs
  PROVE  Ceiling(n) \in Seqs /\ n <= Ceiling(n)
BY NumbersAssumption DEF Ceiling, SmallerOf, Seqs

(* The value next_seq would hand out is one above what the SRC has, and a natural. *)
LEMMA NextValueBounds ==
  ASSUME NEW s \in Unicast, NEW t \in Clock, seqState \in [Unicast -> Counter]
  PROVE  NextValue(s, t) \in Nat /\ NextValue(s, t) > seqState[s]
<1>1. t \in Nat BY EnvironmentAssumption
<1>2. t % (SeqMax + 1) \in Nat BY <1>1, NumbersAssumption
<1>3. Seed(t) \in Nat BY <1>2, NumbersAssumption DEF Seed, LargerOf, Seqs
<1>4. seqState[s] \in Counter OBVIOUS
<1>. QED BY <1>3, <1>4, NumbersAssumption DEF NextValue, Counter, Absent

LEMMA FreeIsUnicast == FreeAddresses \subseteq Unicast
BY DEF FreeAddresses

LEMMA OutTypes ==
  /\ Nothing.kind = "none"
  /\ \A s \in Unicast, n \in Seqs : Granted(s, n) # Nothing
  /\ \A s \in Unicast : Raised("failed", s) # Nothing /\ Raised("exhausted", s) # Nothing
BY DEF Nothing, Granted, Raised, Promise!Nothing, Promise!Granted, Promise!Raised

-----------------------------------------------------------------------------
(* Type correctness *)

LEMMA NoStoreType == Empty \in [Unicast -> Counter] /\ NoStore \in Store
BY NumbersAssumption DEF Empty, NoStore, Store, Counter, Absent

LEMMA InitTypeOK == Init => TypeOK
<1>. SUFFICES ASSUME Init PROVE TypeOK OBVIOUS
<1>1. Empty \in [Unicast -> Counter] BY NoStoreType
<1>2. NoStore \in Store BY NoStoreType
<1>3. ASSUME NEW c \in Configs, NEW n \in Seqs
      PROVE  StorePayload([s \in Unicast |-> IF s = c.src THEN n ELSE Absent], NoSrc) \in Store
  BY NumbersAssumption DEF StorePayload, Store, Seqs, Counter, Absent
<1>4. disk \in Store
  <2>1. CASE disk = NoStore BY <2>1, <1>2
  <2>2. CASE disk # NoStore
    <3>1. PICK c \in Configs, n \in Seqs :
            disk = StorePayload([s \in Unicast |-> IF s = c.src THEN n ELSE Absent], NoSrc)
      BY <2>2 DEF Init
    <3>. QED BY <3>1, <1>3
  <2>. QED BY <2>1, <2>2
<1>5. last \in [Unicast -> Counter] BY <1>4 DEF Init, Store
<1>6. Promise!TypeOK
  BY <1>5 DEF Init, Promise!TypeOK, Nothing, Counter, Absent
<1>7. call \in Calls BY DEF Init, Calls
<1>8. activeSrc \in Unicast \cup {NoSrc} BY DEF Init
<1>9. phase \in Phases BY DEF Init, Phases
<1>10. seqLoaded \in BOOLEAN /\ thwarted \in BOOLEAN BY DEF Init
<1>11. config \in Configs /\ seqState \in [Unicast -> Counter]
         /\ seqReserved \in [Unicast -> Counter] /\ saving \in Store
  BY <1>1, <1>2 DEF Init
<1>12. sources \in SUBSET Unicast /\ retired \in SUBSET (Unicast \cup {NoSrc}) BY DEF Init
<1>13. ~(phase \in {"prepared", "saving", "running"}) /\ ~RotatesInSetup
  BY DEF Init, RotatesInSetup, Idle
<1>. QED BY <1>4, <1>6, <1>7, <1>8, <1>9, <1>10, <1>11, <1>12, <1>13 DEF TypeOK

LEMMA SettleTypes ==
  ASSUME TypeOK, NEW s \in Unicast, NEW n \in Seqs, Settle(s, n)
  PROVE  /\ seqState' \in [Unicast -> Counter]
         /\ call' \in Calls /\ ~RotatesInSetup'
         /\ Promise!TypeOK'
<1>1. n \in Counter BY NumbersAssumption DEF Seqs, Counter, Absent
<1>2. seqState' \in [Unicast -> Counter] BY <1>1 DEF Settle, TypeOK
<1>3. CASE s = activeSrc /\ PastThreshold(n) /\ FreeAddresses # {}
  <2>0. s # NoSrc BY DEF Unicast, NoSrc
  <2>1. PICK new \in Unicast : call' = [op |-> "rotate", src |-> s, seq |-> n, new |-> new]
    BY <1>3, FreeIsUnicast DEF Settle
  <2>2. UNCHANGED <<last, out>> BY <1>3 DEF Settle
  <2>3. call' \in Calls /\ ~RotatesInSetup' BY <2>0, <2>1 DEF Calls, RotatesInSetup
  <2>. QED BY <1>2, <2>2, <2>3 DEF TypeOK, Promise!TypeOK
<1>4. CASE ~(s = activeSrc /\ PastThreshold(n) /\ FreeAddresses # {})
  <2>1. call' = Idle /\ last' = [last EXCEPT ![s] = n] /\ out' = Granted(s, n)
    BY <1>4 DEF Settle
  <2>2. Promise!TypeOK'
    BY <2>1, <1>1 DEF TypeOK, Promise!TypeOK, Granted, Seqs, Counter, Absent
  <2>. QED BY <1>2, <2>1, <2>2 DEF Calls, RotatesInSetup, Idle
<1>. QED BY <1>3, <1>4
LEMMA CallCases ==
  ASSUME TypeOK
  PROVE  /\ call.op = "block" => call.src \in Unicast /\ call.seq \in Seqs
         /\ call.op = "rotate" =>
              /\ call.new \in Unicast
              /\ call.src # NoSrc => call.src \in Unicast /\ call.seq \in Seqs
         /\ call = Idle \/ call.op = "block" \/ call.op = "rotate"
         /\ call.op \in {"block", "rotate"} => call # Idle
BY DEF TypeOK, Calls, Idle, Unicast, NoSrc

LEMMA PayloadTypes ==
  ASSUME TypeOK
  PROVE  /\ CurrentPayload \in Store
         /\ call # Idle => CallPayload \in Store
<1>1. CurrentPayload \in Store BY DEF CurrentPayload, StorePayload, Store, TypeOK
<1>2. CASE call.op = "block"
  <2>1. call.src \in Unicast /\ call.seq \in Seqs BY <1>2, CallCases
  <2>2. Ceiling(call.seq) \in Counter
    BY <2>1, CeilingBounds, NumbersAssumption DEF Seqs, Counter, Absent
  <2>3. BlockReserved(call.src, call.seq) \in [Unicast -> Counter]
    BY <2>1, <2>2 DEF BlockReserved, TypeOK
  <2>. QED BY <1>1, <1>2, <2>3 DEF CallPayload, StorePayload, Store, TypeOK
<1>3. CASE call.op = "rotate"
  <2>1. call.new \in Unicast BY <1>3, CallCases
  <2>2. RotationReserved(call.new) \in [Unicast -> Counter]
    BY <2>1, NumbersAssumption DEF RotationReserved, TypeOK, Seqs, Counter, Absent
  <2>. QED BY <1>1, <1>3, <2>1, <2>2 DEF CallPayload, StorePayload, Store
<1>. QED BY <1>1, <1>2, <1>3, CallCases

LEMMA ForgetTypes ==
  ASSUME Forget
  PROVE  /\ seqLoaded' \in BOOLEAN /\ thwarted' \in BOOLEAN
         /\ seqState' \in [Unicast -> Counter] /\ seqReserved' \in [Unicast -> Counter]
         /\ activeSrc' \in Unicast \cup {NoSrc} /\ sources' \in SUBSET Unicast
<1>1. Empty \in [Unicast -> Counter] BY NumbersAssumption DEF Empty, Counter, Absent
<1>2. seqLoaded' \in BOOLEAN /\ thwarted' \in BOOLEAN BY DEF Forget
<1>. QED BY <1>1, <1>2 DEF Forget

LEMMA AfterRotationTypes ==
  ASSUME TypeOK, call.op = "rotate", AfterRotation
  PROVE  call' \in Calls /\ phase' \in Phases /\ Promise!TypeOK'
<1>1. call' \in Calls BY DEF AfterRotation, Calls
<1>2. CASE call.src = NoSrc
  <2>1. phase' = "saving" /\ UNCHANGED <<last, out>> BY <1>2 DEF AfterRotation
  <2>. QED BY <1>1, <2>1 DEF TypeOK, Promise!TypeOK, Phases
<1>3. CASE call.src # NoSrc
  <2>1. call.src \in Unicast /\ call.seq \in Seqs BY <1>3, CallCases
  <2>2. /\ last' = [last EXCEPT ![call.src] = call.seq]
        /\ out' = Granted(call.src, call.seq)
        /\ UNCHANGED phase
    BY <1>3 DEF AfterRotation
  <2>3. call.seq \in -1..SeqMax BY <2>1, NumbersAssumption DEF Seqs
  <2>4. Promise!TypeOK'
    BY <2>1, <2>2, <2>3 DEF TypeOK, Promise!TypeOK, Granted, Seqs
  <2>. QED BY <1>1, <2>2, <2>4 DEF TypeOK
<1>. QED BY <1>2, <1>3

LEMMA RaisedTypes ==
  ASSUME TypeOK, NEW s \in Unicast, NEW why \in {"exhausted", "failed"},
         out' = Raised(why, s), UNCHANGED last
  PROVE  Promise!TypeOK'
BY DEF TypeOK, Promise!TypeOK, Raised, Promise!Reasons

LEMMA NextTypeOK == TypeOK /\ [Next]_vars => TypeOK'
<1>. SUFFICES ASSUME TypeOK, [Next]_vars PROVE TypeOK' OBVIOUS
<1>1. CASE LoadSeq
  <2>1. Promise!TypeOK' BY <1>1 DEF LoadSeq, TypeOK, Promise!TypeOK
  <2>2. seqLoaded' \in BOOLEAN /\ thwarted' \in BOOLEAN BY <1>1 DEF LoadSeq
  <2>. QED BY <1>1, <2>1, <2>2 DEF LoadSeq, TypeOK, Store, Phases, RotatesInSetup, Idle
<1>2. CASE LoadSeqRaises
  <2>1. Promise!TypeOK' BY <1>2 DEF LoadSeqRaises, TypeOK, Promise!TypeOK
  <2>. QED BY <1>2, <2>1, ForgetTypes DEF LoadSeqRaises, TypeOK, Phases, RotatesInSetup, Idle
<1>3. CASE RemoteLoadRaises
  <2>1. Promise!TypeOK' BY <1>3 DEF RemoteLoadRaises, TypeOK, Promise!TypeOK
  <2>. QED BY <1>3, <2>1 DEF RemoteLoadRaises, mem, TypeOK, Phases, RotatesInSetup
<1>4. CASE Prepare
  <2>1. seqState' \in [Unicast -> Counter] BY <1>4, JumpedBounds DEF Prepare, TypeOK
  <2>2. config.src \in Unicast BY EnvironmentAssumption DEF TypeOK
  <2>3. activeSrc' \in Unicast
    BY <1>4, <2>2 DEF Prepare, TypeOK, Store
  <2>4. activeSrc' # NoSrc BY <2>3 DEF Unicast, NoSrc
  <2>5. Promise!TypeOK' BY <1>4 DEF Prepare, TypeOK, Promise!TypeOK
  <2>. QED BY <1>4, <2>1, <2>3, <2>4, <2>5 DEF Prepare, TypeOK, Phases
<1>5. CASE RotateAtStartup
  <2>1. call' \in Calls BY <1>5, FreeIsUnicast DEF RotateAtStartup, Calls
  <2>2. Promise!TypeOK' BY <1>5 DEF RotateAtStartup, TypeOK, Promise!TypeOK
  <2>. QED BY <1>5, <2>1, <2>2 DEF RotateAtStartup, mem, TypeOK
<1>6. CASE SkipRotation
  <2>1. Promise!TypeOK' BY <1>6 DEF SkipRotation, TypeOK, Promise!TypeOK
  <2>2. ~RotatesInSetup' BY <1>6 DEF SkipRotation, RotatesInSetup, Idle
  <2>. QED BY <1>6, <2>1, <2>2 DEF SkipRotation, mem, TypeOK, Phases
<1>7. CASE StartupSaved
  <2>1. disk' \in Store BY <1>7, PayloadTypes DEF StartupSaved, Written
  <2>2. sources' \in SUBSET Unicast BY <1>7 DEF StartupSaved, TypeOK
  <2>3. Promise!TypeOK' BY <1>7 DEF StartupSaved, TypeOK, Promise!TypeOK
  <2>. QED BY <1>7, <2>1, <2>2, <2>3 DEF StartupSaved, TypeOK, Phases, RotatesInSetup
<1>8. CASE StartupSaveRaises
  <2>1. disk' \in Store
    BY <1>8, PayloadTypes DEF StartupSaveRaises, MaybeWritten, Written, TypeOK
  <2>2. Promise!TypeOK' BY <1>8 DEF StartupSaveRaises, TypeOK, Promise!TypeOK
  <2>. QED BY <1>8, <2>1, <2>2 DEF StartupSaveRaises, mem, TypeOK, Phases, RotatesInSetup
<1>9. ASSUME NEW s \in Unicast, NEW t \in Clock, NextSeqExhausted(s, t) PROVE TypeOK'
  <2>1. Promise!TypeOK' BY <1>9, RaisedTypes DEF NextSeqExhausted
  <2>. QED BY <1>9, <2>1 DEF NextSeqExhausted, mem, TypeOK, RotatesInSetup
<1>10. ASSUME NEW s \in Unicast, NEW t \in Clock, NextSeqCovered(s, t) PROVE TypeOK'
  <2>1. NextValue(s, t) \in Seqs
    BY <1>10, NextValueBounds, NumbersAssumption DEF NextSeqCovered, TypeOK, Seqs
  <2>2. Settle(s, NextValue(s, t)) BY <1>10 DEF NextSeqCovered
  <2>. QED BY <1>10, <2>1, <2>2, SettleTypes DEF NextSeqCovered, TypeOK
<1>11. ASSUME NEW s \in Unicast, NEW t \in Clock, NextSeqReserves(s, t) PROVE TypeOK'
  <2>1. NextValue(s, t) \in Seqs
    BY <1>11, NextValueBounds, NumbersAssumption DEF NextSeqReserves, TypeOK, Seqs
  <2>2. call' \in Calls BY <1>11, <2>1 DEF NextSeqReserves, Calls
  <2>3. Promise!TypeOK' BY <1>11 DEF NextSeqReserves, TypeOK, Promise!TypeOK
  <2>. QED BY <1>11, <2>2, <2>3 DEF NextSeqReserves, mem, TypeOK, RotatesInSetup, Idle
<1>12. CASE BlockSaved
  <2>1. call.src \in Unicast /\ call.seq \in Seqs /\ call # Idle
    BY <1>12, CallCases DEF BlockSaved
  <2>2. disk' \in Store BY <1>12, <2>1, PayloadTypes DEF BlockSaved, Written
  <2>3. seqReserved' \in [Unicast -> Counter]
    BY <1>12, <2>1, CeilingBounds, NumbersAssumption
    DEF BlockSaved, BlockReserved, TypeOK, Seqs, Counter, Absent
  <2>4. Settle(call.src, call.seq) BY <1>12 DEF BlockSaved
  <2>. QED BY <1>12, <2>1, <2>2, <2>3, <2>4, SettleTypes DEF BlockSaved, TypeOK
<1>13. CASE BlockSaveRaises
  <2>1. call.src \in Unicast /\ call # Idle BY <1>13, CallCases DEF BlockSaveRaises
  <2>2. disk' \in Store
    BY <1>13, <2>1, PayloadTypes DEF BlockSaveRaises, MaybeWritten, Written, TypeOK
  <2>3. Promise!TypeOK' BY <1>13, <2>1, RaisedTypes DEF BlockSaveRaises
  <2>4. call' \in Calls BY <1>13 DEF BlockSaveRaises, Calls
  <2>5. ~RotatesInSetup' BY <1>13 DEF BlockSaveRaises, RotatesInSetup, Idle
  <2>. QED BY <1>13, <2>2, <2>3, <2>4, <2>5 DEF BlockSaveRaises, mem, TypeOK
<1>14. CASE RotationSaved
  <2>1. call.new \in Unicast /\ call # Idle BY <1>14, CallCases DEF RotationSaved
  <2>2. disk' \in Store BY <1>14, <2>1, PayloadTypes DEF RotationSaved, Written
  <2>3. RotatedStart \in Counter /\ RotatedStart + PersistBlock \in Counter
    BY NumbersAssumption DEF Seqs, Counter, Absent
  <2>4. /\ seqState' \in [Unicast -> Counter] /\ seqReserved' \in [Unicast -> Counter]
        /\ activeSrc' \in Unicast /\ retired' \in SUBSET (Unicast \cup {NoSrc})
        /\ thwarted' \in BOOLEAN
    BY <1>14, <2>1, <2>3 DEF RotationSaved, CommitRotation, RotationReserved, TypeOK
  <2>5. activeSrc' # NoSrc BY <2>4 DEF Unicast, NoSrc
  <2>6. sources' \in SUBSET Unicast BY <1>14, <2>1 DEF RotationSaved, TypeOK
  <2>7. call' \in Calls /\ phase' \in Phases /\ Promise!TypeOK'
    BY <1>14, AfterRotationTypes DEF RotationSaved
  <2>8. ~RotatesInSetup' BY <1>14 DEF RotationSaved, AfterRotation, RotatesInSetup, Idle
  <2>. QED BY <1>14, <2>2, <2>4, <2>5, <2>6, <2>7, <2>8 DEF RotationSaved, TypeOK
<1>15. CASE RotationSaveFails
  <2>1. call.new \in Unicast /\ call # Idle BY <1>15, CallCases DEF RotationSaveFails
  <2>2. disk' \in Store
    BY <1>15, <2>1, PayloadTypes DEF RotationSaveFails, MaybeWritten, Written, TypeOK
  <2>3. call' \in Calls /\ phase' \in Phases /\ Promise!TypeOK'
    BY <1>15, AfterRotationTypes DEF RotationSaveFails
  <2>4. phase' \in {"prepared", "saving", "running"} => activeSrc # NoSrc
    BY <1>15 DEF RotationSaveFails, AfterRotation, RotatesInSetup, TypeOK
  <2>5. ~RotatesInSetup' BY <1>15 DEF RotationSaveFails, AfterRotation, RotatesInSetup, Idle
  <2>. QED BY <1>15, <2>2, <2>3, <2>4, <2>5 DEF RotationSaveFails, TypeOK
<1>16. CASE CancelCall
  <2>1. disk' \in Store
    BY <1>16, PayloadTypes DEF CancelCall, MaybeWritten, Written, TypeOK
  <2>2. call' \in Calls BY <1>16 DEF CancelCall, Calls
  <2>3. Promise!TypeOK' BY <1>16 DEF CancelCall, TypeOK, Promise!TypeOK
  <2>4. thwarted' \in BOOLEAN BY <1>16 DEF CancelCall
  <2>5. ~RotatesInSetup' BY <1>16 DEF CancelCall, RotatesInSetup, Idle
  <2>. QED BY <1>16, <2>1, <2>2, <2>3, <2>4, <2>5 DEF CancelCall, TypeOK
<1>17. CASE UseResult
  <2>1. Promise!TypeOK' BY <1>17 DEF UseResult, TypeOK, Promise!TypeOK, Nothing
  <2>. QED BY <1>17, <2>1 DEF UseResult, mem, TypeOK, RotatesInSetup
<1>18. CASE Shutdown
  <2>1. Promise!TypeOK' BY <1>18 DEF Shutdown, TypeOK, Promise!TypeOK
  <2>. QED BY <1>18, <2>1 DEF Shutdown, mem, TypeOK, Phases, RotatesInSetup
<1>19. CASE FinalSave
  <2>1. saving' \in Store /\ phase' \in Phases
    BY <1>19, PayloadTypes DEF FinalSave, TypeOK, Phases
  <2>2. ~(phase' \in {"prepared", "saving", "running"}) BY <1>19 DEF FinalSave
  <2>3. Promise!TypeOK' BY <1>19 DEF FinalSave, TypeOK, Promise!TypeOK
  <2>. QED BY <1>19, <2>1, <2>2, <2>3 DEF FinalSave, mem, TypeOK, RotatesInSetup
<1>20. CASE FinalSaveEnds
  <2>1. disk' \in Store BY <1>20 DEF FinalSaveEnds, MaybeWritten, Written, TypeOK
  <2>2. saving' \in Store BY <1>20, NoStoreType DEF FinalSaveEnds
  <2>3. phase' \in Phases /\ ~(phase' \in {"prepared", "saving", "running"})
    BY <1>20 DEF FinalSaveEnds, Phases
  <2>4. Promise!TypeOK' BY <1>20 DEF FinalSaveEnds, TypeOK, Promise!TypeOK
  <2>5. /\ seqLoaded' \in BOOLEAN /\ thwarted' \in BOOLEAN
        /\ seqState' \in [Unicast -> Counter] /\ seqReserved' \in [Unicast -> Counter]
        /\ activeSrc' \in Unicast \cup {NoSrc} /\ sources' \in SUBSET Unicast
    <3>1. CASE Forget BY <3>1, ForgetTypes
    <3>2. CASE UNCHANGED mem BY <3>2 DEF mem, TypeOK
    <3>. QED BY <1>20, <3>1, <3>2 DEF FinalSaveEnds
  <2>. QED BY <1>20, <2>1, <2>2, <2>3, <2>4, <2>5 DEF FinalSaveEnds, TypeOK, RotatesInSetup
<1>21. CASE Crash
  <2>1. disk' \in Store BY <1>21, PayloadTypes DEF Crash, Written, TypeOK
  <2>2. saving' \in Store BY <1>21, NoStoreType DEF Crash
  <2>3. phase' \in Phases /\ ~(phase' \in {"prepared", "saving", "running"})
    BY <1>21 DEF Crash, Phases
  <2>4. Promise!TypeOK' BY <1>21 DEF Crash, TypeOK, Promise!TypeOK, Nothing
  <2>5. call' \in Calls BY <1>21 DEF Crash, Calls
  <2>6. ~RotatesInSetup' BY <1>21 DEF Crash, RotatesInSetup, Idle
  <2>. QED BY <1>21, <2>1, <2>2, <2>3, <2>4, <2>5, <2>6, ForgetTypes DEF Crash, TypeOK
<1>22. CASE UNCHANGED vars
  <2>1. Promise!TypeOK' BY <1>22 DEF vars, TypeOK, Promise!TypeOK
  <2>. QED BY <1>22, <2>1 DEF vars, mem, TypeOK, RotatesInSetup
<1>. QED
  BY <1>1, <1>2, <1>3, <1>4, <1>5, <1>6, <1>7, <1>8, <1>9, <1>10, <1>11, <1>12, <1>13,
     <1>14, <1>15, <1>16, <1>17, <1>18, <1>19, <1>20, <1>21, <1>22 DEF Next, NextSeq

(* Every reachable state is well typed. *)
THEOREM TypeCorrect == Spec => []TypeOK
BY InitTypeOK, NextTypeOK, PTL DEF Spec

-----------------------------------------------------------------------------
(* The inductive invariant.  What is handed out never passes what memory knows, memory
   never passes what it has reserved, and while a SEQ can still be handed out the
   reservation is on disk. *)

MemoryLoaded ==
  phase \in {"loaded", "prepared", "saving", "running", "final"} \/ call # Idle => seqLoaded

MemoryAhead ==
  seqLoaded => \A s \in Unicast : last[s] <= seqState[s] /\ seqState[s] <= seqReserved[s]

ReservationOnDisk ==
  phase = "running" \/ (call # Idle /\ call.src # NoSrc)
    => \A s \in Unicast : seqReserved[s] <= disk.reserved[s]

(* The holder of the lock, between its request and the outcome. *)
CallInFlight ==
  /\ call # Idle => phase \in {"prepared", "running", "closing"}
  /\ call # Idle /\ call.src # NoSrc => phase \in {"running", "closing"}
  /\ call.op = "block" => call.seq > seqReserved[call.src]
  /\ call.op = "rotate" =>
       /\ call.new \notin config.clear \cup LegacySrcs
       /\ seqState[call.new] = Absent /\ seqReserved[call.new] = Absent
       /\ call.src # NoSrc => seqState[call.src] = call.seq /\ last[call.src] < call.seq

(* Shutdown's write carries what was reserved when it started, and nobody is left to be
   handed a SEQ while it is in flight. *)
FinalSaveCovers ==
  phase = "final" => call = Idle /\ \A s \in Unicast : last[s] <= saving.reserved[s]

IInv ==
  /\ TypeOK /\ CeilingOnDisk
  /\ MemoryLoaded /\ MemoryAhead /\ ReservationOnDisk /\ CallInFlight /\ FinalSaveCovers

LEMMA CounterOrder ==
  ASSUME TypeOK
  PROVE  \A s \in Unicast :
           /\ last[s] \in Int /\ seqState[s] \in Int /\ seqReserved[s] \in Int
           /\ disk.reserved[s] \in Int /\ saving.reserved[s] \in Int
           /\ last[s] >= Absent /\ seqState[s] >= Absent /\ seqReserved[s] >= Absent
BY NumbersAssumption DEF TypeOK, Promise!TypeOK, Store, Counter, Absent

(* What is written covers what was handed out, whichever write it is. *)
LEMMA PayloadCovers ==
  ASSUME IInv
  PROVE  /\ seqLoaded => \A s \in Unicast : last[s] <= CurrentPayload.reserved[s]
         /\ call # Idle =>
              \A s \in Unicast : /\ seqReserved[s] <= CallPayload.reserved[s]
                                 /\ last[s] <= CallPayload.reserved[s]
<1>. USE CounterOrder DEF IInv
<1>1. seqLoaded => \A s \in Unicast : last[s] <= CurrentPayload.reserved[s]
  BY DEF CurrentPayload, StorePayload, MemoryAhead
<1>2. ASSUME call.op = "block", NEW s \in Unicast
      PROVE  seqReserved[s] <= CallPayload.reserved[s] /\ seqLoaded
  <2>1. call.src \in Unicast /\ call.seq \in Seqs /\ call # Idle BY <1>2, CallCases
  <2>2. seqLoaded BY <2>1 DEF MemoryLoaded
  <2>3. CallPayload.reserved = [seqReserved EXCEPT ![call.src] = Ceiling(call.seq)]
    BY <1>2 DEF CallPayload, StorePayload, BlockReserved
  <2>4. call.seq > seqReserved[call.src] BY <1>2 DEF CallInFlight
  <2>5. call.seq <= Ceiling(call.seq) /\ call.seq \in Int /\ Ceiling(call.seq) \in Int
    BY <2>1, CeilingBounds, NumbersAssumption DEF Seqs
  <2>6. CallPayload.reserved[s] = IF s = call.src THEN Ceiling(call.seq) ELSE seqReserved[s]
    BY <2>3 DEF TypeOK
  <2>. QED BY <2>1, <2>2, <2>4, <2>5, <2>6
<1>3. ASSUME call.op = "rotate", NEW s \in Unicast
      PROVE  seqReserved[s] <= CallPayload.reserved[s] /\ seqLoaded
  <2>1. call.new \in Unicast /\ call # Idle BY <1>3, CallCases
  <2>2. seqLoaded BY <2>1 DEF MemoryLoaded
  <2>3. CallPayload.reserved = [seqReserved EXCEPT ![call.new] = RotatedStart + PersistBlock]
    BY <1>3 DEF CallPayload, StorePayload, RotationReserved
  <2>4. seqReserved[call.new] = Absent BY <1>3 DEF CallInFlight
  <2>5. CallPayload.reserved[s] =
          IF s = call.new THEN RotatedStart + PersistBlock ELSE seqReserved[s]
    BY <2>3 DEF TypeOK
  <2>6. RotatedStart + PersistBlock \in Nat BY NumbersAssumption DEF Seqs
  <2>. QED BY <2>1, <2>2, <2>4, <2>5, <2>6 DEF Absent
<1>4. ASSUME call # Idle, NEW s \in Unicast
      PROVE  seqReserved[s] <= CallPayload.reserved[s] /\ last[s] <= CallPayload.reserved[s]
  <2>1. seqReserved[s] <= CallPayload.reserved[s] /\ seqLoaded BY <1>2, <1>3, <1>4, CallCases
  <2>2. last[s] <= seqReserved[s] BY <2>1 DEF MemoryAhead
  <2>3. CallPayload.reserved[s] \in Int
    BY <1>4, PayloadTypes, NumbersAssumption DEF Store, Counter, Absent
  <2>. QED BY <2>1, <2>2, <2>3
<1>. QED BY <1>1, <1>4

(* Handing out n for s, or beginning the rotation it triggers, keeps the invariant when n is
   above what memory has and the reservation on disk covers it. *)
LEMMA SettleKeeps ==
  ASSUME IInv, TypeOK', NEW s \in Unicast, NEW n \in Seqs, Settle(s, n),
         n > seqState[s], n <= seqReserved'[s], seqLoaded, UNCHANGED <<seqLoaded, phase, config>>,
         phase \in {"running", "closing"},
         \A r \in Unicast : r # s => seqReserved'[r] = seqReserved[r],
         seqReserved[s] <= seqReserved'[s],
         \A r \in Unicast : seqReserved'[r] <= disk'.reserved[r]
  PROVE  IInv'
<1>. USE CounterOrder DEF IInv
<1>0. \A r \in Unicast : /\ last'[r] \in Int /\ seqState'[r] \in Int
                         /\ seqReserved'[r] \in Int /\ disk'.reserved[r] \in Int
  BY NumbersAssumption DEF TypeOK, Promise!TypeOK, Store, Counter, Absent
<1>1. n \in Int BY NumbersAssumption DEF Seqs
<1>2. \A r \in Unicast : seqState'[r] = IF r = s THEN n ELSE seqState[r]
  BY DEF Settle, TypeOK
<1>3. \A r \in Unicast : last[r] <= seqState[r] /\ seqState[r] <= seqReserved[r]
  BY DEF MemoryAhead
<1>4. \A r \in Unicast : last'[r] = last[r] \/ (r = s /\ last'[r] = n)
  BY DEF Settle, TypeOK, Promise!TypeOK
<1>5. MemoryAhead' BY <1>0, <1>1, <1>2, <1>3, <1>4 DEF MemoryAhead
<1>6. CeilingOnDisk'
  <2>1. \A r \in Unicast : last'[r] <= seqReserved'[r] BY <1>0, <1>5 DEF MemoryAhead
  <2>. QED BY <1>0, <2>1 DEF CeilingOnDisk
<1>7. CallInFlight'
  <2>1. CASE s = activeSrc /\ PastThreshold(n) /\ FreeAddresses # {}
    <3>1. PICK new \in FreeAddresses :
            call' = [op |-> "rotate", src |-> s, seq |-> n, new |-> new]
      BY <2>1 DEF Settle
    <3>2. /\ new \in Unicast /\ new # s /\ new \notin config.clear \cup LegacySrcs
          /\ seqState[new] = Absent /\ seqReserved[new] = Absent
      BY <2>1, <3>1 DEF FreeAddresses, ReservedAddresses, BurntAddresses
    <3>3. seqState'[new] = Absent /\ seqReserved'[new] = Absent BY <3>2, <1>2
    <3>4. UNCHANGED last BY <2>1 DEF Settle
    <3>5. seqState'[s] = n /\ last'[s] < n BY <1>1, <1>2, <1>3, <3>4
    <3>. QED BY <3>1, <3>2, <3>3, <3>5 DEF CallInFlight
  <2>2. CASE ~(s = activeSrc /\ PastThreshold(n) /\ FreeAddresses # {})
    <3>1. call' = Idle BY <2>2 DEF Settle
    <3>. QED BY <3>1 DEF CallInFlight, Idle
  <2>. QED BY <2>1, <2>2
<1>8. MemoryLoaded' /\ ReservationOnDisk' /\ FinalSaveCovers'
  BY DEF MemoryLoaded, ReservationOnDisk, FinalSaveCovers
<1>. QED BY <1>5, <1>6, <1>7, <1>8

LEMMA InitIInv == Init => IInv
<1>. SUFFICES ASSUME Init PROVE IInv OBVIOUS
<1>1. TypeOK BY InitTypeOK
<1>2. \A s \in Unicast : last[s] \in Int
  BY <1>1, NumbersAssumption DEF TypeOK, Promise!TypeOK
<1>3. CeilingOnDisk BY <1>2 DEF Init, CeilingOnDisk
<1>4. MemoryLoaded /\ MemoryAhead /\ ReservationOnDisk /\ FinalSaveCovers
  BY DEF Init, MemoryLoaded, MemoryAhead, ReservationOnDisk, FinalSaveCovers
<1>5. CallInFlight BY DEF Init, CallInFlight, Idle
<1>. QED BY <1>1, <1>3, <1>4, <1>5 DEF IInv

(* Steps that hand out nothing and leave memory alone: the file keeps covering what was
   handed out, whether or not the write in flight reached it. *)
LEMMA QuietStep ==
  ASSUME IInv, TypeOK',
         UNCHANGED <<config, last, seqLoaded, seqState, seqReserved>>,
         call' = call \/ call' = Idle,
         CeilingOnDisk', MemoryLoaded', ReservationOnDisk', FinalSaveCovers',
         call' # Idle => phase' \in {"prepared", "running", "closing"}
                         /\ (call'.src # NoSrc => phase' \in {"running", "closing"})
  PROVE  IInv'
<1>1. MemoryAhead' BY DEF IInv, MemoryAhead
<1>2. CallInFlight'
  <2>1. CASE call' = Idle BY <2>1 DEF CallInFlight, Idle
  <2>2. CASE call' = call BY <2>2 DEF IInv, CallInFlight
  <2>. QED BY <2>1, <2>2
<1>. QED BY <1>1, <1>2 DEF IInv

(* A write of the lock's holder that did not return leaves the file covering both what was
   handed out and what memory has reserved. *)
LEMMA MaybeWrittenCovers ==
  ASSUME IInv, call # Idle, MaybeWritten(CallPayload), UNCHANGED <<last, seqReserved>>
  PROVE  /\ CeilingOnDisk'
         /\ call.src # NoSrc => \A s \in Unicast : seqReserved'[s] <= disk'.reserved[s]
<1>1. CASE disk' = CallPayload
  BY <1>1, PayloadCovers DEF CeilingOnDisk
<1>2. CASE UNCHANGED disk
  BY <1>2 DEF IInv, CeilingOnDisk, ReservationOnDisk
<1>. QED BY <1>1, <1>2 DEF MaybeWritten, Written

(* The end of a rotation inside a call returns the SEQ that triggered it. *)
LEMMA AfterRotationCases ==
  ASSUME AfterRotation
  PROVE  /\ call' = Idle
         /\ call.src = NoSrc => phase' = "saving" /\ UNCHANGED <<last, out>>
         /\ call.src # NoSrc => /\ last' = [last EXCEPT ![call.src] = call.seq]
                               /\ out' = Granted(call.src, call.seq)
                               /\ UNCHANGED phase
BY DEF AfterRotation

LEMMA StepIInv == ~LateCallers /\ IInv /\ [Next]_vars => IInv'
<1>. SUFFICES ASSUME ~LateCallers, IInv, [Next]_vars PROVE IInv' OBVIOUS
<1>0. TypeOK /\ TypeOK' BY NextTypeOK DEF IInv
<1>. USE <1>0, CounterOrder
<1>1. CASE LoadSeq
  <2>1. call' = Idle /\ last' = last /\ disk' = disk /\ phase' = "loaded" /\ seqLoaded'
    BY <1>1 DEF LoadSeq
  <2>2. MemoryAhead' BY <1>1, <2>1 DEF LoadSeq, MemoryAhead, IInv, CeilingOnDisk
  <2>3. CeilingOnDisk' BY <2>1 DEF IInv, CeilingOnDisk
  <2>4. MemoryLoaded' /\ ReservationOnDisk' /\ FinalSaveCovers' /\ CallInFlight'
    BY <2>1 DEF MemoryLoaded, ReservationOnDisk, FinalSaveCovers, CallInFlight, Idle
  <2>. QED BY <2>2, <2>3, <2>4 DEF IInv
<1>2. CASE LoadSeqRaises
  <2>1. call' = Idle /\ last' = last /\ disk' = disk /\ phase' = "closing" /\ ~seqLoaded'
    BY <1>2 DEF LoadSeqRaises, Forget
  <2>2. CeilingOnDisk' BY <2>1 DEF IInv, CeilingOnDisk
  <2>3. MemoryAhead' /\ MemoryLoaded' /\ ReservationOnDisk' /\ FinalSaveCovers'
    BY <2>1 DEF MemoryAhead, MemoryLoaded, ReservationOnDisk, FinalSaveCovers
  <2>4. CallInFlight' BY <2>1 DEF CallInFlight, Idle
  <2>. QED BY <2>2, <2>3, <2>4 DEF IInv
<1>3. CASE RemoteLoadRaises
  <2>1. call = Idle
    BY <1>3 DEF IInv, CallInFlight, RemoteLoadRaises
  <2>2. call' = Idle /\ last' = last /\ disk' = disk /\ phase' = "closing"
        /\ UNCHANGED <<config, seqLoaded, seqState, seqReserved>>
    BY <1>3, <2>1 DEF RemoteLoadRaises, mem
  <2>3. CeilingOnDisk' BY <2>2 DEF IInv, CeilingOnDisk
  <2>4. MemoryLoaded' /\ ReservationOnDisk' /\ FinalSaveCovers'
    BY <2>2 DEF MemoryLoaded, ReservationOnDisk, FinalSaveCovers
  <2>. QED BY <2>2, <2>3, <2>4, QuietStep
<1>4. CASE Prepare
  <2>1. call = Idle BY <1>4 DEF IInv, CallInFlight, Prepare
  <2>2. call' = Idle /\ last' = last /\ disk' = disk /\ phase' = "prepared"
        /\ UNCHANGED seqLoaded
    BY <1>4, <2>1 DEF Prepare
  <2>3. seqLoaded BY <1>4 DEF Prepare, IInv, MemoryLoaded
  <2>4. \A s \in Unicast : /\ seqState'[s] = Jumped(seqState[s]) /\ seqReserved'[s] = seqState'[s]
                           /\ seqState[s] \in Counter /\ last[s] <= seqState[s]
    BY <1>4, <2>3 DEF Prepare, TypeOK, IInv, MemoryAhead
  <2>5. \A s \in Unicast : seqState[s] <= seqState'[s] /\ seqState'[s] \in Int
    BY <2>4, JumpedBounds, NumbersAssumption DEF Counter, Absent
  <2>6. MemoryAhead' BY <2>2, <2>4, <2>5 DEF MemoryAhead
  <2>7. CeilingOnDisk' BY <2>2 DEF IInv, CeilingOnDisk
  <2>8. MemoryLoaded' /\ ReservationOnDisk' /\ FinalSaveCovers' /\ CallInFlight'
    BY <2>2, <2>3 DEF MemoryLoaded, ReservationOnDisk, FinalSaveCovers, CallInFlight, Idle
  <2>. QED BY <2>6, <2>7, <2>8 DEF IInv
<1>5. CASE RotateAtStartup
  <2>1. PICK new \in FreeAddresses :
          call' = [op |-> "rotate", src |-> NoSrc, seq |-> Absent, new |-> new]
    BY <1>5 DEF RotateAtStartup
  <2>2. /\ new \in Unicast /\ new \notin config.clear \cup LegacySrcs
        /\ seqState[new] = Absent /\ seqReserved[new] = Absent
    BY <2>1 DEF FreeAddresses, ReservedAddresses, BurntAddresses
  <2>3. phase = "prepared"
        /\ UNCHANGED <<disk, config, phase, seqLoaded, seqState, seqReserved, saving, last>>
    BY <1>5 DEF RotateAtStartup, mem
  <2>4. CallInFlight' BY <2>1, <2>2, <2>3 DEF CallInFlight
  <2>5. seqLoaded BY <2>3 DEF IInv, MemoryLoaded
  <2>6. MemoryLoaded' /\ FinalSaveCovers' BY <2>3, <2>5 DEF MemoryLoaded, FinalSaveCovers
  <2>7. ReservationOnDisk' BY <2>1, <2>3 DEF ReservationOnDisk
  <2>8. CeilingOnDisk' /\ MemoryAhead' BY <2>3 DEF IInv, CeilingOnDisk, MemoryAhead
  <2>. QED BY <2>4, <2>6, <2>7, <2>8 DEF IInv
<1>6. CASE SkipRotation
  <2>1. call' = Idle /\ call = Idle /\ phase' = "saving" /\ phase = "prepared"
        /\ UNCHANGED <<disk, config, seqLoaded, seqState, seqReserved, last>>
    BY <1>6 DEF SkipRotation, mem
  <2>2. CeilingOnDisk' BY <2>1 DEF IInv, CeilingOnDisk
  <2>3. MemoryLoaded' /\ ReservationOnDisk' /\ FinalSaveCovers'
    BY <2>1 DEF IInv, MemoryLoaded, ReservationOnDisk, FinalSaveCovers
  <2>. QED BY <2>1, <2>2, <2>3, QuietStep
<1>7. CASE StartupSaved
  <2>1. call = Idle BY <1>7 DEF IInv, CallInFlight, StartupSaved
  <2>2. call' = Idle /\ phase' = "running" /\ disk' = CurrentPayload
        /\ UNCHANGED <<config, seqLoaded, seqState, seqReserved, last>>
    BY <1>7, <2>1 DEF StartupSaved, Written
  <2>3. seqLoaded BY <1>7 DEF StartupSaved, IInv, MemoryLoaded
  <2>4. CeilingOnDisk' BY <2>2, <2>3, PayloadCovers DEF CeilingOnDisk
  <2>5. ReservationOnDisk' BY <2>2 DEF ReservationOnDisk, CurrentPayload, StorePayload
  <2>6. MemoryLoaded' /\ FinalSaveCovers' BY <2>2, <2>3 DEF MemoryLoaded, FinalSaveCovers
  <2>. QED BY <2>2, <2>4, <2>5, <2>6, QuietStep
<1>8. CASE StartupSaveRaises
  <2>1. call = Idle BY <1>8 DEF IInv, CallInFlight, StartupSaveRaises
  <2>2. call' = Idle /\ phase' = "closing" /\ (disk' = CurrentPayload \/ disk' = disk)
        /\ UNCHANGED <<config, seqLoaded, seqState, seqReserved, last>>
    BY <1>8, <2>1 DEF StartupSaveRaises, MaybeWritten, Written, mem
  <2>3. seqLoaded BY <1>8 DEF StartupSaveRaises, IInv, MemoryLoaded
  <2>4. CeilingOnDisk' BY <2>2, <2>3, PayloadCovers DEF CeilingOnDisk, IInv
  <2>5. MemoryLoaded' /\ ReservationOnDisk' /\ FinalSaveCovers'
    BY <2>2 DEF MemoryLoaded, ReservationOnDisk, FinalSaveCovers
  <2>. QED BY <2>2, <2>4, <2>5, QuietStep
<1>9. ASSUME NEW s \in Unicast, NEW t \in Clock, NextSeqExhausted(s, t) PROVE IInv'
  <2>1. call' = call /\ call = Idle
        /\ UNCHANGED <<disk, config, phase, seqLoaded, seqState, seqReserved, saving, last>>
    BY <1>9 DEF NextSeqExhausted, MayCall, mem
  <2>2. CeilingOnDisk' /\ MemoryLoaded' /\ ReservationOnDisk' /\ FinalSaveCovers'
    BY <2>1 DEF IInv, CeilingOnDisk, MemoryLoaded, ReservationOnDisk, FinalSaveCovers
  <2>. QED BY <2>1, <2>2, QuietStep
<1>10. ASSUME NEW s \in Unicast, NEW t \in Clock, NextSeqCovered(s, t) PROVE IInv'
  <2> DEFINE n == NextValue(s, t)
  <2>1. /\ phase = "running" /\ n <= SeqMax /\ n <= seqReserved[s] /\ Settle(s, n)
        /\ UNCHANGED <<disk, config, phase, seqLoaded, seqReserved>>
    BY <1>10 DEF NextSeqCovered, MayCall
  <2>2. n \in Nat /\ n > seqState[s] BY NextValueBounds DEF TypeOK
  <2>3. n \in Seqs BY <2>1, <2>2, NumbersAssumption DEF Seqs
  <2>4. seqLoaded BY <2>1 DEF IInv, MemoryLoaded
  <2>5. \A r \in Unicast : seqReserved'[r] = seqReserved[r]
                           /\ seqReserved'[r] <= disk'.reserved[r]
    BY <2>1 DEF IInv, ReservationOnDisk
  <2> HIDE DEF n
  <2>. QED BY <2>1, <2>2, <2>3, <2>4, <2>5, SettleKeeps
<1>11. ASSUME NEW s \in Unicast, NEW t \in Clock, NextSeqReserves(s, t) PROVE IInv'
  <2> DEFINE n == NextValue(s, t)
  <2>1. /\ phase = "running" /\ n > seqReserved[s]
        /\ call' = [op |-> "block", src |-> s, seq |-> n, new |-> NoSrc]
        /\ UNCHANGED <<disk, config, phase, seqLoaded, seqState, seqReserved, saving, last>>
    BY <1>11 DEF NextSeqReserves, MayCall, mem
  <2>2. CallInFlight' BY <2>1 DEF CallInFlight
  <2>3. seqLoaded BY <2>1 DEF IInv, MemoryLoaded
  <2>4. CeilingOnDisk' /\ MemoryAhead' BY <2>1 DEF IInv, CeilingOnDisk, MemoryAhead
  <2>5. MemoryLoaded' /\ ReservationOnDisk' /\ FinalSaveCovers'
    BY <2>1, <2>3 DEF IInv, MemoryLoaded, ReservationOnDisk, FinalSaveCovers
  <2>. QED BY <2>2, <2>4, <2>5 DEF IInv
<1>12. CASE BlockSaved
  <2> DEFINE s == call.src  n == call.seq
  <2>1. s \in Unicast /\ n \in Seqs /\ call # Idle /\ s # NoSrc /\ ~RotatesInSetup
    BY <1>12, CallCases DEF BlockSaved, Unicast, NoSrc, RotatesInSetup
  <2>2. /\ disk' = CallPayload /\ Settle(s, n)
        /\ seqReserved' = [seqReserved EXCEPT ![s] = Ceiling(n)]
        /\ CallPayload.reserved = seqReserved'
        /\ UNCHANGED <<config, phase, seqLoaded>>
    BY <1>12 DEF BlockSaved, Written, BlockReserved, CallPayload, StorePayload
  <2>3. seqLoaded BY <2>1 DEF IInv, MemoryLoaded
  <2>4. n > seqReserved[s] /\ seqState[s] <= seqReserved[s]
    BY <1>12, <2>1, <2>3 DEF BlockSaved, IInv, CallInFlight, MemoryAhead
  <2>5. n <= Ceiling(n) /\ n \in Int /\ Ceiling(n) \in Int
    BY <2>1, CeilingBounds, NumbersAssumption DEF Seqs
  <2>6. seqReserved'[s] = Ceiling(n)
        /\ \A r \in Unicast : r # s => seqReserved'[r] = seqReserved[r]
    BY <2>1, <2>2 DEF TypeOK
  <2>7. n > seqState[s] /\ n <= seqReserved'[s] /\ seqReserved[s] <= seqReserved'[s]
    BY <2>1, <2>4, <2>5, <2>6
  <2>8. \A r \in Unicast : seqReserved'[r] \in Int
    BY NumbersAssumption DEF TypeOK, Counter, Absent
  <2>9. \A r \in Unicast : seqReserved'[r] <= disk'.reserved[r] BY <2>2, <2>8
  <2>10. phase \in {"running", "closing"}
    BY <1>12, <2>1 DEF BlockSaved, IInv, CallInFlight
  <2> HIDE DEF s, n
  <2>. QED BY <2>1, <2>2, <2>3, <2>6, <2>7, <2>9, <2>10, SettleKeeps
<1>13. CASE BlockSaveRaises
  <2>1. call # Idle /\ call.src # NoSrc
    BY <1>13, CallCases DEF BlockSaveRaises, Unicast, NoSrc
  <2>2. call' = Idle /\ MaybeWritten(CallPayload)
        /\ UNCHANGED <<config, phase, seqLoaded, seqState, seqReserved, saving, last>>
    BY <1>13 DEF BlockSaveRaises, mem
  <2>3. CeilingOnDisk' /\ ReservationOnDisk'
    BY <2>1, <2>2, MaybeWrittenCovers DEF ReservationOnDisk
  <2>4. MemoryLoaded' /\ FinalSaveCovers'
    BY <2>1, <2>2 DEF IInv, MemoryLoaded, FinalSaveCovers
  <2>. QED BY <2>2, <2>3, <2>4, QuietStep
<1>14. CASE RotationSaved
  <2> DEFINE s == call.src  n == call.seq  new == call.new
  <2>1. call # Idle /\ new \in Unicast /\ (s # NoSrc => s \in Unicast /\ n \in Seqs)
    BY <1>14, CallCases DEF RotationSaved
  <2>2. /\ disk' = CallPayload /\ AfterRotation /\ UNCHANGED <<config, seqLoaded, saving>>
        /\ seqReserved' = RotationReserved(new)
        /\ CallPayload.reserved = seqReserved'
        /\ seqState' = [seqState EXCEPT ![new] = RotatedStart]
    BY <1>14 DEF RotationSaved, CommitRotation, Written, CallPayload, StorePayload
  <2>3. call' = Idle BY <2>2, AfterRotationCases
  <2>4. seqLoaded BY <2>1 DEF IInv, MemoryLoaded
  <2>5. seqState[new] = Absent /\ seqReserved[new] = Absent
    BY <1>14 DEF RotationSaved, IInv, CallInFlight
  <2>6. RotatedStart \in Nat /\ RotatedStart + PersistBlock \in Nat /\ PersistBlock \in Nat
    BY NumbersAssumption DEF Seqs
  <2>7. \A r \in Unicast :
          /\ seqState'[r] = IF r = new THEN RotatedStart ELSE seqState[r]
          /\ seqReserved'[r] = IF r = new THEN RotatedStart + PersistBlock ELSE seqReserved[r]
    BY <2>1, <2>2 DEF RotationReserved, TypeOK
  <2>8. \A r \in Unicast : last[r] <= seqState[r] /\ seqState[r] <= seqReserved[r]
    BY <2>4 DEF IInv, MemoryAhead
  <2>9. \A r \in Unicast : last'[r] \in Int /\ last'[r] <= seqState'[r]
                           /\ seqState'[r] <= seqReserved'[r]
    <3>1. CASE s = NoSrc
      <4>1. last' = last BY <3>1, <2>2, AfterRotationCases
      <4>. QED BY <4>1, <2>5, <2>6, <2>7, <2>8 DEF Absent
    <3>2. CASE s # NoSrc
      <4>1. last' = [last EXCEPT ![s] = n] BY <3>2, <2>2, AfterRotationCases
      <4>2. seqState[s] = n /\ last[s] < n
        BY <3>2, <1>14 DEF RotationSaved, IInv, CallInFlight
      <4>3. n \in Int /\ n # Absent /\ s # new
        BY <2>1, <2>5, <3>2, <4>2, NumbersAssumption DEF Seqs, Absent
      <4>4. \A r \in Unicast : last'[r] = IF r = s THEN n ELSE last[r]
        BY <2>1, <3>2, <4>1 DEF TypeOK, Promise!TypeOK
      <4>. QED BY <4>2, <4>3, <4>4, <2>5, <2>6, <2>7, <2>8 DEF Absent
    <3>. QED BY <3>1, <3>2
  <2>10. \A r \in Unicast : disk'.reserved[r] = seqReserved'[r]
                            /\ seqReserved'[r] \in Int /\ seqState'[r] \in Int
    BY <2>2, NumbersAssumption DEF TypeOK, Counter, Absent
  <2>11. MemoryAhead' /\ CeilingOnDisk' BY <2>9, <2>10 DEF MemoryAhead, CeilingOnDisk
  <2>12. ReservationOnDisk' BY <2>10 DEF ReservationOnDisk
  <2>13. phase' # "final"
    BY <1>14, <2>1, <2>2 DEF AfterRotation, IInv, FinalSaveCovers
  <2>14. MemoryLoaded' /\ FinalSaveCovers' /\ CallInFlight'
    BY <2>2, <2>3, <2>4, <2>13 DEF MemoryLoaded, FinalSaveCovers, CallInFlight, Idle
  <2>. QED BY <2>11, <2>12, <2>14 DEF IInv
<1>15. CASE RotationSaveFails
  <2> DEFINE s == call.src  n == call.seq
  <2>1. call # Idle /\ (s # NoSrc => s \in Unicast /\ n \in Seqs)
    BY <1>15, CallCases DEF RotationSaveFails
  <2>2. /\ MaybeWritten(CallPayload) /\ AfterRotation
        /\ UNCHANGED <<config, seqLoaded, seqState, seqReserved, saving>>
    BY <1>15 DEF RotationSaveFails
  <2>3. call' = Idle BY <2>2, AfterRotationCases
  <2>4. seqLoaded BY <2>1 DEF IInv, MemoryLoaded
  <2>5. \A r \in Unicast : last[r] <= seqState[r] /\ seqState[r] <= seqReserved[r]
    BY <2>4 DEF IInv, MemoryAhead
  <2>6. phase' # "final"
    BY <1>15, <2>1, <2>2 DEF AfterRotation, IInv, FinalSaveCovers
  <2>7. MemoryLoaded' /\ FinalSaveCovers' /\ CallInFlight'
    BY <2>2, <2>3, <2>4, <2>6 DEF MemoryLoaded, FinalSaveCovers, CallInFlight, Idle
  <2>8. CASE s = NoSrc
    <3>1. last' = last /\ phase' = "saving" BY <2>8, <2>2, AfterRotationCases
    <3>2. CeilingOnDisk' BY <2>1, <2>2, <3>1, MaybeWrittenCovers
    <3>3. MemoryAhead' /\ ReservationOnDisk'
      BY <2>2, <2>3, <2>5, <3>1 DEF MemoryAhead, ReservationOnDisk
    <3>. QED BY <2>7, <3>2, <3>3 DEF IInv
  <2>9. CASE s # NoSrc
    <3>1. last' = [last EXCEPT ![s] = n] BY <2>9, <2>2, AfterRotationCases
    <3>2. seqState[s] = n /\ n \in Int
      BY <2>1, <2>9, <1>15, NumbersAssumption DEF RotationSaveFails, IInv, CallInFlight, Seqs
    <3>3. \A r \in Unicast : last'[r] = IF r = s THEN n ELSE last[r]
      BY <2>1, <2>9, <3>1 DEF TypeOK, Promise!TypeOK
    <3>4. \A r \in Unicast : seqReserved[r] <= disk'.reserved[r] /\ disk'.reserved[r] \in Int
      <4>1. CASE disk' = CallPayload
        BY <4>1, <2>1, PayloadCovers, NumbersAssumption DEF TypeOK, Store, Counter, Absent
      <4>2. CASE disk' = disk BY <4>2, <2>1, <2>9 DEF IInv, ReservationOnDisk
      <4>. QED BY <2>2, <4>1, <4>2 DEF MaybeWritten, Written
    <3>5. \A r \in Unicast : last'[r] <= seqState[r] /\ last'[r] \in Int
      BY <2>5, <3>2, <3>3
    <3>6. MemoryAhead' BY <2>2, <2>5, <3>5 DEF MemoryAhead
    <3>7. CeilingOnDisk' /\ ReservationOnDisk'
      BY <2>2, <2>5, <3>4, <3>5 DEF CeilingOnDisk, ReservationOnDisk
    <3>. QED BY <2>7, <3>6, <3>7 DEF IInv
  <2>. QED BY <2>8, <2>9
<1>16. CASE CancelCall
  <2>1. call # Idle /\ call.src # NoSrc /\ call' = Idle /\ MaybeWritten(CallPayload)
        /\ UNCHANGED <<config, phase, seqLoaded, seqState, seqReserved, saving, last>>
    BY <1>16 DEF CancelCall
  <2>2. CeilingOnDisk' /\ ReservationOnDisk'
    BY <2>1, MaybeWrittenCovers DEF ReservationOnDisk
  <2>3. MemoryLoaded' /\ FinalSaveCovers'
    BY <2>1 DEF IInv, MemoryLoaded, FinalSaveCovers
  <2>. QED BY <2>1, <2>2, <2>3, QuietStep
<1>17. CASE UseResult
  <2>1. call' = call
        /\ UNCHANGED <<disk, config, phase, seqLoaded, seqState, seqReserved, saving, last>>
    BY <1>17 DEF UseResult, mem
  <2>2. CeilingOnDisk' /\ MemoryLoaded' /\ ReservationOnDisk' /\ FinalSaveCovers'
    BY <2>1 DEF IInv, CeilingOnDisk, MemoryLoaded, ReservationOnDisk, FinalSaveCovers
  <2>. QED BY <2>1, <2>2, QuietStep DEF IInv, CallInFlight
<1>18. CASE Shutdown
  <2>1. call' = call /\ phase = "running" /\ phase' = "closing"
        /\ UNCHANGED <<disk, config, seqLoaded, seqState, seqReserved, saving, last>>
    BY <1>18 DEF Shutdown, mem
  <2>2. CeilingOnDisk' /\ MemoryLoaded' /\ ReservationOnDisk' /\ FinalSaveCovers'
    BY <2>1 DEF IInv, CeilingOnDisk, MemoryLoaded, ReservationOnDisk, FinalSaveCovers
  <2>. QED BY <2>1, <2>2, QuietStep
<1>19. CASE FinalSave
  <2>1. call = Idle /\ call' = Idle
        /\ UNCHANGED <<disk, config, seqLoaded, seqState, seqReserved, last>>
        /\ \/ seqLoaded /\ phase' = "final" /\ saving' = CurrentPayload
           \/ phase' = "off"
    BY <1>19 DEF FinalSave, mem
  <2>2. CeilingOnDisk' BY <2>1 DEF IInv, CeilingOnDisk
  <2>3. MemoryLoaded' /\ ReservationOnDisk' BY <2>1 DEF MemoryLoaded, ReservationOnDisk
  <2>4. FinalSaveCovers' BY <2>1, PayloadCovers DEF FinalSaveCovers
  <2>. QED BY <2>1, <2>2, <2>3, <2>4, QuietStep
<1>20. CASE FinalSaveEnds
  <2>1. call = Idle /\ call' = Idle /\ phase' = "off" /\ last' = last /\ Forget
        /\ (disk' = saving \/ disk' = disk)
    BY <1>20 DEF FinalSaveEnds, IInv, FinalSaveCovers, MaybeWritten, Written
  <2>2. ~seqLoaded' BY <2>1 DEF Forget
  <2>3. CeilingOnDisk' BY <1>20, <2>1 DEF FinalSaveEnds, IInv, FinalSaveCovers, CeilingOnDisk
  <2>4. MemoryAhead' /\ MemoryLoaded' /\ ReservationOnDisk' /\ FinalSaveCovers'
    BY <2>1, <2>2 DEF MemoryAhead, MemoryLoaded, ReservationOnDisk, FinalSaveCovers
  <2>5. CallInFlight' BY <2>1 DEF CallInFlight, Idle
  <2>. QED BY <2>3, <2>4, <2>5 DEF IInv
<1>21. CASE Crash
  <2>1. call' = Idle /\ phase' = "off" /\ last' = last /\ ~seqLoaded'
    BY <1>21 DEF Crash, Forget
  <2>2. CeilingOnDisk'
    <3>1. CASE UNCHANGED disk BY <2>1, <3>1 DEF IInv, CeilingOnDisk
    <3>2. CASE call # Idle /\ disk' = CallPayload
      BY <2>1, <3>2, PayloadCovers DEF CeilingOnDisk
    <3>3. CASE phase = "saving" /\ disk' = CurrentPayload
      <4>1. seqLoaded BY <3>3 DEF IInv, MemoryLoaded
      <4>. QED BY <2>1, <3>3, <4>1, PayloadCovers DEF CeilingOnDisk
    <3>4. CASE phase = "final" /\ disk' = saving
      BY <2>1, <3>4 DEF IInv, FinalSaveCovers, CeilingOnDisk
    <3>. QED BY <1>21, <3>1, <3>2, <3>3, <3>4 DEF Crash, Written
  <2>3. MemoryAhead' /\ MemoryLoaded' /\ ReservationOnDisk' /\ FinalSaveCovers'
    BY <2>1 DEF MemoryAhead, MemoryLoaded, ReservationOnDisk, FinalSaveCovers, Idle
  <2>4. CallInFlight' BY <2>1 DEF CallInFlight, Idle
  <2>. QED BY <2>2, <2>3, <2>4 DEF IInv
<1>22. CASE UNCHANGED vars
  <2>1. call' = call
        /\ UNCHANGED <<disk, config, phase, seqLoaded, seqState, seqReserved, saving, last>>
    BY <1>22 DEF vars, mem
  <2>2. CeilingOnDisk' /\ MemoryLoaded' /\ ReservationOnDisk' /\ FinalSaveCovers'
    BY <2>1 DEF IInv, CeilingOnDisk, MemoryLoaded, ReservationOnDisk, FinalSaveCovers
  <2>. QED BY <2>1, <2>2, QuietStep DEF IInv, CallInFlight
<1>. QED
  BY <1>1, <1>2, <1>3, <1>4, <1>5, <1>6, <1>7, <1>8, <1>9, <1>10, <1>11, <1>12, <1>13,
     <1>14, <1>15, <1>16, <1>17, <1>18, <1>19, <1>20, <1>21, <1>22 DEF Next, NextSeq

(* Without late callers the inductive invariant holds for ever. *)
THEOREM Inductive ==
  ASSUME ~LateCallers
  PROVE  Spec => []IInv
<1>1. IInv /\ [Next]_vars => IInv' BY StepIInv
<1>. QED BY <1>1, InitIInv, PTL DEF Spec

(* A SEQ is only ever out when a ceiling at or above it is on disk. *)
THEOREM CeilingAlwaysOnDisk ==
  ASSUME ~LateCallers
  PROVE  Spec => []CeilingOnDisk
<1>1. IInv => CeilingOnDisk BY DEF IInv
<1>. QED BY <1>1, Inductive, PTL

-----------------------------------------------------------------------------
(* The promise: every step is a step of SeqSource, or changes nothing it can see. *)

LEMMA SettlePromise ==
  ASSUME IInv, TypeOK', NEW s \in Unicast, NEW n \in Seqs, Settle(s, n), n > seqState[s],
         seqLoaded, out = Nothing
  PROVE  Promise!Next \/ UNCHANGED <<last, out>>
<1>1. last[s] <= seqState[s] /\ last[s] \in Int /\ seqState[s] \in Int /\ n \in Int
  BY CounterOrder, NumbersAssumption DEF IInv, MemoryAhead, Seqs
<1>2. n > last[s] BY <1>1
<1>3. CASE s = activeSrc /\ PastThreshold(n) /\ FreeAddresses # {}
  BY <1>3 DEF Settle
<1>4. CASE ~(s = activeSrc /\ PastThreshold(n) /\ FreeAddresses # {})
  <2>1. last' = [last EXCEPT ![s] = n] /\ out' = Granted(s, n) BY <1>4 DEF Settle
  <2>2. Promise!Grant(s) BY <1>2, <2>1 DEF Promise!Grant, Granted, Nothing, Seqs
  <2>. QED BY <2>2 DEF Promise!Next
<1>. QED BY <1>3, <1>4

LEMMA AfterRotationPromise ==
  ASSUME IInv, call.op = "rotate", AfterRotation, out = Nothing
  PROVE  Promise!Next \/ UNCHANGED <<last, out>>
<1>1. CASE call.src = NoSrc BY <1>1, AfterRotationCases
<1>2. CASE call.src # NoSrc
  <2>1. call.src \in Unicast /\ call.seq \in Seqs BY <1>2, CallCases DEF IInv
  <2>2. call.seq > last[call.src]
    <3>1. last[call.src] < call.seq BY <1>2 DEF IInv, CallInFlight
    <3>. QED BY <3>1, <2>1, CounterOrder, NumbersAssumption DEF IInv, Seqs
  <2>3. last' = [last EXCEPT ![call.src] = call.seq] /\ out' = Granted(call.src, call.seq)
    BY <1>2, AfterRotationCases
  <2>4. Promise!Grant(call.src)
    BY <2>1, <2>2, <2>3 DEF Promise!Grant, Granted, Nothing, Seqs
  <2>. QED BY <2>1, <2>4 DEF Promise!Next
<1>. QED BY <1>1, <1>2

(* No result is waiting to be used while a call, or set-up, is under way. *)
NoResultYet ==
  phase \in {"loaded", "prepared", "saving"} \/ call # Idle => out = Nothing

LEMMA StepNoResultYet == IInv /\ NoResultYet /\ [Next]_vars => NoResultYet'
<1>. SUFFICES ASSUME IInv, NoResultYet, [Next]_vars PROVE NoResultYet' OBVIOUS
<1>1. CASE LoadSeq \/ LoadSeqRaises
  BY <1>1 DEF LoadSeq, LoadSeqRaises, NoResultYet
<1>2. CASE RemoteLoadRaises \/ Prepare \/ RotateAtStartup \/ SkipRotation
  BY <1>2 DEF RemoteLoadRaises, Prepare, RotateAtStartup, SkipRotation, NoResultYet
<1>3. CASE StartupSaved \/ StartupSaveRaises
  BY <1>3 DEF StartupSaved, StartupSaveRaises, NoResultYet
<1>4. ASSUME NEW s \in Unicast, NEW t \in Clock, NextSeq(s, t) PROVE NoResultYet'
  <2>1. out = Nothing /\ call = Idle /\ phase' = phase
    BY <1>4 DEF NextSeq, NextSeqExhausted, NextSeqCovered, NextSeqReserves, MayCall
  <2>2. phase \notin {"loaded", "prepared", "saving"}
    BY <1>4 DEF NextSeq, NextSeqExhausted, NextSeqCovered, NextSeqReserves, MayCall
  <2>3. call' = Idle \/ out' = out
    BY <1>4, <2>1
    DEF NextSeq, NextSeqExhausted, NextSeqCovered, NextSeqReserves, Settle
  <2>. QED BY <2>1, <2>2, <2>3 DEF NoResultYet
<1>5. CASE BlockSaved \/ BlockSaveRaises
  <2>1. call # Idle /\ call.src # NoSrc /\ phase' = phase
    BY <1>5, CallCases DEF BlockSaved, BlockSaveRaises, IInv, Unicast, NoSrc
  <2>2. phase \notin {"loaded", "prepared", "saving"} /\ out = Nothing
    BY <2>1 DEF IInv, CallInFlight, NoResultYet
  <2>3. call' = Idle \/ out' = out BY <1>5 DEF BlockSaved, BlockSaveRaises, Settle
  <2>. QED BY <2>1, <2>2, <2>3 DEF NoResultYet
<1>6. CASE RotationSaved \/ RotationSaveFails
  <2>1. AfterRotation /\ call.op = "rotate" /\ call # Idle
    BY <1>6, CallCases DEF RotationSaved, RotationSaveFails, IInv
  <2>2. out = Nothing BY <2>1 DEF NoResultYet
  <2>3. CASE call.src = NoSrc BY <2>1, <2>2, <2>3, AfterRotationCases DEF NoResultYet
  <2>4. CASE call.src # NoSrc
    <3>1. phase \notin {"loaded", "prepared", "saving"}
      BY <2>1, <2>4 DEF IInv, CallInFlight
    <3>. QED BY <2>1, <2>4, <3>1, AfterRotationCases DEF NoResultYet
  <2>. QED BY <2>3, <2>4
<1>7. CASE CancelCall \/ UseResult \/ Shutdown
  BY <1>7 DEF CancelCall, UseResult, Shutdown, NoResultYet
<1>8. CASE FinalSave \/ FinalSaveEnds \/ Crash
  BY <1>8 DEF FinalSave, FinalSaveEnds, Crash, NoResultYet
<1>9. CASE UNCHANGED vars BY <1>9 DEF vars, NoResultYet
<1>. QED BY <1>1, <1>2, <1>3, <1>4, <1>5, <1>6, <1>7, <1>8, <1>9 DEF Next

LEMMA StepPromise ==
  ~LateCallers /\ IInv /\ NoResultYet /\ [Next]_vars => [Promise!Next]_<<last, out>>
<1>. SUFFICES ASSUME ~LateCallers, IInv, NoResultYet, [Next]_vars
              PROVE  Promise!Next \/ UNCHANGED <<last, out>>
  OBVIOUS
<1>0. TypeOK /\ TypeOK' BY NextTypeOK DEF IInv
<1>1. CASE LoadSeq \/ LoadSeqRaises \/ RemoteLoadRaises \/ Prepare \/ RotateAtStartup
           \/ SkipRotation \/ StartupSaved \/ StartupSaveRaises
  BY <1>1 DEF LoadSeq, LoadSeqRaises, RemoteLoadRaises, Prepare, RotateAtStartup,
              SkipRotation, StartupSaved, StartupSaveRaises
<1>2. ASSUME NEW s \in Unicast, NEW t \in Clock, NextSeqExhausted(s, t)
      PROVE  Promise!Next
  <2>1. Promise!Refuse(s)
    BY <1>2 DEF NextSeqExhausted, MayCall, Promise!Refuse, Raised, Nothing, Promise!Reasons
  <2>. QED BY <2>1 DEF Promise!Next
<1>3. ASSUME NEW s \in Unicast, NEW t \in Clock, NextSeqCovered(s, t)
      PROVE  Promise!Next \/ UNCHANGED <<last, out>>
  <2>1. /\ Settle(s, NextValue(s, t)) /\ out = Nothing /\ phase = "running"
        /\ NextValue(s, t) <= SeqMax
    BY <1>3 DEF NextSeqCovered, MayCall
  <2>2. NextValue(s, t) \in Seqs /\ NextValue(s, t) > seqState[s]
    BY <1>0, <2>1, NextValueBounds, NumbersAssumption DEF TypeOK, Seqs
  <2>3. seqLoaded BY <2>1 DEF IInv, MemoryLoaded
  <2>. QED BY <1>0, <2>1, <2>2, <2>3, SettlePromise
<1>4. ASSUME NEW s \in Unicast, NEW t \in Clock, NextSeqReserves(s, t)
      PROVE  UNCHANGED <<last, out>>
  BY <1>4 DEF NextSeqReserves
<1>5. CASE BlockSaved
  <2>1. call.src \in Unicast /\ call.seq \in Seqs /\ call # Idle
    BY <1>5, CallCases DEF BlockSaved, IInv
  <2>2. seqLoaded /\ out = Nothing BY <2>1 DEF IInv, MemoryLoaded, NoResultYet
  <2>3. call.seq > seqState[call.src]
    <3>1. call.seq > seqReserved[call.src] BY <1>5 DEF BlockSaved, IInv, CallInFlight
    <3>2. seqState[call.src] <= seqReserved[call.src] BY <2>1, <2>2 DEF IInv, MemoryAhead
    <3>. QED BY <1>0, <2>1, <3>1, <3>2, CounterOrder, NumbersAssumption DEF Seqs
  <2>4. Settle(call.src, call.seq) BY <1>5 DEF BlockSaved
  <2>. QED BY <1>0, <2>1, <2>2, <2>3, <2>4, SettlePromise
<1>6. CASE BlockSaveRaises
  <2>1. call.src \in Unicast /\ out = Nothing
    BY <1>6, CallCases DEF BlockSaveRaises, IInv, NoResultYet
  <2>2. Promise!Refuse(call.src)
    BY <1>6, <2>1 DEF BlockSaveRaises, Promise!Refuse, Raised, Nothing, Promise!Reasons
  <2>. QED BY <2>1, <2>2 DEF Promise!Next
<1>7. CASE RotationSaved \/ RotationSaveFails
  <2>1. AfterRotation /\ call.op = "rotate" /\ call # Idle
    BY <1>7, CallCases DEF RotationSaved, RotationSaveFails, IInv
  <2>2. out = Nothing BY <2>1 DEF NoResultYet
  <2>. QED BY <2>1, <2>2, AfterRotationPromise
<1>8. CASE CancelCall \/ Shutdown \/ FinalSave \/ FinalSaveEnds
  BY <1>8 DEF CancelCall, Shutdown, FinalSave, FinalSaveEnds
<1>9. CASE UseResult \/ Crash
  <2>1. out' = Nothing /\ last' = last BY <1>9 DEF UseResult, Crash
  <2>2. CASE out = Nothing BY <2>1, <2>2
  <2>3. CASE out # Nothing
    <3>1. Promise!Take BY <2>1, <2>3 DEF Promise!Take, Nothing
    <3>. QED BY <3>1 DEF Promise!Next
  <2>. QED BY <2>2, <2>3
<1>10. CASE UNCHANGED vars BY <1>10 DEF vars
<1>. QED
  BY <1>1, <1>2, <1>3, <1>4, <1>5, <1>6, <1>7, <1>8, <1>9, <1>10 DEF Next, NextSeq

(* next_seq keeps the promise of SeqSource: per SRC it hands out strictly growing SEQs,
   through crashes, failed and cancelled writes, rotations and restarts. *)
THEOREM Refinement ==
  ASSUME ~LateCallers
  PROVE  Spec => KeepsPromise
<1>1. Init => Promise!Init /\ NoResultYet
  <2>. SUFFICES ASSUME Init PROVE Promise!Init /\ NoResultYet OBVIOUS
  <2>1. TypeOK BY InitTypeOK
  <2>2. last \in [Unicast -> -1..SeqMax] BY <2>1 DEF TypeOK, Promise!TypeOK
  <2>. QED BY <2>2 DEF Init, Promise!Init, Nothing, NoResultYet
<1>2. IInv /\ NoResultYet /\ [Next]_vars => NoResultYet' BY StepNoResultYet
<1>3. IInv /\ NoResultYet /\ [Next]_vars => [Promise!Next]_Promise!svars
  BY StepPromise DEF Promise!svars
<1>4. Spec => []IInv BY Inductive
<1>. QED BY <1>1, <1>2, <1>3, <1>4, PTL DEF Spec, KeepsPromise, Promise!Spec

(* A rotation lands on an address no node, provisioner or earlier release uses, that no lamp
   has ever heard from us. *)
THEOREM RotationAlwaysFresh ==
  ASSUME ~LateCallers
  PROVE  Spec => RotationIsFresh
<1>1. IInv /\ [Next]_vars =>
        [retired' # retired => /\ activeSrc' \notin config.clear \cup LegacySrcs
                               /\ last[activeSrc'] = Absent]_vars
  <2>. SUFFICES ASSUME IInv, [Next]_vars, retired' # retired
                PROVE  /\ activeSrc' \notin config.clear \cup LegacySrcs
                       /\ last[activeSrc'] = Absent
    OBVIOUS
  <2>1. RotationSaved
    BY DEF Next, NextSeq, LoadSeq, LoadSeqRaises, RemoteLoadRaises, Prepare, RotateAtStartup,
           SkipRotation, StartupSaved, StartupSaveRaises, NextSeqExhausted, NextSeqCovered,
           NextSeqReserves, BlockSaved, BlockSaveRaises, RotationSaveFails, CancelCall,
           UseResult, Shutdown, FinalSave, FinalSaveEnds, Crash, vars
  <2>2. call.op = "rotate" /\ activeSrc' = call.new /\ call.new \in Unicast /\ call # Idle
    BY <2>1, CallCases DEF RotationSaved, CommitRotation, IInv
  <2>3. call.new \notin config.clear \cup LegacySrcs /\ seqState[call.new] = Absent
    BY <2>2 DEF IInv, CallInFlight
  <2>4. last[call.new] <= seqState[call.new]
    BY <2>2 DEF IInv, MemoryLoaded, MemoryAhead
  <2>5. last[call.new] = Absent BY <2>2, <2>3, <2>4, CounterOrder DEF IInv, Absent
  <2>. QED BY <2>2, <2>3, <2>5
<1>2. Spec => []IInv BY Inductive
<1>. QED BY <1>1, <1>2, PTL DEF Spec, RotationIsFresh

-----------------------------------------------------------------------------
(* Where SRCs come from.  A rotation in flight moves from the active SRC to one nobody may
   be emitting from; whoever calls knows the active SRC or one that is burnt; and the SRC on
   disk, if it is not the active one, is known to nobody. *)
Lineage ==
  /\ call.op = "rotate" => call.new # activeSrc
  /\ call.op = "rotate" /\ call.src # NoSrc => call.src = activeSrc
  /\ call # Idle /\ call.src # NoSrc => call.src \in sources
  /\ phase = "running" => \A s \in sources : s = activeSrc \/ seqState[s] # Absent
  /\ phase = "running" =>
       \/ disk.active = activeSrc
       \/ disk.active # NoSrc /\ disk.active \notin sources /\ last[disk.active] = Absent

Stuck == thwarted \/ FreeAddresses = {}

(* What calls for a rotation has led to one, or to one that failed, or there is no address. *)
Moved ==
  phase \in {"saving", "running"} =>
    /\ Collides => Stuck
    /\ PastThreshold(seqState[activeSrc]) => Stuck \/ (call.op = "rotate" /\ call.src = activeSrc)

JInv == IInv /\ NoResultYet /\ Lineage /\ Moved

LEMMA FreeShrinks ==
  ASSUME UNCHANGED <<config, activeSrc>>,
         \A s \in Unicast : seqState[s] # Absent => seqState'[s] # Absent,
         \A s \in Unicast : seqReserved[s] # Absent => seqReserved'[s] # Absent
  PROVE  FreeAddresses' \subseteq FreeAddresses
BY DEF FreeAddresses, ReservedAddresses, BurntAddresses

(* A step that leaves the memory and the call alone, and the SRC on disk. *)
LEMMA StillInPlace ==
  ASSUME Lineage, Moved, UNCHANGED <<mem, config, call, last>>, disk'.active = disk.active,
         phase' \in {"saving", "running"} => phase' = phase
  PROVE  Lineage' /\ Moved'
<1>1. UNCHANGED <<seqState, seqReserved, activeSrc, thwarted, sources>> BY DEF mem
<1>2. FreeAddresses' = FreeAddresses
  BY <1>1 DEF FreeAddresses, ReservedAddresses, BurntAddresses
<1>. QED BY <1>1, <1>2 DEF Lineage, Moved, Stuck, Collides, PastThreshold

(* Handing out a SEQ, or beginning the rotation it triggers. *)
LEMMA SettleInPlace ==
  ASSUME JInv, NEW s \in sources, NEW n \in Seqs, Settle(s, n),
         phase = "running", UNCHANGED <<config, phase, activeSrc, thwarted, sources>>,
         call.op # "rotate",
         \A r \in Unicast : seqReserved[r] # Absent => seqReserved'[r] # Absent,
         disk'.active \in {disk.active, activeSrc}
  PROVE  Lineage' /\ Moved'
<1>1. TypeOK /\ s \in Unicast /\ n # Absent BY NumbersAssumption DEF JInv, IInv, TypeOK, Seqs, Absent
<1>2. \A r \in Unicast : seqState'[r] = IF r = s THEN n ELSE seqState[r]
  BY <1>1 DEF Settle, TypeOK
<1>3. FreeAddresses' \subseteq FreeAddresses BY <1>1, <1>2, FreeShrinks
<1>4. activeSrc \in Unicast /\ sources \subseteq Unicast BY <1>1 DEF TypeOK
<1>5. \A r \in sources : r = activeSrc \/ seqState'[r] # Absent
  BY <1>1, <1>2, <1>4 DEF JInv, Lineage
<1>6. ASSUME disk'.active # activeSrc
      PROVE  disk'.active # NoSrc /\ disk'.active \notin sources /\ last'[disk'.active] = Absent
  <2>1. disk'.active # NoSrc /\ disk'.active \notin sources /\ last[disk'.active] = Absent
    BY <1>6 DEF JInv, Lineage
  <2>2. last' = last \/ last' = [last EXCEPT ![s] = n] BY DEF Settle
  <2>3. disk'.active \in DOMAIN last
    BY <1>1, <1>4, <2>1 DEF TypeOK, Promise!TypeOK, Store
  <2>. QED BY <2>1, <2>2, <2>3
<1>7. CASE s = activeSrc /\ PastThreshold(n) /\ FreeAddresses # {}
  <2>1. PICK new \in FreeAddresses :
          call' = [op |-> "rotate", src |-> s, seq |-> n, new |-> new]
    BY <1>7 DEF Settle
  <2>2. new # activeSrc BY <2>1 DEF FreeAddresses, ReservedAddresses
  <2>3. Lineage' BY <1>5, <1>6, <1>7, <2>1, <2>2 DEF Lineage
  <2>. QED BY <1>3, <1>7, <2>1, <2>3 DEF JInv, Moved, Stuck, Collides
<1>8. CASE ~(s = activeSrc /\ PastThreshold(n) /\ FreeAddresses # {})
  <2>1. call' = Idle BY <1>8 DEF Settle
  <2>2. Lineage' BY <1>5, <1>6, <2>1 DEF Lineage, Idle
  <2>3. PastThreshold(seqState'[activeSrc]) => Stuck
    BY <1>2, <1>4, <1>8 DEF JInv, Moved, Stuck
  <2>. QED BY <1>3, <2>2, <2>3 DEF JInv, Moved, Stuck, Collides, PastThreshold
<1>. QED BY <1>7, <1>8

(* A rotation that is saved moves away from whatever called for it. *)
LEMMA SavedInPlace ==
  ASSUME JInv, RotationSaved
  PROVE  Lineage' /\ Moved'
<1>1. TypeOK /\ call.op = "rotate" /\ call.new \in Unicast /\ AfterRotation
  BY CallCases DEF JInv, IInv, RotationSaved
<1>2. call' = Idle /\ activeSrc' = call.new /\ disk'.active = call.new
  BY <1>1 DEF RotationSaved, AfterRotation, CommitRotation, Written, CallPayload, StorePayload
<1>3. \A r \in Unicast : seqState'[r] = IF r = call.new THEN RotatedStart ELSE seqState[r]
  BY <1>1 DEF RotationSaved, CommitRotation, TypeOK
<1>4. ~Collides'
  <2>1. call.new \notin config.clear BY <1>1 DEF JInv, IInv, CallInFlight
  <2>2. config.occupied \subseteq config.clear BY <1>1, EnvironmentAssumption DEF TypeOK
  <2>. QED BY <1>2, <2>1, <2>2 DEF RotationSaved, Collides
<1>5. ~PastThreshold(seqState'[activeSrc'])
  BY <1>1, <1>2, <1>3, NumbersAssumption DEF PastThreshold
<1>6. Moved' BY <1>4, <1>5 DEF Moved, PastThreshold
<1>7. ASSUME phase' = "running"
      PROVE  \A s \in sources' : s = activeSrc' \/ seqState'[s] # Absent
  <2>1. call.src # NoSrc /\ phase = "running"
    BY <1>1, <1>7, AfterRotationCases
  <2>2. call.src = activeSrc /\ seqState[activeSrc] # Absent
    <3>1. call.src = activeSrc /\ seqState[call.src] = call.seq BY <1>1, <2>1 DEF JInv, IInv, Lineage, CallInFlight
    <3>2. call.seq \in Seqs BY <1>1, <2>1, CallCases
    <3>. QED BY <3>1, <3>2, NumbersAssumption DEF Seqs, Absent
  <2>3. sources' = sources \cup {call.new} /\ sources \subseteq Unicast
    BY <1>1, <2>1 DEF RotationSaved, TypeOK
  <2>4. RotatedStart # Absent BY NumbersAssumption DEF Absent
  <2>. QED BY <1>2, <1>3, <2>1, <2>2, <2>3, <2>4 DEF JInv, Lineage
<1>8. Lineage' BY <1>2, <1>7 DEF Lineage, Idle
<1>. QED BY <1>6, <1>8

(* One that is not, or is cancelled: the file may name the new SRC. *)
LEMMA ThwartedInPlace ==
  ASSUME JInv, RotationSaveFails \/ (CancelCall /\ call.op = "rotate")
  PROVE  Lineage' /\ Moved'
<1>1. TypeOK /\ call.op = "rotate" /\ call.new \in Unicast /\ call # Idle
  BY CallCases DEF JInv, IInv, RotationSaveFails
<1>2. /\ call' = Idle /\ thwarted' = TRUE
      /\ UNCHANGED <<seqState, activeSrc, sources>>
      /\ disk'.active \in {disk.active, call.new}
      /\ phase' = phase \/ phase' = "saving"
      /\ last' = last \/ (call.src # NoSrc /\ last' = [last EXCEPT ![call.src] = call.seq])
  <2>1. disk'.active \in {disk.active, call.new}
    BY <1>1 DEF RotationSaveFails, CancelCall, MaybeWritten, Written, CallPayload, StorePayload
  <2>2. CASE RotationSaveFails
    BY <2>1, <2>2, AfterRotationCases DEF RotationSaveFails
  <2>3. CASE CancelCall
    BY <1>1, <2>1, <2>3 DEF CancelCall, TypeOK
  <2>. QED BY <2>2, <2>3
<1>3. Moved' BY <1>2 DEF Moved, Stuck
<1>4. ASSUME phase' = "running", disk'.active # activeSrc
      PROVE  /\ disk'.active # NoSrc /\ disk'.active \notin sources /\ last'[disk'.active] = Absent
  <2>1. phase = "running" BY <1>2, <1>4
  <2>2. disk'.active # NoSrc /\ disk'.active \notin sources /\ last[disk'.active] = Absent
    <3>1. CASE disk'.active = disk.active
      BY <1>4, <2>1, <3>1 DEF JInv, Lineage
    <3>2. CASE disk'.active = call.new
      <4>1. seqState[call.new] = Absent /\ call.new # activeSrc
        BY <1>1 DEF JInv, IInv, CallInFlight, Lineage
      <4>2. call.new \notin sources BY <2>1, <4>1 DEF JInv, Lineage
      <4>3. seqLoaded BY <1>1 DEF JInv, IInv, MemoryLoaded
      <4>4. last[call.new] = Absent
        BY <1>1, <4>1, <4>3, CounterOrder DEF JInv, IInv, MemoryAhead, Absent
      <4>. QED BY <1>1, <3>2, <4>2, <4>4 DEF Unicast, NoSrc
    <3>. QED BY <1>2, <3>1, <3>2
  <2>3. call.src # NoSrc => call.src \in sources BY <1>1 DEF JInv, Lineage
  <2>4. disk'.active \in DOMAIN last
    BY <1>1, <1>2, <2>2 DEF TypeOK, Promise!TypeOK, Store
  <2>. QED BY <1>2, <2>2, <2>3, <2>4
<1>5. phase' = "running" => \A s \in sources' : s = activeSrc' \/ seqState'[s] # Absent
  BY <1>2 DEF JInv, Lineage
<1>6. Lineage' BY <1>2, <1>4, <1>5 DEF Lineage, Idle
<1>. QED BY <1>3, <1>6

LEMMA StepJInv == ~LateCallers /\ JInv /\ [Next]_vars => JInv'
<1>. SUFFICES ASSUME ~LateCallers, JInv, [Next]_vars PROVE Lineage' /\ Moved'
  BY StepIInv, StepNoResultYet DEF JInv
<1>0. TypeOK /\ TypeOK' BY NextTypeOK DEF JInv, IInv
<1>1. CASE LoadSeq \/ LoadSeqRaises
  BY <1>1 DEF LoadSeq, LoadSeqRaises, Lineage, Moved, Idle
<1>2. CASE RemoteLoadRaises \/ UseResult \/ Shutdown \/ UNCHANGED vars
  BY <1>2, StillInPlace DEF RemoteLoadRaises, UseResult, Shutdown, vars, JInv
<1>3. CASE Prepare
  <2>1. call = Idle BY <1>3 DEF Prepare, JInv, IInv, CallInFlight
  <2>. QED BY <1>3, <2>1 DEF Prepare, Lineage, Moved, Idle
<1>4. CASE RotateAtStartup
  <2>1. PICK new \in FreeAddresses :
          call' = [op |-> "rotate", src |-> NoSrc, seq |-> Absent, new |-> new]
    BY <1>4 DEF RotateAtStartup
  <2>2. new # activeSrc BY <2>1 DEF FreeAddresses, ReservedAddresses
  <2>. QED BY <1>4, <2>1, <2>2 DEF RotateAtStartup, mem, Lineage, Moved
<1>5. CASE SkipRotation
  <2>1. phase' = "saving" /\ UNCHANGED <<config, call, seqState, seqReserved, activeSrc>>
        /\ call = Idle
    BY <1>5 DEF SkipRotation, mem
  <2>2. FreeAddresses' = FreeAddresses
    BY <2>1 DEF FreeAddresses, ReservedAddresses, BurntAddresses
  <2>3. Collides \/ PastThreshold(seqState[activeSrc]) => FreeAddresses = {}
    BY <1>5 DEF SkipRotation, MustRotateAtStartup
  <2>. QED BY <2>1, <2>2, <2>3 DEF Lineage, Moved, Stuck, Collides, PastThreshold, Idle
<1>6. CASE StartupSaved
  <2>1. /\ phase = "saving" /\ sources' = {activeSrc} /\ disk'.active = activeSrc
        /\ UNCHANGED <<config, call, seqState, seqReserved, activeSrc, thwarted>>
    BY <1>6 DEF StartupSaved, Written, CurrentPayload, StorePayload
  <2>2. call = Idle BY <2>1 DEF JInv, IInv, CallInFlight
  <2>3. FreeAddresses' = FreeAddresses
    BY <2>1 DEF FreeAddresses, ReservedAddresses, BurntAddresses
  <2>. QED BY <2>1, <2>2, <2>3 DEF JInv, Lineage, Moved, Stuck, Collides, PastThreshold, Idle
<1>7. CASE StartupSaveRaises
  <2>1. phase' = "closing" /\ call' = call /\ phase = "saving"
    BY <1>7 DEF StartupSaveRaises
  <2>2. call = Idle BY <2>1 DEF JInv, IInv, CallInFlight
  <2>. QED BY <2>1, <2>2 DEF Lineage, Moved, Idle
<1>8. ASSUME NEW s \in Unicast, NEW t \in Clock, NextSeqExhausted(s, t)
      PROVE  Lineage' /\ Moved'
  BY <1>8, StillInPlace DEF NextSeqExhausted, JInv
<1>9. ASSUME NEW s \in Unicast, NEW t \in Clock, NextSeqCovered(s, t)
      PROVE  Lineage' /\ Moved'
  <2>1. /\ s \in sources /\ call = Idle /\ phase = "running" /\ Settle(s, NextValue(s, t))
        /\ NextValue(s, t) <= SeqMax
        /\ UNCHANGED <<config, phase, activeSrc, thwarted, sources, disk, seqReserved>>
    BY <1>9 DEF NextSeqCovered, MayCall
  <2>2. NextValue(s, t) \in Seqs
    BY <1>0, <2>1, NextValueBounds, NumbersAssumption DEF TypeOK, Seqs
  <2>3. call.op # "rotate" BY <2>1 DEF Idle
  <2>. QED BY <2>1, <2>2, <2>3, SettleInPlace
<1>10. ASSUME NEW s \in Unicast, NEW t \in Clock, NextSeqReserves(s, t)
       PROVE  Lineage' /\ Moved'
  <2>1. /\ s \in sources /\ call = Idle /\ call'.op = "block" /\ call'.src = s
        /\ UNCHANGED <<disk, config, phase, mem, last>>
    BY <1>10 DEF NextSeqReserves, MayCall
  <2>2. UNCHANGED <<seqState, seqReserved, activeSrc, thwarted, sources>> BY <2>1 DEF mem
  <2>3. FreeAddresses' = FreeAddresses
    BY <2>1, <2>2 DEF FreeAddresses, ReservedAddresses, BurntAddresses
  <2>. QED BY <2>1, <2>2, <2>3 DEF JInv, Lineage, Moved, Stuck, Collides, PastThreshold, Idle
<1>11. CASE BlockSaved
  <2>1. /\ call.op = "block" /\ call.src \in Unicast /\ call.seq \in Seqs /\ call # Idle
        /\ call.src # NoSrc
    BY <1>0, <1>11, CallCases DEF BlockSaved, Unicast, NoSrc
  <2>2. /\ Settle(call.src, call.seq) /\ disk'.active = activeSrc
        /\ seqReserved' = BlockReserved(call.src, call.seq)
        /\ UNCHANGED <<config, phase, activeSrc, thwarted, sources>>
    BY <1>11, <2>1 DEF BlockSaved, Written, CallPayload, StorePayload
  <2>3. call.src \in sources BY <2>1 DEF JInv, Lineage
  <2>4. \A r \in Unicast : seqReserved[r] # Absent => seqReserved'[r] # Absent
    <3>1. Ceiling(call.seq) # Absent BY <2>1, CeilingBounds, NumbersAssumption DEF Seqs, Absent
    <3>. QED BY <1>0, <2>1, <2>2, <3>1 DEF BlockReserved, TypeOK
  <2>5. CASE phase = "running" BY <2>1, <2>2, <2>3, <2>4, <2>5, SettleInPlace
  <2>6. CASE phase # "running"
    <3>1. phase = "closing" BY <2>1, <2>6 DEF JInv, IInv, CallInFlight
    <3>2. Moved' BY <2>2, <3>1 DEF Moved
    <3>3. CASE call' = Idle BY <2>2, <3>1, <3>2, <3>3 DEF Lineage, Idle
    <3>4. CASE call' # Idle
      <4>1. PICK new \in FreeAddresses :
              call' = [op |-> "rotate", src |-> call.src, seq |-> call.seq, new |-> new]
        BY <2>2, <3>4 DEF Settle
      <4>2. new # activeSrc BY <4>1 DEF FreeAddresses, ReservedAddresses
      <4>3. call.src = activeSrc BY <2>2, <3>4 DEF Settle
      <4>. QED BY <2>2, <2>3, <3>1, <3>2, <4>1, <4>2, <4>3 DEF Lineage
    <3>. QED BY <3>2, <3>3, <3>4
  <2>. QED BY <2>5, <2>6
<1>12. CASE BlockSaveRaises \/ (CancelCall /\ call.op = "block")
  <2>1. /\ call.op = "block" /\ call' = Idle /\ disk'.active \in {disk.active, activeSrc}
        /\ UNCHANGED <<config, phase, seqState, seqReserved, activeSrc, sources, last>>
        /\ thwarted' = thwarted
    BY <1>0, <1>12 DEF BlockSaveRaises, CancelCall, MaybeWritten, Written, CallPayload, StorePayload,
                 mem, TypeOK
  <2>2. FreeAddresses' = FreeAddresses
    BY <2>1 DEF FreeAddresses, ReservedAddresses, BurntAddresses
  <2>3. Moved' BY <2>1, <2>2 DEF JInv, Moved, Stuck, Collides, PastThreshold
  <2>4. Lineage' BY <2>1 DEF JInv, Lineage, Idle
  <2>. QED BY <2>3, <2>4
<1>13. CASE RotationSaved BY <1>13, SavedInPlace
<1>14. CASE RotationSaveFails \/ (CancelCall /\ call.op = "rotate")
  BY <1>14, ThwartedInPlace
<1>15. CASE FinalSave \/ FinalSaveEnds \/ Crash
  <2>1. /\ call' \in {call, Idle} /\ phase' \notin {"saving", "running"}
        /\ call' = call => call = Idle
    BY <1>15 DEF FinalSave, FinalSaveEnds, Crash, JInv, IInv, FinalSaveCovers
  <2>. QED BY <2>1 DEF Lineage, Moved, Idle
<1>16. CASE CancelCall
  <2>1. call.op = "block" \/ call.op = "rotate" BY <1>0, <1>16, CallCases DEF CancelCall
  <2>. QED BY <1>12, <1>14, <1>16, <2>1
<1>. QED
  BY <1>1, <1>2, <1>3, <1>4, <1>5, <1>6, <1>7, <1>8, <1>9, <1>10, <1>11, <1>12, <1>13,
     <1>14, <1>15, <1>16 DEF Next, NextSeq

THEOREM LineageInductive ==
  ASSUME ~LateCallers
  PROVE  Spec => []JInv
<1>1. Init => JInv
  <2>. SUFFICES ASSUME Init PROVE NoResultYet /\ Lineage /\ Moved BY InitIInv DEF JInv
  <2>. QED BY DEF Init, NoResultYet, Lineage, Moved, Idle
<1>2. JInv /\ [Next]_vars => JInv' BY StepJInv
<1>. QED BY <1>1, <1>2, PTL DEF Spec

(* A crash at any moment sends the next start to the SRC in use, or to one no lamp has heard. *)
THEOREM CrashKeepsRotation ==
  ASSUME ~LateCallers
  PROVE  Spec => []RotationSurvivesCrash
<1>1. JInv => RotationSurvivesCrash BY DEF JInv, Lineage, RotationSurvivesCrash
<1>. QED BY <1>1, LineageInductive, PTL

(* We emit from a node's address only if there was no other or the move was not saved. *)
THEOREM CollidesOnlyIfStuck ==
  ASSUME ~LateCallers
  PROVE  Spec => []NodeAddressOnlyIfStuck
<1>1. JInv => NodeAddressOnlyIfStuck BY DEF JInv, Moved, Stuck, NodeAddressOnlyIfStuck
<1>. QED BY <1>1, LineageInductive, PTL

(* A SEQ that is refused while seeds are below the end of the space. *)
LEMMA StepExhausted ==
  ASSUME ~LateCallers, \A t \in Clock : Seed(t) < SeqMax,
         JInv, ExhaustedOnlyIfStuck, [Next]_vars
  PROVE  ExhaustedOnlyIfStuck'
<1>0. TypeOK BY DEF JInv, IInv
<1>. SUFFICES ASSUME out'.kind = "exhausted", out'.src = activeSrc' PROVE Stuck'
  BY DEF ExhaustedOnlyIfStuck, Stuck
<1>1. CASE \E s \in Unicast, t \in Clock : NextSeqExhausted(s, t)
  <2>1. PICK s \in Unicast, t \in Clock : NextSeqExhausted(s, t) BY <1>1
  <2>2. /\ s = activeSrc /\ phase = "running" /\ call = Idle /\ NextValue(s, t) > SeqMax
        /\ UNCHANGED <<config, mem>>
    <3>1. /\ out'.src = s /\ phase = "running" /\ call = Idle /\ NextValue(s, t) > SeqMax
          /\ UNCHANGED <<config, mem>>
      BY <2>1 DEF NextSeqExhausted, MayCall, Raised, Promise!Raised
    <3>. QED BY <3>1 DEF mem
  <2>3. PastThreshold(seqState[activeSrc])
    <3>1. seqState[s] \in Counter /\ Seed(t) < SeqMax BY <1>0 DEF TypeOK
    <3>2. t % (SeqMax + 1) \in Nat BY EnvironmentAssumption, NumbersAssumption
    <3>3. Seed(t) \in Int BY <3>2, NumbersAssumption DEF Seed, LargerOf, Seqs
    <3>4. seqState[s] = SeqMax
      BY <2>2, <3>1, <3>3, NumbersAssumption DEF NextValue, Counter, Absent
    <3>. QED BY <2>2, <3>4, NumbersAssumption DEF PastThreshold
  <2>4. Stuck BY <2>2, <2>3 DEF JInv, Moved, Idle
  <2>5. FreeAddresses' = FreeAddresses /\ thwarted' = thwarted
    BY <2>2 DEF mem, FreeAddresses, ReservedAddresses, BurntAddresses
  <2>. QED BY <2>4, <2>5 DEF Stuck
<1>2. CASE out' = out
  <2>1. out # Nothing /\ out.src \in Unicast
    BY <1>0, <1>2 DEF TypeOK, Promise!TypeOK, Nothing, Promise!Nothing, Promise!Granted,
                      Promise!Raised
  <2>2. call = Idle /\ phase \notin {"loaded", "prepared", "saving"}
    BY <2>1 DEF JInv, NoResultYet
  <2>3. (UNCHANGED <<config, mem>>) \/ activeSrc' = NoSrc
    <3>1. ~(LoadSeq \/ LoadSeqRaises \/ \E s \in Unicast, t \in Clock : NextSeq(s, t))
      BY <2>1 DEF LoadSeq, LoadSeqRaises, NextSeq, NextSeqExhausted, NextSeqCovered,
                  NextSeqReserves, MayCall
    <3>2. ~(Prepare \/ RotateAtStartup \/ SkipRotation \/ StartupSaved \/ StartupSaveRaises)
      BY <2>2 DEF Prepare, RotateAtStartup, SkipRotation, StartupSaved, StartupSaveRaises
    <3>3. ~(BlockSaved \/ BlockSaveRaises \/ RotationSaved \/ RotationSaveFails \/ CancelCall)
      BY <2>2 DEF BlockSaved, BlockSaveRaises, RotationSaved, RotationSaveFails, CancelCall, Idle
    <3>. QED BY <3>1, <3>2, <3>3 DEF Next, RemoteLoadRaises, UseResult, Shutdown, FinalSave,
                                     FinalSaveEnds, Crash, Forget, vars
  <2>4. activeSrc' # NoSrc BY <1>2, <2>1 DEF Unicast, NoSrc
  <2>5. FreeAddresses' = FreeAddresses /\ thwarted' = thwarted /\ activeSrc' = activeSrc
    BY <2>3, <2>4 DEF mem, FreeAddresses, ReservedAddresses, BurntAddresses
  <2>. QED BY <1>2, <2>5 DEF ExhaustedOnlyIfStuck, Stuck
<1>3. out' = out \/ (\E s \in Unicast, t \in Clock : NextSeqExhausted(s, t))
  <2>1. out' # Nothing /\ \A s, n : out' # Granted(s, n)
    BY DEF Nothing, Promise!Nothing, Granted, Promise!Granted
  <2>2. \A s : out' # Raised("failed", s) BY DEF Raised, Promise!Raised
  <2>3. \A s, n : Settle(s, n) => out' = out BY <2>1 DEF Settle
  <2>4. AfterRotation => out' = out BY <2>1 DEF AfterRotation
  <2>. QED
    BY <2>1, <2>2, <2>3, <2>4
    DEF Next, NextSeq, LoadSeq, LoadSeqRaises, RemoteLoadRaises, Prepare, RotateAtStartup,
        SkipRotation, StartupSaved, StartupSaveRaises, NextSeqCovered, NextSeqReserves,
        BlockSaved, BlockSaveRaises, RotationSaved, RotationSaveFails, CancelCall, UseResult,
        Shutdown, FinalSave, FinalSaveEnds, Crash, vars
<1>. QED BY <1>1, <1>2, <1>3

(* SeqExhaustedError means that the address is used up and nothing better could be had, but
   for a fresh SRC that the clock seeds at the very end of the space. *)
THEOREM ExhaustedOnlyAtTheEnd ==
  ASSUME ~LateCallers, \A t \in Clock : Seed(t) < SeqMax
  PROVE  Spec => []ExhaustedOnlyIfStuck
<1>1. Init => ExhaustedOnlyIfStuck
  BY DEF Init, ExhaustedOnlyIfStuck, Nothing, Promise!Nothing
<1>2. JInv /\ ExhaustedOnlyIfStuck /\ [Next]_vars => ExhaustedOnlyIfStuck' BY StepExhausted
<1>. QED BY <1>1, <1>2, LineageInductive, PTL DEF Spec

-----------------------------------------------------------------------------
(* The first start of a new entry *)

(* A nonempty set of addresses with a bound has a highest one. *)
LEMMA HighestExists ==
  ASSUME NEW top \in Nat, NEW S, S \subseteq 1..top, S # {}
  PROVE  \E a \in S : \A b \in S : b <= a
<1> DEFINE R == OpToRel(<, Nat)
           D == {top - a : a \in S}
<1>1. D \subseteq Nat /\ D # {}
  OBVIOUS
<1>2. PICK d \in D : \A e \in D : <<e, d>> \notin R
  <2>. HIDE DEF D
  <2>. QED BY <1>1, WFMin, NatLessThanWellFounded
<1>3. PICK a \in S : d = top - a
  BY <1>2
<1>4. ASSUME NEW b \in S PROVE b <= a
  <2>1. <<top - b, d>> \in Nat \X Nat /\ <<top - b, d>> \notin R BY <1>1, <1>2
  <2>2. ~(<<top - b, d>>[1] < <<top - b, d>>[2]) BY <2>1 DEF OpToRel
  <2>. QED BY <1>3, <2>2
<1>. QED BY <1>4

(* Where the export leaves an address to choose, the one chosen belongs to no node, lamp or
   provisioner, and to no range the app allocates from. *)
LEMMA InitialSrcIsFree ==
  ASSUME NEW e \in Exports, Planning!Roomy(e)
  PROVE  /\ Planning!PickInitialSrc(e) \notin Planning!KnownNodeAddresses(e)
         /\ ~Planning!InRanges(Planning!PickInitialSrc(e), Planning!ValidRanges(e.ranges))
<1> DEFINE C == Planning!Candidates(e)
<1>1. C \subseteq 1..RotationTop /\ C # {}
  BY DEF Planning!Candidates, Planning!Roomy
<1>2. \E a \in C : \A b \in C : b <= a
  <2>1. RotationTop \in Nat BY NumbersAssumption
  <2>. HIDE DEF C
  <2>. QED BY <1>1, <2>1, HighestExists
<1>3. (CHOOSE a \in C : \A b \in C : b <= a) \in C
  <2>. HIDE DEF C
  <2>. QED BY <1>2
<1>4. \/ Planning!PickInitialSrc(e) \in C
      \/ /\ Planning!PickInitialSrc(e) = SrcBase
         /\ ~Planning!InRanges(SrcBase, Planning!ValidRanges(e.ranges))
         /\ SrcBase \notin Planning!KnownNodeAddresses(e)
  BY <1>1, <1>3 DEF Planning!PickInitialSrc, Planning!Roomy
<1>. QED BY <1>4 DEF Planning!Candidates

(* The coordinator reads no address as occupied that the config flow did not know, and no
   address as allocated that is in none of the flow's ranges. *)
LEMMA ReadingsAgree ==
  ASSUME NEW e \in Exports
  PROVE  /\ Planning!Occupied(e) \subseteq Planning!KnownNodeAddresses(e)
         /\ \A a \in Planning!Allocated(e) :
              Planning!InRanges(a, Planning!ValidRanges(e.ranges))
BY DEF Planning!Occupied, Planning!KnownNodeAddresses, Planning!Allocated

(* What set-up has made of the file, before the first write: nobody else is in the store. *)
FromFile ==
  /\ phase \in {"loaded", "prepared"} =>
       call = Idle \/ (phase = "prepared" /\ RotatesInSetup)
  /\ phase = "loaded" => seqState = disk.reserved
  /\ phase = "prepared" =>
       /\ seqState = [s \in Unicast |-> Jumped(disk.reserved[s])]
       /\ activeSrc = IF disk.active # NoSrc THEN disk.active ELSE config.src

LEMMA StepFromFile == TypeOK /\ FromFile /\ [Next]_vars => FromFile'
<1>. SUFFICES ASSUME TypeOK, FromFile, [Next]_vars PROVE FromFile' OBVIOUS
<1>1. CASE LoadSeq
  BY <1>1 DEF LoadSeq, FromFile
<1>2. CASE Prepare
  BY <1>2 DEF Prepare, FromFile
<1>3. CASE RotateAtStartup
  <2>1. call'.op = "rotate" /\ call'.src = NoSrc BY <1>3 DEF RotateAtStartup
  <2>. QED BY <1>3, <2>1 DEF RotateAtStartup, mem, FromFile, RotatesInSetup
<1>4. CASE UseResult \/ UNCHANGED vars
  BY <1>4 DEF UseResult, vars, mem, FromFile, RotatesInSetup
<1>5. CASE RotationSaved \/ RotationSaveFails
  <2>1. call.op = "rotate" /\ AfterRotation BY <1>5 DEF RotationSaved, RotationSaveFails
  <2>2. phase' \notin {"loaded", "prepared"}
    BY <2>1 DEF AfterRotation, FromFile, RotatesInSetup, Idle
  <2>. QED BY <2>2 DEF FromFile
<1>6. CASE BlockSaved \/ BlockSaveRaises \/ CancelCall
  <2>1. phase' = phase /\ call # Idle /\ ~RotatesInSetup
    BY <1>6 DEF BlockSaved, BlockSaveRaises, CancelCall, RotatesInSetup, Idle
  <2>. QED BY <2>1 DEF FromFile
<1>7. CASE \E s \in Unicast, t \in Clock : NextSeq(s, t)
  <2>1. phase' = phase /\ phase \notin {"loaded", "prepared"}
    BY <1>7 DEF NextSeq, NextSeqExhausted, NextSeqCovered, NextSeqReserves, MayCall
  <2>. QED BY <2>1 DEF FromFile
<1>8. CASE \/ LoadSeqRaises \/ RemoteLoadRaises \/ SkipRotation \/ StartupSaved
           \/ StartupSaveRaises \/ Shutdown \/ FinalSave \/ FinalSaveEnds \/ Crash
  <2>1. phase' \notin {"loaded", "prepared"}
    BY <1>8 DEF LoadSeqRaises, RemoteLoadRaises, SkipRotation, StartupSaved,
                StartupSaveRaises, Shutdown, FinalSave, FinalSaveEnds, Crash
  <2>. QED BY <2>1 DEF FromFile
<1>. QED BY <1>1, <1>2, <1>3, <1>4, <1>5, <1>6, <1>7, <1>8 DEF Next

(* What the config flow chose, the first start keeps: in any environment, for any export. *)
THEOREM FirstStartAlwaysStays == Spec => []FirstStartStays
<1>1. Init => FromFile
  BY DEF Init, FromFile
<1>2. TypeOK /\ FromFile => FirstStartStays
  <2>. SUFFICES ASSUME TypeOK, FromFile, phase = "prepared", disk = NoStore,
                       NEW e \in Exports, Planning!Roomy(e), config = Planning!Entry(e, e)
                PROVE  ~MustRotateAtStartup /\ activeSrc \notin config.allocated
    BY DEF FirstStartStays
  <2>1. /\ config.src = Planning!PickInitialSrc(e)
        /\ config.occupied = Planning!Occupied(e)
        /\ config.allocated = Planning!Allocated(e)
    BY DEF Planning!Entry
  <2>2. activeSrc = config.src /\ activeSrc \in Unicast
    BY DEF FromFile, NoStore, TypeOK, NoSrc
  <2>3. seqState[activeSrc] = Absent
    BY <2>2 DEF FromFile, NoStore, Empty, Jumped
  <2>4. ~PastThreshold(seqState[activeSrc])
    BY <2>3, NumbersAssumption DEF PastThreshold, Absent, Seqs
  <2>. QED BY <2>1, <2>2, <2>4, InitialSrcIsFree, ReadingsAgree
           DEF MustRotateAtStartup, Collides
<1>. QED BY <1>1, <1>2, StepFromFile, TypeCorrect, PTL DEF Spec
=============================================================================
