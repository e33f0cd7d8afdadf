-------------------------- MODULE SegmentedTx_proofs --------------------------
(***************************************************************************)
(* SegmentedTx for any number of remotes, tasks, segments, retransmissions *)
(* and rotations: an acknowledged message is one its remote holds, one     *)
(* reported as failed is one whose acknowledgments left a segment out, and *)
(* the SEQs of an SRC leave in the order they were taken; _tx_lock goes    *)
(* from task to task, and every step of a send brings it nearer its end.   *)
(***************************************************************************)
EXTENDS SegmentedTx, FiniteSetTheorems, WellFoundedInduction, TLAPS

(* Only the holder of the lock has SEQs that are taken and not out. *)
Lock ==
  /\ \A n \in Nodes : send[n].pc \in {"building", "writing", "resending"} => Holds(n)
  /\ \A o \in Others : other[o].pc \in {"building", "writing"} => Holds(o)

(* What a send has at each place of send_devkey. *)
Ready(m) ==
  /\ m.missing \subseteq Size(m.size)
  /\ \A i \in 1..Len(m.pdus) : m.pdus[i].index \in Size(m.size)
  /\ m.pc \in {"building", "requeued"} => m.missing # {}
  /\ m.pc = "writing" => m.pdus # <<>>
  /\ m.pc = "resending" /\ m.pdus = <<>> => m.missing # {}
  /\ m.pc \notin {"building", "writing", "resending"} => m.pdus = <<>>
  /\ m.pc \in {"waiting", "requeued", "resending"} => m.size > 1
  /\ m.pc \in {"writing", "waiting", "requeued", "resending"} => m.auth # -1
  /\ m.pc = "queued" => m.auth = -1
  /\ m.pc # "idle" => m.result = "none"
  /\ m.pc \in {"idle", "queued", "building"} => m.block = {}

Shape ==
  /\ TypeOK
  /\ Lock
  /\ \A n \in Nodes : Ready(send[n])
  /\ \A o \in Others : other[o].pc # "idle" => other[o].copies >= 1

(* Those SEQs are above what went out, below what comes next, and in order. *)
Ahead(s, seq) == emitted[s] < seq /\ seq < next[s]

Ordered ==
  /\ \A s \in Srcs : emitted[s] < next[s]
  /\ \A n \in Nodes :
       LET pdus == send[n].pdus IN
       /\ \A i \in 1..Len(pdus) : Ahead(send[n].src, pdus[i].seq)
       /\ \A i, j \in 1..Len(pdus) : i < j => pdus[i].seq < pdus[j].seq
  /\ \A o \in Others : other[o].pc = "writing" => Ahead(other[o].src, other[o].seq)

(* The message to n has its SRC; its SeqAuth as well. *)
HasSrc(n)  == send[n].pc \notin {"idle", "queued"}
HasAuth(n) == HasSrc(n) /\ send[n].auth # -1

(* Whatever is about a message is about one that has begun. *)
Begun ==
  /\ \A n \in Nodes : HasSrc(n) => send[n].src <= src
  /\ \A n \in Nodes : HasAuth(n) => send[n].auth < next[send[n].src]
  /\ \A n \in Nodes : node[n].src <= src /\ node[n].auth < next[node[n].src]
  /\ \A a \in acks : a.to <= src /\ a.auth < next[a.to]

(* The message being sent is the newest its node can know of, and earlier  *)
(* ones that may still be acknowledged have another SeqZero.               *)
Newest ==
  /\ \A n \in Nodes : HasSrc(n) =>
       /\ node[n].src <= send[n].src
       /\ \A a \in acks : a.from = n => a.to <= send[n].src
  /\ \A n \in Nodes : HasAuth(n) =>
       /\ node[n].src = send[n].src => node[n].auth <= send[n].auth
       /\ \A a \in acks : a.from = n /\ a.to = send[n].src =>
            a.auth = send[n].auth
            \/ (a.auth < send[n].auth /\ send[n].auth < a.auth + SeqZeroSpan)

OnIt(n, s, auth) == node[n].src = s /\ node[n].auth = auth

(* What acknowledgments say, and what the code made of them, is so. *)
Truth ==
  /\ \A a \in acks : OnIt(a.from, a.to, a.auth) => a.block \subseteq node[a.from].have
  /\ \A n \in Nodes : HasAuth(n) => \A a \in acks :
       a.from = n /\ a.to = send[n].src /\ a.auth = send[n].auth =>
         OnIt(n, send[n].src, send[n].auth)
  /\ \A n \in Nodes : HasAuth(n) /\ send[n].block # {} =>
       OnIt(n, send[n].src, send[n].auth) /\ send[n].block \subseteq node[n].have
  /\ \A n \in Nodes : HasAuth(n) /\ OnIt(n, send[n].src, send[n].auth) =>
       node[n].have \subseteq Size(send[n].size)
  /\ AckIsForThisMessage

IInv == Shape /\ Ordered /\ Begun /\ Newest /\ Truth

-----------------------------------------------------------------------------
(* Helpers                                                                 *)

Waiters == Nodes \cup Others

(* What a task p may do to the queue. *)
QueueStep(p) ==
  \/ UNCHANGED queue
  \/ Enqueue(p)
  \/ Holds(p) /\ Release
  \/ Leaves(p)

(* A nonempty set of segments has a first one. *)
LEMMA FirstIsIn ==
  ASSUME NEW S, S \subseteq Nat, S # {}
  PROVE  First(S) \in S
<1> DEFINE R == OpToRel(<, Nat)
<1>1. PICK x \in S : \A y \in S : ~ (<<y, x>> \in R)
  <2>1. \E x \in S : \A y \in S : ~ (<<y, x>> \in R)
    BY WFMin, NatLessThanWellFounded
  <2> QED BY <2>1
<1>2. ASSUME NEW y \in S
      PROVE  x <= y
  <2>1. <<y, x>> \in Nat \X Nat
    OBVIOUS
  <2>2. ~ (<<y, x>>[1] < <<y, x>>[2])
    BY <1>1, <2>1 DEF OpToRel
  <2> QED BY <2>2
<1> QED BY <1>2 DEF First

(* Nothing left to send is a sequence of PDUs. *)
LEMMA NoPdus == <<>> \in Seq(Pdus) /\ Len(<<>>) = 0 /\ 1..Len(<<>>) = {}
OBVIOUS

LEMMA NoSendTyped == NoSend \in Sends /\ NoSend.size = 1 /\ NoSend.pdus = <<>>
<1>1. 0 \in Srcs /\ 0 \in 0..SAR_RETRANSMISSIONS /\ 1 \in 1..MaxSegments /\ {} \in SUBSET Segments
  BY TxAssumption DEF Srcs
<1> QED BY <1>1, NoPdus DEF NoSend, Sends

LEMMA NoOtherTyped == NoOther \in OtherStates /\ NoOther.pc = "idle"
<1>1. 0 \in Srcs /\ 0 \in 0..ACK_COPIES
  BY TxAssumption DEF Srcs
<1> QED BY <1>1 DEF NoOther, OtherStates

(* A message has at least one segment and at most MaxSegments. *)
LEMMA SizeBounds ==
  ASSUME NEW k \in 1..MaxSegments
  PROVE  Size(k) \subseteq Segments /\ 0 \in Size(k) /\ (k # 1 => k > 1)
BY TxAssumption DEF Size, Segments

(* Whatever a task does to the queue, another that holds the lock keeps it. *)
LEMMA OthersKeepLock ==
  ASSUME queue \in Seq(Waiters), NEW p \in Waiters, QueueStep(p)
  PROVE  /\ queue' \in Seq(Waiters)
         /\ \A q \in Waiters : q # p /\ Holds(q) => Holds(q)'
<1>1. CASE UNCHANGED queue
  BY <1>1 DEF Holds
<1>2. CASE Enqueue(p)
  BY <1>2 DEF Enqueue, Holds
<1>3. CASE Holds(p) /\ Release
  BY <1>3 DEF Release, Holds
<1>4. CASE Leaves(p)
  <2>1. CASE p \notin Range(queue) /\ UNCHANGED queue
    BY <2>1 DEF Holds
  <2>2. ASSUME NEW i \in DOMAIN queue, queue[i] = p, queue' = RemoveAt(queue, i)
        PROVE  /\ queue' \in Seq(Waiters)
               /\ \A q \in Waiters : q # p /\ Holds(q) => Holds(q)'
    <3>1. i \in 1..Len(queue)
      BY <2>2
    <3>2. SubSeq(queue, 1, i - 1) \in Seq(Waiters) /\ SubSeq(queue, i + 1, Len(queue)) \in Seq(Waiters)
      BY <3>1
    <3>3. queue' \in Seq(Waiters)
      BY <2>2, <3>2 DEF RemoveAt
    <3>4. ASSUME NEW q \in Waiters, q # p, Holds(q)
          PROVE  Holds(q)'
      <4>1. i # 1
        BY <2>2, <3>4 DEF Holds
      <4>2. Len(SubSeq(queue, 1, i - 1)) = i - 1 /\ SubSeq(queue, 1, i - 1)[1] = queue[1]
        BY <3>1, <4>1
      <4>3. queue' # <<>> /\ queue'[1] = queue[1]
        BY <2>2, <3>1, <3>2, <3>3, <4>1, <4>2 DEF RemoveAt
      <4> QED BY <3>3, <3>4, <4>3 DEF Holds
    <3> QED BY <3>3, <3>4
  <2> QED BY <1>4, <2>1, <2>2 DEF Leaves
<1> QED BY <1>1, <1>2, <1>3, <1>4 DEF QueueStep

(* A step of the send to n that leaves its record in order keeps the shape *)
(* of all tasks.                                                           *)
LEMMA SendShape ==
  ASSUME Shape, NEW n \in Nodes, NEW m \in Sends, Ready(m),
         send' = [send EXCEPT ![n] = m], UNCHANGED other, QueueStep(n),
         m.pc \in {"building", "writing", "resending"} => Holds(n)'
  PROVE  /\ send' \in [Nodes -> Sends] /\ queue' \in Seq(Waiters)
         /\ Lock' /\ \A k \in Nodes : Ready(send'[k])
<1> USE DEF Shape, TypeOK
<1>1. queue \in Seq(Waiters) /\ n \in Waiters
  BY DEF Waiters
<1>2. queue' \in Seq(Waiters) /\ \A q \in Waiters : q # n /\ Holds(q) => Holds(q)'
  BY <1>1, OthersKeepLock
<1>3. send' \in [Nodes -> Sends] /\ send'[n] = m /\ \A k \in Nodes \ {n} : send'[k] = send[k]
  OBVIOUS
<1>4. \A k \in Nodes : Ready(send'[k])
  BY <1>3
<1>5. \A k \in Nodes : send'[k].pc \in {"building", "writing", "resending"} => Holds(k)'
  BY <1>2, <1>3 DEF Lock, Waiters
<1>6. \A o \in Others : other'[o].pc \in {"building", "writing"} => Holds(o)'
  BY <1>2, TxAssumption DEF Lock, Waiters
<1> QED BY <1>2, <1>3, <1>4, <1>5, <1>6 DEF Lock

(* The same for a task of single PDUs. *)
LEMMA OtherShape ==
  ASSUME Shape, NEW o \in Others, NEW r \in OtherStates, r.pc # "idle" => r.copies >= 1,
         other' = [other EXCEPT ![o] = r], UNCHANGED send, QueueStep(o),
         r.pc \in {"building", "writing"} => Holds(o)'
  PROVE  /\ other' \in [Others -> OtherStates] /\ queue' \in Seq(Waiters)
         /\ Lock' /\ \A k \in Others : other'[k].pc # "idle" => other'[k].copies >= 1
<1> USE DEF Shape, TypeOK
<1>1. queue \in Seq(Waiters) /\ o \in Waiters
  BY DEF Waiters
<1>2. queue' \in Seq(Waiters) /\ \A q \in Waiters : q # o /\ Holds(q) => Holds(q)'
  BY <1>1, OthersKeepLock
<1>3. other' \in [Others -> OtherStates] /\ other'[o] = r
      /\ \A k \in Others \ {o} : other'[k] = other[k]
  OBVIOUS
<1>4. \A n \in Nodes : send'[n].pc \in {"building", "writing", "resending"} => Holds(n)'
  BY <1>2, TxAssumption DEF Lock, Waiters
<1>5. \A k \in Others : other'[k].pc \in {"building", "writing"} => Holds(k)'
  BY <1>2, <1>3 DEF Lock, Waiters
<1> QED BY <1>2, <1>3, <1>4, <1>5 DEF Lock

-----------------------------------------------------------------------------
(* Shape is inductive                                                      *)

LEMMA TakeSeqTyped ==
  ASSUME Shape, NEW s \in Srcs, TakeSeq(s)
  PROVE  /\ next' \in [Srcs -> Nat] /\ acks' \subseteq Acks
         /\ next[s] \in Seqs
BY DEF Shape, TypeOK, TakeSeq, Seqs

LEMMA WriteTyped ==
  ASSUME Shape, NEW n \in Nodes, NEW pdu \in Pdus, WritePdu(n, pdu),
         Segmented(n) => send[n].auth # -1
  PROVE  /\ emitted' \in [Srcs -> Seqs \cup {-1}] /\ acks' \subseteq Acks
         /\ node' \in [Nodes -> [src : Srcs, auth : Seqs \cup {-1}, have : SUBSET Segments]]
<1> USE DEF Shape, TypeOK
<1>1. send[n].src \in Srcs /\ send[n].auth \in Seqs \cup {-1}
      /\ pdu.seq \in Seqs /\ pdu.index \in Segments
  BY DEF Sends, Pdus
<1>2. emitted' \in [Srcs -> Seqs \cup {-1}]
  BY <1>1 DEF WritePdu, Emit
<1>3. CASE UNCHANGED <<node, acks>>
  BY <1>2, <1>3
<1>4. CASE Segmented(n) /\ Receives(n, send[n].src, send[n].auth, pdu.index)
  <2> DEFINE old  == node[n]
             have == IF old.src = send[n].src /\ old.auth = send[n].auth
                     THEN old.have \cup {pdu.index} ELSE {pdu.index}
  <2>1. have \in SUBSET Segments
    BY <1>1
  <2>2. /\ node' = [node EXCEPT ![n] = [src |-> send[n].src, auth |-> send[n].auth, have |-> have]]
        /\ acks' = acks \cup {[from |-> n, to |-> send[n].src, auth |-> send[n].auth, block |-> have]}
    BY <1>4 DEF Receives
  <2>3. send[n].auth \in Seqs
    BY <1>1, <1>4
  <2> HIDE DEF have
  <2> QED BY <1>1, <1>2, <2>1, <2>2, <2>3 DEF Acks
<1> QED BY <1>3, <1>4 DEF WritePdu

LEMMA EndedInOrder ==
  ASSUME NEW m \in Sends, NEW result \in {"true", "false", "raised"}
  PROVE  Ended(m, result) \in Sends /\ Ready(Ended(m, result)) /\ Ended(m, result).pc = "idle"
<1>2. CASE m.size = 1 \/ result = "raised"
  <2>1. Ended(m, result) = [NoSend EXCEPT !.result = result]
    BY <1>2 DEF Ended
  <2>2. Ended(m, result) \in Sends
    BY <2>1, NoSendTyped DEF Sends
  <2> QED BY <2>1, <2>2, NoPdus DEF Ready, NoSend
<1>3. CASE ~(m.size = 1 \/ result = "raised")
  <2>1. Ended(m, result) = [m EXCEPT !.pc = "idle", !.result = result, !.missing = {},
                                     !.pdus = <<>>, !.attempt = 0, !.block = {}]
    BY <1>3 DEF Ended
  <2>2. 0 \in 0..SAR_RETRANSMISSIONS
    BY TxAssumption
  <2>3. Ended(m, result) \in Sends
    BY <2>1, <2>2, NoPdus DEF Sends
  <2> QED BY <2>1, <2>3, NoPdus DEF Ready, Sends
<1> QED BY <1>2, <1>3

LEMMA ShapeStep ==
  ASSUME Shape, Truth, Next
  PROVE  Shape'
<1> USE DEF Shape
<1>t. TypeOK
  OBVIOUS
<1>1. ASSUME NEW n \in Nodes, Begin(n)
      PROVE  Shape'
  <2>1. PICK k \in 1..MaxSegments :
          send' = [send EXCEPT ![n] = [NoSend EXCEPT !.pc = "queued", !.size = k]]
    BY <1>1 DEF Begin
  <2> DEFINE m == [NoSend EXCEPT !.pc = "queued", !.size = k]
  <2>2. m \in Sends /\ m.pc = "queued"
    BY NoSendTyped DEF Sends
  <2>5. Ready(m)
    BY NoPdus DEF NoSend, Ready
  <2>3. QueueStep(n) /\ UNCHANGED <<src, next, emitted, other, node, acks>>
    BY <1>1 DEF Begin, QueueStep
  <2> HIDE DEF m
  <2>4. send' \in [Nodes -> Sends] /\ queue' \in Seq(Waiters) /\ Lock' /\ \A j \in Nodes : Ready(send'[j])
    BY <2>1, <2>2, <2>3, <2>5, SendShape DEF m
  <2> QED BY <1>t, <2>3, <2>4 DEF TypeOK, Waiters
<1>2. ASSUME NEW n \in Nodes, StartBuild(n)
      PROVE  Shape'
  <2> DEFINE m == [send[n] EXCEPT !.pc = "building", !.src = src, !.missing = Size(send[n].size)]
  <2>1. send[n] \in Sends /\ Ready(send[n]) /\ src \in Srcs
    BY <1>t DEF TypeOK
  <2>2. Size(send[n].size) \subseteq Segments /\ Size(send[n].size) # {}
    BY <2>1, SizeBounds DEF Sends
  <2>3. m \in Sends /\ Ready(m) /\ m.pc = "building"
    BY <1>2, <2>1, <2>2 DEF StartBuild, Sends, Ready
  <2>4. send' = [send EXCEPT ![n] = m] /\ QueueStep(n)
        /\ UNCHANGED <<src, next, emitted, other, node, acks>> /\ Holds(n)'
    BY <1>2, <1>t DEF StartBuild, QueueStep, Holds, TypeOK
  <2> HIDE DEF m
  <2>5. send' \in [Nodes -> Sends] /\ queue' \in Seq(Waiters) /\ Lock' /\ \A j \in Nodes : Ready(send'[j])
    BY <2>3, <2>4, SendShape
  <2> QED BY <1>t, <2>4, <2>5 DEF TypeOK, Waiters
<1>3. ASSUME NEW n \in Nodes, BuildSegment(n)
      PROVE  Shape'
  <2> DEFINE o     == send[n]
             index == First(o.missing)
             m     == [o EXCEPT !.pdus    = Append(@, [index |-> index, seq |-> next[o.src]]),
                                !.auth    = IF @ = -1 THEN next[o.src] ELSE @,
                                !.missing = @ \ {index},
                                !.pc      = IF o.missing = {index} THEN "writing" ELSE @]
  <2>1. o \in Sends /\ Ready(o) /\ o.pc = "building" /\ o.src \in Srcs
    BY <1>3, <1>t DEF TypeOK, BuildSegment, Sends
  <2>2. TakeSeq(o.src) /\ send' = [send EXCEPT ![n] = m] /\ UNCHANGED <<src, emitted, queue, other, node>>
    BY <1>3 DEF BuildSegment
  <2>3. index \in o.missing /\ index \in Segments /\ index \in Size(o.size)
    BY <2>1, FirstIsIn DEF Sends, Ready, Segments
  <2>4. next' \in [Srcs -> Nat] /\ acks' \subseteq Acks /\ next[o.src] \in Seqs
    BY <2>1, <2>2, TakeSeqTyped
  <2>5. [index |-> index, seq |-> next[o.src]] \in Pdus
    BY <2>3, <2>4 DEF Pdus
  <2>6. m.pdus \in Seq(Pdus) /\ m.pdus # <<>> /\ \A i \in 1..Len(m.pdus) : m.pdus[i].index \in Size(o.size)
    BY <2>1, <2>3, <2>5 DEF Sends, Ready
  <2>7. m \in Sends
    BY <2>1, <2>4, <2>6 DEF Sends
  <2>8. m.auth # -1
    BY <2>1, <2>4 DEF Sends, Seqs
  <2>9. Ready(m)
    <3> HIDE DEF index
    <3> QED BY <2>1, <2>3, <2>6, <2>8 DEF Ready, Sends
  <2>10. QueueStep(n) /\ Holds(n)'
    BY <1>3, <2>2 DEF QueueStep, BuildSegment, Holds
  <2> HIDE DEF m
  <2>11. send' \in [Nodes -> Sends] /\ queue' \in Seq(Waiters) /\ Lock' /\ \A j \in Nodes : Ready(send'[j])
    BY <2>2, <2>7, <2>9, <2>10, SendShape
  <2> QED BY <1>t, <2>2, <2>4, <2>11 DEF TypeOK, Waiters
<1>4. ASSUME NEW n \in Nodes, Write(n)
      PROVE  Shape'
  <2> DEFINE o    == send[n]
             rest == [o EXCEPT !.pdus = Tail(@)]
             m    == IF rest.pdus # <<>> THEN rest ELSE AfterWriting(rest)
  <2>1. o \in Sends /\ Ready(o) /\ o.pc = "writing" /\ Holds(n)
    BY <1>4, <1>t DEF TypeOK, Write
  <2>2. Head(o.pdus) \in Pdus /\ Tail(o.pdus) \in Seq(Pdus)
        /\ \A i \in 1..Len(Tail(o.pdus)) : Tail(o.pdus)[i].index \in Size(o.size)
    BY <2>1 DEF Ready, Sends
  <2>3. rest \in Sends /\ rest.pdus = Tail(o.pdus) /\ (rest.pdus # <<>> => Ready(rest))
    BY <2>1, <2>2 DEF Sends, Ready
  <2>4. CASE rest.pdus # <<>>
    <3>1. send' = [send EXCEPT ![n] = rest] /\ UNCHANGED queue /\ UNCHANGED <<src, next, other>>
          /\ WritePdu(n, Head(o.pdus))
      BY <1>4, <2>4 DEF Write
    <3>2. QueueStep(n) /\ Holds(n)'
      BY <2>1, <3>1 DEF QueueStep, Holds
    <3>3. send' \in [Nodes -> Sends] /\ queue' \in Seq(Waiters) /\ Lock' /\ \A j \in Nodes : Ready(send'[j])
      BY <2>3, <2>4, <3>1, <3>2, SendShape
    <3> QED BY <1>t, <2>1, <2>2, <3>1, <3>3, WriteTyped DEF TypeOK, Waiters, Ready
  <2>5. CASE rest.pdus = <<>>
    <3>1. send' = [send EXCEPT ![n] = AfterWriting(rest)] /\ Release /\ UNCHANGED <<src, next, other>>
          /\ WritePdu(n, Head(o.pdus))
      BY <1>4, <2>5 DEF Write
    <3>2. QueueStep(n)
      BY <2>1, <3>1 DEF QueueStep
    <3>3. AfterWriting(rest) \in Sends /\ Ready(AfterWriting(rest))
          /\ AfterWriting(rest).pc \in {"idle", "waiting"}
      <4>1. CASE rest.size = 1
        BY <2>3, <4>1, EndedInOrder DEF AfterWriting
      <4>2. CASE rest.size # 1
        <5>1. rest.size > 1
          BY <2>3, <4>2, SizeBounds DEF Sends
        <5>2. AfterWriting(rest) = [rest EXCEPT !.pc = "waiting"]
          BY <4>2 DEF AfterWriting
        <5>3. rest.pc = "writing" /\ rest.size = o.size /\ rest.auth # -1 /\ rest.result = "none"
              /\ rest.missing \subseteq Size(rest.size)
          BY <2>1 DEF Ready, Sends
        <5> HIDE DEF rest
        <5>4. AfterWriting(rest) \in Sends /\ AfterWriting(rest).pc = "waiting"
          BY <2>3, <5>2 DEF Sends
        <5>5. Ready(AfterWriting(rest))
          BY <2>3, <2>5, <5>1, <5>2, <5>3, <5>4, NoPdus DEF Sends, Ready
        <5> QED BY <5>4, <5>5
      <4> QED BY <4>1, <4>2
    <3>4. send' \in [Nodes -> Sends] /\ queue' \in Seq(Waiters) /\ Lock' /\ \A j \in Nodes : Ready(send'[j])
      BY <3>1, <3>2, <3>3, SendShape
    <3> QED BY <1>t, <2>1, <2>2, <3>1, <3>4, WriteTyped DEF TypeOK, Waiters, Ready
  <2> QED BY <2>4, <2>5
<1>5. ASSUME NEW n \in Nodes, WaitEnds(n)
      PROVE  Shape'
  <2>1. send[n] \in Sends
    BY <1>t DEF TypeOK
  <2>2. Outcome(send[n]) \in Sends /\ Ready(Outcome(send[n])) /\ Outcome(send[n]).pc = "idle"
    BY <2>1, EndedInOrder DEF Outcome
  <2>3. send' = [send EXCEPT ![n] = Outcome(send[n])] /\ QueueStep(n)
        /\ UNCHANGED <<src, next, emitted, other, node, acks>>
    BY <1>5 DEF WaitEnds, QueueStep
  <2>4. send' \in [Nodes -> Sends] /\ queue' \in Seq(Waiters) /\ Lock' /\ \A j \in Nodes : Ready(send'[j])
    BY <2>2, <2>3, SendShape
  <2> QED BY <1>t, <2>3, <2>4 DEF TypeOK, Waiters
<1>6. ASSUME NEW n \in Nodes, Timeout(n)
      PROVE  Shape'
  <2> DEFINE o == send[n]
             m == [o EXCEPT !.pc = "requeued", !.attempt = @ + 1,
                            !.missing = Size(o.size) \ o.block]
  <2>1. o \in Sends /\ Ready(o) /\ o.pc = "waiting" /\ ~Complete(o) /\ ~o.cancelled
    BY <1>6, <1>t DEF TypeOK, Timeout
  <2>2. UNCHANGED <<src, next, emitted, other, node, acks>>
    BY <1>6 DEF Timeout
  <2>3. CASE LastAttempt(o) /\ send' = [send EXCEPT ![n] = Outcome(o)] /\ UNCHANGED queue
    <3>1. Outcome(o) \in Sends /\ Ready(Outcome(o)) /\ Outcome(o).pc = "idle"
      BY <2>1, EndedInOrder DEF Outcome
    <3>2. send' \in [Nodes -> Sends] /\ queue' \in Seq(Waiters) /\ Lock' /\ \A j \in Nodes : Ready(send'[j])
      BY <2>2, <2>3, <3>1, SendShape DEF QueueStep
    <3> QED BY <1>t, <2>2, <3>2 DEF TypeOK, Waiters
  <2>4. CASE ~LastAttempt(o) /\ send' = [send EXCEPT ![n] = m] /\ Enqueue(n)
    <3>1. Size(o.size) \subseteq Segments
      BY <2>1, TxAssumption DEF Sends, Size, Segments
    <3>2. m.attempt \in 0..SAR_RETRANSMISSIONS
      BY <2>1, <2>4, TxAssumption DEF Sends, LastAttempt
    <3>3. m \in Sends
      BY <2>1, <3>1, <3>2 DEF Sends
    <3>4. m.missing # {}
      <4>0. SUFFICES ASSUME m.missing = {} PROVE FALSE
        OBVIOUS
      <4>1. Size(o.size) \subseteq o.block
        BY <2>1, <4>0 DEF Sends
      <4>2. o.block \subseteq Size(o.size)
        BY <2>1 DEF Truth, HasAuth, HasSrc, Ready
      <4> QED BY <2>1, <4>1, <4>2 DEF Complete
    <3>5. Ready(m) /\ m.pc = "requeued"
      BY <2>1, <3>4 DEF Ready, Sends
    <3> HIDE DEF m
    <3>6. send' \in [Nodes -> Sends] /\ queue' \in Seq(Waiters) /\ Lock' /\ \A j \in Nodes : Ready(send'[j])
      BY <2>2, <2>4, <3>3, <3>5, SendShape DEF QueueStep
    <3> QED BY <1>t, <2>2, <3>6 DEF TypeOK, Waiters
  <2> QED BY <1>6, <2>3, <2>4 DEF Timeout
<1>7. ASSUME NEW n \in Nodes, Rewrap(n)
      PROVE  Shape'
  <2> DEFINE o     == send[n]
             index == First(o.missing)
             m     == [o EXCEPT !.pc = "resending", !.missing = @ \ {index},
                                !.pdus = <<[index |-> index, seq |-> next[o.src]]>>]
  <2>1. o \in Sends /\ Ready(o) /\ o.pc \in {"requeued", "resending"} /\ o.pdus = <<>> /\ o.src \in Srcs
    BY <1>7, <1>t DEF TypeOK, Rewrap, Sends
  <2>2. TakeSeq(o.src) /\ send' = [send EXCEPT ![n] = m] /\ UNCHANGED <<src, emitted, queue, other, node>>
    BY <1>7 DEF Rewrap
  <2>3. index \in o.missing /\ index \in Segments /\ index \in Size(o.size)
    BY <2>1, FirstIsIn DEF Sends, Ready, Segments
  <2>4. next' \in [Srcs -> Nat] /\ acks' \subseteq Acks /\ next[o.src] \in Seqs
    BY <2>1, <2>2, TakeSeqTyped
  <2>5. [index |-> index, seq |-> next[o.src]] \in Pdus
    BY <2>3, <2>4 DEF Pdus
  <2>6. m \in Sends
    <3> HIDE DEF index
    <3>1. <<[index |-> index, seq |-> next[o.src]]>> \in Seq(Pdus)
      BY <2>5
    <3> QED BY <2>1, <3>1 DEF Sends
  <2>7. Ready(m)
    <3> HIDE DEF index
    <3> QED BY <2>1, <2>3 DEF Ready, Sends
  <2>8. QueueStep(n) /\ Holds(n)'
    BY <1>7, <2>2 DEF QueueStep, Rewrap, Holds
  <2> HIDE DEF m
  <2>9. send' \in [Nodes -> Sends] /\ queue' \in Seq(Waiters) /\ Lock' /\ \A j \in Nodes : Ready(send'[j])
    BY <2>2, <2>6, <2>7, <2>8, SendShape
  <2> QED BY <1>t, <2>2, <2>4, <2>9 DEF TypeOK, Waiters
<1>8. ASSUME NEW n \in Nodes, Resend(n)
      PROVE  Shape'
  <2> DEFINE o == send[n]
             m == IF o.missing # {} THEN [o EXCEPT !.pdus = <<>>]
                  ELSE [o EXCEPT !.pdus = <<>>, !.pc = "waiting"]
  <2>1. o \in Sends /\ Ready(o) /\ o.pc = "resending" /\ o.pdus # <<>> /\ Holds(n)
    BY <1>8, <1>t DEF TypeOK, Resend
  <2>2. m \in Sends /\ Ready(m)
    <3>1. m \in Sends
      BY <2>1, NoPdus DEF Sends
    <3> QED BY <2>1, <3>1, NoPdus DEF Sends, Ready
  <2>3. send' = [send EXCEPT ![n] = m] /\ UNCHANGED <<src, next, other>> /\ WritePdu(n, Head(o.pdus))
    BY <1>8 DEF Resend
  <2>4. QueueStep(n) /\ (m.pc = "resending" => Holds(n)')
    BY <1>8, <2>1 DEF QueueStep, Resend, Holds
  <2>5. m.pc \in {"resending", "waiting"}
    BY <2>1
  <2>6. Head(o.pdus) \in Pdus
    BY <2>1 DEF Sends
  <2> HIDE DEF m
  <2>7. send' \in [Nodes -> Sends] /\ queue' \in Seq(Waiters) /\ Lock' /\ \A j \in Nodes : Ready(send'[j])
    BY <2>2, <2>3, <2>4, <2>5, SendShape
  <2> QED BY <1>t, <2>1, <2>3, <2>6, <2>7, WriteTyped DEF TypeOK, Waiters, Ready
<1>9. ASSUME NEW n \in Nodes, SendRaises(n) \/ SendCancelled(n)
      PROVE  Shape'
  <2> DEFINE m == Ended(send[n], "raised")
  <2>1. m \in Sends /\ Ready(m) /\ m.pc = "idle"
    BY <1>t, EndedInOrder DEF TypeOK
  <2>2. send' = [send EXCEPT ![n] = m] /\ QueueStep(n) /\ UNCHANGED <<src, next, emitted, other, node, acks>>
    BY <1>9 DEF SendRaises, SendCancelled, QueueStep
  <2> HIDE DEF m
  <2>3. send' \in [Nodes -> Sends] /\ queue' \in Seq(Waiters) /\ Lock' /\ \A j \in Nodes : Ready(send'[j])
    BY <2>1, <2>2, SendShape
  <2> QED BY <1>t, <2>2, <2>3 DEF TypeOK, Waiters
<1>10. ASSUME NEW o \in Others, Command(o) \/ SpawnAck(o)
       PROVE  Shape'
  <2>1. PICK k \in 1..ACK_COPIES :
          other' = [other EXCEPT ![o] = [NoOther EXCEPT !.pc = "queued", !.copies = k]]
    <3>1. 1 \in 1..ACK_COPIES /\ ACK_COPIES \in 1..ACK_COPIES
      BY TxAssumption
    <3> QED BY <1>10, <3>1 DEF Command, SpawnAck
  <2> DEFINE r == [NoOther EXCEPT !.pc = "queued", !.copies = k]
  <2>2. r \in OtherStates /\ r.copies >= 1 /\ r.pc = "queued"
    <3>1. k \in 0..ACK_COPIES /\ k >= 1
      BY TxAssumption
    <3> QED BY <3>1, NoOtherTyped DEF OtherStates
  <2>3. QueueStep(o) /\ UNCHANGED <<src, emitted, send, node>>
    BY <1>10 DEF Command, SpawnAck, QueueStep
  <2>4. next' \in [Srcs -> Nat] /\ acks' \subseteq Acks
    BY <1>10, <1>t, TakeSeqTyped DEF Command, SpawnAck, TypeOK
  <2>5. other' = [other EXCEPT ![o] = r]
    BY <2>1
  <2> HIDE DEF r
  <2>6. other' \in [Others -> OtherStates] /\ queue' \in Seq(Waiters) /\ Lock' /\ \A j \in Others : other'[j].pc # "idle" => other'[j].copies >= 1
    BY <2>2, <2>3, <2>5, OtherShape
  <2> QED BY <1>t, <2>3, <2>4, <2>6 DEF TypeOK, Waiters
<1>11. ASSUME NEW o \in Others, OtherStarts(o) \/ OtherBuilds(o)
       PROVE  Shape'
  <2>1. other[o] \in OtherStates /\ other[o].copies >= 1 /\ src \in Srcs /\ other[o].src \in Srcs
    BY <1>11, <1>t DEF OtherStarts, OtherBuilds, TypeOK, OtherStates
  <2>2. next' \in [Srcs -> Nat] /\ acks' \subseteq Acks
    BY <1>11, <1>t, <2>1, TakeSeqTyped DEF OtherStarts, OtherBuilds, TypeOK
  <2>3. QueueStep(o) /\ Holds(o)' /\ UNCHANGED <<src, emitted, send, node>>
    BY <1>11 DEF OtherStarts, OtherBuilds, QueueStep, Holds
  <2>4. PICK r \in OtherStates : other' = [other EXCEPT ![o] = r] /\ r.copies >= 1
    <3>1. CASE OtherStarts(o)
      <4>1. [other[o] EXCEPT !.pc = "building", !.src = src] \in OtherStates
        BY <2>1 DEF OtherStates
      <4> QED BY <2>1, <3>1, <4>1 DEF OtherStarts, OtherStates
    <3>2. CASE OtherBuilds(o)
      <4>1. [other[o] EXCEPT !.pc = "writing", !.seq = next[other[o].src]] \in OtherStates
        BY <2>1, <1>t DEF OtherStates, TypeOK, Seqs
      <4> QED BY <2>1, <3>2, <4>1 DEF OtherBuilds, OtherStates
    <3> QED BY <1>11, <3>1, <3>2
  <2>5. other' \in [Others -> OtherStates] /\ queue' \in Seq(Waiters) /\ Lock' /\ \A j \in Others : other'[j].pc # "idle" => other'[j].copies >= 1
    BY <2>3, <2>4, OtherShape
  <2> QED BY <1>t, <2>2, <2>3, <2>5 DEF TypeOK, Waiters
<1>12. ASSUME NEW o \in Others, OtherWrites(o)
       PROVE  Shape'
  <2>1. other[o] \in OtherStates /\ other[o].copies >= 1 /\ NoOther \in OtherStates
    BY <1>12, <1>t, TxAssumption DEF OtherWrites, TypeOK, OtherStates, NoOther, Srcs
  <2>2. emitted' \in [Srcs -> Seqs \cup {-1}]
    BY <1>12, <1>t, <2>1 DEF OtherWrites, Emit, TypeOK, OtherStates
  <2> DEFINE r == IF other[o].copies = 1 THEN NoOther
                  ELSE [NoOther EXCEPT !.pc = "gap", !.copies = other[o].copies - 1]
  <2>3. r \in OtherStates /\ (r.pc # "idle" => r.copies >= 1) /\ r.pc \in {"idle", "gap"}
    <3>1. CASE other[o].copies = 1
      BY <3>1, NoOtherTyped
    <3>2. CASE other[o].copies # 1
      <4>1. other[o].copies - 1 \in 0..ACK_COPIES /\ other[o].copies - 1 >= 1
        BY <2>1, <3>2, TxAssumption DEF OtherStates
      <4> QED BY <3>2, <4>1, NoOtherTyped DEF OtherStates
    <3> QED BY <3>1, <3>2
  <2>4. other' = [other EXCEPT ![o] = r] /\ QueueStep(o) /\ UNCHANGED <<src, next, send, node, acks>>
    BY <1>12 DEF OtherWrites, QueueStep
  <2> HIDE DEF r
  <2>5. other' \in [Others -> OtherStates] /\ queue' \in Seq(Waiters) /\ Lock' /\ \A j \in Others : other'[j].pc # "idle" => other'[j].copies >= 1
    BY <2>3, <2>4, OtherShape
  <2> QED BY <1>t, <2>2, <2>4, <2>5 DEF TypeOK, Waiters
<1>13. ASSUME NEW o \in Others, NextCopy(o)
       PROVE  Shape'
  <2> DEFINE r == [other[o] EXCEPT !.pc = "queued"]
  <2>1. r \in OtherStates /\ r.copies >= 1 /\ r.pc = "queued"
    BY <1>13, <1>t DEF NextCopy, TypeOK, OtherStates
  <2>2. other' = [other EXCEPT ![o] = r] /\ QueueStep(o) /\ UNCHANGED <<src, next, emitted, send, node, acks>>
    BY <1>13 DEF NextCopy, QueueStep
  <2> HIDE DEF r
  <2>3. other' \in [Others -> OtherStates] /\ queue' \in Seq(Waiters) /\ Lock' /\ \A j \in Others : other'[j].pc # "idle" => other'[j].copies >= 1
    BY <2>1, <2>2, OtherShape
  <2> QED BY <1>t, <2>2, <2>3 DEF TypeOK, Waiters
<1>14. ASSUME NEW o \in Others, OtherRaises(o) \/ OtherCancelled(o)
       PROVE  Shape'
  <2>1. NoOther \in OtherStates /\ NoOther.pc = "idle"
    BY TxAssumption DEF OtherStates, NoOther, Srcs
  <2>2. other' = [other EXCEPT ![o] = NoOther] /\ QueueStep(o) /\ UNCHANGED <<src, next, emitted, send, node, acks>>
    BY <1>14 DEF OtherRaises, OtherCancelled, QueueStep
  <2>3. other' \in [Others -> OtherStates] /\ queue' \in Seq(Waiters) /\ Lock' /\ \A j \in Others : other'[j].pc # "idle" => other'[j].copies >= 1
    BY <2>1, <2>2, OtherShape
  <2> QED BY <1>t, <2>2, <2>3 DEF TypeOK, Waiters
<1>15. CASE Rotate
  BY <1>15, <1>t, TxAssumption DEF Rotate, TypeOK, Srcs, Lock, Holds
<1>16. ASSUME NEW n \in Nodes, NodeRefuses(n)
       PROVE  Shape'
  <2> DEFINE a == [from |-> n, to |-> node[n].src, auth |-> node[n].auth, block |-> {}]
  <2>1. a \in Acks
    BY <1>16, <1>t DEF NodeRefuses, TypeOK, Acks
  <2>2. acks' = acks \cup {a} /\ UNCHANGED <<src, next, emitted, queue, send, other, node>>
    BY <1>16 DEF NodeRefuses
  <2> HIDE DEF a
  <2> QED BY <1>t, <2>1, <2>2 DEF TypeOK, Lock, Holds
<1>17. ASSUME NEW a \in acks, AckArrives(a)
       PROVE  Shape'
  <2> DEFINE n == a.from
             o == [send[n] EXCEPT !.acked = IF IsOf(a, n) THEN @ \cup a.block ELSE @]
             m == IF Matches(a, n) THEN Recorded(o, a.block) ELSE o
  <2>1. n \in Nodes /\ a.block \in SUBSET Segments
    BY <1>t DEF TypeOK, Acks
  <2>2. send[n] \in Sends /\ Ready(send[n]) /\ IsOpen(n)
    BY <1>17, <1>t, <2>1 DEF TypeOK, AckArrives
  <2>3. o \in Sends /\ o.pc = send[n].pc
    BY <2>1, <2>2 DEF Sends
  <2>4. Ready(o)
    BY <2>1, <2>2 DEF Sends, Ready, IsOpen
  <2>5. Recorded(o, a.block) \in Sends /\ Recorded(o, a.block).pc = send[n].pc
    <3> HIDE DEF o
    <3> QED BY <2>1, <2>3 DEF Sends, Recorded
  <2>6. Ready(Recorded(o, a.block))
    <3>1. o.pc \notin {"idle", "queued", "building"}
      BY <2>2, <2>3 DEF IsOpen
    <3> HIDE DEF o
    <3> QED BY <2>1, <2>3, <2>4, <3>1 DEF Sends, Ready, Recorded
  <2>7. send' = [send EXCEPT ![n] = m] /\ QueueStep(n) /\ UNCHANGED <<src, next, emitted, other, node, acks, queue>>
    BY <1>17 DEF AckArrives, QueueStep
  <2>8. m \in Sends /\ Ready(m) /\ m.pc = send[n].pc
    BY <2>3, <2>4, <2>5, <2>6
  <2>9. m.pc \in {"building", "writing", "resending"} => Holds(n)'
    BY <2>1, <2>7, <2>8 DEF Lock, Holds
  <2> HIDE DEF m, n
  <2>10. send' \in [Nodes -> Sends] /\ queue' \in Seq(Waiters) /\ Lock' /\ \A j \in Nodes : Ready(send'[j])
    BY <2>1, <2>7, <2>8, <2>9, SendShape
  <2> QED BY <1>t, <2>7, <2>10 DEF TypeOK, Waiters
<1> QED
  BY <1>1, <1>2, <1>3, <1>4, <1>5, <1>6, <1>7, <1>8, <1>9, <1>10, <1>11, <1>12, <1>13, <1>14,
     <1>15, <1>16, <1>17 DEF Next, SendStep, OtherStep

-----------------------------------------------------------------------------
(* What a step may do to a message, to its node and to acknowledgments     *)

Same(n) ==
  /\ send'[n].src = send[n].src /\ send'[n].auth = send[n].auth
  /\ send'[n].size = send[n].size

(* The first SEQ of the message to n is taken. *)
Numbered(n) ==
  /\ HasSrc(n) /\ send[n].auth = -1
  /\ send'[n].src = send[n].src /\ send'[n].size = send[n].size
  /\ send'[n].auth = next[send[n].src] /\ send'[n].auth < next'[send[n].src]
  /\ send'[n].block = {}
  /\ node' = node /\ acks' \subseteq acks
  /\ \A a \in acks' : a.to = send[n].src => send'[n].auth < a.auth + SeqZeroSpan

SendEffect(n) ==
  \/ ~HasSrc(n)'
  \/ ~HasSrc(n) /\ send'[n].src = src /\ send'[n].auth = -1
  \/ HasSrc(n) /\ Same(n)
  \/ Numbered(n)

BlockEffect(n) ==
  HasAuth(n)' =>
    \/ send'[n].block = {}
    \/ HasAuth(n) /\ Same(n) /\ send'[n].block = send[n].block
    \/ /\ HasAuth(n) /\ Same(n) /\ node' = node
       /\ \E a \in acks : Matches(a, n) /\ send'[n].block = send[n].block \cup a.block

ResultEffect(n) ==
  send'[n].result = "true" /\ send'[n].size > 1 =>
    /\ Same(n) /\ node'[n] = node[n]
    /\ \/ send[n].result = "true"
       \/ HasAuth(n) /\ send[n].block = Size(send[n].size)

(* A segment of the message to n arrives there. *)
Arrived(n) ==
  /\ HasAuth(n)
  /\ \E i \in Size(send[n].size) :
       node'[n] = [src  |-> send[n].src, auth |-> send[n].auth,
                   have |-> IF OnIt(n, send[n].src, send[n].auth)
                            THEN node[n].have \cup {i} ELSE {i}]

NodeEffect(n) == node'[n] = node[n] \/ Arrived(n)

(* The node acknowledges the segment, or refuses what it has. *)
Acknowledged(a) ==
  /\ Arrived(a.from)
  /\ a.to = send[a.from].src /\ a.auth = send[a.from].auth
  /\ a.block = node'[a.from].have

Refused(a) ==
  /\ node' = node /\ a.block = {}
  /\ a.to = node[a.from].src /\ a.auth = node[a.from].auth
  /\ next[a.to] <= a.auth + SeqZeroSpan

AckEffect == \A a \in acks' : a \in acks \/ Acknowledged(a) \/ Refused(a)

Effect ==
  /\ src <= src'
  /\ \A s \in Srcs : next[s] <= next'[s]
  /\ \A n \in Nodes : SendEffect(n) /\ BlockEffect(n) /\ ResultEffect(n) /\ NodeEffect(n)
  /\ AckEffect

(* What is left alone is left alone. *)
LEMMA Untouched ==
  ASSUME NEW n \in Nodes, send'[n] = send[n], node'[n] = node[n]
  PROVE  SendEffect(n) /\ BlockEffect(n) /\ ResultEffect(n) /\ NodeEffect(n)
BY DEF SendEffect, BlockEffect, ResultEffect, NodeEffect, Same, HasSrc, HasAuth

(* A step of the send to n alone, at most with a SEQ taken. *)
LEMMA SendAlone ==
  ASSUME Shape, NEW n \in Nodes, NEW m, send' = [send EXCEPT ![n] = m],
         UNCHANGED <<src, node>>, \A s \in Srcs : next[s] <= next'[s], acks' \subseteq acks,
         SendEffect(n), BlockEffect(n), ResultEffect(n)
  PROVE  Effect
<1>1. \A k \in Nodes \ {n} : send'[k] = send[k] /\ node'[k] = node[k]
  BY DEF Shape, TypeOK
<1>2. src <= src'
  BY DEF Shape, TypeOK, Srcs
<1>3. NodeEffect(n)
  BY DEF NodeEffect
<1>4. AckEffect
  BY DEF AckEffect
<1>5. \A k \in Nodes \ {n} : SendEffect(k) /\ BlockEffect(k) /\ ResultEffect(k) /\ NodeEffect(k)
  BY <1>1, Untouched
<1> QED BY <1>2, <1>3, <1>4, <1>5 DEF Effect

LEMMA TakeSeqEffect ==
  ASSUME Shape, NEW s \in Srcs, TakeSeq(s)
  PROVE  /\ \A z \in Srcs : next[z] <= next'[z]
         /\ next'[s] = next[s] + 1
         /\ acks' \subseteq acks
         /\ \A a \in acks' : a.to = s => next[s] < a.auth + SeqZeroSpan
BY DEF Shape, TypeOK, TakeSeq

(* The write of a PDU of the message to n. *)
LEMMA WriteEffect ==
  ASSUME Shape, NEW n \in Nodes, HasAuth(n), NEW pdu, pdu.index \in Size(send[n].size),
         WritePdu(n, pdu), NEW m, send' = [send EXCEPT ![n] = m], UNCHANGED <<src, next>>,
         SendEffect(n), BlockEffect(n), m.result # "true" \/ m.size = 1
  PROVE  Effect
<1>0. src \in Srcs /\ next \in [Srcs -> Nat]
  BY DEF Shape, TypeOK
<1>1. src <= src' /\ \A s \in Srcs : next[s] <= next'[s]
  BY <1>0 DEF Srcs
<1> USE DEF Shape, TypeOK
<1>2. \A k \in Nodes \ {n} : send'[k] = send[k] /\ node'[k] = node[k]
  BY DEF WritePdu, Receives
<1>3. \A k \in Nodes \ {n} : SendEffect(k) /\ BlockEffect(k) /\ ResultEffect(k) /\ NodeEffect(k)
  BY <1>2, Untouched
<1>4. ResultEffect(n)
  BY DEF ResultEffect
<1>5. CASE UNCHANGED <<node, acks>>
  <2>1. NodeEffect(n) /\ AckEffect
    BY <1>5 DEF NodeEffect, AckEffect
  <2> QED BY <1>1, <1>3, <1>4, <2>1 DEF Effect
<1>6. CASE Segmented(n) /\ Receives(n, send[n].src, send[n].auth, pdu.index)
  <2> DEFINE old  == node[n]
             have == IF old.src = send[n].src /\ old.auth = send[n].auth
                     THEN old.have \cup {pdu.index} ELSE {pdu.index}
             a    == [from |-> n, to |-> send[n].src, auth |-> send[n].auth, block |-> have]
  <2>1. node'[n] = [src |-> send[n].src, auth |-> send[n].auth, have |-> have] /\ acks' = acks \cup {a}
    BY <1>6 DEF Receives
  <2>2. Arrived(n)
    BY <2>1 DEF Arrived, OnIt
  <2>3. Acknowledged(a)
    <3>1. a.from = n /\ a.to = send[n].src /\ a.auth = send[n].auth /\ a.block = have
      OBVIOUS
    <3>2. node'[n].have = have
      BY <2>1
    <3> HIDE DEF a, have
    <3> QED BY <2>2, <3>1, <3>2 DEF Acknowledged
  <2>4. NodeEffect(n) /\ AckEffect
    BY <2>1, <2>2, <2>3 DEF NodeEffect, AckEffect
  <2> QED BY <1>1, <1>3, <1>4, <2>4 DEF Effect
<1> QED BY <1>5, <1>6 DEF WritePdu

(* What a segmented message was is kept when its send returns. *)
LEMMA EndedKeeps ==
  ASSUME NEW m \in Sends, NEW result \in {"true", "false"}, m.size # 1
  PROVE  /\ Ended(m, result).pc = "idle" /\ Ended(m, result).result = result
         /\ Ended(m, result).src = m.src /\ Ended(m, result).auth = m.auth
         /\ Ended(m, result).size = m.size
<1>1. Ended(m, result) = [m EXCEPT !.pc = "idle", !.result = result, !.missing = {},
                                   !.pdus = <<>>, !.attempt = 0, !.block = {}]
  BY DEF Ended
<1> QED BY <1>1 DEF Sends

(* How a send that ends leaves its record. *)
LEMMA EndedEffect ==
  ASSUME Shape, NEW n \in Nodes, NEW result \in {"true", "false", "raised"}, send[n].pc # "idle",
         send' = [send EXCEPT ![n] = Ended(send[n], result)],
         result = "true" => HasAuth(n) /\ send[n].block = Size(send[n].size)
                            /\ node'[n] = node[n]
  PROVE  SendEffect(n) /\ BlockEffect(n) /\ ResultEffect(n)
<1>1. send[n] \in Sends /\ send'[n] = Ended(send[n], result)
  BY DEF Shape, TypeOK
<1>2. CASE send[n].size = 1 \/ result = "raised"
  <2>1. send'[n] = [NoSend EXCEPT !.result = result]
    BY <1>1, <1>2 DEF Ended
  <2>2. send'[n].pc = "idle" /\ send'[n].size = 1
    BY <2>1 DEF NoSend
  <2> QED BY <2>2 DEF SendEffect, BlockEffect, ResultEffect, HasSrc, HasAuth
<1>3. CASE ~(send[n].size = 1 \/ result = "raised")
  <2>2. send'[n].pc = "idle" /\ send'[n].result = result /\ Same(n)
    BY <1>1, <1>3, EndedKeeps DEF Same
  <2> QED BY <2>2 DEF SendEffect, BlockEffect, ResultEffect, HasSrc, HasAuth
<1> QED BY <1>2, <1>3

(* A send that goes on with the same message and the same block. *)
LEMMA SameEffect ==
  ASSUME NEW n \in Nodes, HasSrc(n), HasSrc(n)', Same(n), send'[n].result = send[n].result,
         send[n].result # "true", send'[n].block = send[n].block
  PROVE  SendEffect(n) /\ BlockEffect(n) /\ ResultEffect(n)
BY DEF SendEffect, BlockEffect, ResultEffect, HasAuth, Same

LEMMA StepEffect ==
  ASSUME Shape, Next
  PROVE  Effect
<1>t. TypeOK /\ Lock /\ (\A n \in Nodes : send[n] \in Sends /\ Ready(send[n]))
  BY DEF Shape, TypeOK
<1>s. next' = next => \A s \in Srcs : next[s] <= next'[s]
  BY <1>t DEF TypeOK
<1>1. ASSUME NEW n \in Nodes, Begin(n)
      PROVE  Effect
  <2>1. PICK k \in 1..MaxSegments :
          send' = [send EXCEPT ![n] = [NoSend EXCEPT !.pc = "queued", !.size = k]]
    BY <1>1 DEF Begin
  <2>2. send'[n] = [NoSend EXCEPT !.pc = "queued", !.size = k]
    BY <1>t, <2>1 DEF TypeOK
  <2>3. send'[n].pc = "queued" /\ send'[n].result = "none"
    BY <2>2 DEF NoSend
  <2>4. SendEffect(n) /\ BlockEffect(n) /\ ResultEffect(n)
    BY <2>3 DEF SendEffect, BlockEffect, ResultEffect, HasSrc, HasAuth
  <2> QED BY <1>1, <1>s, <2>1, <2>4, SendAlone DEF Begin
<1>2. ASSUME NEW n \in Nodes, StartBuild(n)
      PROVE  Effect
  <2> DEFINE m == [send[n] EXCEPT !.pc = "building", !.src = src, !.missing = Size(send[n].size)]
  <2>1. send' = [send EXCEPT ![n] = m] /\ UNCHANGED <<src, next, node, acks>>
    BY <1>2 DEF StartBuild
  <2>2. send'[n] = m
    BY <1>t, <2>1 DEF TypeOK
  <2>3. send[n].pc = "queued" /\ send'[n].src = src /\ send'[n].auth = -1 /\ send'[n].result = "none"
    <3>1. send[n].pc = "queued" /\ send[n].auth = -1 /\ send[n].result = "none" /\ send[n] \in Sends
      BY <1>2, <1>t DEF StartBuild, Ready
    <3>2. m.src = src /\ m.auth = send[n].auth /\ m.result = send[n].result
      BY <3>1 DEF Sends
    <3> QED BY <2>2, <3>1, <3>2
  <2>4. SendEffect(n) /\ BlockEffect(n) /\ ResultEffect(n)
    BY <2>3 DEF SendEffect, BlockEffect, ResultEffect, HasSrc, HasAuth
  <2> QED BY <1>s, <2>1, <2>4, SendAlone
<1>3. ASSUME NEW n \in Nodes, BuildSegment(n)
      PROVE  Effect
  <2> DEFINE o     == send[n]
             index == First(o.missing)
             m     == [o EXCEPT !.pdus    = Append(@, [index |-> index, seq |-> next[o.src]]),
                                !.auth    = IF @ = -1 THEN next[o.src] ELSE @,
                                !.missing = @ \ {index},
                                !.pc      = IF o.missing = {index} THEN "writing" ELSE @]
  <2>1. o \in Sends /\ Ready(o) /\ o.pc = "building" /\ o.src \in Srcs
    BY <1>3, <1>t DEF BuildSegment, Sends
  <2>2. TakeSeq(o.src) /\ send' = [send EXCEPT ![n] = m] /\ UNCHANGED <<src, emitted, queue, other, node>>
    BY <1>3 DEF BuildSegment
  <2>3. send'[n] = m
    BY <1>t, <2>2 DEF TypeOK
  <2>4. /\ \A z \in Srcs : next[z] <= next'[z]
        /\ next'[o.src] = next[o.src] + 1 /\ next[o.src] \in Nat
        /\ acks' \subseteq acks
        /\ \A a \in acks' : a.to = o.src => next[o.src] < a.auth + SeqZeroSpan
    BY <1>t, <2>1, <2>2, TakeSeqEffect DEF TypeOK
  <2>5. /\ send'[n].src = o.src /\ send'[n].size = o.size /\ send'[n].block = {}
        /\ send'[n].result = "none" /\ o.result = "none" /\ o.block = {}
        /\ send'[n].auth = IF o.auth = -1 THEN next[o.src] ELSE o.auth
        /\ send'[n].pc \in {"building", "writing"}
    BY <2>1, <2>3 DEF Sends, Ready
  <2> HIDE DEF m
  <2>6. CASE o.auth = -1
    <3>1. Numbered(n)
      BY <2>1, <2>2, <2>4, <2>5, <2>6 DEF Numbered, HasSrc
    <3>2. SendEffect(n) /\ BlockEffect(n) /\ ResultEffect(n)
      BY <2>5, <3>1 DEF SendEffect, BlockEffect, ResultEffect
    <3> QED BY <2>2, <2>4, <3>2, SendAlone
  <2>7. CASE o.auth # -1
    <3>1. SendEffect(n) /\ BlockEffect(n) /\ ResultEffect(n)
      BY <2>1, <2>5, <2>7, SameEffect DEF HasSrc, Same
    <3> QED BY <2>2, <2>4, <3>1, SendAlone
  <2> QED BY <2>6, <2>7
<1>4. ASSUME NEW n \in Nodes, Write(n)
      PROVE  Effect
  <2> DEFINE o    == send[n]
             rest == [o EXCEPT !.pdus = Tail(@)]
  <2>1. o \in Sends /\ Ready(o) /\ o.pc = "writing" /\ o.pdus # <<>>
    BY <1>4, <1>t DEF Write, Ready
  <2>2. HasAuth(n) /\ Head(o.pdus).index \in Size(o.size) /\ o.result = "none"
    BY <2>1 DEF HasAuth, HasSrc, Ready, Sends
  <2>3. WritePdu(n, Head(o.pdus)) /\ UNCHANGED <<src, next>>
    BY <1>4 DEF Write
  <2>4. PICK m : /\ send' = [send EXCEPT ![n] = m]
                 /\ \/ m = rest
                    \/ m = [rest EXCEPT !.pc = "waiting"]
                    \/ o.size = 1 /\ m = Ended(rest, "true")
    <3>1. rest.size = o.size
      BY <2>1 DEF Sends
    <3> QED BY <1>4, <3>1 DEF Write, AfterWriting
  <2>5. send'[n] = m
    BY <1>t, <2>4 DEF TypeOK
  <2>6. CASE m = rest \/ m = [rest EXCEPT !.pc = "waiting"]
    <3>1. /\ m.pc \in {"writing", "waiting"} /\ m.src = o.src /\ m.auth = o.auth
          /\ m.size = o.size /\ m.block = o.block /\ m.result = o.result
      BY <2>1, <2>6 DEF Sends
    <3>2. SendEffect(n) /\ BlockEffect(n)
      BY <2>2, <2>5, <3>1, SameEffect DEF HasAuth, HasSrc, Same
    <3> QED BY <2>2, <2>3, <2>4, <3>1, <3>2, WriteEffect
  <2>7. CASE o.size = 1 /\ m = Ended(rest, "true")
    <3>1. m = [NoSend EXCEPT !.result = "true"]
      BY <2>1, <2>7 DEF Ended, Sends
    <3>2. m.pc = "idle" /\ m.size = 1
      BY <3>1 DEF NoSend
    <3>3. SendEffect(n) /\ BlockEffect(n)
      BY <2>5, <3>2 DEF SendEffect, BlockEffect, HasSrc, HasAuth
    <3> QED BY <2>2, <2>3, <2>4, <3>2, <3>3, WriteEffect
  <2> QED BY <2>4, <2>6, <2>7
<1>5. ASSUME NEW n \in Nodes, WaitEnds(n)
      PROVE  Effect
  <2>1. send' = [send EXCEPT ![n] = Outcome(send[n])] /\ send[n].pc = "waiting"
        /\ UNCHANGED <<src, next, node, acks>>
    BY <1>5 DEF WaitEnds
  <2>2. SendEffect(n) /\ BlockEffect(n) /\ ResultEffect(n)
    BY <1>t, <2>1, EndedEffect DEF Outcome, Complete, HasAuth, HasSrc, Ready
  <2> QED BY <1>s, <2>1, <2>2, SendAlone
<1>6. ASSUME NEW n \in Nodes, Timeout(n)
      PROVE  Effect
  <2> DEFINE o == send[n]
             m == [o EXCEPT !.pc = "requeued", !.attempt = @ + 1,
                            !.missing = Size(o.size) \ o.block]
  <2>1. o \in Sends /\ Ready(o) /\ o.pc = "waiting" /\ UNCHANGED <<src, next, node, acks>>
    BY <1>6, <1>t DEF Timeout
  <2>2. CASE send' = [send EXCEPT ![n] = Outcome(o)]
    <3>1. SendEffect(n) /\ BlockEffect(n) /\ ResultEffect(n)
      BY <2>1, <2>2, EndedEffect DEF Outcome, Complete, HasAuth, HasSrc, Ready
    <3> QED BY <1>s, <2>1, <2>2, <3>1, SendAlone
  <2>3. CASE send' = [send EXCEPT ![n] = m]
    <3>1. send'[n] = m
      BY <1>t, <2>3 DEF TypeOK
    <3>2. /\ m.pc = "requeued" /\ m.src = o.src /\ m.auth = o.auth /\ m.size = o.size
          /\ m.block = o.block /\ m.result = o.result
      BY <2>1 DEF Sends
    <3>3. SendEffect(n) /\ BlockEffect(n) /\ ResultEffect(n)
      BY <2>1, <3>1, <3>2, SameEffect DEF HasSrc, Same, Ready
    <3> QED BY <1>s, <2>1, <2>3, <3>3, SendAlone
  <2> QED BY <1>6, <2>2, <2>3 DEF Timeout
<1>7. ASSUME NEW n \in Nodes, Rewrap(n)
      PROVE  Effect
  <2> DEFINE o     == send[n]
             index == First(o.missing)
             m     == [o EXCEPT !.pc = "resending", !.missing = @ \ {index},
                                !.pdus = <<[index |-> index, seq |-> next[o.src]]>>]
  <2>1. o \in Sends /\ Ready(o) /\ o.pc \in {"requeued", "resending"} /\ o.src \in Srcs
    BY <1>7, <1>t DEF Rewrap, Sends
  <2>2. TakeSeq(o.src) /\ send' = [send EXCEPT ![n] = m] /\ UNCHANGED <<src, node>>
    BY <1>7 DEF Rewrap
  <2>3. send'[n] = m
    BY <1>t, <2>2 DEF TypeOK
  <2>4. /\ m.pc = "resending" /\ m.src = o.src /\ m.auth = o.auth /\ m.size = o.size
        /\ m.block = o.block /\ m.result = o.result
    BY <2>1 DEF Sends
  <2> HIDE DEF m
  <2>5. SendEffect(n) /\ BlockEffect(n) /\ ResultEffect(n)
    BY <2>1, <2>3, <2>4, SameEffect DEF HasSrc, Same, Ready
  <2>6. (\A z \in Srcs : next[z] <= next'[z]) /\ acks' \subseteq acks
    BY <2>1, <2>2, TakeSeqEffect
  <2> QED BY <2>2, <2>5, <2>6, SendAlone
<1>8. ASSUME NEW n \in Nodes, Resend(n)
      PROVE  Effect
  <2> DEFINE o == send[n]
  <2>1. o \in Sends /\ Ready(o) /\ o.pc = "resending" /\ o.pdus # <<>>
    BY <1>8, <1>t DEF Resend
  <2>2. HasAuth(n) /\ Head(o.pdus).index \in Size(o.size) /\ o.result = "none"
    BY <2>1 DEF HasAuth, HasSrc, Ready, Sends
  <2>3. WritePdu(n, Head(o.pdus)) /\ UNCHANGED <<src, next>>
    BY <1>8 DEF Resend
  <2>4. PICK m : /\ send' = [send EXCEPT ![n] = m]
                 /\ \/ m = [o EXCEPT !.pdus = <<>>]
                    \/ m = [o EXCEPT !.pdus = <<>>, !.pc = "waiting"]
    BY <1>8 DEF Resend
  <2>5. send'[n] = m
    BY <1>t, <2>4 DEF TypeOK
  <2>6. /\ m.pc \in {"resending", "waiting"} /\ m.src = o.src /\ m.auth = o.auth
        /\ m.size = o.size /\ m.block = o.block /\ m.result = o.result
    BY <2>1, <2>4 DEF Sends
  <2>7. SendEffect(n) /\ BlockEffect(n)
    BY <2>2, <2>5, <2>6, SameEffect DEF HasAuth, HasSrc, Same
  <2> QED BY <2>2, <2>3, <2>4, <2>6, <2>7, WriteEffect
<1>9. ASSUME NEW n \in Nodes, SendRaises(n) \/ SendCancelled(n)
      PROVE  Effect
  <2>1. send' = [send EXCEPT ![n] = Ended(send[n], "raised")] /\ UNCHANGED <<src, next, node, acks>>
    BY <1>9, <1>t DEF SendRaises, SendCancelled, TypeOK
  <2>2. send'[n] = [NoSend EXCEPT !.result = "raised"]
    BY <1>t, <2>1 DEF TypeOK, Ended
  <2>3. send'[n].pc = "idle" /\ send'[n].result = "raised"
    BY <2>2 DEF NoSend
  <2>4. SendEffect(n) /\ BlockEffect(n) /\ ResultEffect(n)
    BY <2>3 DEF SendEffect, BlockEffect, ResultEffect, HasSrc, HasAuth
  <2> QED BY <1>s, <2>1, <2>4, SendAlone
<1>10. ASSUME UNCHANGED <<send, node>>, src <= src', acks' \subseteq acks,
              \A s \in Srcs : next[s] <= next'[s]
       PROVE  Effect
  BY <1>10, Untouched DEF Effect, AckEffect
<1>11. ASSUME NEW o \in Others, Command(o) \/ SpawnAck(o) \/ OtherStep(o) \/ OtherCancelled(o)
       PROVE  Effect
  <2>1. UNCHANGED <<send, node>> /\ src' = src
    BY <1>11 DEF Command, SpawnAck, OtherStep, OtherStarts, OtherBuilds, OtherWrites, NextCopy,
                 OtherRaises, OtherCancelled
  <2>2. UNCHANGED <<next, acks>> \/ \E s \in Srcs : TakeSeq(s)
    BY <1>11, <1>t DEF Command, SpawnAck, OtherStep, OtherStarts, OtherBuilds, OtherWrites,
         NextCopy, OtherRaises, OtherCancelled, TypeOK, OtherStates
  <2>3. src <= src'
    BY <1>t, <2>1 DEF TypeOK, Srcs
  <2>4. (\A z \in Srcs : next[z] <= next'[z]) /\ acks' \subseteq acks
    BY <1>s, <2>2, TakeSeqEffect
  <2> QED BY <1>10, <2>1, <2>3, <2>4
<1>12. CASE Rotate
  <2>1. UNCHANGED <<send, node, next, acks>> /\ src' = src + 1
    BY <1>12 DEF Rotate
  <2>2. src <= src'
    BY <1>t, <2>1 DEF TypeOK, Srcs
  <2> QED BY <1>10, <1>s, <2>1, <2>2
<1>13. ASSUME NEW n \in Nodes, NodeRefuses(n)
       PROVE  Effect
  <2> DEFINE a == [from |-> n, to |-> node[n].src, auth |-> node[n].auth, block |-> {}]
  <2>1. acks' = acks \cup {a} /\ UNCHANGED <<src, next, send, node>>
        /\ next[node[n].src] <= node[n].auth + SeqZeroSpan
    BY <1>13 DEF NodeRefuses
  <2>2. Refused(a)
    BY <2>1 DEF Refused
  <2> HIDE DEF a
  <2>3. AckEffect
    BY <2>1, <2>2 DEF AckEffect
  <2>4. src <= src'
    BY <1>t, <2>1 DEF TypeOK, Srcs
  <2> QED BY <1>s, <2>1, <2>3, <2>4, Untouched DEF Effect
<1>14. ASSUME NEW a \in acks, AckArrives(a)
       PROVE  Effect
  <2> DEFINE n == a.from
             o == [send[n] EXCEPT !.acked = IF IsOf(a, n) THEN @ \cup a.block ELSE @]
             m == IF Matches(a, n) THEN Recorded(o, a.block) ELSE o
  <2>1. n \in Nodes
    BY <1>t DEF TypeOK, Acks
  <2>2. send[n] \in Sends /\ Ready(send[n])
    BY <1>t, <2>1
  <2>3. IsOpen(n) /\ send' = [send EXCEPT ![n] = m] /\ UNCHANGED <<src, next, node, acks>>
    BY <1>14 DEF AckArrives
  <2>4. send'[n] = m
    BY <1>t, <2>1, <2>3 DEF TypeOK
  <2>5. /\ o.pc = send[n].pc /\ o.src = send[n].src /\ o.auth = send[n].auth
        /\ o.size = send[n].size /\ o.block = send[n].block /\ o.result = send[n].result
        /\ o \in Sends
    BY <1>t, <2>2 DEF Sends, TypeOK, Acks
  <2>6. /\ m.pc = send[n].pc /\ m.src = send[n].src /\ m.auth = send[n].auth
        /\ m.size = send[n].size /\ m.result = send[n].result
        /\ m.block = IF Matches(a, n) THEN send[n].block \cup a.block ELSE send[n].block
    <3> HIDE DEF o
    <3> QED BY <2>5 DEF Recorded, Sends
  <2> HIDE DEF m, o
  <2>7. HasAuth(n) /\ send[n].result = "none"
    BY <2>2, <2>3 DEF IsOpen, HasAuth, HasSrc, Ready
  <2>8. Same(n) /\ send'[n].result = "none"
    BY <2>4, <2>6, <2>7 DEF Same
  <2>9. BlockEffect(n)
    BY <2>3, <2>4, <2>6, <2>7, <2>8 DEF BlockEffect
  <2>10. SendEffect(n) /\ ResultEffect(n)
    BY <2>7, <2>8 DEF SendEffect, ResultEffect, HasAuth
  <2> HIDE DEF n
  <2> QED BY <1>s, <2>1, <2>3, <2>9, <2>10, SendAlone
<1> QED
  BY <1>1, <1>2, <1>3, <1>4, <1>5, <1>6, <1>7, <1>8, <1>9, <1>11, <1>12, <1>13, <1>14
  DEF Next, SendStep

-----------------------------------------------------------------------------
(* What is said about messages stays true                                  *)

(* The types that arithmetic needs. *)
Numbers ==
  /\ src \in Nat /\ \A s \in Srcs : s \in Nat /\ next[s] \in Nat
  /\ \A n \in Nodes : /\ send[n].src \in Srcs /\ send[n].auth \in Nat \cup {-1}
                      /\ send[n].block \subseteq Segments
                      /\ node[n].src \in Srcs /\ node[n].auth \in Nat \cup {-1}
  /\ \A a \in acks : /\ a.from \in Nodes /\ a.to \in Srcs /\ a.auth \in Nat
                     /\ a.block \subseteq Segments

LEMMA Typed == Shape => Numbers
<1> SUFFICES ASSUME TypeOK PROVE Numbers
  BY DEF Shape
<1>1. src \in Nat /\ \A s \in Srcs : s \in Nat /\ next[s] \in Nat
  BY TxAssumption DEF TypeOK, Srcs
<1>2. \A n \in Nodes : send[n].src \in Srcs /\ send[n].auth \in Nat \cup {-1} /\ send[n].block \subseteq Segments
  BY DEF TypeOK, Sends, Seqs
<1>3. \A n \in Nodes : node[n].src \in Srcs /\ node[n].auth \in Nat \cup {-1}
  BY DEF TypeOK, Seqs
<1>4. \A a \in acks : a.from \in Nodes /\ a.to \in Srcs /\ a.auth \in Nat /\ a.block \subseteq Segments
  BY DEF TypeOK, Acks, Seqs
<1> QED BY <1>1, <1>2, <1>3, <1>4 DEF Numbers

LEMMA TypedNext == Shape' => Numbers'
BY Typed, PTL

(* What arrives at a node is of the message being sent to it. *)
LEMMA ArrivedIs ==
  ASSUME NEW n \in Nodes, Arrived(n)
  PROVE  /\ HasAuth(n) /\ node'[n].src = send[n].src /\ node'[n].auth = send[n].auth
         /\ OnIt(n, send[n].src, send[n].auth) => node[n].have \subseteq node'[n].have
         /\ node'[n].have # {}
BY DEF Arrived

LEMMA BegunStep ==
  ASSUME Shape, Shape', Begun, Effect
  PROVE  Begun'
<1>t. /\ src \in Nat /\ src' \in Nat
      /\ (\A s \in Srcs : next[s] \in Nat /\ next'[s] \in Nat /\ s \in Nat /\ next[s] <= next'[s])
      /\ src <= src'
  BY Typed, TypedNext DEF Effect, Numbers
<1>1. ASSUME NEW n \in Nodes, HasSrc(n)'
      PROVE  send'[n].src <= src' /\ (HasAuth(n)' => send'[n].auth < next'[send'[n].src])
  <2>1. send[n].src \in Srcs /\ send'[n].src \in Srcs /\ send[n].auth \in Nat \cup {-1}
    BY Typed, TypedNext DEF Numbers
  <2>2. CASE ~HasSrc(n) /\ send'[n].src = src /\ send'[n].auth = -1
    BY <1>t, <2>2 DEF HasAuth
  <2>3. CASE HasSrc(n) /\ Same(n)
    <3>1. HasAuth(n)' => HasAuth(n)
      BY <2>3 DEF HasAuth, Same
    <3> QED BY <1>t, <2>1, <2>3, <3>1 DEF Same, Begun
  <2>4. CASE Numbered(n)
    BY <1>t, <2>1, <2>4 DEF Numbered, Begun
  <2> QED BY <1>1, <2>2, <2>3, <2>4 DEF Effect, SendEffect
<1>2. ASSUME NEW n \in Nodes
      PROVE  node'[n].src <= src' /\ node'[n].auth < next'[node'[n].src]
  <2>1. /\ send[n].src \in Srcs /\ send[n].auth \in Nat \cup {-1}
        /\ node[n].src \in Srcs /\ node[n].auth \in Nat \cup {-1}
    BY Typed DEF Numbers
  <2>2. CASE node'[n] = node[n]
    BY <1>t, <2>1, <2>2 DEF Begun
  <2>3. CASE Arrived(n)
    BY <1>t, <2>1, <2>3, ArrivedIs DEF Begun, HasAuth
  <2> QED BY <2>2, <2>3 DEF Effect, NodeEffect
<1>3. ASSUME NEW a \in acks'
      PROVE  a.to <= src' /\ a.auth < next'[a.to]
  <2>1. a.from \in Nodes /\ a.to \in Srcs /\ a.auth \in Nat
    BY Typed, TypedNext DEF Numbers
  <2>2. CASE a \in acks
    BY <1>t, <2>1, <2>2 DEF Begun
  <2>3. CASE Acknowledged(a)
    BY <1>t, <2>1, <2>3, ArrivedIs DEF Begun, HasAuth, Acknowledged
  <2>4. CASE Refused(a)
    BY <1>t, <2>1, <2>4 DEF Begun, Refused
  <2> QED BY <2>2, <2>3, <2>4 DEF Effect, AckEffect
<1> QED BY <1>1, <1>2, <1>3 DEF Begun, HasAuth

LEMMA NewestStep ==
  ASSUME Shape, Shape', Begun, Newest, Effect
  PROVE  Newest'
<1>t. /\ src \in Nat /\ SeqZeroSpan \in Nat \ {0}
      /\ (\A s \in Srcs : next[s] \in Nat /\ s \in Nat)
  BY Typed, TxAssumption DEF Numbers
<1> SUFFICES ASSUME NEW n \in Nodes, HasSrc(n)'
             PROVE  /\ node'[n].src <= send'[n].src
                    /\ \A a \in acks' : a.from = n => a.to <= send'[n].src
                    /\ HasAuth(n)' =>
                         /\ node'[n].src = send'[n].src => node'[n].auth <= send'[n].auth
                         /\ \A a \in acks' : a.from = n /\ a.to = send'[n].src =>
                              a.auth = send'[n].auth
                              \/ (a.auth < send'[n].auth /\ send'[n].auth < a.auth + SeqZeroSpan)
  BY DEF Newest, HasAuth
<1>n. /\ send[n].src \in Srcs /\ send[n].auth \in Nat \cup {-1}
      /\ node[n].src \in Srcs /\ node[n].auth \in Nat \cup {-1}
      /\ \A a \in acks : a.from \in Nodes /\ a.to \in Srcs /\ a.auth \in Nat
  BY Typed DEF Numbers
<1>a. \A a \in acks' : a.from \in Nodes /\ a.to \in Srcs /\ a.auth \in Nat
  BY Typed, TypedNext DEF Numbers
(* The message is only now given its SRC. *)
<1>1. CASE ~HasSrc(n) /\ send'[n].src = src /\ send'[n].auth = -1
  <2>1. node'[n] = node[n]
    BY <1>1, ArrivedIs DEF Effect, NodeEffect, HasAuth
  <2>2. ASSUME NEW a \in acks', a.from = n
        PROVE  a.to <= src
    <3>1. ~Acknowledged(a)
      BY <1>1, <2>2, ArrivedIs DEF Acknowledged, HasAuth
    <3>2. CASE a \in acks
      BY <3>2 DEF Begun
    <3>3. CASE Refused(a)
      BY <2>2, <3>3 DEF Refused, Begun
    <3> QED BY <3>1, <3>2, <3>3 DEF Effect, AckEffect
  <2> QED BY <1>1, <2>1, <2>2 DEF Begun, HasAuth
(* It goes on. *)
<1>2. CASE HasSrc(n) /\ Same(n)
  <2>1. HasAuth(n)' => HasAuth(n)
    BY <1>2 DEF HasAuth, Same
  <2>2. node'[n].src <= send[n].src
        /\ (HasAuth(n) => (node'[n].src = send[n].src => node'[n].auth <= send[n].auth))
    <3>1. CASE node'[n] = node[n]
      BY <1>2, <3>1 DEF Newest
    <3>2. CASE Arrived(n)
      BY <1>t, <1>n, <3>2, ArrivedIs
    <3> QED BY <3>1, <3>2 DEF Effect, NodeEffect
  <2>3. ASSUME NEW a \in acks', a.from = n
        PROVE  /\ a.to <= send[n].src
               /\ HasAuth(n) /\ a.to = send[n].src =>
                    a.auth = send[n].auth
                    \/ (a.auth < send[n].auth /\ send[n].auth < a.auth + SeqZeroSpan)
    <3>1. CASE a \in acks
      BY <1>2, <2>3, <3>1 DEF Newest
    <3>2. CASE Acknowledged(a)
      BY <1>t, <1>n, <2>3, <3>2 DEF Acknowledged
    <3>3. CASE Refused(a)
      <4>1. a.to = node[n].src /\ a.auth = node[n].auth /\ next[a.to] <= a.auth + SeqZeroSpan
        BY <2>3, <3>3 DEF Refused
      <4>2. a.to <= send[n].src
        BY <1>2, <4>1 DEF Newest
      <4>3. ASSUME HasAuth(n), a.to = send[n].src
            PROVE  a.auth <= send[n].auth /\ send[n].auth < next[a.to]
        BY <4>1, <4>3 DEF Newest, Begun
      <4> QED BY <1>t, <1>n, <1>a, <4>1, <4>2, <4>3
    <3> QED BY <3>1, <3>2, <3>3 DEF Effect, AckEffect
  <2> QED BY <1>2, <2>1, <2>2, <2>3 DEF Same
(* It is only now given its SeqAuth, which is above all there were. *)
<1>3. CASE Numbered(n)
  <2>1. node'[n] = node[n] /\ acks' \subseteq acks
    BY <1>3 DEF Numbered
  <2>2. node[n].src <= send[n].src /\ \A a \in acks : a.from = n => a.to <= send[n].src
    BY <1>3 DEF Newest, Numbered
  <2>3. node[n].src = send[n].src => node[n].auth <= send'[n].auth
    BY <1>t, <1>n, <1>3 DEF Begun, Numbered
  <2>4. ASSUME NEW a \in acks', a.to = send[n].src
        PROVE  a.auth < send'[n].auth /\ send'[n].auth < a.auth + SeqZeroSpan
    BY <1>3, <2>1, <2>4 DEF Begun, Numbered
  <2> QED BY <1>3, <2>1, <2>2, <2>3, <2>4 DEF Numbered
<1> QED BY <1>1, <1>2, <1>3 DEF Effect, SendEffect

(* SEQs less than a span apart have different SeqZeros. *)
LEMMA OtherSeqZero ==
  ASSUME NEW a \in Nat, NEW b \in Nat, a < b, b < a + SeqZeroSpan
  PROVE  Zero(a) # Zero(b)
<1> DEFINE K == SeqZeroSpan
<1>1. K \in Nat \ {0}
  BY TxAssumption
<1> HIDE DEF K
<1> SUFFICES ASSUME a % K = b % K
             PROVE  FALSE
  BY DEF Zero, K
<1>2. PICK p \in Int, q \in Int : a = K * p + (a % K) /\ b = K * q + (b % K)
  <2>1. a = K * (a \div K) + (a % K) /\ a \div K \in Int
    BY <1>1
  <2>2. b = K * (b \div K) + (b % K) /\ b \div K \in Int
    BY <1>1
  <2> QED BY <2>1, <2>2
<1>3. a % K \in Int
  BY <1>1
<1>4. b - a = K * q - K * p
  BY <1>1, <1>2, <1>3
<1>5. K * q - K * p = K * (q - p)
  BY <1>1
<1>6. \A d \in Int : 0 < K * d => K <= K * d
  BY <1>1
<1>7. 0 < b - a /\ b - a < K
  BY <1>1 DEF K
<1>8. q - p \in Int /\ b - a = K * (q - p)
  BY <1>4, <1>5
<1>9. 0 < K * (q - p)
  BY <1>7, <1>8
<1> QED BY <1>1, <1>6, <1>7, <1>8, <1>9

LEMMA TruthStep ==
  ASSUME IInv, Shape', Begun', Effect
  PROVE  Truth'
<1> USE DEF IInv
<1>t. Numbers /\ Numbers'
  BY Typed, TypedNext
<1>1. ASSUME NEW a \in acks', OnIt(a.from, a.to, a.auth)'
      PROVE  a.block \subseteq node'[a.from].have
  <2> DEFINE n == a.from
  <2>1. n \in Nodes
    BY <1>t DEF Numbers
  <2>2. CASE a \in acks
    <3>1. CASE node'[n] = node[n]
      BY <1>1, <2>2, <3>1 DEF Truth, OnIt
    <3>2. CASE node'[n] # node[n]
      <4>1. HasAuth(n) /\ node'[n].src = send[n].src /\ node'[n].auth = send[n].auth
            /\ (OnIt(n, send[n].src, send[n].auth) => node[n].have \subseteq node'[n].have)
        BY <2>1, <3>2, ArrivedIs DEF Effect, NodeEffect
      <4>2. a.to = send[n].src /\ a.auth = send[n].auth
        BY <1>1, <4>1 DEF OnIt
      <4>3. OnIt(n, send[n].src, send[n].auth)
        BY <2>1, <2>2, <4>1, <4>2 DEF Truth
      <4>4. a.block \subseteq node[n].have
        BY <2>2, <4>2, <4>3 DEF Truth
      <4> QED BY <4>1, <4>3, <4>4
    <3> QED BY <3>1, <3>2
  <2>3. CASE Acknowledged(a) \/ Refused(a)
    BY <2>3 DEF Acknowledged, Refused
  <2> QED BY <2>2, <2>3 DEF Effect, AckEffect
<1>2. ASSUME NEW n \in Nodes, HasAuth(n)', NEW a \in acks',
             a.from = n, a.to = send'[n].src, a.auth = send'[n].auth
      PROVE  node'[n].src = send'[n].src /\ node'[n].auth = send'[n].auth
  <2>1. CASE HasAuth(n) /\ Same(n)
    <3>1. CASE a \in acks
      <4>1. OnIt(n, send[n].src, send[n].auth)
        BY <1>2, <2>1, <3>1 DEF Truth, Same
      <4> QED BY <2>1, <4>1, ArrivedIs DEF Effect, NodeEffect, OnIt, Same
    <3>2. CASE Acknowledged(a)
      BY <1>2, <2>1, <3>2, ArrivedIs DEF Acknowledged, Same
    <3>3. CASE Refused(a)
      BY <1>2, <3>3 DEF Refused
    <3> QED BY <3>1, <3>2, <3>3 DEF Effect, AckEffect
  <2>2. CASE Numbered(n)
    <3>1. a \in acks /\ a.auth = next[a.to]
      BY <1>2, <2>2 DEF Numbered
    <3>2. a.auth < next[a.to] /\ a.to \in Srcs
      BY <1>t, <3>1 DEF Begun, Numbers
    <3> QED BY <1>t, <3>1, <3>2 DEF Numbers
  <2> QED BY <1>2, <2>1, <2>2 DEF Effect, SendEffect, HasAuth, Same
<1>3. ASSUME NEW n \in Nodes, HasAuth(n)', send'[n].block # {}
      PROVE  /\ node'[n].src = send'[n].src /\ node'[n].auth = send'[n].auth
             /\ send'[n].block \subseteq node'[n].have
  <2>1. CASE HasAuth(n) /\ Same(n) /\ send'[n].block = send[n].block
    <3>1. OnIt(n, send[n].src, send[n].auth) /\ send[n].block \subseteq node[n].have
      BY <1>3, <2>1 DEF Truth
    <3> QED BY <2>1, <3>1, ArrivedIs DEF Effect, NodeEffect, OnIt, Same
  <2>2. ASSUME HasAuth(n), Same(n), node' = node, NEW a \in acks, Matches(a, n),
               send'[n].block = send[n].block \cup a.block
        PROVE  /\ node'[n].src = send'[n].src /\ node'[n].auth = send'[n].auth
               /\ send'[n].block \subseteq node'[n].have
    <3>1. a.from = n /\ a.to = src /\ Zero(a.auth) = Zero(send[n].auth)
      BY <2>2 DEF Matches
    <3>2. a.to = send[n].src
      <4>1. a.to <= send[n].src /\ send[n].src <= src
        BY <2>2, <3>1 DEF Newest, Begun, HasAuth
      <4> QED BY <1>t, <3>1, <4>1 DEF Numbers
    <3>3. a.auth = send[n].auth
      <4>1. a.auth = send[n].auth
            \/ (a.auth < send[n].auth /\ send[n].auth < a.auth + SeqZeroSpan)
        BY <2>2, <3>1, <3>2 DEF Newest
      <4>2. a.auth \in Nat /\ send[n].auth \in Nat
        BY <1>t, <2>2 DEF Numbers, HasAuth
      <4> QED BY <3>1, <4>1, <4>2, OtherSeqZero
    <3>4. OnIt(n, send[n].src, send[n].auth)
      BY <2>2, <3>1, <3>2, <3>3 DEF Truth
    <3>5. a.block \subseteq node[n].have /\ send[n].block \subseteq node[n].have
      BY <2>2, <3>1, <3>2, <3>3, <3>4 DEF Truth
    <3> QED BY <2>2, <3>4, <3>5 DEF Same, OnIt
  <2> QED BY <1>3, <2>1, <2>2 DEF Effect, BlockEffect
<1>4. ASSUME NEW n \in Nodes, HasAuth(n)',
             node'[n].src = send'[n].src, node'[n].auth = send'[n].auth
      PROVE  node'[n].have \subseteq Size(send'[n].size)
  <2>1. CASE HasAuth(n) /\ Same(n)
    <3>1. CASE node'[n] = node[n]
      BY <1>4, <2>1, <3>1 DEF Truth, OnIt, Same
    <3>2. CASE Arrived(n)
      <4>1. PICK i \in Size(send[n].size) :
              node'[n] = [src  |-> send[n].src, auth |-> send[n].auth,
                          have |-> IF OnIt(n, send[n].src, send[n].auth)
                                   THEN node[n].have \cup {i} ELSE {i}]
        BY <3>2 DEF Arrived
      <4> QED BY <2>1, <4>1 DEF Truth, Same
    <3> QED BY <3>1, <3>2 DEF Effect, NodeEffect
  <2>2. CASE Numbered(n)
    <3>1. node[n].src = send[n].src /\ node[n].auth = next[node[n].src]
      BY <1>4, <2>2 DEF Numbered
    <3>2. node[n].auth < next[node[n].src] /\ node[n].src \in Srcs /\ node[n].auth \in Nat \cup {-1}
      BY <1>t DEF Begun, Numbers
    <3> QED BY <1>t, <3>1, <3>2 DEF Numbers
  <2> QED BY <1>4, <2>1, <2>2 DEF Effect, SendEffect, HasAuth, Same
<1>5. ASSUME NEW n \in Nodes, send'[n].result = "true", send'[n].size > 1
      PROVE  node'[n] = [src |-> send'[n].src, auth |-> send'[n].auth, have |-> Size(send'[n].size)]
  <2>1. Same(n) /\ node'[n] = node[n]
    BY <1>5 DEF Effect, ResultEffect
  <2>2. CASE send[n].result = "true"
    BY <1>5, <2>1, <2>2 DEF Truth, AckIsForThisMessage, Segmented, Same
  <2>3. CASE HasAuth(n) /\ send[n].block = Size(send[n].size)
    <3>1. 0 \in Size(send[n].size)
      BY SizeBounds DEF Shape, TypeOK, Sends
    <3>2. OnIt(n, send[n].src, send[n].auth) /\ Size(send[n].size) \subseteq node[n].have
      BY <2>3, <3>1 DEF Truth
    <3>3. node[n].have \subseteq Size(send[n].size)
      BY <2>3, <3>2 DEF Truth
    <3>4. node[n] \in [src : Srcs, auth : Seqs \cup {-1}, have : SUBSET Segments]
      BY DEF Shape, TypeOK
    <3> QED BY <2>1, <3>2, <3>3, <3>4 DEF OnIt, Same
  <2> QED BY <1>5, <2>2, <2>3 DEF Effect, ResultEffect
<1>6. AckIsForThisMessage'
  BY <1>5 DEF AckIsForThisMessage, Segmented
<1> QED BY <1>1, <1>2, <1>3, <1>4, <1>6 DEF Truth, OnIt

-----------------------------------------------------------------------------
(* The SEQs that are taken go out in order                                 *)

(* Who holds the lock is alone in having SEQs to send. *)
LEMMA Sole ==
  ASSUME Shape, NEW p, Holds(p)
  PROVE  /\ \A n \in Nodes : n # p => send[n].pdus = <<>>
         /\ \A o \in Others : o # p => other[o].pc # "writing"
BY DEF Shape, Lock, Ready, Holds

LEMMA SeqsTyped ==
  ASSUME Shape
  PROVE  /\ \A s \in Srcs : next[s] \in Nat /\ emitted[s] \in Nat \cup {-1}
         /\ \A n \in Nodes : /\ send[n].src \in Srcs /\ send[n].pdus \in Seq(Pdus)
                             /\ \A i \in 1..Len(send[n].pdus) : send[n].pdus[i].seq \in Nat
         /\ \A o \in Others : other[o].src \in Srcs /\ other[o].seq \in Nat \cup {-1}
<1>1. \A s \in Srcs : next[s] \in Nat /\ emitted[s] \in Nat \cup {-1}
  BY DEF Shape, TypeOK, Seqs
<1>2. \A n \in Nodes : send[n].src \in Srcs /\ send[n].pdus \in Seq(Pdus)
  BY DEF Shape, TypeOK, Sends
<1>3. \A n \in Nodes : \A i \in 1..Len(send[n].pdus) : send[n].pdus[i].seq \in Nat
  <2> SUFFICES ASSUME NEW n \in Nodes, NEW i \in 1..Len(send[n].pdus)
               PROVE  send[n].pdus[i].seq \in Nat
    OBVIOUS
  <2>1. send[n].pdus[i] \in Pdus
    BY <1>2
  <2> QED BY <2>1 DEF Pdus, Seqs
<1>4. \A o \in Others : other[o].src \in Srcs /\ other[o].seq \in Nat \cup {-1}
  BY DEF Shape, TypeOK, OtherStates, Seqs
<1> QED BY <1>1, <1>2, <1>3, <1>4

(* A step in which nothing goes out and no task has more to send. *)
LEMMA NothingSent ==
  ASSUME Shape, Ordered, emitted' = emitted,
         \A s \in Srcs : next'[s] \in Nat /\ next[s] <= next'[s],
         \A n \in Nodes : send'[n].pdus = <<>>
                          \/ (send'[n].pdus = send[n].pdus /\ send'[n].src = send[n].src),
         \A o \in Others : other'[o].pc = "writing" => other'[o] = other[o]
  PROVE  Ordered'
<1>1. \A s \in Srcs : emitted'[s] < next'[s]
  BY SeqsTyped DEF Ordered
<1>2. ASSUME NEW n \in Nodes
      PROVE  /\ \A i \in 1..Len(send'[n].pdus) :
                  emitted'[send'[n].src] < send'[n].pdus[i].seq
                  /\ send'[n].pdus[i].seq < next'[send'[n].src]
             /\ \A i, j \in 1..Len(send'[n].pdus) : i < j => send'[n].pdus[i].seq < send'[n].pdus[j].seq
  <2>1. CASE send'[n].pdus = <<>>
    BY <2>1, NoPdus
  <2>2. CASE send'[n].pdus = send[n].pdus /\ send'[n].src = send[n].src
    BY <2>2, SeqsTyped DEF Ordered, Ahead
  <2> QED BY <2>1, <2>2
<1>3. ASSUME NEW o \in Others, other'[o].pc = "writing"
      PROVE  emitted'[other'[o].src] < other'[o].seq /\ other'[o].seq < next'[other'[o].src]
  BY <1>3, SeqsTyped DEF Ordered, Ahead
<1> QED BY <1>1, <1>2, <1>3 DEF Ordered, Ahead

(* The SEQ that n takes is put after those it has. *)
LEMMA SeqAppended ==
  ASSUME Shape, Ordered, NEW n \in Nodes, TakeSeq(send[n].src), UNCHANGED <<emitted, other>>,
         NEW m \in Sends, send' = [send EXCEPT ![n] = m], m.src = send[n].src,
         NEW i, m.pdus = Append(send[n].pdus, [index |-> i, seq |-> next[send[n].src]])
  PROVE  Ordered'
<1> DEFINE s == send[n].src
           pdus == send[n].pdus
           new == [index |-> i, seq |-> next[s]]
<1>1. s \in Srcs /\ next[s] \in Nat /\ next'[s] = next[s] + 1 /\ next \in [Srcs -> Nat]
  BY SeqsTyped, TakeSeqEffect DEF Shape, TypeOK
<1>2. \A z \in Srcs : z # s => next'[z] = next[z]
  BY <1>1 DEF TakeSeq
<1>3. send'[n] = m /\ \A k \in Nodes : k # n => send'[k] = send[k]
  BY DEF Shape, TypeOK
<1>4. \A z \in Srcs : emitted[z] \in Nat \cup {-1} /\ next[z] \in Nat /\ next'[z] \in Nat
                      /\ next[z] <= next'[z]
  BY <1>1, <1>2, SeqsTyped
<1>5. \A z \in Srcs : emitted'[z] < next'[z]
  BY <1>4 DEF Ordered
<1>6. ASSUME NEW k \in Nodes, k # n
      PROVE  /\ \A x \in 1..Len(send'[k].pdus) :
                  emitted'[send'[k].src] < send'[k].pdus[x].seq
                  /\ send'[k].pdus[x].seq < next'[send'[k].src]
             /\ \A x, y \in 1..Len(send'[k].pdus) : x < y => send'[k].pdus[x].seq < send'[k].pdus[y].seq
  BY <1>3, <1>4, <1>6, SeqsTyped DEF Ordered, Ahead
<1>7. /\ \A x \in 1..Len(m.pdus) : emitted[s] < m.pdus[x].seq /\ m.pdus[x].seq < next'[s]
      /\ \A x, y \in 1..Len(m.pdus) : x < y => m.pdus[x].seq < m.pdus[y].seq
  <2>1. /\ Len(m.pdus) = Len(pdus) + 1 /\ Len(pdus) \in Nat
        /\ \A x \in 1..Len(pdus) : m.pdus[x] = pdus[x]
        /\ m.pdus[Len(pdus) + 1] = new /\ new.seq = next[s]
    BY SeqsTyped
  <2>2. \A x \in 1..Len(pdus) : /\ pdus[x].seq \in Nat /\ emitted[s] < pdus[x].seq
                                /\ pdus[x].seq < next[s]
    BY SeqsTyped DEF Ordered, Ahead
  <2>3. \A x, y \in 1..Len(pdus) : x < y => pdus[x].seq < pdus[y].seq
    BY DEF Ordered
  <2>4. emitted[s] < next[s] /\ emitted[s] \in Nat \cup {-1}
    BY <1>1, <1>4 DEF Ordered
  <2>5. \A x \in 1..Len(m.pdus) : x \in 1..Len(pdus) \/ x = Len(pdus) + 1
    BY <2>1
  <2> HIDE DEF s, pdus, new
  <2>6. \A x \in 1..Len(m.pdus) : emitted[s] < m.pdus[x].seq /\ m.pdus[x].seq < next'[s]
    BY <1>1, <2>1, <2>2, <2>4, <2>5
  <2>7. ASSUME NEW x \in 1..Len(m.pdus), NEW y \in 1..Len(m.pdus), x < y
        PROVE  m.pdus[x].seq < m.pdus[y].seq
    <3>1. x \in 1..Len(pdus)
      BY <2>1, <2>7
    <3> QED BY <2>1, <2>2, <2>3, <2>5, <2>7, <3>1
  <2> QED BY <2>6, <2>7
<1>8. ASSUME NEW o \in Others, other'[o].pc = "writing"
      PROVE  emitted'[other'[o].src] < other'[o].seq /\ other'[o].seq < next'[other'[o].src]
  BY <1>4, <1>8, SeqsTyped DEF Ordered, Ahead
<1>9. ASSUME NEW k \in Nodes
      PROVE  /\ \A x \in 1..Len(send'[k].pdus) :
                  emitted'[send'[k].src] < send'[k].pdus[x].seq
                  /\ send'[k].pdus[x].seq < next'[send'[k].src]
             /\ \A x, y \in 1..Len(send'[k].pdus) : x < y => send'[k].pdus[x].seq < send'[k].pdus[y].seq
  <2>1. CASE k = n
    BY <1>3, <1>7, <2>1
  <2> QED BY <1>6, <2>1
<1> HIDE DEF s, pdus, new
<1> QED BY <1>5, <1>8, <1>9 DEF Ordered, Ahead

(* What every step does to the SEQs that went out. *)
InOrderStep == \A s \in Srcs : emitted'[s] = emitted[s] \/ emitted'[s] > emitted[s]

(* The holder p of the lock sends the SEQ it has next. *)
LEMMA SeqSent ==
  ASSUME Shape, Ordered, NEW p, Holds(p), NEW s \in Srcs, NEW seq \in Nat, Ahead(s, seq),
         Emit(s, seq), next' = next,
         \A n \in Nodes : n # p => send'[n] = send[n],
         \A n \in Nodes : n = p =>
           /\ \A i \in 1..Len(send'[n].pdus) : /\ seq < send'[n].pdus[i].seq
                                               /\ send'[n].pdus[i].seq < next[s]
           /\ \A i, j \in 1..Len(send'[n].pdus) :
                i < j => send'[n].pdus[i].seq < send'[n].pdus[j].seq
           /\ send'[n].pdus # <<>> => send'[n].src = s,
         \A o \in Others : other'[o].pc = "writing" => other'[o] = other[o] /\ o # p
  PROVE  Ordered' /\ InOrderStep
<1>1. /\ \A z \in Srcs : next[z] \in Nat /\ emitted[z] \in Nat \cup {-1}
      /\ emitted'[s] = seq /\ \A z \in Srcs : z # s => emitted'[z] = emitted[z]
  BY SeqsTyped DEF Shape, TypeOK, Emit
<1>2. \A z \in Srcs : emitted'[z] < next'[z]
  BY <1>1 DEF Ordered, Ahead
<1>3. InOrderStep
  BY <1>1 DEF InOrderStep, Ahead
<1>4. \A o \in Others : other'[o].pc # "writing"
  BY Sole
<1>5. ASSUME NEW n \in Nodes
      PROVE  /\ \A i \in 1..Len(send'[n].pdus) :
                  emitted'[send'[n].src] < send'[n].pdus[i].seq
                  /\ send'[n].pdus[i].seq < next'[send'[n].src]
             /\ \A i, j \in 1..Len(send'[n].pdus) : i < j => send'[n].pdus[i].seq < send'[n].pdus[j].seq
  <2>1. CASE n # p
    <3>1. send'[n].pdus = <<>>
      BY <2>1, Sole
    <3> QED BY <3>1, NoPdus
  <2>2. CASE n = p
    <3>1. CASE send'[n].pdus = <<>>
      BY <3>1, NoPdus
    <3>2. CASE send'[n].pdus # <<>>
      BY <1>1, <2>2, <3>2
    <3> QED BY <3>1, <3>2
  <2> QED BY <2>1, <2>2
<1> QED BY <1>2, <1>3, <1>4, <1>5 DEF Ordered, Ahead

LEMMA OrderStep ==
  ASSUME Shape, Shape', Ordered, Next
  PROVE  Ordered' /\ InOrderStep
<1>m. ASSUME NEW n \in Nodes, NEW m, send' = [send EXCEPT ![n] = m]
      PROVE  m \in Sends
  <2>1. send \in [Nodes -> Sends] /\ send' \in [Nodes -> Sends]
    BY DEF Shape, TypeOK
  <2>2. send'[n] = m
    BY <1>m, <2>1
  <2> QED BY <2>1, <2>2
<1>t. /\ TypeOK /\ Lock /\ next \in [Srcs -> Nat]
      /\ \A n \in Nodes : send[n] \in Sends /\ Ready(send[n])
  BY DEF Shape, TypeOK
<1>k. next' = next => \A s \in Srcs : next'[s] \in Nat /\ next[s] <= next'[s]
  BY <1>t
(* The send to n has nothing to send after the step, or what it had. *)
<1>q. ASSUME NEW n \in Nodes, NEW m, send' = [send EXCEPT ![n] = m],
             UNCHANGED <<next, emitted, other>>,
             m.pdus = <<>> \/ (m.pdus = send[n].pdus /\ m.src = send[n].src)
      PROVE  Ordered' /\ InOrderStep
  <2>1. \A k \in Nodes : send'[k].pdus = <<>>
                         \/ (send'[k].pdus = send[k].pdus /\ send'[k].src = send[k].src)
    BY <1>t, <1>q DEF TypeOK
  <2> QED BY <1>k, <1>q, <2>1, NothingSent DEF InOrderStep
<1>1. ASSUME NEW n \in Nodes, Begin(n)
      PROVE  Ordered' /\ InOrderStep
  <2>1. PICK k \in 1..MaxSegments :
          send' = [send EXCEPT ![n] = [NoSend EXCEPT !.pc = "queued", !.size = k]]
    BY <1>1 DEF Begin
  <2>2. [NoSend EXCEPT !.pc = "queued", !.size = k].pdus = <<>>
    BY DEF NoSend
  <2> QED BY <1>1, <1>q, <2>1, <2>2 DEF Begin
<1>2. ASSUME NEW n \in Nodes, StartBuild(n)
      PROVE  Ordered' /\ InOrderStep
  <2> DEFINE m == [send[n] EXCEPT !.pc = "building", !.src = src, !.missing = Size(send[n].size)]
  <2>1. send' = [send EXCEPT ![n] = m] /\ UNCHANGED <<next, emitted, other>> /\ send[n].pc = "queued"
    BY <1>2 DEF StartBuild
  <2>2. m.pdus = <<>>
    BY <1>t, <2>1 DEF Ready, Sends
  <2> HIDE DEF m
  <2> QED BY <1>q, <2>1, <2>2
<1>3. ASSUME NEW n \in Nodes, BuildSegment(n)
      PROVE  Ordered' /\ InOrderStep
  <2> DEFINE o     == send[n]
             index == First(o.missing)
             m     == [o EXCEPT !.pdus    = Append(@, [index |-> index, seq |-> next[o.src]]),
                                !.auth    = IF @ = -1 THEN next[o.src] ELSE @,
                                !.missing = @ \ {index},
                                !.pc      = IF o.missing = {index} THEN "writing" ELSE @]
  <2>1. TakeSeq(o.src) /\ send' = [send EXCEPT ![n] = m] /\ UNCHANGED <<emitted, other>>
    BY <1>3 DEF BuildSegment
  <2>2. m.src = o.src /\ m.pdus = Append(o.pdus, [index |-> index, seq |-> next[o.src]])
    BY <1>t DEF Sends
  <2> HIDE DEF m, index
  <2>3. Ordered'
    BY <1>m, <2>1, <2>2, SeqAppended
  <2> QED BY <2>1, <2>3 DEF InOrderStep
<1>4. ASSUME NEW n \in Nodes, Write(n)
      PROVE  Ordered' /\ InOrderStep
  <2> DEFINE o    == send[n]
             rest == [o EXCEPT !.pdus = Tail(@)]
             seq  == Head(o.pdus).seq
  <2>1. /\ o \in Sends /\ Ready(o) /\ o.pdus # <<>> /\ Holds(n)
        /\ Emit(o.src, seq) /\ UNCHANGED <<src, next, other>>
    BY <1>4, <1>t DEF Write, WritePdu, Ready
  <2>2. o.pdus \in Seq(Pdus) /\ o.src \in Srcs
    BY <2>1 DEF Sends
  <2>3. seq \in Nat /\ Ahead(o.src, seq)
    BY <2>1, <2>2, SeqsTyped DEF Ordered
  <2>4. PICK m : send' = [send EXCEPT ![n] = m] /\ (m = rest \/ m = AfterWriting(rest))
    BY <1>4 DEF Write
  <2>5. rest.pdus = Tail(o.pdus) /\ rest.src = o.src
    BY <2>1 DEF Sends
  <2>6. m.pdus = <<>> \/ (m.pdus = Tail(o.pdus) /\ m.src = o.src)
    <3>1. CASE m = rest
      BY <2>5, <3>1
    <3>2. CASE m = [NoSend EXCEPT !.result = "true"]
      BY <3>2 DEF NoSend
    <3>3. CASE m = [rest EXCEPT !.pc = "waiting"]
      BY <2>1, <3>3 DEF Sends
    <3> QED BY <2>4, <3>1, <3>2, <3>3 DEF AfterWriting, Ended
  <2>7. send'[n] = m /\ \A k \in Nodes : k # n => send'[k] = send[k]
    BY <1>t, <2>4 DEF TypeOK
  <2>8. \A i \in 1..Len(Tail(o.pdus)) : /\ i + 1 \in 1..Len(o.pdus) /\ 1 \in 1..Len(o.pdus)
                                        /\ Tail(o.pdus)[i] = o.pdus[i + 1]
    BY <2>1, <2>2
  <2>9. /\ \A i \in 1..Len(Tail(o.pdus)) : /\ seq < Tail(o.pdus)[i].seq
                                           /\ Tail(o.pdus)[i].seq < next[o.src]
        /\ \A i, j \in 1..Len(Tail(o.pdus)) : i < j => Tail(o.pdus)[i].seq < Tail(o.pdus)[j].seq
    <3>1. Head(o.pdus) = o.pdus[1]
      BY <2>1, <2>2
    <3>2. \A i \in 1..Len(o.pdus) : o.pdus[i].seq < next[o.src]
      BY DEF Ordered, Ahead
    <3>3. \A i, j \in 1..Len(o.pdus) : i < j => o.pdus[i].seq < o.pdus[j].seq
      BY DEF Ordered
    <3>4. Len(Tail(o.pdus)) \in Nat
      BY <2>1, <2>2
    <3> HIDE DEF rest
    <3>5. ASSUME NEW i \in 1..Len(Tail(o.pdus))
          PROVE  seq < Tail(o.pdus)[i].seq /\ Tail(o.pdus)[i].seq < next[o.src]
      <4>1. i \in Nat /\ 1 < i + 1
        BY <3>4
      <4> QED BY <2>8, <3>1, <3>2, <3>3, <4>1
    <3>6. ASSUME NEW i \in 1..Len(Tail(o.pdus)), NEW j \in 1..Len(Tail(o.pdus)), i < j
          PROVE  Tail(o.pdus)[i].seq < Tail(o.pdus)[j].seq
      <4>1. i + 1 < j + 1
        BY <3>4, <3>6
      <4> QED BY <2>8, <3>3, <4>1
    <3> QED BY <3>5, <3>6
  <2>10. /\ \A i \in 1..Len(m.pdus) : seq < m.pdus[i].seq /\ m.pdus[i].seq < next[o.src]
         /\ \A i, j \in 1..Len(m.pdus) : i < j => m.pdus[i].seq < m.pdus[j].seq
         /\ m.pdus # <<>> => m.src = o.src
    BY <2>6, <2>9, NoPdus
  <2>11. \A p \in Others : other'[p].pc = "writing" => other'[p] = other[p] /\ p # n
    BY <2>1, TxAssumption
  <2> HIDE DEF o, rest, seq
  <2> QED BY <2>1, <2>2, <2>3, <2>7, <2>10, <2>11, SeqSent
<1>5. ASSUME NEW n \in Nodes, NEW result, send' = [send EXCEPT ![n] = Ended(@, result)],
             UNCHANGED <<next, emitted, other>>
      PROVE  Ordered' /\ InOrderStep
  <2>1. send' = [send EXCEPT ![n] = Ended(send[n], result)]
    BY <1>t, <1>5 DEF TypeOK
  <2>2. Ended(send[n], result).pdus = <<>>
    <3>1. CASE send[n].size = 1 \/ result = "raised"
      BY <3>1 DEF Ended, NoSend
    <3>2. CASE ~(send[n].size = 1 \/ result = "raised")
      BY <1>t, <3>2 DEF Ended, Sends
    <3> QED BY <3>1, <3>2
  <2> QED BY <1>5, <1>q, <2>1, <2>2
<1>6. ASSUME NEW n \in Nodes, WaitEnds(n) \/ SendRaises(n) \/ SendCancelled(n)
      PROVE  Ordered' /\ InOrderStep
  <2>1. UNCHANGED <<next, emitted, other>>
    BY <1>6 DEF WaitEnds, SendRaises, SendCancelled
  <2>2. \E result : send' = [send EXCEPT ![n] = Ended(@, result)]
    BY <1>6, <1>t DEF WaitEnds, SendRaises, SendCancelled, Outcome, TypeOK
  <2> QED BY <1>5, <2>1, <2>2
<1>7. ASSUME NEW n \in Nodes, Timeout(n)
      PROVE  Ordered' /\ InOrderStep
  <2> DEFINE m == [send[n] EXCEPT !.pc = "requeued", !.attempt = @ + 1,
                                  !.missing = Size(send[n].size) \ send[n].block]
  <2>1. UNCHANGED <<next, emitted, other>>
    BY <1>7 DEF Timeout
  <2>2. CASE send' = [send EXCEPT ![n] = Outcome(send[n])]
    BY <1>5, <1>t, <2>1, <2>2 DEF Outcome, TypeOK
  <2>3. CASE send' = [send EXCEPT ![n] = m]
    <3>1. m.pdus = send[n].pdus /\ m.src = send[n].src
      BY <1>t DEF Sends
    <3> HIDE DEF m
    <3> QED BY <1>q, <2>1, <2>3, <3>1
  <2> QED BY <1>7, <2>2, <2>3 DEF Timeout
<1>8. ASSUME NEW n \in Nodes, Rewrap(n)
      PROVE  Ordered' /\ InOrderStep
  <2> DEFINE o     == send[n]
             index == First(o.missing)
             m     == [o EXCEPT !.pc = "resending", !.missing = @ \ {index},
                                !.pdus = <<[index |-> index, seq |-> next[o.src]]>>]
  <2>1. TakeSeq(o.src) /\ send' = [send EXCEPT ![n] = m] /\ UNCHANGED <<emitted, other>> /\ o.pdus = <<>>
    BY <1>8 DEF Rewrap
  <2>2. m.src = o.src /\ m.pdus = <<[index |-> index, seq |-> next[o.src]]>>
    BY <1>t DEF Sends
  <2> HIDE DEF m, index
  <2>3. m.pdus = Append(o.pdus, [index |-> index, seq |-> next[o.src]])
    BY <2>1, <2>2
  <2>4. Ordered'
    BY <1>m, <2>1, <2>2, <2>3, SeqAppended
  <2> QED BY <2>1, <2>4 DEF InOrderStep
<1>9. ASSUME NEW n \in Nodes, Resend(n)
      PROVE  Ordered' /\ InOrderStep
  <2> DEFINE o   == send[n]
             seq == Head(o.pdus).seq
  <2>1. /\ o \in Sends /\ o.pdus # <<>> /\ Holds(n)
        /\ Emit(o.src, seq) /\ UNCHANGED <<src, next, other>>
    BY <1>9, <1>t DEF Resend, WritePdu
  <2>2. o.pdus \in Seq(Pdus) /\ o.src \in Srcs
    BY <2>1 DEF Sends
  <2>3. seq \in Nat /\ Ahead(o.src, seq)
    BY <2>1, <2>2, SeqsTyped DEF Ordered
  <2>4. PICK m : /\ send' = [send EXCEPT ![n] = m]
                 /\ m = [o EXCEPT !.pdus = <<>>] \/ m = [o EXCEPT !.pdus = <<>>, !.pc = "waiting"]
    BY <1>9 DEF Resend
  <2>5. send'[n].pdus = <<>> /\ \A k \in Nodes : k # n => send'[k] = send[k]
    BY <1>t, <2>1, <2>4 DEF TypeOK, Sends
  <2>6. \A p \in Others : other'[p].pc = "writing" => other'[p] = other[p] /\ p # n
    BY <2>1, TxAssumption
  <2> HIDE DEF o, seq
  <2> QED BY <2>1, <2>2, <2>3, <2>5, <2>6, SeqSent, NoPdus
<1>10. ASSUME NEW o \in Others, OtherWrites(o)
       PROVE  Ordered' /\ InOrderStep
  <2> DEFINE s   == other[o].src
             seq == other[o].seq
  <2>1. other[o].pc = "writing" /\ Holds(o) /\ Emit(s, seq) /\ UNCHANGED <<next, send>>
    BY <1>10 DEF OtherWrites
  <2>2. s \in Srcs /\ Ahead(s, seq) /\ seq \in Nat
    BY <2>1, SeqsTyped DEF Ordered, Ahead
  <2>3. other'[o].pc # "writing" /\ \A p \in Others : p # o => other'[p] = other[p]
    <3>1. /\ other'[o] = NoOther
             \/ \E k : other'[o] = [NoOther EXCEPT !.pc = "gap", !.copies = k]
          /\ \A p \in Others : p # o => other'[p] = other[p]
      BY <1>10, <1>t DEF OtherWrites, TypeOK
    <3>2. /\ NoOther.pc # "writing"
          /\ \A k : [NoOther EXCEPT !.pc = "gap", !.copies = k].pc # "writing"
      BY DEF NoOther
    <3> QED BY <3>1, <3>2
  <2> HIDE DEF s, seq
  <2> QED BY <2>1, <2>2, <2>3, SeqSent, TxAssumption
<1>11. ASSUME NEW o \in Others, OtherBuilds(o)
       PROVE  Ordered' /\ InOrderStep
  <2> DEFINE s == other[o].src
  <2>1. /\ TakeSeq(s) /\ UNCHANGED <<src, emitted, send>>
        /\ other' = [other EXCEPT ![o].pc = "writing", ![o].seq = next[s]]
    BY <1>11 DEF OtherBuilds
  <2>2. s \in Srcs /\ other[o] \in OtherStates
    BY <1>t, SeqsTyped DEF TypeOK
  <2>3. /\ other'[o].src = s /\ other'[o].seq = next[s]
        /\ \A p \in Others : p # o => other'[p] = other[p]
    BY <1>t, <2>1, <2>2 DEF TypeOK, OtherStates
  <2>4. /\ next'[s] = next[s] + 1
        /\ \A z \in Srcs : next[z] <= next'[z] /\ next[z] \in Nat /\ next'[z] \in Nat
                           /\ emitted[z] \in Nat \cup {-1}
    BY <1>t, <2>1, <2>2, SeqsTyped, TakeSeqTyped, TakeSeqEffect
  <2>5. \A z \in Srcs : emitted'[z] < next'[z]
    BY <2>1, <2>4 DEF Ordered
  <2>6. \A n \in Nodes :
          /\ \A i \in 1..Len(send'[n].pdus) : emitted'[send'[n].src] < send'[n].pdus[i].seq
                                              /\ send'[n].pdus[i].seq < next'[send'[n].src]
          /\ \A i, j \in 1..Len(send'[n].pdus) : i < j => send'[n].pdus[i].seq < send'[n].pdus[j].seq
    BY <2>1, <2>4, SeqsTyped DEF Ordered, Ahead
  <2>7. \A p \in Others : other'[p].pc = "writing" =>
          emitted'[other'[p].src] < other'[p].seq /\ other'[p].seq < next'[other'[p].src]
    <3>1. ASSUME NEW p \in Others, p # o, other'[p].pc = "writing"
          PROVE  emitted[other[p].src] < other[p].seq /\ other[p].seq < next'[other[p].src]
      <4>1. other[p].src \in Srcs /\ other[p].seq \in Nat \cup {-1}
        BY SeqsTyped
      <4>2. other[p].pc = "writing"
        BY <2>3, <3>1
      <4> QED BY <2>4, <4>1, <4>2 DEF Ordered, Ahead
    <3>2. emitted[s] < next[s] /\ next[s] < next'[s]
      BY <2>2, <2>4 DEF Ordered
    <3> HIDE DEF s
    <3> QED BY <2>1, <2>3, <3>1, <3>2
  <2> QED BY <2>1, <2>5, <2>6, <2>7 DEF Ordered, Ahead, InOrderStep
<1>12. ASSUME UNCHANGED <<send, emitted>>, next' = next \/ \E s \in Srcs : TakeSeq(s),
              \A o \in Others : other'[o].pc = "writing" => other'[o] = other[o]
       PROVE  Ordered' /\ InOrderStep
  <2>1. \A s \in Srcs : next'[s] \in Nat /\ next[s] <= next'[s]
    BY <1>12, <1>k, TakeSeqEffect, TakeSeqTyped
  <2> QED BY <1>12, <2>1, NothingSent DEF InOrderStep
<1>13. ASSUME NEW o \in Others,
              Command(o) \/ SpawnAck(o) \/ OtherStarts(o) \/ NextCopy(o) \/ OtherRaises(o) \/ OtherCancelled(o)
       PROVE  Ordered' /\ InOrderStep
  <2>1. UNCHANGED <<send, emitted>> /\ (next' = next \/ \E s \in Srcs : TakeSeq(s))
    BY <1>13, <1>t DEF Command, SpawnAck, OtherStarts, NextCopy, OtherRaises, OtherCancelled, TypeOK
  <2>2. PICK r : other' = [other EXCEPT ![o] = r] /\ r.pc # "writing"
    <3>1. other[o] \in OtherStates
      BY <1>t DEF TypeOK
    <3>2. /\ NoOther.pc # "writing"
          /\ \A k : [NoOther EXCEPT !.pc = "queued", !.copies = k].pc # "writing"
      BY DEF NoOther
    <3>3. /\ [other[o] EXCEPT !.pc = "building", !.src = src].pc # "writing"
          /\ [other[o] EXCEPT !.pc = "queued"].pc # "writing"
      BY <3>1 DEF OtherStates
    <3>4. CASE Command(o) \/ SpawnAck(o)
      BY <3>2, <3>4 DEF Command, SpawnAck
    <3>5. CASE OtherStarts(o) \/ NextCopy(o)
      BY <3>3, <3>5 DEF OtherStarts, NextCopy
    <3>6. CASE OtherRaises(o) \/ OtherCancelled(o)
      BY <3>2, <3>6 DEF OtherRaises, OtherCancelled
    <3> QED BY <1>13, <3>4, <3>5, <3>6
  <2>3. \A p \in Others : other'[p].pc = "writing" => other'[p] = other[p]
    BY <1>t, <2>2 DEF TypeOK
  <2> QED BY <1>12, <2>1, <2>3
<1>14. ASSUME NEW n \in Nodes, NodeRefuses(n)
       PROVE  Ordered' /\ InOrderStep
  BY <1>12, <1>14 DEF NodeRefuses
<1>15. CASE Rotate
  BY <1>12, <1>15 DEF Rotate
<1>16. ASSUME NEW a \in acks, AckArrives(a)
       PROVE  Ordered' /\ InOrderStep
  <2> DEFINE n == a.from
             o == [send[n] EXCEPT !.acked = IF IsOf(a, n) THEN @ \cup a.block ELSE @]
             m == IF Matches(a, n) THEN Recorded(o, a.block) ELSE o
  <2>1. n \in Nodes
    BY <1>t DEF TypeOK, Acks
  <2>2. o.pdus = send[n].pdus /\ o.src = send[n].src /\ o \in Sends
    <3>1. send[n] \in Sends /\ a.block \subseteq Segments
      BY <1>t, <2>1 DEF TypeOK, Acks
    <3> QED BY <3>1 DEF Sends
  <2>3. m.pdus = send[n].pdus /\ m.src = send[n].src
    <3> HIDE DEF o
    <3> QED BY <2>2 DEF Recorded, Sends
  <2>4. send' = [send EXCEPT ![n] = m] /\ UNCHANGED <<next, emitted, other>>
    BY <1>16 DEF AckArrives
  <2> HIDE DEF m, n
  <2> QED BY <1>q, <2>1, <2>3, <2>4
<1> QED
  BY <1>1, <1>2, <1>3, <1>4, <1>6, <1>7, <1>8, <1>9, <1>10, <1>11, <1>13, <1>14, <1>15, <1>16
  DEF Next, SendStep, OtherStep

-----------------------------------------------------------------------------
(* The invariant, and what follows                                         *)

LEMMA InitInv == Init => IInv
<1> SUFFICES ASSUME Init
             PROVE  IInv
  OBVIOUS
<1>1. /\ src = 0 /\ queue = <<>> /\ acks = {}
      /\ \A s \in Srcs : next[s] = 0 /\ emitted[s] = -1
      /\ \A n \in Nodes : send[n] = NoSend /\ node[n] = [src |-> 0, auth |-> -1, have |-> {}]
      /\ \A o \in Others : other[o] = NoOther
  BY DEF Init
<1>2. 0 \in Srcs /\ Srcs \subseteq Nat
  BY TxAssumption DEF Srcs
<1>3. /\ NoSend.pc = "idle" /\ NoSend.pdus = <<>> /\ NoSend.missing = {} /\ NoSend.block = {}
      /\ NoSend.result = "none" /\ NoSend.size = 1
      /\ NoOther.pc = "idle"
  BY DEF NoSend, NoOther
<1>4. TypeOK
  BY <1>1, <1>2, NoSendTyped, NoOtherTyped DEF Init, TypeOK, Seqs
<1>5. Lock /\ (\A n \in Nodes : Ready(send[n])) /\ Shape
  <2>1. Ready(NoSend)
    BY <1>3, NoPdus DEF Ready
  <2> QED BY <1>1, <1>3, <1>4, <2>1 DEF Lock, Shape
<1>6. Ordered
  BY <1>1, <1>2, <1>3, NoPdus DEF Ordered
<1>7. Begun /\ Newest
  BY <1>1, <1>2, <1>3 DEF Begun, Newest, HasSrc, HasAuth
<1>8. Truth
  BY <1>1, <1>3 DEF Truth, HasSrc, HasAuth, AckIsForThisMessage, Segmented
<1> QED BY <1>5, <1>6, <1>7, <1>8 DEF IInv

LEMMA StepInv ==
  ASSUME IInv, [Next]_vars
  PROVE  IInv'
<1>1. CASE Next
  <2>1. Shape'
    BY <1>1, ShapeStep DEF IInv
  <2>2. Effect
    BY <1>1, StepEffect DEF IInv
  <2>3. Ordered'
    BY <1>1, <2>1, OrderStep DEF IInv
  <2>4. Begun'
    BY <2>1, <2>2, BegunStep DEF IInv
  <2>5. Newest'
    BY <2>1, <2>2, NewestStep DEF IInv
  <2>6. Truth'
    BY <2>1, <2>2, <2>4, TruthStep
  <2> QED BY <2>1, <2>3, <2>4, <2>5, <2>6 DEF IInv
<1>2. CASE UNCHANGED vars
  BY <1>2 DEF vars, IInv, Shape, TypeOK, Lock, Holds, Ordered, Ahead, Begun, Newest, HasSrc,
              HasAuth, Truth, OnIt, AckIsForThisMessage, Segmented
<1> QED BY <1>1, <1>2

-----------------------------------------------------------------------------
(* What send_devkey answers False to                                       *)

(* As long as our SRC is the message's, every acknowledgment of it that    *)
(* arrives while it is open is taken for it: what they reported, put       *)
(* together, is in its block.  s is our SRC, m the send to some node.      *)
NothingLost(m, s) ==
  /\ m.src <= s
  /\ m.pc = "queued" => m.acked = {}
  /\ m.pc # "idle" /\ m.src = s => m.acked \subseteq m.block
  /\ m.result = "false" /\ ~m.cancelled /\ m.src = s => m.acked # Size(m.size)

Heard == \A n \in Nodes : NothingLost(send[n], src)

(* A message still being sent has no result, and its block is of its own   *)
(* segments.                                                               *)
LEMMA UnderWay ==
  ASSUME IInv, NEW n \in Nodes, send[n].pc # "idle"
  PROVE  /\ send[n] \in Sends /\ send[n].result = "none"
         /\ send[n].pc = "waiting" =>
              send[n].size # 1 /\ send[n].block \subseteq Size(send[n].size)
<1>1. send[n] \in Sends /\ Ready(send[n])
  BY DEF IInv, Shape, TypeOK
<1>2. send[n].result = "none"
  BY <1>1 DEF Ready
<1>3. ASSUME send[n].pc = "waiting"
      PROVE  send[n].size # 1 /\ send[n].block \subseteq Size(send[n].size)
  <2>1. HasAuth(n) /\ send[n].size > 1
    BY <1>1, <1>3 DEF Ready, HasAuth, HasSrc
  <2>2. send[n].size # 1
    BY <1>1, <2>1 DEF Sends
  <2>3. CASE send[n].block = {}
    BY <2>2, <2>3
  <2>4. CASE send[n].block # {}
    BY <2>1, <2>2, <2>4 DEF IInv, Truth
  <2> QED BY <2>3, <2>4
<1> QED BY <1>1, <1>2, <1>3

(* A send that changes neither what is acknowledged nor its SRC.           *)
LEMMA SameHeard ==
  ASSUME NEW m, NEW k, NEW s, NothingLost(m, s), m.pc \notin {"idle", "queued"},
         k.pc \notin {"idle", "queued"}, m.result = "none",
         k.src = m.src, k.acked = m.acked, k.block = m.block, k.result = m.result
  PROVE  NothingLost(k, s)
BY DEF NothingLost

(* A send that ends, answering False only with a segment unacknowledged or *)
(* refused by its node.                                                    *)
LEMMA EndedHeard ==
  ASSUME NEW m \in Sends, NEW s \in Srcs, NothingLost(m, s),
         NEW result \in {"true", "false", "raised"}, m.pc # "idle" \/ result = "raised",
         result = "false" => /\ m.size # 1 /\ m.block \subseteq Size(m.size)
                             /\ m.cancelled \/ m.block # Size(m.size)
  PROVE  NothingLost(Ended(m, result), s)
<1>1. CASE m.size = 1 \/ result = "raised"
  <2>1. Ended(m, result) = [NoSend EXCEPT !.result = result] /\ result # "false"
    BY <1>1 DEF Ended
  <2>2. /\ Ended(m, result).src = 0 /\ Ended(m, result).pc = "idle"
        /\ Ended(m, result).result = result
    BY <2>1 DEF NoSend
  <2> HIDE DEF Ended
  <2> QED BY <2>1, <2>2 DEF NothingLost, Srcs
<1>2. CASE ~(m.size = 1 \/ result = "raised")
  <2>1. Ended(m, result) = [m EXCEPT !.pc = "idle", !.result = result, !.missing = {},
                                     !.pdus = <<>>, !.attempt = 0, !.block = {}]
    BY <1>2 DEF Ended
  <2>2. /\ Ended(m, result).src = m.src /\ Ended(m, result).pc = "idle"
        /\ Ended(m, result).result = result /\ Ended(m, result).cancelled = m.cancelled
        /\ Ended(m, result).acked = m.acked /\ Ended(m, result).size = m.size
    BY <2>1 DEF Sends
  <2> HIDE DEF Ended
  <2>3. result = "false" /\ ~m.cancelled /\ m.src = s => m.acked # Size(m.size)
    BY DEF NothingLost
  <2> QED BY <2>2, <2>3 DEF NothingLost
<1> QED BY <1>1, <1>2

(* A step of the send to n alone. *)
LEMMA SendHeard ==
  ASSUME Shape, Heard, NEW n \in Nodes, NEW m, send' = [send EXCEPT ![n] = m],
         UNCHANGED src, NothingLost(m, src)
  PROVE  Heard'
<1>1. send'[n] = m /\ \A k \in Nodes \ {n} : send'[k] = send[k]
  BY DEF Shape, TypeOK
<1>2. ASSUME NEW k \in Nodes
      PROVE  NothingLost(send'[k], src')
  BY <1>1 DEF Heard
<1> QED BY <1>2 DEF Heard

LEMMA HeardStep ==
  ASSUME IInv, Heard, [Next]_vars
  PROVE  Heard'
<1>t. Shape /\ src \in Srcs /\ (\A n \in Nodes : send[n] \in Sends /\ NothingLost(send[n], src))
  BY DEF IInv, Shape, TypeOK, Heard
<1>0. ASSUME UNCHANGED <<src, send>>
      PROVE  Heard'
  BY <1>0 DEF Heard
<1>1. ASSUME NEW n \in Nodes, Begin(n)
      PROVE  Heard'
  <2>1. PICK k \in 1..MaxSegments :
          send' = [send EXCEPT ![n] = [NoSend EXCEPT !.pc = "queued", !.size = k]]
    BY <1>1 DEF Begin
  <2> DEFINE m == [NoSend EXCEPT !.pc = "queued", !.size = k]
  <2>2. m.src = 0 /\ m.acked = {} /\ m.result = "none"
    BY DEF NoSend
  <2>3. UNCHANGED src /\ 0 <= src
    BY <1>1, <1>t DEF Begin, Srcs
  <2> HIDE DEF m
  <2>4. NothingLost(m, src)
    BY <2>2, <2>3 DEF NothingLost
  <2> QED BY <1>t, <2>1, <2>3, <2>4, SendHeard DEF m
<1>2. ASSUME NEW n \in Nodes, StartBuild(n)
      PROVE  Heard'
  <2> DEFINE m == [send[n] EXCEPT !.pc = "building", !.src = src, !.missing = Size(send[n].size)]
  <2>1. send' = [send EXCEPT ![n] = m] /\ UNCHANGED src /\ send[n].pc = "queued"
    BY <1>2, <1>t DEF StartBuild
  <2>2. m.src = src /\ m.acked = send[n].acked /\ m.result = send[n].result
    BY <1>t DEF Sends
  <2>3. send[n].acked = {} /\ send[n].result = "none"
    BY <1>t, <2>1, UnderWay DEF NothingLost
  <2> HIDE DEF m
  <2>4. NothingLost(m, src)
    BY <1>t, <2>2, <2>3 DEF NothingLost, Srcs
  <2> QED BY <1>t, <2>1, <2>4, SendHeard
<1>3. ASSUME NEW n \in Nodes, NEW m, send' = [send EXCEPT ![n] = m], UNCHANGED src,
             send[n].pc \notin {"idle", "queued"}, m.pc \notin {"idle", "queued"},
             m.src = send[n].src, m.acked = send[n].acked, m.block = send[n].block,
             m.result = send[n].result
      PROVE  Heard'
  BY <1>3, <1>t, UnderWay, SameHeard, SendHeard
<1>4. ASSUME NEW n \in Nodes, BuildSegment(n)
      PROVE  Heard'
  <2> DEFINE index == First(send[n].missing)
             m == [send[n] EXCEPT !.pdus    = Append(@, [index |-> index, seq |-> next[send[n].src]]),
                                  !.auth    = IF @ = -1 THEN next[send[n].src] ELSE @,
                                  !.missing = @ \ {index},
                                  !.pc      = IF send[n].missing = {index} THEN "writing" ELSE @]
  <2>1. send' = [send EXCEPT ![n] = m] /\ UNCHANGED src /\ send[n].pc = "building"
    BY <1>4 DEF BuildSegment
  <2>2. /\ m.src = send[n].src /\ m.acked = send[n].acked /\ m.block = send[n].block
        /\ m.result = send[n].result /\ m.pc \in {"building", "writing"}
    BY <1>t, <2>1 DEF Sends
  <2> HIDE DEF m
  <2> QED BY <1>3, <2>1, <2>2
<1>5. ASSUME NEW n \in Nodes, Write(n)
      PROVE  Heard'
  <2> DEFINE rest == [send[n] EXCEPT !.pdus = Tail(@)]
             still == [rest EXCEPT !.pc = "waiting"]
  <2>1. UNCHANGED src /\ send[n].pc = "writing"
    BY <1>5 DEF Write
  <2>2. send' = [send EXCEPT ![n] = rest] \/ send' = [send EXCEPT ![n] = AfterWriting(rest)]
    BY <1>5 DEF Write
  <2>3. /\ rest.src = send[n].src /\ rest.acked = send[n].acked /\ rest.block = send[n].block
        /\ rest.result = send[n].result /\ rest.pc = "writing" /\ rest.size = send[n].size
    BY <1>t, <2>1 DEF Sends
  <2>4. /\ still.src = send[n].src /\ still.acked = send[n].acked /\ still.block = send[n].block
        /\ still.result = send[n].result /\ still.pc = "waiting"
    BY <1>t DEF Sends
  <2>5. AfterWriting(rest) = IF send[n].size = 1 THEN Ended(send[n], "true") ELSE still
    BY <2>3 DEF AfterWriting, Ended
  <2> HIDE DEF rest, still
  <2>6. CASE send' = [send EXCEPT ![n] = rest] \/ send' = [send EXCEPT ![n] = still]
    BY <1>3, <2>1, <2>3, <2>4, <2>6
  <2>7. CASE send' = [send EXCEPT ![n] = Ended(send[n], "true")]
    <3>1. NothingLost(Ended(send[n], "true"), src)
      BY <1>t, <2>1, EndedHeard
    <3> QED BY <1>t, <2>1, <2>7, <3>1, SendHeard
  <2> QED BY <2>2, <2>5, <2>6, <2>7
<1>6. ASSUME NEW n \in Nodes, send' = [send EXCEPT ![n] = Outcome(send[n])], UNCHANGED src,
             send[n].pc = "waiting"
      PROVE  Heard'
  <2>1. send[n].size # 1 /\ send[n].block \subseteq Size(send[n].size)
    BY <1>6, UnderWay
  <2>2. CASE Complete(send[n])
    <3>1. NothingLost(Ended(send[n], "true"), src)
      BY <1>t, <1>6, EndedHeard
    <3> QED BY <1>t, <1>6, <2>2, <3>1, SendHeard DEF Outcome
  <2>3. CASE ~Complete(send[n])
    <3>1. send[n].cancelled \/ send[n].block # Size(send[n].size)
      BY <2>3 DEF Complete
    <3>2. NothingLost(Ended(send[n], "false"), src)
      BY <1>t, <1>6, <2>1, <3>1, EndedHeard
    <3> QED BY <1>t, <1>6, <2>3, <3>2, SendHeard DEF Outcome
  <2> QED BY <2>2, <2>3
<1>7. ASSUME NEW n \in Nodes, WaitEnds(n)
      PROVE  Heard'
  BY <1>6, <1>7 DEF WaitEnds
<1>8. ASSUME NEW n \in Nodes, Timeout(n)
      PROVE  Heard'
  <2> DEFINE m == [send[n] EXCEPT !.pc = "requeued", !.attempt = @ + 1,
                                  !.missing = Size(send[n].size) \ send[n].block]
  <2>1. send[n].pc = "waiting" /\ UNCHANGED src
    BY <1>8 DEF Timeout
  <2>2. send' = [send EXCEPT ![n] = Outcome(send[n])] \/ send' = [send EXCEPT ![n] = m]
    BY <1>8 DEF Timeout
  <2>3. /\ m.src = send[n].src /\ m.acked = send[n].acked /\ m.block = send[n].block
        /\ m.result = send[n].result /\ m.pc = "requeued"
    BY <1>t DEF Sends
  <2> HIDE DEF m
  <2> QED BY <1>3, <1>6, <2>1, <2>2, <2>3
<1>9. ASSUME NEW n \in Nodes, Rewrap(n)
      PROVE  Heard'
  <2> DEFINE index == First(send[n].missing)
             m == [send[n] EXCEPT !.pc = "resending", !.missing = @ \ {index},
                                  !.pdus = <<[index |-> index, seq |-> next[send[n].src]]>>]
  <2>1. /\ send' = [send EXCEPT ![n] = m] /\ UNCHANGED src
        /\ send[n].pc \in {"requeued", "resending"}
    BY <1>9 DEF Rewrap
  <2>2. /\ m.src = send[n].src /\ m.acked = send[n].acked /\ m.block = send[n].block
        /\ m.result = send[n].result /\ m.pc = "resending"
    BY <1>t DEF Sends
  <2> HIDE DEF m
  <2> QED BY <1>3, <2>1, <2>2
<1>10. ASSUME NEW n \in Nodes, Resend(n)
       PROVE  Heard'
  <2> DEFINE more == [send[n] EXCEPT !.pdus = <<>>]
             done == [send[n] EXCEPT !.pdus = <<>>, !.pc = "waiting"]
  <2>1. UNCHANGED src /\ send[n].pc = "resending"
    BY <1>10 DEF Resend
  <2>2. send' = [send EXCEPT ![n] = more] \/ send' = [send EXCEPT ![n] = done]
    BY <1>10, <1>t DEF Resend
  <2>3. /\ more.src = send[n].src /\ more.acked = send[n].acked /\ more.block = send[n].block
        /\ more.result = send[n].result /\ more.pc = "resending"
    BY <1>t, <2>1 DEF Sends
  <2>4. /\ done.src = send[n].src /\ done.acked = send[n].acked /\ done.block = send[n].block
        /\ done.result = send[n].result /\ done.pc = "waiting"
    BY <1>t DEF Sends
  <2> HIDE DEF more, done
  <2> QED BY <1>3, <2>1, <2>2, <2>3, <2>4
<1>11. ASSUME NEW n \in Nodes, SendRaises(n) \/ SendCancelled(n)
       PROVE  Heard'
  <2>1. send' = [send EXCEPT ![n] = Ended(send[n], "raised")] /\ UNCHANGED src
    BY <1>11 DEF SendRaises, SendCancelled
  <2>2. NothingLost(Ended(send[n], "raised"), src)
    BY <1>t, <1>11, EndedHeard
  <2> QED BY <1>t, <2>1, <2>2, SendHeard
<1>12. ASSUME NEW a \in acks, AckArrives(a)
       PROVE  Heard'
  <2> DEFINE n == a.from
             heard == IF IsOf(a, n) THEN send[n].acked \cup a.block ELSE send[n].acked
             m     == [send[n] EXCEPT !.acked = heard]
             k     == IF Matches(a, n) THEN Recorded(m, a.block) ELSE m
  <2>1. a.from \in Nodes
    BY <1>12, <1>t, Typed DEF Numbers
  <2>2. IsOpen(n) /\ UNCHANGED src /\ send' = [send EXCEPT ![n] = k]
    BY <1>12, <1>t DEF AckArrives
  <2>3. send[n].pc \notin {"idle", "queued"} /\ send[n].result = "none"
    BY <2>1, <2>2, UnderWay DEF IsOpen
  <2>4. /\ k.pc = send[n].pc /\ k.src = send[n].src /\ k.acked = heard /\ k.result = send[n].result
        /\ k.block = IF Matches(a, n) THEN send[n].block \cup a.block ELSE send[n].block
    BY <1>t, <2>1 DEF Sends, Recorded
  <2>5. send[n].src = src /\ IsOf(a, n) => Matches(a, n)
    BY DEF IsOf, Matches
  <2> HIDE DEF k
  <2>6. NothingLost(k, src)
    <3>1. k.src <= src /\ k.result # "false" /\ k.pc # "queued"
      BY <1>t, <2>1, <2>3, <2>4 DEF NothingLost
    <3>2. ASSUME k.src = src
          PROVE  k.acked \subseteq k.block
      <4>1. send[n].acked \subseteq send[n].block
        BY <1>t, <2>1, <2>3, <2>4, <3>2 DEF NothingLost
      <4> QED BY <2>4, <2>5, <3>2, <4>1
    <3> QED BY <3>1, <3>2 DEF NothingLost
  <2> QED BY <1>t, <2>1, <2>2, <2>6, SendHeard
<1>13. ASSUME Rotate
       PROVE  Heard'
  <2>1. src' = src + 1 /\ send' = send
    BY <1>13 DEF Rotate
  <2>2. ASSUME NEW n \in Nodes
        PROVE  NothingLost(send[n], src + 1)
    <3>1. send[n].src \in Nat /\ src \in Nat /\ send[n].src <= src
      BY <1>t, TxAssumption DEF Sends, Srcs, NothingLost
    <3>2. send[n].src <= src + 1 /\ send[n].src # src + 1
      BY <3>1
    <3> QED BY <1>t, <3>2 DEF NothingLost
  <2> QED BY <2>1, <2>2 DEF Heard
<1>14. ASSUME NEW n \in Nodes, NodeRefuses(n)
       PROVE  Heard'
  BY <1>0, <1>14 DEF NodeRefuses
<1>15. ASSUME NEW o \in Others,
              Command(o) \/ SpawnAck(o) \/ OtherStep(o) \/ OtherCancelled(o)
       PROVE  Heard'
  BY <1>0, <1>15 DEF Command, SpawnAck, OtherStep, OtherStarts, OtherBuilds, OtherWrites,
                     NextCopy, OtherRaises, OtherCancelled
<1>16. CASE UNCHANGED vars
  BY <1>0, <1>16 DEF vars
<1> QED
  BY <1>1, <1>2, <1>4, <1>5, <1>7, <1>8, <1>9, <1>10, <1>11, <1>12, <1>13, <1>14, <1>15, <1>16
  DEF Next, SendStep

LEMMA InitHeard == Init => Heard
<1> SUFFICES ASSUME Init, NEW n \in Nodes
             PROVE  NothingLost(send[n], src)
  BY DEF Heard
<1>1. send[n] = NoSend /\ src = 0
  BY DEF Init
<1>2. NoSend.src = 0 /\ NoSend.pc = "idle" /\ NoSend.acked = {} /\ NoSend.result = "none"
  BY DEF NoSend
<1> QED BY <1>1, <1>2 DEF NothingLost

-----------------------------------------------------------------------------
(* The lock is given on, and every send goes forward                       *)

(* The tasks that hold the lock or wait for it. *)
Asks(p) ==
  \/ p \in Nodes /\ send[p].pc \in {"queued", "building", "writing", "requeued", "resending"}
  \/ p \in Others /\ other[p].pc \in {"queued", "building", "writing"}

(* They are in its queue, once each, and nobody else is. *)
Lined ==
  /\ \A p \in Waiters : Asks(p) <=> \E i \in 1..Len(queue) : queue[i] = p
  /\ \A i, j \in 1..Len(queue) : queue[i] = queue[j] => i = j

Before(p, q) == \E i, j \in 1..Len(queue) : i < j /\ queue[i] = p /\ queue[j] = q

(* p asks for the lock, gives it on, or gives up; others do not. *)
Moves(p) ==
  /\ \A q \in Waiters \ {p} : Asks(q)' <=> Asks(q)
  /\ \/ UNCHANGED queue /\ (Asks(p)' <=> Asks(p))
     \/ Enqueue(p) /\ ~Asks(p) /\ Asks(p)'
     \/ Holds(p) /\ Release /\ ~Asks(p)'
     \/ Leaves(p) /\ ~Asks(p)'

(* One place is gone, the rest keep their order. *)
Without(i) ==
  /\ Len(queue') = Len(queue) - 1
  /\ \A k \in 1..Len(queue') : queue'[k] = IF k < i THEN queue[k] ELSE queue[k + 1]

LEMMA RemovedOne ==
  ASSUME queue \in Seq(Waiters), NEW p \in Waiters, Lined, ~Asks(p)',
         (Holds(p) /\ Release) \/ Leaves(p)
  PROVE  \/ UNCHANGED queue /\ ~Asks(p)
         \/ \E i \in 1..Len(queue) : queue[i] = p /\ Without(i)
<1>1. CASE Holds(p) /\ Release
  <2>1. 1 \in 1..Len(queue) /\ queue[1] = p
    BY <1>1 DEF Holds
  <2>2. Without(1)
    BY <1>1, <2>1 DEF Release, Without
  <2> QED BY <2>1, <2>2
<1>2. CASE p \notin Range(queue) /\ UNCHANGED queue
  <2>1. \A i \in 1..Len(queue) : queue[i] # p
    BY <1>2 DEF Range
  <2> QED BY <1>2, <2>1 DEF Lined
<1>3. ASSUME NEW i \in DOMAIN queue, queue[i] = p, queue' = RemoveAt(queue, i)
      PROVE  Without(i)
  <2> DEFINE head == SubSeq(queue, 1, i - 1)
             tail == SubSeq(queue, i + 1, Len(queue))
  <2>1. i \in 1..Len(queue)
    BY <1>3
  <2>2. head \in Seq(Waiters) /\ Len(head) = i - 1 /\ \A k \in 1..(i - 1) : head[k] = queue[k]
    BY <2>1
  <2>3. /\ tail \in Seq(Waiters) /\ Len(tail) = Len(queue) - i
        /\ \A k \in 1..(Len(queue) - i) : tail[k] = queue[k + i]
    BY <2>1
  <2>4. queue' = head \o tail
    BY <1>3 DEF RemoveAt
  <2> HIDE DEF head, tail
  <2>5. Len(queue') = Len(queue) - 1
    BY <2>1, <2>2, <2>3, <2>4
  <2>6. ASSUME NEW k \in 1..Len(queue')
        PROVE  queue'[k] = IF k < i THEN queue[k] ELSE queue[k + 1]
    <3>1. CASE k < i
      BY <2>1, <2>2, <2>3, <2>4, <2>5, <3>1
    <3>2. CASE ~(k < i)
      <4>1. queue'[k] = tail[k - (i - 1)] /\ k - (i - 1) \in 1..(Len(queue) - i)
        BY <2>1, <2>2, <2>3, <2>4, <2>5, <3>2
      <4>2. tail[k - (i - 1)] = queue[k - (i - 1) + i]
        BY <2>3, <4>1
      <4>3. k - (i - 1) + i = k + 1
        BY <2>1
      <4> QED BY <3>2, <4>1, <4>2, <4>3
    <3> QED BY <3>1, <3>2
  <2> QED BY <2>5, <2>6 DEF Without
<1> QED BY <1>1, <1>2, <1>3 DEF Leaves

LEMMA LinedStep ==
  ASSUME queue \in Seq(Waiters), Lined, NEW p \in Waiters, Moves(p)
  PROVE  /\ Lined'
         /\ \A q, r \in Waiters : Before(q, r) /\ Asks(q)' /\ Asks(r)' => Before(q, r)'
<1>1. CASE UNCHANGED queue /\ (Asks(p)' <=> Asks(p))
  BY <1>1 DEF Lined, Moves, Before
<1>2. CASE Enqueue(p) /\ ~Asks(p) /\ Asks(p)'
  <2>1. /\ Len(queue') = Len(queue) + 1 /\ queue'[Len(queue) + 1] = p
        /\ \A i \in 1..Len(queue) : queue'[i] = queue[i]
    BY <1>2 DEF Enqueue
  <2>2. \A i \in 1..Len(queue) : queue[i] # p
    BY <1>2 DEF Lined
  <2>3. \A q \in Waiters : Asks(q)' <=> \E i \in 1..Len(queue') : queue'[i] = q
    BY <1>2, <2>1, <2>2 DEF Lined, Moves
  <2>4. \A i, j \in 1..Len(queue') : queue'[i] = queue'[j] => i = j
    BY <2>1, <2>2 DEF Lined
  <2>5. \A q, r \in Waiters : Before(q, r) => Before(q, r)'
    BY <2>1 DEF Before
  <2> QED BY <2>3, <2>4, <2>5 DEF Lined
<1>3. CASE ~Asks(p)' /\ ((Holds(p) /\ Release) \/ Leaves(p))
  <2>1. CASE UNCHANGED queue /\ ~Asks(p)
    BY <1>1, <1>3, <2>1
  <2>2. ASSUME NEW i \in 1..Len(queue), queue[i] = p, Without(i)
        PROVE  /\ Lined'
               /\ \A q, r \in Waiters : Before(q, r) /\ Asks(q)' /\ Asks(r)' => Before(q, r)'
    <3> DEFINE at(k) == IF k < i THEN k ELSE k - 1
               from(k) == IF k < i THEN k ELSE k + 1
    <3>1. Len(queue) \in Nat /\ Len(queue') = Len(queue) - 1
      BY <2>2 DEF Without
    <3>2. \A k \in 1..Len(queue') : from(k) \in 1..Len(queue) /\ queue'[k] = queue[from(k)] /\ from(k) # i
      BY <2>2, <3>1 DEF Without
    <3>3. \A k \in 1..Len(queue) : k # i => at(k) \in 1..Len(queue') /\ from(at(k)) = k
      BY <3>1
    <3>4. \A k, l \in 1..Len(queue') : from(k) = from(l) => k = l
      BY <3>1
    <3>5. \A k, l \in 1..Len(queue) : k # i /\ l # i /\ k < l => at(k) < at(l)
      BY <3>1
    <3>6. \A k \in 1..Len(queue) : queue[k] = p <=> k = i
      BY <2>2 DEF Lined
    <3> HIDE DEF at, from
    <3>7. \A q \in Waiters : Asks(q)' <=> \E k \in 1..Len(queue') : queue'[k] = q
      <4>1. ASSUME NEW q \in Waiters, Asks(q)'
            PROVE  \E k \in 1..Len(queue') : queue'[k] = q
        <5>1. q # p /\ Asks(q)
          BY <1>3, <4>1 DEF Moves
        <5>2. PICK k \in 1..Len(queue) : queue[k] = q
          BY <5>1 DEF Lined
        <5>3. k # i
          BY <3>6, <5>1, <5>2
        <5> QED BY <3>2, <3>3, <5>2, <5>3
      <4>2. ASSUME NEW q \in Waiters, NEW k \in 1..Len(queue'), queue'[k] = q
            PROVE  Asks(q)'
        <5>1. from(k) \in 1..Len(queue) /\ queue[from(k)] = q /\ from(k) # i
          BY <3>2, <4>2
        <5>2. Asks(q) /\ q # p
          BY <3>6, <5>1 DEF Lined
        <5> QED BY <5>2 DEF Moves
      <4> QED BY <4>1, <4>2
    <3>8. \A k, l \in 1..Len(queue') : queue'[k] = queue'[l] => k = l
      BY <3>2, <3>4 DEF Lined
    <3>9. ASSUME NEW q \in Waiters, NEW r \in Waiters, Before(q, r), Asks(q)', Asks(r)'
          PROVE  Before(q, r)'
      <4>1. q # p /\ r # p
        BY <1>3, <3>9
      <4>2. PICK k, l \in 1..Len(queue) : k < l /\ queue[k] = q /\ queue[l] = r
        BY <3>9 DEF Before
      <4>3. k # i /\ l # i
        BY <2>2, <4>1, <4>2
      <4>4. /\ at(k) \in 1..Len(queue') /\ at(l) \in 1..Len(queue') /\ at(k) < at(l)
            /\ queue'[at(k)] = q /\ queue'[at(l)] = r
        BY <3>2, <3>3, <3>5, <4>2, <4>3
      <4> QED BY <4>4 DEF Before
    <3> QED BY <3>7, <3>8, <3>9 DEF Lined
  <2> QED BY <1>3, <2>1, <2>2, RemovedOne
<1> QED BY <1>1, <1>2, <1>3 DEF Moves

(* A task whose record changes; the others keep theirs. *)
LEMMA SendMoves ==
  ASSUME Shape, NEW n \in Nodes, NEW m, send' = [send EXCEPT ![n] = m], UNCHANGED other
  PROVE  /\ \A q \in Waiters \ {n} : Asks(q)' <=> Asks(q)
         /\ Asks(n)' <=> m.pc \in {"queued", "building", "writing", "requeued", "resending"}
         /\ \A k \in Nodes \ {n} : send'[k] = send[k]
         /\ send'[n] = m
BY TxAssumption DEF Asks, Waiters, Shape, TypeOK

LEMMA OtherMoves ==
  ASSUME Shape, NEW o \in Others, NEW r, other' = [other EXCEPT ![o] = r], UNCHANGED send
  PROVE  /\ \A q \in Waiters \ {o} : Asks(q)' <=> Asks(q)
         /\ Asks(o)' <=> r.pc \in {"queued", "building", "writing"}
         /\ \A k \in Others \ {o} : other'[k] = other[k]
         /\ other'[o] = r
BY TxAssumption DEF Asks, Waiters, Shape, TypeOK

(* How much of an attempt is left: two steps per segment, the lock, the wait. *)
Stage(m) ==
  IF m.pc = "queued" THEN 2 * MaxSegments + 2 ELSE 2 * Cardinality(m.missing) + Len(m.pdus) + 1

(* There are SAR_RETRANSMISSIONS attempts after the first (TypeOK): this is well-founded. *)
Nearer(m, old) ==
  \/ m.pc = "idle"
  \/ m.attempt > old.attempt
  \/ m.attempt = old.attempt /\ Stage(m) < Stage(old)

AsFar(m, old) ==
  m.pc = old.pc /\ m.attempt = old.attempt /\ m.missing = old.missing /\ m.pdus = old.pdus

OtherStage == [writing |-> 1, building |-> 2, queued |-> 3, gap |-> 4]

OtherNearer(r, old) ==
  \/ r.pc = "idle"
  \/ r.copies < old.copies
  \/ r.copies = old.copies /\ OtherStage[r.pc] < OtherStage[old.pc]

(* The segments still to send are at most those of the longest message. *)
LEMMA MissingCount ==
  ASSUME NEW S \in SUBSET Segments
  PROVE  /\ Cardinality(S) \in 0..MaxSegments
         /\ \A i \in S : Cardinality(S \ {i}) = Cardinality(S) - 1
<1>1. IsFiniteSet(Segments) /\ Cardinality(Segments) = MaxSegments
  BY FS_Interval, TxAssumption DEF Segments
<1>2. IsFiniteSet(S) /\ Cardinality(S) <= MaxSegments
  BY <1>1, FS_Subset
<1>3. Cardinality(S) \in Nat
  BY <1>2, FS_CardinalityType
<1> QED BY <1>2, <1>3, FS_RemoveElement, TxAssumption

(* Each step of a send brings it nearer to its end, and keeps the queue in order. *)
LEMMA SendGoes ==
  ASSUME Shape, Lined, NEW n \in Nodes, SendStep(n) \/ SendCancelled(n)
  PROVE  /\ Moves(n) /\ Nearer(send'[n], send[n]) /\ UNCHANGED other
         /\ \A k \in Nodes \ {n} : send'[k] = send[k]
<1> DEFINE o == send[n]
<1>t. o \in Sends /\ Ready(o) /\ n \in Waiters /\ UNCHANGED other
  BY DEF Shape, TypeOK, Waiters, SendStep, SendCancelled, StartBuild, BuildSegment, Write,
         WaitEnds, Timeout, Rewrap, Resend, SendRaises
<1>a. Asks(n) <=> o.pc \in {"queued", "building", "writing", "requeued", "resending"}
  BY TxAssumption DEF Asks
<1>b. /\ Cardinality(o.missing) \in 0..MaxSegments /\ Len(o.pdus) \in Nat
      /\ \A i \in o.missing : Cardinality(o.missing \ {i}) = Cardinality(o.missing) - 1
  BY <1>t, MissingCount DEF Sends
<1>1. CASE StartBuild(n)
  <2> DEFINE m == [o EXCEPT !.pc = "building", !.src = src, !.missing = Size(o.size)]
  <2>1. send' = [send EXCEPT ![n] = m] /\ UNCHANGED queue /\ o.pc = "queued" /\ o.pdus = <<>>
    BY <1>t, <1>1 DEF StartBuild, Ready, Shape, TypeOK
  <2>2. m.pc = "building" /\ m.attempt = o.attempt /\ m.missing = Size(o.size) /\ m.pdus = <<>>
    BY <1>t, <2>1 DEF Sends
  <2>3. Cardinality(Size(o.size)) \in 0..MaxSegments
    BY <1>t, SizeBounds, MissingCount DEF Sends
  <2> HIDE DEF m
  <2>4. Stage(m) < Stage(o)
    BY <2>1, <2>2, <2>3, NoPdus, TxAssumption DEF Stage
  <2> QED BY <1>t, <1>a, <2>1, <2>2, <2>4, SendMoves DEF Moves, Nearer
<1>2. CASE BuildSegment(n)
  <2> DEFINE index == First(o.missing)
             m     == [o EXCEPT !.pdus    = Append(@, [index |-> index, seq |-> next[o.src]]),
                                !.auth    = IF @ = -1 THEN next[o.src] ELSE @,
                                !.missing = @ \ {index},
                                !.pc      = IF o.missing = {index} THEN "writing" ELSE @]
  <2>1. send' = [send EXCEPT ![n] = m] /\ UNCHANGED queue /\ o.pc = "building"
    BY <1>2 DEF BuildSegment
  <2>2. index \in o.missing
    BY <1>t, <2>1, FirstIsIn DEF Sends, Ready, Segments
  <2>3. /\ m.pc \in {"building", "writing"} /\ m.attempt = o.attempt
        /\ m.missing = o.missing \ {index} /\ Len(m.pdus) = Len(o.pdus) + 1
    BY <1>t, <2>1 DEF Sends
  <2> HIDE DEF m, index
  <2>4. Cardinality(m.missing) = Cardinality(o.missing) - 1
    BY <1>b, <2>2, <2>3
  <2>5. Stage(m) < Stage(o)
    BY <1>b, <2>1, <2>3, <2>4 DEF Stage
  <2> QED BY <1>t, <1>a, <2>1, <2>3, <2>5, SendMoves DEF Moves, Nearer
<1>3. CASE Write(n)
  <2> DEFINE rest == [o EXCEPT !.pdus = Tail(@)]
             m    == IF rest.pdus # <<>> THEN rest ELSE AfterWriting(rest)
  <2>1. /\ send' = [send EXCEPT ![n] = m] /\ o.pc = "writing" /\ o.pdus # <<>> /\ Holds(n)
        /\ IF rest.pdus # <<>> THEN UNCHANGED queue ELSE Release
    BY <1>t, <1>3 DEF Write, Ready
  <2>0. Tail(o.pdus) \in Seq(Pdus) /\ Len(Tail(o.pdus)) = Len(o.pdus) - 1
    BY <1>t, <2>1 DEF Sends
  <2>2. /\ rest \in Sends /\ rest.pc = "writing" /\ rest.attempt = o.attempt
        /\ rest.missing = o.missing /\ Len(rest.pdus) = Len(o.pdus) - 1
    BY <1>t, <2>0, <2>1 DEF Sends
  <2> HIDE DEF rest
  <2>3. CASE rest.pdus # <<>>
    <3>1. Stage(m) < Stage(o)
      BY <1>b, <2>1, <2>2, <2>3 DEF Stage
    <3> QED BY <1>t, <1>a, <2>1, <2>2, <2>3, <3>1, SendMoves DEF Moves, Nearer
  <2>4. CASE rest.pdus = <<>>
    <3>1. m.pc = "idle" \/ (m = [rest EXCEPT !.pc = "waiting"] /\ m.pc = "waiting")
      <4>1. CASE rest.size = 1
        BY <2>2, <2>4, <4>1, EndedInOrder DEF AfterWriting
      <4>2. CASE rest.size # 1
        BY <2>2, <2>4, <4>2 DEF AfterWriting, Sends
      <4> QED BY <4>1, <4>2
    <3>2. m.pc = "waiting" =>
            m.attempt = o.attempt /\ m.missing = o.missing /\ Len(m.pdus) = Len(o.pdus) - 1
      BY <2>2, <3>1 DEF Sends
    <3> HIDE DEF m
    <3>3. m.pc = "waiting" => Stage(m) < Stage(o)
      BY <1>b, <2>1, <3>2 DEF Stage
    <3>4. Nearer(m, o) /\ m.pc \in {"idle", "waiting"}
      BY <3>1, <3>2, <3>3 DEF Nearer
    <3> QED BY <1>t, <1>a, <2>1, <2>4, <3>4, SendMoves DEF Moves
  <2> QED BY <2>3, <2>4
<1>4. ASSUME NEW m, send' = [send EXCEPT ![n] = m], m.pc = "idle",
             \/ UNCHANGED queue /\ o.pc = "waiting"
             \/ Holds(n) /\ Release
             \/ Leaves(n)
      PROVE  /\ Moves(n) /\ Nearer(send'[n], send[n])
             /\ \A k \in Nodes \ {n} : send'[k] = send[k]
  BY <1>t, <1>a, <1>4, SendMoves DEF Moves, Nearer
<1>5. CASE WaitEnds(n)
  <2>1. Outcome(o).pc = "idle"
    BY <1>t, EndedInOrder DEF Outcome
  <2> QED BY <1>t, <1>4, <1>5, <2>1 DEF WaitEnds
<1>6. CASE SendRaises(n) \/ SendCancelled(n)
  <2>1. Ended(o, "raised").pc = "idle"
    BY <1>t, EndedInOrder
  <2> QED BY <1>t, <1>4, <1>6, <2>1 DEF SendRaises, SendCancelled
<1>7. CASE Timeout(n)
  <2> DEFINE m == [o EXCEPT !.pc = "requeued", !.attempt = @ + 1,
                            !.missing = Size(o.size) \ o.block]
  <2>0. o.pc = "waiting"
    BY <1>7 DEF Timeout
  <2>1. CASE send' = [send EXCEPT ![n] = Outcome(o)] /\ UNCHANGED queue
    <3>1. Outcome(o).pc = "idle"
      BY <1>t, EndedInOrder DEF Outcome
    <3> QED BY <1>t, <1>4, <2>0, <2>1, <3>1
  <2>2. CASE send' = [send EXCEPT ![n] = m] /\ Enqueue(n)
    <3>1. m.pc = "requeued" /\ m.attempt > o.attempt
      BY <1>t, TxAssumption DEF Sends
    <3> HIDE DEF m
    <3> QED BY <1>t, <1>a, <2>0, <2>2, <3>1, SendMoves DEF Moves, Nearer
  <2> QED BY <1>7, <2>1, <2>2 DEF Timeout
<1>8. CASE Rewrap(n)
  <2> DEFINE index == First(o.missing)
             m == [o EXCEPT !.pc = "resending", !.missing = @ \ {index},
                            !.pdus = <<[index |-> index, seq |-> next[o.src]]>>]
  <2>1. /\ send' = [send EXCEPT ![n] = m] /\ UNCHANGED queue
        /\ o.pc \in {"requeued", "resending"} /\ o.pdus = <<>>
    BY <1>8 DEF Rewrap
  <2>2. index \in o.missing
    BY <1>t, <2>1, FirstIsIn DEF Sends, Ready, Segments
  <2>3. /\ m.pc = "resending" /\ m.attempt = o.attempt
        /\ m.missing = o.missing \ {index} /\ Len(m.pdus) = 1
    BY <1>t, <2>1 DEF Sends
  <2> HIDE DEF m, index
  <2>4. Cardinality(m.missing) = Cardinality(o.missing) - 1
    BY <1>b, <2>2, <2>3
  <2>5. Stage(m) < Stage(o)
    BY <1>b, <2>1, <2>3, <2>4, NoPdus DEF Stage
  <2> QED BY <1>t, <1>a, <2>1, <2>3, <2>5, SendMoves DEF Moves, Nearer
<1>9. CASE Resend(n)
  <2> DEFINE more == [o EXCEPT !.pdus = <<>>]
             done == [o EXCEPT !.pdus = <<>>, !.pc = "waiting"]
  <2>1. /\ o.pc = "resending" /\ o.pdus # <<>> /\ Holds(n)
        /\ \/ send' = [send EXCEPT ![n] = more] /\ UNCHANGED queue
           \/ send' = [send EXCEPT ![n] = done] /\ Release
    BY <1>9, <1>t DEF Resend, Shape, TypeOK
  <2>2. /\ more.pc = "resending" /\ more.attempt = o.attempt
        /\ more.missing = o.missing /\ Len(more.pdus) = 0
        /\ done.pc = "waiting" /\ done.attempt = o.attempt
        /\ done.missing = o.missing /\ Len(done.pdus) = 0
    BY <1>t, <2>1, NoPdus DEF Sends
  <2>3. Len(o.pdus) > 0
    BY <1>t, <2>1 DEF Sends
  <2> HIDE DEF more, done
  <2>4. Stage(more) < Stage(o) /\ Stage(done) < Stage(o)
    BY <1>b, <2>1, <2>2, <2>3 DEF Stage
  <2> QED BY <1>t, <1>a, <2>1, <2>2, <2>4, SendMoves DEF Moves, Nearer
<1> QED BY <1>t, <1>1, <1>2, <1>3, <1>5, <1>6, <1>7, <1>8, <1>9 DEF SendStep

LEMMA OtherGoes ==
  ASSUME Shape, Lined, NEW o \in Others, OtherStep(o) \/ OtherCancelled(o)
  PROVE  /\ Moves(o) /\ OtherNearer(other'[o], other[o]) /\ UNCHANGED send
         /\ \A k \in Others \ {o} : other'[k] = other[k]
<1> DEFINE was == other[o]
<1>t. was \in OtherStates /\ o \in Waiters /\ UNCHANGED send
      /\ (was.pc # "idle" => was.copies >= 1)
  BY DEF Shape, TypeOK, Waiters, OtherStep, OtherCancelled, OtherStarts, OtherBuilds,
         OtherWrites, NextCopy, OtherRaises
<1>a. Asks(o) <=> was.pc \in {"queued", "building", "writing"}
  BY TxAssumption DEF Asks
<1>1. CASE OtherStarts(o) \/ OtherBuilds(o) \/ NextCopy(o)
  <2>1. PICK r : other' = [other EXCEPT ![o] = r] /\ r.copies = was.copies
                 /\ \/ was.pc = "queued" /\ r.pc = "building" /\ UNCHANGED queue
                    \/ was.pc = "building" /\ r.pc = "writing" /\ UNCHANGED queue
                    \/ was.pc = "gap" /\ r.pc = "queued" /\ Enqueue(o)
    <3>1. CASE OtherStarts(o)
      <4>1. PICK r : r = [was EXCEPT !.pc = "building", !.src = src]
        OBVIOUS
      <4>2. other' = [other EXCEPT ![o] = r] /\ r.copies = was.copies /\ r.pc = "building"
        BY <1>t, <3>1, <4>1 DEF OtherStarts, OtherStates, Shape, TypeOK
      <4> QED BY <3>1, <4>2 DEF OtherStarts
    <3>2. CASE OtherBuilds(o)
      <4>1. PICK r : r = [was EXCEPT !.pc = "writing", !.seq = next[was.src]]
        OBVIOUS
      <4>2. other' = [other EXCEPT ![o] = r] /\ r.copies = was.copies /\ r.pc = "writing"
        BY <1>t, <3>2, <4>1 DEF OtherBuilds, OtherStates, Shape, TypeOK
      <4> QED BY <3>2, <4>2 DEF OtherBuilds
    <3>3. CASE NextCopy(o)
      <4>1. PICK r : r = [was EXCEPT !.pc = "queued"]
        OBVIOUS
      <4>2. other' = [other EXCEPT ![o] = r] /\ r.copies = was.copies /\ r.pc = "queued"
        BY <1>t, <3>3, <4>1 DEF NextCopy, OtherStates, Shape, TypeOK
      <4> QED BY <3>3, <4>2 DEF NextCopy
    <3> QED BY <1>1, <3>1, <3>2, <3>3
  <2>2. OtherStage[r.pc] < OtherStage[was.pc]
    BY <2>1 DEF OtherStage
  <2>3. r.pc \in {"queued", "building", "writing"} /\ OtherNearer(r, was)
    BY <2>1, <2>2 DEF OtherNearer
  <2>4. /\ \A q \in Waiters \ {o} : Asks(q)' <=> Asks(q)
        /\ Asks(o)' /\ other'[o] = r /\ \A k \in Others \ {o} : other'[k] = other[k]
    BY <1>t, <2>1, <2>3, OtherMoves
  <2> QED BY <1>t, <1>a, <2>1, <2>3, <2>4 DEF Moves
<1>2. CASE OtherWrites(o)
  <2> DEFINE again == [NoOther EXCEPT !.pc = "gap", !.copies = was.copies - 1]
  <2>1. /\ Holds(o) /\ Release /\ was.copies >= 1
        /\ other' = [other EXCEPT ![o] = NoOther] \/ other' = [other EXCEPT ![o] = again]
    BY <1>t, <1>2 DEF OtherWrites, Shape, TypeOK
  <2>2. again.pc = "gap" /\ again.copies < was.copies /\ NoOther.pc = "idle"
    BY <1>t, <2>1, TxAssumption DEF NoOther, OtherStates
  <2> HIDE DEF again
  <2> QED BY <1>t, <1>a, <2>1, <2>2, OtherMoves DEF Moves, OtherNearer
<1>3. CASE OtherRaises(o) \/ OtherCancelled(o)
  <2>1. NoOther.pc = "idle" /\ other' = [other EXCEPT ![o] = NoOther]
        /\ ((Holds(o) /\ Release) \/ Leaves(o))
    BY <1>3 DEF OtherRaises, OtherCancelled, NoOther
  <2> QED BY <1>t, <1>a, <2>1, OtherMoves DEF Moves, OtherNearer
<1> QED BY <1>1, <1>2, <1>3 DEF OtherStep

(* What a step does to the tasks under way, and to the queue. *)
Going ==
  /\ \A n \in Nodes : send[n].pc # "idle" =>
       Nearer(send'[n], send[n]) \/ (~SendStep(n) /\ AsFar(send'[n], send[n]))
  /\ \A o \in Others : other[o].pc # "idle" =>
       OtherNearer(other'[o], other[o]) \/ (~OtherStep(o) /\ other'[o] = other[o])

Ranked == \A p, q \in Waiters : Before(p, q) /\ Asks(p)' /\ Asks(q)' => Before(p, q)'

LEMMA GoingStep ==
  ASSUME Shape, Lined, [Next]_vars
  PROVE  Lined' /\ Ranked /\ Going
<1>t. queue \in Seq(Waiters) /\ send \in [Nodes -> Sends] /\ other \in [Others -> OtherStates]
  BY DEF Shape, TypeOK, Waiters
<1>0. ASSUME \A p \in Waiters : Asks(p)' <=> Asks(p), UNCHANGED queue
      PROVE  Lined' /\ Ranked
  BY <1>0 DEF Lined, Ranked, Before
<1>1. ASSUME NEW n \in Nodes, SendStep(n) \/ SendCancelled(n)
      PROVE  /\ Lined' /\ Ranked /\ UNCHANGED other /\ Nearer(send'[n], send[n])
             /\ \A k \in Nodes \ {n} : send'[k] = send[k]
  BY <1>t, <1>1, SendGoes, LinedStep DEF Ranked, Waiters
<1>2. ASSUME NEW o \in Others, OtherStep(o) \/ OtherCancelled(o)
      PROVE  /\ Lined' /\ Ranked /\ UNCHANGED send /\ OtherNearer(other'[o], other[o])
             /\ \A k \in Others \ {o} : other'[k] = other[k]
  BY <1>t, <1>2, OtherGoes, LinedStep DEF Ranked, Waiters
<1>3. ASSUME NEW n \in Nodes, Begin(n)
      PROVE  /\ Lined' /\ Ranked /\ UNCHANGED other /\ send[n].pc = "idle"
             /\ \A k \in Nodes \ {n} : send'[k] = send[k]
  <2>1. PICK k \in 1..MaxSegments :
          send' = [send EXCEPT ![n] = [NoSend EXCEPT !.pc = "queued", !.size = k]]
    BY <1>3 DEF Begin
  <2> DEFINE m == [NoSend EXCEPT !.pc = "queued", !.size = k]
  <2>2. m.pc = "queued" /\ send[n].pc = "idle" /\ UNCHANGED other /\ Enqueue(n)
    BY <1>3 DEF Begin, NoSend
  <2>3. ~Asks(n)
    BY <2>2, TxAssumption DEF Asks
  <2> HIDE DEF m
  <2>4. Moves(n) /\ \A j \in Nodes \ {n} : send'[j] = send[j]
    BY <2>1, <2>2, <2>3, SendMoves DEF m, Moves
  <2> QED BY <1>t, <2>2, <2>4, LinedStep DEF Ranked, Waiters
<1>4. ASSUME NEW o \in Others, Command(o) \/ SpawnAck(o)
      PROVE  /\ Lined' /\ Ranked /\ UNCHANGED send /\ other[o].pc = "idle"
             /\ \A k \in Others \ {o} : other'[k] = other[k]
  <2>1. PICK r : other' = [other EXCEPT ![o] = r] /\ r.pc = "queued"
    <3>1. ASSUME NEW c, other' = [other EXCEPT ![o] = [NoOther EXCEPT !.pc = "queued", !.copies = c]]
          PROVE  \E r : other' = [other EXCEPT ![o] = r] /\ r.pc = "queued"
      <4> DEFINE r == [NoOther EXCEPT !.pc = "queued", !.copies = c]
      <4>1. other' = [other EXCEPT ![o] = r] /\ r.pc = "queued"
        BY <3>1 DEF NoOther
      <4> QED BY <4>1
    <3> QED BY <1>4, <3>1 DEF Command, SpawnAck
  <2>2. other[o].pc = "idle" /\ UNCHANGED send /\ Enqueue(o)
    BY <1>4 DEF Command, SpawnAck
  <2>3. ~Asks(o)
    BY <2>2, TxAssumption DEF Asks
  <2>4. Moves(o) /\ \A j \in Others \ {o} : other'[j] = other[j]
    BY <2>1, <2>2, <2>3, OtherMoves DEF Moves
  <2> QED BY <1>t, <2>2, <2>4, LinedStep DEF Ranked, Waiters
<1>5. ASSUME NEW a \in acks, AckArrives(a)
      PROVE  /\ Lined' /\ Ranked /\ UNCHANGED other
             /\ \A k \in Nodes : AsFar(send'[k], send[k])
  <2> DEFINE n == a.from
             m == [send[n] EXCEPT !.acked = IF IsOf(a, n) THEN @ \cup a.block ELSE @]
             k == IF Matches(a, n) THEN Recorded(m, a.block) ELSE m
  <2>1. n \in Nodes
    BY DEF Shape, TypeOK, Acks
  <2>2. send' = [send EXCEPT ![n] = k] /\ UNCHANGED queue /\ UNCHANGED other
    BY <1>5 DEF AckArrives
  <2>3. AsFar(k, send[n])
    BY <1>t, <2>1 DEF Sends, Recorded, AsFar
  <2> HIDE DEF k, n
  <2>4. \A j \in Nodes : AsFar(send'[j], send[j])
    BY <1>t, <2>1, <2>2, <2>3 DEF AsFar
  <2>5. \A p \in Waiters : Asks(p)' <=> Asks(p)
    BY <2>2, <2>4 DEF Asks, AsFar, Waiters
  <2> QED BY <1>0, <2>2, <2>4, <2>5
<1>6. CASE Rotate \/ (\E n \in Nodes : NodeRefuses(n)) \/ UNCHANGED vars
  <2>1. UNCHANGED <<queue, send, other>>
    BY <1>6 DEF Rotate, NodeRefuses, vars
  <2>2. Lined' /\ Ranked
    BY <1>0, <2>1 DEF Asks
  <2> QED BY <1>1, <1>2, <2>1, <2>2 DEF Going, AsFar
<1>7. Going
  <2>1. ASSUME NEW n \in Nodes, send[n].pc # "idle"
        PROVE  Nearer(send'[n], send[n]) \/ (~SendStep(n) /\ AsFar(send'[n], send[n]))
    <3>1. SendStep(n) => Nearer(send'[n], send[n])
      BY <1>1
    <3>2. Nearer(send'[n], send[n]) \/ AsFar(send'[n], send[n])
      <4>1. send'[n] = send[n] => AsFar(send'[n], send[n])
        BY DEF AsFar
      <4> QED BY <1>1, <1>2, <1>3, <1>4, <1>5, <1>6, <2>1, <4>1 DEF Next, Rotate, NodeRefuses, vars
    <3> QED BY <3>1, <3>2
  <2>2. ASSUME NEW o \in Others, other[o].pc # "idle"
        PROVE  OtherNearer(other'[o], other[o]) \/ (~OtherStep(o) /\ other'[o] = other[o])
    <3>1. OtherStep(o) => OtherNearer(other'[o], other[o])
      BY <1>2
    <3>2. OtherNearer(other'[o], other[o]) \/ other'[o] = other[o]
      BY <1>1, <1>2, <1>3, <1>4, <1>5, <1>6, <2>2 DEF Next, Rotate, NodeRefuses, vars
    <3> QED BY <3>1, <3>2
  <2> QED BY <2>1, <2>2 DEF Going
<1>8. Lined' /\ Ranked
  BY <1>1, <1>2, <1>3, <1>4, <1>5, <1>6, <1>0 DEF Next, Rotate, NodeRefuses, vars, Asks
<1> QED BY <1>7, <1>8

LEMMA InitLined == Init => Lined
BY NoSendTyped, NoOtherTyped DEF Init, Lined, Asks, Waiters, NoSend, NoOther

(* The holder of the lock stands at a statement it can execute. *)
CanGoOn(p) ==
  \/ /\ p \in Nodes
     /\ \/ send[p].pc = "queued"
        \/ send[p].pc = "building" /\ send[p].missing # {}
        \/ send[p].pc \in {"writing", "resending"} /\ send[p].pdus # <<>>
        \/ send[p].pc \in {"requeued", "resending"} /\ send[p].pdus = <<>> /\ send[p].missing # {}
  \/ p \in Others /\ other[p].pc \in {"queued", "building", "writing"}

(* Who is under way and not in the queue waits for nobody: for its timer only. *)
NobodyIsStuck ==
  /\ queue # <<>> => CanGoOn(Head(queue))
  /\ \A n \in Nodes : send[n].pc # "idle" =>
       send[n].pc = "waiting" \/ \E i \in 1..Len(queue) : queue[i] = n
  /\ \A o \in Others : other[o].pc # "idle" =>
       other[o].pc = "gap" \/ \E i \in 1..Len(queue) : queue[i] = o

LEMMA LinedIsAlive == Shape /\ Lined => NobodyIsStuck
<1> SUFFICES ASSUME Shape, Lined
             PROVE  NobodyIsStuck
  OBVIOUS
<1>1. ASSUME queue # <<>>
      PROVE  CanGoOn(Head(queue))
  <2>1. 1 \in 1..Len(queue) /\ Head(queue) = queue[1] /\ Head(queue) \in Waiters
    BY <1>1 DEF Shape, TypeOK, Waiters
  <2>2. Asks(Head(queue))
    BY <2>1 DEF Lined
  <2> QED BY <2>1, <2>2 DEF Asks, CanGoOn, Shape, Ready
<1>2. ASSUME NEW n \in Nodes, send[n].pc # "idle", send[n].pc # "waiting"
      PROVE  \E i \in 1..Len(queue) : queue[i] = n
  <2>1. Asks(n)
    BY <1>2 DEF Asks, Shape, TypeOK, Sends
  <2> QED BY <2>1 DEF Lined, Waiters
<1>3. ASSUME NEW o \in Others, other[o].pc # "idle", other[o].pc # "gap"
      PROVE  \E i \in 1..Len(queue) : queue[i] = o
  <2>1. Asks(o)
    BY <1>3 DEF Asks, Shape, TypeOK, OtherStates
  <2> QED BY <2>1 DEF Lined, Waiters
<1> QED BY <1>1, <1>2, <1>3 DEF NobodyIsStuck

-----------------------------------------------------------------------------
(* Theorems                                                                *)

(* The inductive invariant holds for any number of remotes, tasks,         *)
(* segments, retransmissions and rotations.                                *)
THEOREM Inductive == Spec => []IInv
BY InitInv, StepInv, PTL DEF Spec

(* Every variable keeps its type; no segment is sent more often than       *)
(* SAR_RETRANSMISSIONS allows (gatt 1328-1333).                            *)
THEOREM TypeCorrect == Spec => []TypeOK
<1>1. IInv => TypeOK
  BY DEF IInv, Shape
<1> QED BY Inductive, <1>1, PTL

(* A segmented message reported as acknowledged is one its remote holds in *)
(* full (send_devkey with _handle_network_pdu, gatt 1139-1150, 1314-1331). *)
THEOREM AcknowledgedIsHeld == Spec => []AckIsForThisMessage
<1>1. IInv => AckIsForThisMessage
  BY DEF IInv, Truth
<1> QED BY Inductive, <1>1, PTL

(* The SEQs of an SRC go out in the order they were taken, whoever sends:  *)
(* _tx_lock spans the taking and the writing (gatt 616, 1297, 1338, 1379). *)
THEOREM InOrder == Spec => SeqsInOrder
<1>1. IInv /\ IInv' /\ [Next]_vars => [InOrderStep]_vars
  <2>1. ASSUME IInv, IInv', Next
        PROVE  InOrderStep
    BY <2>1, OrderStep DEF IInv
  <2> QED BY <2>1
<1>2. [InOrderStep]_vars <=> [\A s \in Srcs : emitted'[s] = emitted[s] \/ emitted'[s] > emitted[s]]_vars
  BY DEF InOrderStep
<1> QED BY Inductive, <1>1, <1>2, PTL DEF Spec, SeqsInOrder

(* send_devkey answers False only when the acknowledgments that arrived in *)
(* time leave a segment out, its remote refused, or our SRC was rotated    *)
(* meanwhile (send_devkey with _handle_network_pdu, gatt 1139-1150 and     *)
(* 1314-1345).                                                             *)
THEOREM FalseOnlyIfIncomplete == Spec => []FalseIsTrue
<1>1. Spec => []Heard
  BY Inductive, InitHeard, HeardStep, PTL DEF Spec
<1>2. Heard => FalseIsTrue
  BY DEF Heard, NothingLost, FalseIsTrue
<1> QED BY <1>1, <1>2, PTL

(* _tx_lock is held or awaited by exactly the tasks that need it, once     *)
(* each: no exception, cancellation or last PDU leaves it taken            *)
(* (gatt 1297, 1310-1345, 1369-1387).                                      *)
THEOREM LinedUp == Spec => []Lined
<1>1. IInv /\ Lined /\ [Next]_vars => Lined'
  BY GoingStep DEF IInv
<1> QED BY Inductive, InitLined, <1>1, PTL DEF Spec

(* Nobody waits for ever on somebody who cannot go on: there is no         *)
(* deadlock between a send that waits for its acknowledgment and the       *)
(* commands and Segment Acks that want the lock (gatt 1310-1345).          *)
THEOREM LockIsGivenOn == Spec => []NobodyIsStuck
<1>1. IInv /\ Lined => NobodyIsStuck
  BY LinedIsAlive DEF IInv
<1> QED BY Inductive, LinedUp, <1>1, PTL

(* Whoever waits for the lock is never overtaken.                          *)
THEOREM FirstComeFirstServed == Spec => [][Ranked]_vars
<1>1. IInv /\ Lined /\ [Next]_vars => [Ranked]_vars
  BY GoingStep DEF IInv
<1> QED BY Inductive, LinedUp, <1>1, PTL DEF Spec

(* No step of a send is in vain, and nobody else's sets it back: an        *)
(* attempt comes to its end, and there are SAR_RETRANSMISSIONS more of     *)
(* them. With LockIsGivenOn and FirstComeFirstServed this is what          *)
(* EverySendEnds rests on, but for the fairness (gatt 1310-1345, 1369-1387). *)
THEOREM EveryStepCounts == Spec => [][Going]_vars
<1>1. IInv /\ Lined /\ [Next]_vars => [Going]_vars
  BY GoingStep DEF IInv
<1> QED BY Inductive, LinedUp, <1>1, PTL DEF Spec
=============================================================================
