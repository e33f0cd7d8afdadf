----------------------------- MODULE SegmentedTx -----------------------------
(***************************************************************************)
(* What MeshProxyConnection sends: Configuration messages to the remotes,  *)
(* segmented and retransmitted until acknowledged (send_devkey), and the   *)
(* single PDUs of commands and Segment Acks, all under _tx_lock.           *)
(*                                                                         *)
(* A PDU is its message, segment and SEQ; encryption and the chunks of a   *)
(* GATT write (one PDU at a time under _send_lock) are left out.  A PDU    *)
(* reaches its node when it is written or never: a relay's delay only      *)
(* delays the acknowledgment, and acknowledgments are as late, as many     *)
(* and as lost as they like, except that one dies before the SEQs of its   *)
(* SRC advance by SeqZeroSpan (2^13: minutes of uninterrupted sending).    *)
(* A node has one sender, as a remote has one configuration job.           *)
(*                                                                         *)
(* Bounds of the model: MaxSegments of a message, MaxTaken SEQs after      *)
(* which no task begins to send, MaxRotations of the SRC.                  *)
(***************************************************************************)
EXTENDS Integers, Sequences, SequencesExt

CONSTANTS
  Nodes,                \* the remotes that Configuration messages go to
  Others,               \* tasks that send one PDU under the lock
  MaxSegments,
  SeqZeroSpan,          \* 2^13: SeqZero is the message's first SEQ modulo this
  SAR_RETRANSMISSIONS,
  ACK_COPIES,
  MaxTaken,             \* nothing new is sent once this many SEQs are taken
  MaxRotations

ASSUME TxAssumption ==
  /\ Nodes \cap Others = {}
  /\ MaxSegments \in Nat \ {0}
  /\ SeqZeroSpan \in Nat \ {0}
  /\ SAR_RETRANSMISSIONS \in Nat
  /\ ACK_COPIES \in Nat \ {0}
  /\ MaxTaken \in Nat
  /\ MaxRotations \in Nat

VARIABLES
  src,      \* session.src: the address the next message is built from
  next,     \* [Srcs -> Nat]: the SEQ next_seq returns next for each SRC
  emitted,  \* [Srcs -> SEQ]: the last SEQ that went out, -1 before the first
  queue,    \* those who hold (its head) or wait for _tx_lock, in order
  send,     \* [Nodes -> record]: send_devkey to each node and its entry in _acks
  other,    \* [Others -> record]: send_access or _send_ack
  node,     \* [Nodes -> record]: the message each node is reassembling
  acks      \* the Segment Acks that may still reach us

vars == <<src, next, emitted, queue, send, other, node, acks>>

Srcs     == 0..MaxRotations
Segments == 0..(MaxSegments - 1)
Size(k)  == 0..(k - 1)

(* "queued" waits for the lock to build, "requeued" to send again.         *)
(* `acked` is history: the segments that acknowledgments of this very      *)
(* message reported while it was open, whatever the code made of them.     *)
NoSend == [pc |-> "idle", src |-> 0, auth |-> -1, size |-> 1, missing |-> {},
           pdus |-> <<>>, attempt |-> 0, block |-> {}, cancelled |-> FALSE,
           acked |-> {}, result |-> "none"]

NoOther == [pc |-> "idle", src |-> 0, seq |-> -1, copies |-> 0]

(* Mutant: whoever has asked for the lock goes ahead. *)
HasAsked(p) == \E i \in DOMAIN queue : queue[i] = p

Holds(p)   == queue # <<>> /\ Head(queue) = p
Enqueue(p) == queue' = Append(queue, p)
Release    == queue' = Tail(queue)

Segmented(n) == send[n].size > 1

(* The message has an entry in _acks. *)
IsOpen(n) == Segmented(n) /\ send[n].pc \in {"writing", "waiting", "requeued", "resending"}

Zero(auth) == auth % SeqZeroSpan

(* send_devkey returns or raises.  What a segmented message was stays as   *)
(* history with how it ended.                                              *)
Ended(m, result) ==
  IF m.size = 1 \/ result = "raised" THEN [NoSend EXCEPT !.result = result]
  ELSE [m EXCEPT !.pc = "idle", !.result = result, !.missing = {}, !.pdus = <<>>,
                 !.attempt = 0, !.block = {}]

First(S) == CHOOSE i \in S : \A j \in S : i <= j

Taken    == FoldFunction(+, 0, next)
MaySend == Taken < MaxTaken

-----------------------------------------------------------------------------
(* next_seq hands out the next SEQ of s, or raises (see SendRaises). An ack *)
(* that would outlive the SeqZero of its message is gone by then.           *)
TakeSeq(s) ==
  /\ next' = [next EXCEPT ![s] = @ + 1]
  /\ acks' = {a \in acks : a.to = s => next[s] < a.auth + SeqZeroSpan}

Emit(s, seq) == emitted' = [emitted EXCEPT ![s] = seq]

(* The node keeps one message at a time; each segment of it that arrives   *)
(* is followed by an acknowledgment of all it has.                         *)
Receives(n, s, auth, index) ==
  LET old  == node[n]
      have == IF old.src = s /\ old.auth = auth THEN old.have \cup {index} ELSE {index}
  IN /\ node' = [node EXCEPT ![n] = [src |-> s, auth |-> auth, have |-> have]]
     /\ acks' = acks \cup {[from |-> n, to |-> s, auth |-> auth, block |-> have]}

(* One PDU of the message to n is written; the mesh may lose it. *)
WritePdu(n, pdu) ==
  /\ Emit(send[n].src, pdu.seq)
  /\ \/ Segmented(n) /\ Receives(n, send[n].src, send[n].auth, pdu.index)
     \/ UNCHANGED <<node, acks>>

-----------------------------------------------------------------------------
(* send_devkey                                                             *)

Begin(n) ==
  /\ MaySend
  /\ send[n].pc = "idle"
  /\ \E k \in 1..MaxSegments :
       send' = [send EXCEPT ![n] = [NoSend EXCEPT !.pc = "queued", !.size = k]]
  /\ Enqueue(n)
  /\ UNCHANGED <<src, next, emitted, other, node, acks>>

(* build_devkey_message reads the SRC once; the SEQs it then awaits are    *)
(* all of that SRC, whatever rotates meanwhile.                            *)
StartBuild(n) ==
  /\ Holds(n) /\ send[n].pc = "queued"
  /\ send' = [send EXCEPT ![n].pc = "building", ![n].src = src,
                          ![n].missing = Size(send[n].size)]
  /\ UNCHANGED <<src, next, emitted, queue, other, node, acks>>

(* The SEQ of the next segment; the first is the message's SeqAuth. With   *)
(* the last the message's entry in _acks is open and empty.                *)
BuildSegment(n) ==
  /\ Holds(n) /\ send[n].pc = "building"
  /\ LET m     == send[n]
         index == First(m.missing)
     IN /\ TakeSeq(m.src)
        /\ send' = [send EXCEPT ![n] =
             [m EXCEPT !.pdus    = Append(@, [index |-> index, seq |-> next[m.src]]),
                       !.auth    = IF @ = -1 THEN next[m.src] ELSE @,
                       !.missing = @ \ {index},
                       !.pc      = IF m.missing = {index} THEN "writing" ELSE @]]
  /\ UNCHANGED <<src, emitted, queue, other, node>>

(* An unsegmented message is done once sent. *)
AfterWriting(m) ==
  IF m.size = 1 THEN Ended(m, "true")
  ELSE [m EXCEPT !.pc = "waiting"]

Write(n) ==
  /\ Holds(n) /\ send[n].pc = "writing"
  /\ LET m    == send[n]
         rest == [m EXCEPT !.pdus = Tail(@)]
     IN /\ WritePdu(n, Head(m.pdus))
        /\ IF rest.pdus # <<>> THEN send' = [send EXCEPT ![n] = rest] /\ UNCHANGED queue
           ELSE send' = [send EXCEPT ![n] = AfterWriting(rest)] /\ Release
  /\ UNCHANGED <<src, next, other>>

(* _wait_ack returns the block: complete or cancelled, it decides at once. *)
Complete(m)  == m.block = Size(m.size) /\ ~m.cancelled
Outcome(m)   == Ended(m, IF Complete(m) THEN "true" ELSE "false")

WaitEnds(n) ==
  /\ send[n].pc = "waiting"
  /\ Complete(send[n]) \/ send[n].cancelled
  /\ send' = [send EXCEPT ![n] = Outcome(send[n])]
  /\ UNCHANGED <<src, next, emitted, queue, other, node, acks>>

(* Mutant: one attempt too many. *)
AttemptAfterLast(m) == m.attempt > SAR_RETRANSMISSIONS

LastAttempt(m) == m.attempt = SAR_RETRANSMISSIONS

(* SAR_ACK_TIMEOUT passes: give up after the last attempt, or send what is *)
(* missing NOW again, whatever arrives while waiting for the lock.         *)
Timeout(n) ==
  /\ send[n].pc = "waiting"
  /\ ~Complete(send[n]) /\ ~send[n].cancelled
  /\ LET m == send[n]
     IN \/ /\ LastAttempt(m)
           /\ send' = [send EXCEPT ![n] = Outcome(m)]
           /\ UNCHANGED queue
        \/ /\ ~LastAttempt(m)
           /\ send' = [send EXCEPT ![n] =
                [m EXCEPT !.pc = "requeued", !.attempt = @ + 1,
                          !.missing = Size(m.size) \ m.block]]
           /\ Enqueue(n)
  /\ UNCHANGED <<src, next, emitted, other, node, acks>>

(* rewrap_segment: a fresh SEQ of the message's own SRC. *)
Rewrap(n) ==
  /\ Holds(n) /\ send[n].pc \in {"requeued", "resending"}
  /\ send[n].pdus = <<>>
  /\ LET m == send[n]
         index == First(m.missing)
     IN /\ TakeSeq(m.src)
        /\ send' = [send EXCEPT ![n] =
             [m EXCEPT !.pc = "resending", !.missing = @ \ {index},
                       !.pdus = <<[index |-> index, seq |-> next[m.src]]>>]]
  /\ UNCHANGED <<src, emitted, queue, other, node>>

Resend(n) ==
  /\ Holds(n) /\ send[n].pc = "resending"
  /\ send[n].pdus # <<>>
  /\ LET m == send[n]
     IN /\ WritePdu(n, Head(m.pdus))
        /\ IF m.missing # {} THEN send' = [send EXCEPT ![n].pdus = <<>>] /\ UNCHANGED queue
           ELSE send' = [send EXCEPT ![n].pdus = <<>>, ![n].pc = "waiting"] /\ Release
  /\ UNCHANGED <<src, next, other>>

(* Mutant: the exception leaves the lock taken. *)
RaisesWithLock(n) ==
  /\ Holds(n)
  /\ send[n].pc # "queued"
  /\ send' = [send EXCEPT ![n] = Ended(@, "raised")]
  /\ UNCHANGED <<src, next, emitted, queue, other, node, acks>>

(* next_seq raises (exhausted, disk) or the link is gone at a write: the   *)
(* exception leaves the lock and drops the entry in _acks.                 *)
SendRaises(n) ==
  /\ Holds(n)
  /\ send[n].pc # "queued"
  /\ send' = [send EXCEPT ![n] = Ended(@, "raised")]
  /\ Release
  /\ UNCHANGED <<src, next, emitted, other, node, acks>>

(* A task cancelled while it waits for the lock, or holds it, leaves the queue. *)
Leaves(p) ==
  \/ p \notin Range(queue) /\ UNCHANGED queue
  \/ \E i \in DOMAIN queue : queue[i] = p /\ queue' = RemoveAt(queue, i)

(* Unload cancels the remote's job, wherever it waits. *)
SendCancelled(n) ==
  /\ send[n].pc # "idle"
  /\ send' = [send EXCEPT ![n] = Ended(@, "raised")]
  /\ Leaves(n)
  /\ UNCHANGED <<src, next, emitted, other, node, acks>>

-----------------------------------------------------------------------------
(* Single PDUs                                                             *)

(* A command: its TID is the low byte of a SEQ, taken outside the lock and *)
(* never transmitted as a SEQ.                                             *)
Command(o) ==
  /\ MaySend
  /\ other[o].pc = "idle"
  /\ TakeSeq(src)
  /\ other' = [other EXCEPT ![o] = [NoOther EXCEPT !.pc = "queued", !.copies = 1]]
  /\ Enqueue(o)
  /\ UNCHANGED <<src, emitted, send, node>>

(* A Segment Ack we owe to a node that sent us segments. *)
SpawnAck(o) ==
  /\ MaySend
  /\ other[o].pc = "idle"
  /\ other' = [other EXCEPT ![o] = [NoOther EXCEPT !.pc = "queued", !.copies = ACK_COPIES]]
  /\ Enqueue(o)
  /\ UNCHANGED <<src, next, emitted, send, node, acks>>

(* The SRC is read before its SEQ is awaited. *)
OtherStarts(o) ==
  /\ Holds(o) /\ other[o].pc = "queued"
  /\ other' = [other EXCEPT ![o].pc = "building", ![o].src = src]
  /\ UNCHANGED <<src, next, emitted, queue, send, node, acks>>

OtherBuilds(o) ==
  /\ Holds(o) /\ other[o].pc = "building"
  /\ TakeSeq(other[o].src)
  /\ other' = [other EXCEPT ![o].pc = "writing", ![o].seq = next[other[o].src]]
  /\ UNCHANGED <<src, emitted, queue, send, node>>

OtherWrites(o) ==
  /\ Holds(o) /\ other[o].pc = "writing"
  /\ Emit(other[o].src, other[o].seq)
  /\ other' = [other EXCEPT ![o] =
       IF @.copies = 1 THEN NoOther
       ELSE [NoOther EXCEPT !.pc = "gap", !.copies = other[o].copies - 1]]
  /\ Release
  /\ UNCHANGED <<src, next, send, node, acks>>

(* ACK_COPY_GAP later. *)
NextCopy(o) ==
  /\ other[o].pc = "gap"
  /\ other' = [other EXCEPT ![o].pc = "queued"]
  /\ Enqueue(o)
  /\ UNCHANGED <<src, next, emitted, send, node, acks>>

OtherRaises(o) ==
  /\ Holds(o) /\ other[o].pc \in {"building", "writing"}
  /\ other' = [other EXCEPT ![o] = NoOther]
  /\ Release
  /\ UNCHANGED <<src, next, emitted, send, node, acks>>

(* disconnect() cancels the Segment Acks under way; a command may be too. *)
OtherCancelled(o) ==
  /\ other[o].pc # "idle"
  /\ other' = [other EXCEPT ![o] = NoOther]
  /\ Leaves(o)
  /\ UNCHANGED <<src, next, emitted, send, node, acks>>

-----------------------------------------------------------------------------
(* The coordinator rotates to an SRC never used before (co 567). *)
Rotate ==
  /\ src < MaxRotations
  /\ src' = src + 1
  /\ UNCHANGED <<next, emitted, queue, send, other, node, acks>>

(* A node that cannot take the message answers with an empty block. *)
NodeRefuses(n) ==
  /\ node[n].auth # -1
  /\ next[node[n].src] <= node[n].auth + SeqZeroSpan
  /\ acks' = acks \cup {[from |-> n, to |-> node[n].src, auth |-> node[n].auth, block |-> {}]}
  /\ UNCHANGED <<src, next, emitted, queue, send, other, node>>

(* Mutant: an acknowledgment to any address of ours counts. *)
MatchesAnyAddress(a, n) ==
  /\ a.from = n
  /\ IsOpen(n)
  /\ Zero(a.auth) = Zero(send[n].auth)

(* _handle_network_pdu takes an acknowledgment for a message it is still   *)
(* sending: from its node, to our CURRENT address, with its SeqZero.       *)
Matches(a, n) ==
  /\ a.from = n
  /\ IsOpen(n)
  /\ a.to = src
  /\ Zero(a.auth) = Zero(send[n].auth)

(* Mutant: the last acknowledgment to arrive replaces the earlier ones. *)
LatestBlock(m, block) ==
  [m EXCEPT !.block = block, !.cancelled = @ \/ block = {}]

(* The blocks accumulate; an empty one is kept as "cancelled" (-1). *)
Recorded(m, block) ==
  [m EXCEPT !.block = @ \cup block, !.cancelled = @ \/ block = {}]

IsOf(a, n) == a.from = n /\ IsOpen(n) /\ a.to = send[n].src /\ a.auth = send[n].auth

AckArrives(a) ==
  LET n == a.from
      m == [send[n] EXCEPT !.acked = IF IsOf(a, n) THEN @ \cup a.block ELSE @]
  IN /\ IsOpen(n)
     /\ send' = [send EXCEPT ![n] = IF Matches(a, n) THEN Recorded(m, a.block) ELSE m]
     /\ UNCHANGED <<src, next, emitted, queue, other, node, acks>>

-----------------------------------------------------------------------------
Init ==
  /\ src = 0
  /\ next = [s \in Srcs |-> 0]
  /\ emitted = [s \in Srcs |-> -1]
  /\ queue = <<>>
  /\ send = [n \in Nodes |-> NoSend]
  /\ other = [o \in Others |-> NoOther]
  /\ node = [n \in Nodes |-> [src |-> 0, auth |-> -1, have |-> {}]]
  /\ acks = {}

SendStep(n) ==
  \/ StartBuild(n)
  \/ BuildSegment(n)
  \/ Write(n)
  \/ WaitEnds(n)
  \/ Timeout(n)
  \/ Rewrap(n)
  \/ Resend(n)
  \/ SendRaises(n)

OtherStep(o) ==
  \/ OtherStarts(o)
  \/ OtherBuilds(o)
  \/ OtherWrites(o)
  \/ NextCopy(o)
  \/ OtherRaises(o)

Next ==
  \/ \E n \in Nodes : Begin(n) \/ SendStep(n) \/ SendCancelled(n) \/ NodeRefuses(n)
  \/ \E o \in Others : Command(o) \/ SpawnAck(o) \/ OtherStep(o) \/ OtherCancelled(o)
  \/ \E a \in acks : AckArrives(a)
  \/ Rotate

Spec == Init /\ [][Next]_vars

(* Every task that can go on does: the lock is FIFO, and a wait for an     *)
(* acknowledgment ends with its timer. Nothing makes the mesh deliver.     *)
FairSpec ==
  /\ Spec
  /\ \A n \in Nodes : WF_vars(SendStep(n))
  /\ \A o \in Others : WF_vars(OtherStep(o))

-----------------------------------------------------------------------------
Seqs == Nat
Pdus == [index : Segments, seq : Seqs]
Acks == [from : Nodes, to : Srcs, auth : Seqs, block : SUBSET Segments]

Sends ==
  [pc : {"idle", "queued", "building", "writing", "waiting", "requeued", "resending"},
   src : Srcs, auth : Seqs \cup {-1}, size : 1..MaxSegments, missing : SUBSET Segments,
   pdus : Seq(Pdus), attempt : 0..SAR_RETRANSMISSIONS, block : SUBSET Segments,
   cancelled : BOOLEAN, acked : SUBSET Segments,
   result : {"none", "true", "false", "raised"}]

OtherStates ==
  [pc : {"idle", "queued", "building", "writing", "gap"}, src : Srcs,
   seq : Seqs \cup {-1}, copies : 0..ACK_COPIES]

(* Every variable has its type; a segment is never retransmitted more than *)
(* SAR_RETRANSMISSIONS times (gatt 1328-1333).                             *)
TypeOK ==
  /\ src \in Srcs
  /\ next \in [Srcs -> Nat]
  /\ emitted \in [Srcs -> Seqs \cup {-1}]
  /\ queue \in Seq(Nodes \cup Others)
  /\ send \in [Nodes -> Sends]
  /\ other \in [Others -> OtherStates]
  /\ node \in [Nodes -> [src : Srcs, auth : Seqs \cup {-1}, have : SUBSET Segments]]
  /\ acks \subseteq Acks

(* A segmented message reported as acknowledged is one its node holds in   *)
(* full: no acknowledgment of another node, of an earlier message with the *)
(* same SeqZero or of one sent from a retired address is taken for it, and *)
(* none is made up of what a node has said of two messages (gatt 1139-1150 *)
(* and 1314-1331).                                                         *)
AckIsForThisMessage ==
  \A n \in Nodes :
    send[n].result = "true" /\ Segmented(n) =>
      node[n] = [src |-> send[n].src, auth |-> send[n].auth, have |-> Size(send[n].size)]

(* send_devkey answers False only when the acknowledgments that arrived    *)
(* in time, put together, leave a segment out, or its node refused; unless *)
(* our SRC was rotated meanwhile: the answers then go to an address        *)
(* _handle_network_pdu no longer listens to (gatt 1146).                   *)
FalseIsTrue ==
  \A n \in Nodes :
    LET m == send[n] IN
    m.result = "false" /\ ~m.cancelled /\ m.src = src => m.acked # Size(m.size)

(* The SEQs of one SRC leave in the order they were taken, whoever sends:  *)
(* a node drops one that is not above the last it heard, so a command or   *)
(* an acknowledgment overtaken by a later SEQ would silently do nothing    *)
(* (_tx_lock, gatt 616 and 1297, 1312, 1338, 1379).                        *)
SeqsInOrder ==
  [][\A s \in Srcs : emitted'[s] = emitted[s] \/ emitted'[s] > emitted[s]]_vars

(* Every send ends, acknowledged or not, answered by its node or not: the  *)
(* lock is always given on and no task waits for ever (gatt 1310-1345 and  *)
(* 1369-1387).                                                             *)
EverySendEnds ==
  /\ \A n \in Nodes : send[n].pc # "idle" ~> send[n].pc = "idle"
  /\ \A o \in Others : other[o].pc # "idle" ~> other[o].pc = "idle"
=============================================================================
