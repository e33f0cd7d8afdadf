----------------------------- MODULE Reassembly -----------------------------
(***************************************************************************)
(* The receiving half of segmentation: Reassembler collects the segments   *)
(* of access messages, hands each message up once it is complete, and says *)
(* which of them to acknowledge.                                           *)
(*                                                                         *)
(* The senders are the mesh's nodes.  A node sends and repeats the         *)
(* segments of its messages, each time with a fresh SEQ less than          *)
(* SeqZeroSpan past the first (Mesh Profile 3.5.3.1), and the mesh loses,  *)
(* repeats and reorders them: any segment of a message may arrive at any   *)
(* moment of its life, or never.  What a segment carries is abstracted to   *)
(* the message it is of and its place there, which no key depends on;      *)
(* network keys, MICs and the layout of headers are left out, and so is    *)
(* parse_segment's refusal of a malformed header.  Time is counted in      *)
(* ticks.                                                                  *)
(*                                                                         *)
(* Bounds of the model: MaxSegments, MaxAuth the last SeqAuth used,        *)
(* MaxSent messages, MaxTime and MaxRotations.                             *)
(***************************************************************************)
EXTENDS Integers, FiniteSets, Sequences, SequencesExt

CONSTANTS
  Nodes,
  Groups,         \* group addresses a message may be for
  MaxSegments,    \* 32
  SeqZeroSpan,    \* 2^13
  TIMEOUT,        \* of the reassembler: 10 s
  Life,           \* [Nodes -> Nat]: how long a node repeats one message
  MaxAuth,
  MaxSent,
  MaxTime,
  MaxRotations

Srcs == 0..MaxRotations

ASSUME ReassemblyAssumption ==
  /\ MaxSegments \in Nat \ {0}
  /\ SeqZeroSpan \in Nat \ {0}
  /\ TIMEOUT \in Nat
  /\ Life \in [Nodes -> Nat]
  /\ MaxAuth \in Nat
  /\ MaxSent \in Nat
  /\ MaxTime \in Nat
  /\ MaxRotations \in Nat
  /\ Groups \cap Srcs = {}

VARIABLES
  src,       \* session.src: our address
  now,       \* time.monotonic()
  sent,      \* the messages that nodes have begun to send
  pending,   \* [Keys -> entry]: Reassembler._pending, NoEntry where it has none
  inbox,     \* what was handed up, in order
  reply      \* the segment decoded last, and the Block Ack to answer it with

vars == <<src, now, sent, pending, inbox, reply>>

Auths    == 0..(MaxAuth + SeqZeroSpan)
Segments == 0..(MaxSegments - 1)
Size(k)  == 0..(k - 1)
Keys     == Nodes \X Auths

(* A dict's parts are a function on the places that have arrived. *)
NoEntry == [size |-> 0, parts |-> <<>>, started |-> 0, done |-> FALSE]
NoReply == [of |-> {}, block |-> {}]

Messages ==
  [from : Nodes, auth : 0..MaxAuth, size : 1..MaxSegments, to : Srcs \cup Groups, born : 0..MaxTime]

(* The data of a segment. *)
Part(m, index) == [from |-> m.from, auth |-> m.auth, index |-> index]

(* A message as it is handed up: its parts, joined in order. *)
Text(m) == [from |-> m.from, auth |-> m.auth, parts |-> [i \in 1..m.size |-> Part(m, i - 1)]]

Repeats(m) == now - m.born <= Life[m.from]

-----------------------------------------------------------------------------
(* seq_auth_for: the SEQ whose low 13 bits are SeqZero, at most seq. *)
SeqAuthFor(seq, zero) == seq - ((seq - zero) % SeqZeroSpan)

(* Mutant: the entry is found by the SeqZero in the segment's header. *)
ZeroKey(node, auth) == <<node, auth % SeqZeroSpan>>

(* The key of a segment's entry. *)
Key(node, auth) == <<node, auth>>

(* Mutant: the timeout is reached, not passed. *)
ExpiredAtTimeout(entry) ==
  IF now - entry.started >= TIMEOUT THEN NoEntry ELSE entry

(* _expire, for one entry. *)
Expire(entry) ==
  IF now - entry.started > TIMEOUT THEN NoEntry ELSE entry

Held(entry) == DOMAIN entry.parts

(* The entry a segment of m belongs to, made if there is none. *)
EntryFor(entry, m) ==
  IF entry = NoEntry THEN [NoEntry EXCEPT !.size = m.size, !.started = now] ELSE entry

Whole(entry) == Size(entry.size) \subseteq Held(entry)

(* The segment joins the others; with the last one the message is done. A  *)
(* SegN other than the entry's and a segment of a finished message change  *)
(* nothing.                                                                *)
Stored(entry, m, index) ==
  LET parts == [i \in Held(entry) \cup {index} |->
                  IF i = index THEN Part(m, index) ELSE entry.parts[i]]
      next  == [entry EXCEPT !.parts = parts]
  IN IF entry.size # m.size \/ entry.done THEN entry
     ELSE [next EXCEPT !.done = Whole(next)]

(* Mutant: what is there is acknowledged at once. *)
PartialAck(entry, m) ==
  IF m.to = src THEN Held(entry) ELSE {}

(* decode_network_pdu acknowledges a complete message addressed to us,     *)
(* again for each segment of it that comes back.                           *)
AckFor(entry, m) ==
  IF m.to = src /\ Held(entry) = Size(m.size) THEN Held(entry) ELSE {}

(* Segment `index` of m arrives with the SEQ `later` past its first:       *)
(* Reassembler.add, then the message is handed up if this completed it.    *)
Arrives(m, index, later) ==
  LET auth   == SeqAuthFor(m.auth + later, m.auth % SeqZeroSpan)
      key    == Key(m.from, auth)
      kept   == [k \in Keys |-> Expire(pending[k])]
      before == EntryFor(kept[key], m)
      after  == Stored(before, m, index)
  IN /\ Repeats(m)
     /\ pending' = [kept EXCEPT ![key] = after]
     /\ inbox' = IF after.done /\ ~before.done
                 THEN Append(inbox, [from |-> m.from, auth |-> auth,
                                     parts |-> [i \in 1..m.size |-> after.parts[i - 1]]])
                 ELSE inbox
     /\ reply' = [of |-> {m}, block |-> AckFor(after, m)]
     /\ UNCHANGED <<src, now, sent>>

-----------------------------------------------------------------------------
(* A node begins a message: its SEQs are past those of its earlier ones. *)
Send(n) ==
  /\ Cardinality(sent) < MaxSent
  /\ \E m \in Messages :
       /\ m.from = n
       /\ m.born = now
       /\ m.to \in 0..src \cup Groups
       /\ \A e \in sent : e.from = n => e.auth + e.size <= m.auth
       /\ sent' = sent \cup {m}
  /\ reply' = NoReply
  /\ UNCHANGED <<src, now, pending, inbox>>

(* The coordinator rotates to another SRC. *)
Rotate ==
  /\ src < MaxRotations
  /\ src' = src + 1
  /\ reply' = NoReply
  /\ UNCHANGED <<now, sent, pending, inbox>>

Tick ==
  /\ now < MaxTime
  /\ now' = now + 1
  /\ reply' = NoReply
  /\ UNCHANGED <<src, sent, pending, inbox>>

Init ==
  /\ src = 0
  /\ now = 0
  /\ sent = {}
  /\ pending = [k \in Keys |-> NoEntry]
  /\ inbox = <<>>
  /\ reply = NoReply

Next ==
  \/ \E n \in Nodes : Send(n)
  \/ \E m \in sent : \E index \in Size(m.size), later \in 0..(SeqZeroSpan - 1) :
       Arrives(m, index, later)
  \/ Rotate
  \/ Tick

Spec == Init /\ [][Next]_vars

-----------------------------------------------------------------------------
Parts == [from : Nodes, auth : 0..MaxAuth, index : Segments]

(* A part dict may hold any places, each with a part. *)
PartMaps == UNION {[S -> Parts] : S \in SUBSET Segments}

Entries == [size : 0..MaxSegments, parts : PartMaps, started : 0..MaxTime, done : BOOLEAN]

HandedUp ==
  [from : Nodes, auth : Auths,
   parts : UNION {[1..k -> Parts] : k \in 1..MaxSegments}]

(* Every variable has its type. *)
TypeOK ==
  /\ src \in Srcs
  /\ now \in 0..MaxTime
  /\ sent \subseteq Messages
  /\ pending \in [Keys -> Entries]
  /\ inbox \in Seq(HandedUp)
  /\ reply \in [of : SUBSET sent, block : SUBSET Segments]

(* The nodes that stop repeating a message before its entry expires. *)
Brief == {n \in Nodes : Life[n] <= TIMEOUT}

Texts    == {Text(m) : m \in Messages}
Fleeting == {Text(m) : m \in {e \in Messages : e.from \in Brief}}

Inbox == INSTANCE MeshInbox WITH written <- {Text(m) : m \in sent}

(* Segments lost, repeated, reordered and of several messages of a node at *)
(* once: what is handed up is always one message a node sent, whole and    *)
(* never mixed with another; and "only the first time" (transport.py       *)
(* 166-167), as long as the node does not repeat it past the reassembler's *)
(* timeout.                                                                *)
DeliversOnce == Inbox!Spec

(* A segment is answered with a Block Ack exactly when it is addressed to  *)
(* us and its message has been handed up in full: none before, so that no  *)
(* node stops early, and one again for each repetition, so that one that   *)
(* missed our acknowledgment stops (transport.py 166-169, gatt 421-423).   *)
AckedWhenDelivered ==
  \A m \in reply.of :
    /\ reply.block # {} => reply.block = Size(m.size) /\ m.to = src /\ Text(m) \in Range(inbox)
    /\ m.from \in Brief /\ m.to = src /\ Text(m) \in Range(inbox) => reply.block # {}
=============================================================================
