-------------------------- MODULE Reassembly_proofs --------------------------
(***************************************************************************)
(* Reassembly for any nodes, segments, SeqZero span, timeout and time: what *)
(* is handed up is a message that was sent, whole and, from a node that    *)
(* does not repeat it too long, once; and acknowledgments are true.        *)
(***************************************************************************)
EXTENDS Reassembly, TLAPS

(* A node never uses a SeqAuth for two messages. *)
Unique == \A m, e \in sent : m.from = e.from /\ m.auth = e.auth => m = e

Begun == \A m \in sent : m.born <= now

(* An entry holds segments of the one message its key is of. *)
Fits(entry, m) ==
  /\ entry.size = m.size
  /\ m.born <= entry.started /\ entry.started <= now
  /\ Held(entry) \subseteq Size(m.size)
  /\ \A i \in Held(entry) : entry.parts[i] = Part(m, i)
  /\ entry.done <=> Whole(entry)

Sound ==
  \A k \in Keys : pending[k] # NoEntry =>
    \E m \in sent : Key(m.from, m.auth) = k /\ Fits(pending[k], m)

(* What is done was handed up. *)
Delivered ==
  \A m \in sent : pending[Key(m.from, m.auth)].done => Text(m) \in Range(inbox)

Written == \A t \in Range(inbox) : \E m \in sent : t = Text(m)

(* While it is repeated, a message handed up has an entry that says so. *)
Remembered ==
  \A m \in sent : m.from \in Brief /\ Repeats(m) /\ Text(m) \in Range(inbox)
    => pending[Key(m.from, m.auth)].done

IInv ==
  /\ TypeOK
  /\ Unique
  /\ Begun
  /\ Sound
  /\ Delivered
  /\ Written
  /\ Remembered
  /\ AckedWhenDelivered

-----------------------------------------------------------------------------
(* The SEQ a segment is sent with leads back to its message's first. *)
LEMMA SeqAuthIsFirst ==
  ASSUME NEW auth \in Nat, NEW later \in 0..(SeqZeroSpan - 1)
  PROVE  SeqAuthFor(auth + later, auth % SeqZeroSpan) = auth
<1> DEFINE K == SeqZeroSpan
           x == auth + later - (auth % K)
<1>1. K \in Nat \ {0} /\ later \in 0..(K - 1)
  BY ReassemblyAssumption DEF K
<1> HIDE DEF K
<1>2. auth = K * (auth \div K) + (auth % K) /\ auth \div K \in Int /\ auth % K \in 0..(K - 1)
  BY <1>1
<1>3. x \in Int
  BY <1>1, <1>2
<1>4. x = K * (x \div K) + (x % K) /\ x \div K \in Int /\ x % K \in 0..(K - 1)
  BY <1>1, <1>3 DEF x
<1> DEFINE p == auth \div K
           q == x \div K
<1>5. x = K * p + later
  BY <1>1, <1>2
<1>6. p \in Int /\ q \in Int
  BY <1>2, <1>4
<1> HIDE DEF x, p, q
<1>7. later - (x % K) = K * q - K * p
  BY <1>1, <1>4, <1>5, <1>6 DEF q
<1>8. K * q - K * p = K * (q - p)
  BY <1>1, <1>6
<1>9. later - (x % K) < K /\ -K < later - (x % K)
  BY <1>1, <1>4
<1>10. \A d \in Int : d >= 1 => K * d >= K
  BY <1>1
<1>11. \A d \in Int : d <= -1 => K * d <= -K
  BY <1>1
<1>12. q - p = 0
  <2>1. q - p \in Int
    BY <1>6
  <2>2. ~(q - p >= 1)
    BY <2>1, <1>1, <1>4, <1>7, <1>8, <1>9, <1>10
  <2>3. ~(q - p <= -1)
    BY <2>1, <1>1, <1>4, <1>7, <1>8, <1>9, <1>11
  <2> QED BY <2>1, <2>2, <2>3
<1>13. x % K = later
  BY <1>1, <1>4, <1>6, <1>7, <1>12
<1> QED BY <1>1, <1>13 DEF SeqAuthFor, x, K

LEMMA RangeAppend ==
  ASSUME NEW S, NEW s \in Seq(S), NEW e \in S
  PROVE  Range(Append(s, e)) = Range(s) \cup {e}
<1>1. \A i \in 1..Len(s) : Append(s, e)[i] = s[i]
  OBVIOUS
<1>2. Append(s, e)[Len(s) + 1] = e
  OBVIOUS
<1>3. DOMAIN s = 1..Len(s) /\ DOMAIN Append(s, e) = 1..(Len(s) + 1)
  OBVIOUS
<1>4. 1..(Len(s) + 1) = (1..Len(s)) \cup {Len(s) + 1}
  OBVIOUS
<1> QED BY <1>1, <1>2, <1>3, <1>4 DEF Range

LEMMA PartMap ==
  ASSUME NEW S \in SUBSET Segments, NEW f \in [S -> Parts]
  PROVE  f \in PartMaps
BY DEF PartMaps

LEMMA PartMapIs ==
  ASSUME NEW entry \in Entries
  PROVE  /\ Held(entry) \in SUBSET Segments
         /\ entry.parts \in [Held(entry) -> Parts]
<1>1. entry.parts \in PartMaps
  BY DEF Entries
<1>2. PICK S \in SUBSET Segments : entry.parts \in [S -> Parts]
  BY <1>1 DEF PartMaps
<1> QED BY <1>2 DEF Held

LEMMA PartIsPart ==
  ASSUME NEW m \in Messages, NEW index \in Size(m.size)
  PROVE  index \in Segments /\ Part(m, index) \in Parts
BY ReassemblyAssumption DEF Messages, Size, Segments, Part, Parts

LEMMA TextIsHandedUp ==
  ASSUME NEW m \in Messages
  PROVE  Text(m) \in HandedUp
<1> DEFINE parts == [i \in 1..m.size |-> Part(m, i - 1)]
<1>1. m.size \in 1..MaxSegments /\ m.from \in Nodes /\ m.auth \in Auths
  BY ReassemblyAssumption DEF Messages, Auths
<1>2. \A i \in 1..m.size : i - 1 \in Size(m.size)
  BY <1>1, ReassemblyAssumption DEF Size
<1>3. parts \in [1..m.size -> Parts]
  BY <1>2, PartIsPart
<1> QED BY <1>1, <1>3 DEF Text, HandedUp

(* The key of an entry tells its node and its SeqAuth. *)
LEMMA KeyIsOf ==
  ASSUME NEW m \in Messages
  PROVE  /\ Key(m.from, m.auth) \in Keys
         /\ \A e \in Messages : Key(e.from, e.auth) = Key(m.from, m.auth)
                               <=> e.from = m.from /\ e.auth = m.auth
BY ReassemblyAssumption DEF Messages, Auths, Keys, Key

(* A message determines its text, and the text the message it is of. *)
LEMMA TextIsOf ==
  ASSUME NEW m \in Messages, NEW e \in Messages, Text(m) = Text(e)
  PROVE  m.from = e.from /\ m.auth = e.auth
BY DEF Text

-----------------------------------------------------------------------------
LEMMA EmptyEntry ==
  /\ NoEntry \in Entries
  /\ ~NoEntry.done
  /\ NoEntry.size = 0
  /\ NoEntry.parts \in PartMaps /\ DOMAIN NoEntry.parts = {}
<1>1. <<>> \in [{} -> Parts]
  OBVIOUS
<1>2. <<>> \in PartMaps
  BY <1>1, PartMap
<1> QED BY <1>2, ReassemblyAssumption DEF NoEntry, Entries

LEMMA ExpireKeeps ==
  ASSUME NEW entry
  PROVE  /\ Expire(entry) \in {NoEntry, entry}
         /\ now - entry.started <= TIMEOUT /\ now - entry.started \in Int => Expire(entry) = entry
BY ReassemblyAssumption DEF Expire

(* The entry a segment of m joins: one made for m. *)
LEMMA EntryForFits ==
  ASSUME NEW m \in Messages, m.born <= now, now \in 0..MaxTime,
         NEW entry \in Entries, entry # NoEntry => Fits(entry, m)
  PROVE  LET before == EntryFor(entry, m) IN
         /\ before \in Entries
         /\ Fits(before, m)
         /\ before.done => entry = before
<1>1. CASE entry = NoEntry
  <2> DEFINE none   == NoEntry.parts
             before == [size |-> m.size, parts |-> none, started |-> now, done |-> FALSE]
  <2>1. EntryFor(entry, m) = before
    BY <1>1 DEF NoEntry, EntryFor
  <2>n. none \in PartMaps /\ DOMAIN none = {}
    BY EmptyEntry
  <2> HIDE DEF none
  <2>2. before \in Entries
    BY <2>n DEF Entries, Messages
  <2>3. Held(before) = {}
    BY <2>n DEF Held
  <2>4. 0 \in Size(m.size)
    BY DEF Messages, Size
  <2>5. ~Whole(before)
    BY <2>3, <2>4 DEF Whole
  <2>f. before.size = m.size /\ before.started = now /\ before.done = FALSE
        /\ m.born <= now /\ now <= now
    BY DEF Messages
  <2>6. Fits(before, m)
    <3> HIDE DEF before
    <3> QED BY <2>3, <2>5, <2>f DEF Fits
  <2> QED BY <2>1, <2>2, <2>6
<1>2. CASE entry # NoEntry
  BY <1>2 DEF EntryFor
<1> QED BY <1>1, <1>2

(* The segment joins it. *)
LEMMA StoredFits ==
  ASSUME NEW m \in Messages, NEW index \in Size(m.size),
         NEW entry \in Entries, Fits(entry, m)
  PROVE  LET after == Stored(entry, m, index) IN
         /\ after \in Entries
         /\ Fits(after, m)
         /\ after.started = entry.started
         /\ entry.done => after = entry
<1>1. entry.size = m.size
  BY DEF Fits
<1>2. CASE entry.done
  BY <1>2 DEF Stored
<1>3. CASE ~entry.done
  <2> DEFINE parts == [i \in Held(entry) \cup {index} |->
                         IF i = index THEN Part(m, index) ELSE entry.parts[i]]
             next  == [entry EXCEPT !.parts = parts]
             after == [next EXCEPT !.done = Whole(next)]
  <2>1. after = Stored(entry, m, index)
    BY <1>1, <1>3 DEF Stored
  <2>2. index \in Segments /\ Part(m, index) \in Parts
    BY PartIsPart
  <2>p. parts \in [Held(entry) \cup {index} -> Parts] /\ DOMAIN parts = Held(entry) \cup {index}
        /\ \A i \in Held(entry) \cup {index} :
              parts[i] = IF i = index THEN Part(m, index) ELSE entry.parts[i]
    BY <2>2, PartMapIs
  <2> HIDE DEF parts
  <2>q. parts \in PartMaps
    BY <2>2, <2>p, PartMap, PartMapIs
  <2>3. next \in Entries
    BY <2>q DEF Entries
  <2>4. after.size = m.size /\ after.started = entry.started /\ after.parts = parts
        /\ next.parts = parts /\ after.done = Whole(next) /\ next.size = m.size
    BY <1>1, <2>3 DEF Entries
  <2>5. Held(after) = Held(next)
    BY <2>4 DEF Held
  <2>6. Whole(after) = Whole(next)
    BY <2>4, <2>5 DEF Whole
  <2>7. Whole(next) \in BOOLEAN
    BY DEF Whole
  <2>8. after \in Entries
    BY <2>3, <2>7 DEF Entries
  <2>9. /\ Held(after) \subseteq Size(m.size)
        /\ \A i \in Held(after) : after.parts[i] = Part(m, i)
    BY <2>p, <2>4 DEF Fits, Held
  <2>10. Fits(after, m)
    BY <2>4, <2>6, <2>9 DEF Fits
  <2> QED BY <1>3, <2>1, <2>4, <2>8, <2>10
<1> QED BY <1>2, <1>3 DEF Entries

(* All of a finished message's parts are there, and they are its own. *)
LEMMA DoneIsWhole ==
  ASSUME NEW m \in Messages, NEW entry \in Entries, Fits(entry, m)
  PROVE  /\ entry.done <=> Held(entry) = Size(m.size)
         /\ entry.done => \A i \in Size(m.size) : entry.parts[i] = Part(m, i)
<1>1. Held(entry) \subseteq Size(m.size)
  BY DEF Fits
<1>2. entry.done <=> Size(m.size) \subseteq Held(entry)
  BY DEF Fits, Whole
<1>3. \A i \in Held(entry) : entry.parts[i] = Part(m, i)
  BY DEF Fits
<1> QED BY <1>1, <1>2, <1>3

-----------------------------------------------------------------------------
(* What the arrival of a segment of m does. *)
Arrived(m, before, after) ==
  /\ Fits(before, m) /\ Fits(after, m)
  /\ before \in Entries /\ after \in Entries
  /\ before.done => after = before /\ before = pending[Key(m.from, m.auth)]
  /\ pending[Key(m.from, m.auth)].done /\ now - pending[Key(m.from, m.auth)].started <= TIMEOUT
       => before = pending[Key(m.from, m.auth)]
  /\ pending' = [k \in Keys |->
                  IF k = Key(m.from, m.auth) THEN after ELSE Expire(pending[k])]
  /\ inbox' = IF after.done /\ ~before.done THEN Append(inbox, Text(m)) ELSE inbox
  /\ reply' = [of |-> {m}, block |-> AckFor(after, m)]
  /\ Repeats(m)
  /\ UNCHANGED <<src, now, sent>>

LEMMA ArrivalEffect ==
  ASSUME IInv, NEW m \in sent, NEW index \in Size(m.size), NEW later \in 0..(SeqZeroSpan - 1),
         Arrives(m, index, later)
  PROVE  \E before, after : Arrived(m, before, after)
<1> DEFINE auth   == SeqAuthFor(m.auth + later, m.auth % SeqZeroSpan)
           key    == Key(m.from, auth)
           kept   == [k \in Keys |-> Expire(pending[k])]
           old    == pending[Key(m.from, m.auth)]
           before == EntryFor(kept[key], m)
           after  == Stored(before, m, index)
<1>1. m \in Messages /\ m.from \in Nodes /\ m.auth \in Nat /\ m.auth \in Auths
      /\ m.born <= now /\ now \in 0..MaxTime /\ m.size \in 1..MaxSegments
  BY ReassemblyAssumption DEF IInv, TypeOK, Messages, Begun, Auths
<1>2. auth = m.auth /\ key = Key(m.from, m.auth) /\ key \in Keys
  BY <1>1, SeqAuthIsFirst, KeyIsOf
<1>3. old \in Entries
  BY <1>2 DEF IInv, TypeOK
<1>4. old # NoEntry => Fits(old, m)
  <2>1. old # NoEntry => \E e \in sent : Key(e.from, e.auth) = Key(m.from, m.auth) /\ Fits(old, e)
    BY <1>2 DEF IInv, Sound
  <2> QED BY <1>1, <2>1, KeyIsOf DEF IInv, Unique, TypeOK
<1>5. kept[key] = Expire(old)
  BY <1>2
<1>6. Expire(old) \in {NoEntry, old}
  BY ExpireKeeps
<1>7. /\ before \in Entries
      /\ Fits(before, m)
      /\ before.done => Expire(old) = before
  <2>1. Expire(old) \in Entries /\ (Expire(old) # NoEntry => Fits(Expire(old), m))
    BY <1>3, <1>4, <1>6, EmptyEntry
  <2>2. before = EntryFor(Expire(old), m)
    BY <1>5
  <2> HIDE DEF before, old
  <2> QED BY <2>1, <2>2, <1>1, EntryForFits
<1>8. before.done => before = old
  BY <1>6, <1>7, EmptyEntry
<1>9. old.done /\ now - old.started <= TIMEOUT => before = old
  <2> SUFFICES ASSUME old.done, now - old.started <= TIMEOUT
               PROVE  before = old
    OBVIOUS
  <2>1. now - old.started \in Int
    BY <1>1, <1>3, ReassemblyAssumption DEF Entries
  <2>2. Expire(old) = old
    BY <2>1, ExpireKeeps
  <2>3. old # NoEntry
    BY EmptyEntry
  <2> QED BY <1>5, <2>2, <2>3 DEF EntryFor
<1>10. /\ after \in Entries
       /\ Fits(after, m)
       /\ before.done => after = before
  <2> HIDE DEF before
  <2> QED BY <1>1, <1>7, StoredFits
<1>11. /\ pending' = [kept EXCEPT ![key] = after]
       /\ inbox' = IF after.done /\ ~before.done
                   THEN Append(inbox, [from |-> m.from, auth |-> m.auth,
                                       parts |-> [i \in 1..m.size |-> after.parts[i - 1]]])
                   ELSE inbox
       /\ reply' = [of |-> {m}, block |-> AckFor(after, m)]
       /\ Repeats(m)
       /\ UNCHANGED <<src, now, sent>>
  BY <1>2 DEF Arrives
<1> HIDE DEF before, after, auth, key
<1>12. pending' = [k \in Keys |->
                  IF k = Key(m.from, m.auth) THEN after ELSE Expire(pending[k])]
  BY <1>2, <1>11
<1>13. after.done => [i \in 1..m.size |-> after.parts[i - 1]] = [i \in 1..m.size |-> Part(m, i - 1)]
  <2>1. after.done => \A i \in Size(m.size) : after.parts[i] = Part(m, i)
    BY <1>1, <1>10, DoneIsWhole
  <2>2. \A i \in 1..m.size : i - 1 \in Size(m.size)
    BY <1>1 DEF Size
  <2> QED BY <2>1, <2>2
<1>14. inbox' = IF after.done /\ ~before.done THEN Append(inbox, Text(m)) ELSE inbox
  BY <1>11, <1>13 DEF Text
<1> QED BY <1>7, <1>8, <1>9, <1>10, <1>11, <1>12, <1>14 DEF Arrived

-----------------------------------------------------------------------------
(* A message that is still repeated finds its entry, if it was handed up. *)
LEMMA StillDone ==
  ASSUME IInv, NEW m \in sent, m.from \in Brief, Repeats(m), Text(m) \in Range(inbox)
  PROVE  /\ pending[Key(m.from, m.auth)].done
         /\ now - pending[Key(m.from, m.auth)].started <= TIMEOUT
         /\ Expire(pending[Key(m.from, m.auth)]) = pending[Key(m.from, m.auth)]
<1> DEFINE old == pending[Key(m.from, m.auth)]
<1>1. m \in Messages /\ m.from \in Nodes /\ m.auth \in Auths /\ now \in Int /\ m.born \in Int
  BY ReassemblyAssumption DEF IInv, TypeOK, Messages, Auths
<1>2. old.done /\ old \in Entries /\ Key(m.from, m.auth) \in Keys
  BY <1>1, KeyIsOf DEF IInv, Remembered, TypeOK
<1>3. m.born <= old.started
  <2>1. old # NoEntry
    BY <1>2, EmptyEntry
  <2>2. PICK e \in sent : Key(e.from, e.auth) = Key(m.from, m.auth) /\ Fits(old, e)
    BY <1>2, <2>1 DEF IInv, Sound
  <2>3. e = m
    BY <1>1, <2>2, KeyIsOf DEF IInv, Unique, TypeOK
  <2> QED BY <2>2, <2>3 DEF Fits
<1>4. now - m.born <= Life[m.from] /\ Life[m.from] <= TIMEOUT /\ Life[m.from] \in Int
      /\ TIMEOUT \in Int /\ old.started \in Int
  BY <1>1, <1>2, ReassemblyAssumption DEF Repeats, Brief, Entries
<1>5. now - old.started <= TIMEOUT /\ now - old.started \in Int
  <2> HIDE DEF old
  <2> QED BY <1>1, <1>3, <1>4
<1> QED BY <1>2, <1>5, ExpireKeeps

(* A step that leaves the reassembler alone. *)
LEMMA Quiet ==
  ASSUME IInv,
         UNCHANGED <<pending, inbox>>, reply' = NoReply,
         src' \in Srcs, now' \in 0..MaxTime, now <= now',
         sent' \subseteq Messages, sent \subseteq sent', Unique', Begun',
         \A m \in sent' \ sent : \A e \in sent : ~(m.from = e.from /\ m.auth = e.auth)
  PROVE  IInv'
<1> USE DEF IInv
<1>0. now \in Int /\ now' \in Int
  BY ReassemblyAssumption DEF TypeOK
<1>1. TypeOK'
  BY DEF TypeOK, NoReply
<1>2. Sound'
  <2> SUFFICES ASSUME NEW k \in Keys, pending[k] # NoEntry
               PROVE  \E m \in sent' : Key(m.from, m.auth) = k /\ Fits(pending[k], m)'
    BY DEF Sound, Key
  <2>1. PICK m \in sent : Key(m.from, m.auth) = k /\ Fits(pending[k], m)
    BY DEF Sound
  <2>2. pending[k].started \in Int
    BY ReassemblyAssumption DEF TypeOK, Entries
  <2>3. Fits(pending[k], m)'
    BY <1>0, <2>1, <2>2 DEF Fits, Whole, Held, Part
  <2> QED BY <2>1, <2>3
<1>3. Delivered'
  <2> SUFFICES ASSUME NEW m \in sent', pending[Key(m.from, m.auth)].done
               PROVE  Text(m) \in Range(inbox)
    BY DEF Delivered, Text, Key, Part
  <2>1. m \in Messages /\ Key(m.from, m.auth) \in Keys
    BY KeyIsOf
  <2>2. pending[Key(m.from, m.auth)] # NoEntry
    BY EmptyEntry
  <2>3. PICK e \in sent : Key(e.from, e.auth) = Key(m.from, m.auth)
    BY <2>1, <2>2 DEF Sound
  <2>4. e.from = m.from /\ e.auth = m.auth
    BY <2>1, <2>3, KeyIsOf DEF TypeOK
  <2>5. m \in sent
    BY <2>4
  <2> QED BY <2>5 DEF Delivered
<1>4. Written'
  BY DEF Written, Text, Part
<1>5. Remembered'
  <2> SUFFICES ASSUME NEW m \in sent', m.from \in Brief, Repeats(m)', Text(m) \in Range(inbox)
               PROVE  pending[Key(m.from, m.auth)].done
    BY DEF Remembered, Text, Brief, Key, Part
  <2>1. PICK e \in sent : Text(m) = Text(e)
    BY DEF Written
  <2>2. e \in Messages /\ m \in Messages
    BY DEF TypeOK
  <2>3. m.from = e.from /\ m.auth = e.auth
    BY <2>1, <2>2, TextIsOf
  <2>4. m \in sent
    BY <2>3
  <2>5. m.born \in Int /\ Life[m.from] \in Int
    BY <2>2, ReassemblyAssumption DEF Messages
  <2>6. Repeats(m)
    BY <1>0, <2>5 DEF Repeats
  <2> QED BY <2>4, <2>6 DEF Remembered
<1>6. AckedWhenDelivered'
  BY DEF AckedWhenDelivered, NoReply
<1> QED BY <1>1, <1>2, <1>3, <1>4, <1>5, <1>6

LEMMA SendKeeps == ASSUME IInv, NEW n \in Nodes, Send(n) PROVE IInv'
<1>1. PICK m \in Messages :
        /\ m.from = n /\ m.born = now
        /\ \A e \in sent : e.from = n => e.auth + e.size <= m.auth
        /\ sent' = sent \cup {m}
  BY DEF Send
<1>2. reply' = NoReply /\ UNCHANGED <<src, now, pending, inbox>>
  BY DEF Send
<1>3. \A e \in sent : ~(m.from = e.from /\ m.auth = e.auth)
  <2> SUFFICES ASSUME NEW e \in sent, m.from = e.from, m.auth = e.auth PROVE FALSE
    OBVIOUS
  <2>1. e \in Messages
    BY DEF IInv, TypeOK
  <2>2. e.auth \in Int /\ e.size \in Int /\ e.size >= 1
    BY <2>1, ReassemblyAssumption DEF Messages
  <2>3. e.auth + e.size <= m.auth
    BY <1>1
  <2> QED BY <2>2, <2>3
<1>4. Unique' /\ Begun' /\ now \in Int
  BY <1>1, <1>2, <1>3, ReassemblyAssumption DEF IInv, Unique, Begun, TypeOK
<1> QED BY <1>1, <1>2, <1>3, <1>4, Quiet DEF IInv, TypeOK

LEMMA RotateKeeps == ASSUME IInv, Rotate PROVE IInv'
<1>1. src' \in Srcs
  BY ReassemblyAssumption DEF Rotate, IInv, TypeOK, Srcs
<1>2. Unique' /\ Begun' /\ now \in Int
  BY ReassemblyAssumption DEF Rotate, IInv, Unique, Begun, TypeOK
<1> QED BY <1>1, <1>2, Quiet DEF IInv, TypeOK, Rotate

LEMMA TickKeeps == ASSUME IInv, Tick PROVE IInv'
<1>1. now' \in 0..MaxTime /\ now <= now'
  BY ReassemblyAssumption DEF Tick, IInv, TypeOK
<1>2. Begun'
  <2> SUFFICES ASSUME NEW m \in sent PROVE m.born <= now'
    BY DEF Tick, Begun
  <2>1. m.born \in Int /\ now \in Int /\ m.born <= now
    BY ReassemblyAssumption DEF IInv, TypeOK, Messages, Begun
  <2> QED BY <2>1 DEF Tick
<1>3. Unique'
  BY DEF Tick, IInv, Unique
<1> QED BY <1>1, <1>2, <1>3, Quiet DEF IInv, TypeOK, Tick

LEMMA StutterKeeps == ASSUME IInv, UNCHANGED vars PROVE IInv'
BY DEF IInv, vars, TypeOK, Unique, Begun, Sound, Fits, Whole, Held, Delivered, Written,
       Remembered, Repeats, Brief, Text, AckedWhenDelivered, Key, Part

(* The arrival of a segment. *)
LEMMA ArrivalKeeps ==
  ASSUME IInv, NEW m \in sent, NEW index \in Size(m.size), NEW later \in 0..(SeqZeroSpan - 1),
         Arrives(m, index, later)
  PROVE  IInv'
<1> DEFINE old == pending[Key(m.from, m.auth)]
<1>1. PICK before, after : Arrived(m, before, after)
  BY ArrivalEffect
<1>2. m \in Messages /\ m.size \in 1..MaxSegments /\ Key(m.from, m.auth) \in Keys
  BY KeyIsOf DEF IInv, TypeOK, Messages
<1>3. \A k \in Keys : pending'[k] = IF k = Key(m.from, m.auth) THEN after ELSE Expire(pending[k])
  BY <1>1 DEF Arrived
<1>4. pending'[Key(m.from, m.auth)] = after
  BY <1>2, <1>3
<1>5. after.done => Text(m) \in Range(inbox')
  <2> SUFFICES ASSUME after.done PROVE Text(m) \in Range(inbox')
    OBVIOUS
  <2>1. CASE before.done
    <3>1. old.done /\ inbox' = inbox
      BY <1>1, <2>1 DEF Arrived
    <3> QED BY <3>1 DEF IInv, Delivered
  <2>2. CASE ~before.done
    <3>1. inbox' = Append(inbox, Text(m))
      BY <1>1, <2>2 DEF Arrived
    <3>2. Text(m) \in HandedUp
      BY <1>2, TextIsHandedUp
    <3> QED BY <3>1, <3>2, RangeAppend DEF IInv, TypeOK
  <2> QED BY <2>1, <2>2
<1>6. /\ inbox' \in Seq(HandedUp)
      /\ Range(inbox) \subseteq Range(inbox')
      /\ Range(inbox') \subseteq Range(inbox) \cup {Text(m)}
  <2>1. Text(m) \in HandedUp
    BY <1>2, TextIsHandedUp
  <2>2. inbox' \in {inbox, Append(inbox, Text(m))}
    BY <1>1 DEF Arrived
  <2>3. inbox \in Seq(HandedUp)
    BY DEF IInv, TypeOK
  <2>4. CASE inbox' = inbox
    BY <2>3, <2>4
  <2>5. CASE inbox' = Append(inbox, Text(m))
    <3>1. Range(inbox') = Range(inbox) \cup {Text(m)}
      BY <2>1, <2>3, <2>5, RangeAppend
    <3> QED BY <2>1, <2>3, <2>5, <3>1
  <2> QED BY <2>2, <2>4, <2>5
<1>7. m.from \in Brief /\ Text(m) \in Range(inbox) => after.done
  <2> SUFFICES ASSUME m.from \in Brief, Text(m) \in Range(inbox) PROVE after.done
    OBVIOUS
  <2>1. old.done /\ now - old.started <= TIMEOUT
    BY <1>1, StillDone DEF Arrived
  <2> QED BY <1>1, <2>1 DEF Arrived
<1>8. m.from \in Brief /\ Text(m) \in Range(inbox') => after.done
  <2>1. inbox' = inbox \/ after.done
    BY <1>1 DEF Arrived
  <2> QED BY <1>7, <2>1
<1>9. UNCHANGED <<src, now, sent>> /\ reply' = [of |-> {m}, block |-> AckFor(after, m)]
  BY <1>1 DEF Arrived
<1>10. \A e \in sent : (Fits(after, e))' <=> Fits(after, e)
  BY <1>9 DEF Fits, Whole, Held, Part
<1>t. TypeOK'
  <2>1. pending' \in [Keys -> Entries]
    <3>1. \A k \in Keys : Expire(pending[k]) \in Entries
      BY ExpireKeeps, EmptyEntry DEF IInv, TypeOK
    <3>2. after \in Entries
      BY <1>1 DEF Arrived
    <3> QED BY <1>1, <3>1, <3>2 DEF Arrived
  <2>2. AckFor(after, m) \in SUBSET Segments
    BY <1>1, PartMapIs DEF AckFor, Arrived
  <2> QED BY <1>6, <1>9, <2>1, <2>2 DEF IInv, TypeOK
<1>u. Unique' /\ Begun'
  BY <1>9 DEF IInv, Unique, Begun
<1>s. Sound'
  <2> SUFFICES ASSUME NEW k \in Keys, pending'[k] # NoEntry
               PROVE  \E e \in sent' : Key(e.from, e.auth) = k /\ Fits(pending[k], e)'
    BY DEF Sound, Key
  <2>1. CASE k = Key(m.from, m.auth)
    <3>1. pending'[k] = after /\ Fits(after, m)
      BY <1>1, <1>4, <2>1 DEF Arrived
    <3>2. Fits(pending[k], m)'
      BY <1>9, <3>1 DEF Fits, Whole, Held, Part
    <3> QED BY <1>9, <2>1, <3>2
  <2>2. CASE k # Key(m.from, m.auth)
    <3>1. pending'[k] = pending[k] /\ pending[k] # NoEntry
      BY <1>3, <2>2, ExpireKeeps
    <3>2. PICK e \in sent : Key(e.from, e.auth) = k /\ Fits(pending[k], e)
      BY <3>1 DEF IInv, Sound
    <3>3. Fits(pending[k], e)'
      BY <1>9, <3>1, <3>2 DEF Fits, Whole, Held, Part
    <3> QED BY <1>9, <3>2, <3>3
  <2> QED BY <2>1, <2>2
<1>d. Delivered'
  <2> SUFFICES ASSUME NEW e \in sent, pending'[Key(e.from, e.auth)].done
               PROVE  Text(e) \in Range(inbox')
    BY <1>9 DEF Delivered, Text, Key, Part
  <2>0. e \in Messages /\ Key(e.from, e.auth) \in Keys
    BY KeyIsOf DEF IInv, TypeOK
  <2>1. CASE e.from = m.from /\ e.auth = m.auth
    BY <1>4, <1>5, <2>1 DEF IInv, Unique
  <2>2. CASE ~(e.from = m.from /\ e.auth = m.auth)
    <3>1. Key(e.from, e.auth) # Key(m.from, m.auth)
      BY <1>2, <2>0, <2>2, KeyIsOf
    <3>2. pending[Key(e.from, e.auth)].done
      BY <1>3, <2>0, <3>1, ExpireKeeps, EmptyEntry
    <3> QED BY <1>6, <3>2 DEF IInv, Delivered
  <2> QED BY <2>1, <2>2
<1>w. Written'
  BY <1>6, <1>9 DEF IInv, Written, Text
<1>r. Remembered'
  <2> SUFFICES ASSUME NEW e \in sent, e.from \in Brief, Repeats(e), Text(e) \in Range(inbox')
               PROVE  pending'[Key(e.from, e.auth)].done
    BY <1>9 DEF Remembered, Repeats, Text, Brief, Key, Part
  <2>0. e \in Messages /\ Key(e.from, e.auth) \in Keys
    BY KeyIsOf DEF IInv, TypeOK
  <2>1. CASE e.from = m.from /\ e.auth = m.auth
    <3>1. e = m
      BY <2>1 DEF IInv, Unique
    <3> QED BY <1>4, <1>8, <3>1
  <2>2. CASE ~(e.from = m.from /\ e.auth = m.auth)
    <3>1. Text(e) \in Range(inbox)
      BY <1>2, <1>6, <2>0, <2>2, TextIsOf
    <3>2. pending[Key(e.from, e.auth)].done /\ Expire(pending[Key(e.from, e.auth)]) = pending[Key(e.from, e.auth)]
      BY <3>1, StillDone
    <3>3. Key(e.from, e.auth) # Key(m.from, m.auth)
      BY <1>2, <2>0, <2>2, KeyIsOf
    <3> QED BY <1>3, <2>0, <3>2, <3>3
  <2> QED BY <2>1, <2>2
<1>a. AckedWhenDelivered'
  <2>1. /\ AckFor(after, m) # {} => AckFor(after, m) = Size(m.size) /\ m.to = src /\ after.done
        /\ m.to = src /\ after.done => AckFor(after, m) # {}
    <3>1. after.done <=> Held(after) = Size(m.size)
      BY <1>1, <1>2, DoneIsWhole DEF Arrived
    <3>2. 0 \in Size(m.size)
      BY <1>2, ReassemblyAssumption DEF Size
    <3> QED BY <3>1, <3>2 DEF AckFor
  <2>2. (AckedWhenDelivered)' <=>
          /\ AckFor(after, m) # {} => AckFor(after, m) = Size(m.size) /\ m.to = src
                                        /\ Text(m) \in Range(inbox')
          /\ m.from \in Brief /\ m.to = src /\ Text(m) \in Range(inbox') => AckFor(after, m) # {}
    <3> DEFINE ack == AckFor(after, m)
    <3>1. reply' = [of |-> {m}, block |-> ack]
      BY <1>9
    <3> HIDE DEF ack
    <3>2. reply'.of = {m} /\ reply'.block = ack
      BY <3>1
    <3> QED BY <1>9, <3>2 DEF AckedWhenDelivered, Text, Brief, Part
  <2> QED BY <1>5, <1>8, <2>1, <2>2
<1> QED BY <1>t, <1>u, <1>s, <1>d, <1>w, <1>r, <1>a DEF IInv

-----------------------------------------------------------------------------
(* The invariant is inductive. *)
THEOREM Inductive == Spec => []IInv
<1>1. Init => IInv
  <2> SUFFICES ASSUME Init PROVE IInv
    OBVIOUS
  <2>1. TypeOK
    BY EmptyEntry, ReassemblyAssumption DEF Init, TypeOK, Srcs, NoReply
  <2>2. Range(inbox) = {}
    BY DEF Init, Range
  <2> QED BY <2>1, <2>2 DEF IInv, Init, Unique, Begun, Sound, Delivered, Written, Remembered,
       AckedWhenDelivered, NoReply
<1>2. IInv /\ [Next]_vars => IInv'
  <2> SUFFICES ASSUME IInv, [Next]_vars PROVE IInv'
    OBVIOUS
  <2>1. CASE \E n \in Nodes : Send(n)
    BY <2>1, SendKeeps
  <2>2. CASE \E m \in sent : \E index \in Size(m.size), later \in 0..(SeqZeroSpan - 1) :
               Arrives(m, index, later)
    BY <2>2, ArrivalKeeps
  <2>3. CASE Rotate
    BY <2>3, RotateKeeps
  <2>4. CASE Tick
    BY <2>4, TickKeeps
  <2>5. CASE UNCHANGED vars
    BY <2>5, StutterKeeps
  <2> QED BY <2>1, <2>2, <2>3, <2>4, <2>5 DEF Next
<1> QED BY <1>1, <1>2, PTL DEF Spec

(* The invariant that the run checks: a segment of a message for us is     *)
(* answered exactly when the message has been handed up in full            *)
(* (decode_network_pdu's Block Ack), however it arrived.                   *)
THEOREM AckTrue == Spec => []AckedWhenDelivered
<1>1. IInv => AckedWhenDelivered
  BY DEF IInv
<1> QED BY <1>1, Inductive, PTL

(* Every variable keeps its type, and an entry its key's segments only:    *)
(* segments of two messages are never joined (Reassembler.add).            *)
THEOREM NeverMixed == Spec => [](TypeOK /\ Sound)
<1>1. IInv => TypeOK /\ Sound
  BY DEF IInv
<1> QED BY <1>1, Inductive, PTL

-----------------------------------------------------------------------------
LEMMA SendWrites ==
  ASSUME IInv, NEW n \in Nodes, Send(n)
  PROVE  [Inbox!Next]_(Inbox!ivars)
<1>1. PICK m \in Messages : sent' = sent \cup {m}
  BY DEF Send
<1>2. UNCHANGED inbox
  BY DEF Send
<1> DEFINE texts == {Text(e) : e \in sent}
<1>3. {Text(e) : e \in sent'} = texts \cup {Text(m)}
  BY <1>1
<1>4. Text(m) \in Texts
  BY DEF Texts
<1>5. {Text(e) : e \in sent}' = {Text(e) : e \in sent'}
  BY DEF Text, Part
<1>6. CASE Text(m) \in texts
  <2>1. {Text(e) : e \in sent'} = texts
    BY <1>3, <1>6
  <2> QED BY <1>2, <1>5, <2>1 DEF Inbox!ivars
<1>7. CASE Text(m) \notin texts
  <2>1. Inbox!Write
    BY <1>2, <1>3, <1>4, <1>5, <1>7 DEF Inbox!Write
  <2> QED BY <2>1 DEF Inbox!Next
<1> QED BY <1>6, <1>7

LEMMA ArrivalHandsUp ==
  ASSUME IInv, NEW m \in sent, NEW index \in Size(m.size), NEW later \in 0..(SeqZeroSpan - 1),
         Arrives(m, index, later)
  PROVE  [Inbox!Next]_(Inbox!ivars)
<1>1. PICK before, after : Arrived(m, before, after)
  BY ArrivalEffect
<1>2. sent' = sent
  BY <1>1 DEF Arrived
<1>3. {Text(e) : e \in sent}' = {Text(e) : e \in sent}
  BY <1>2 DEF Text, Part
<1>4. CASE inbox' = inbox
  BY <1>3, <1>4 DEF Inbox!ivars
<1>5. CASE after.done /\ ~before.done
  <2>1. inbox' = Append(inbox, Text(m)) /\ Repeats(m)
    BY <1>1, <1>5 DEF Arrived
  <2>2. ASSUME NEW e \in Messages, e.from \in Brief, Text(e) = Text(m)
        PROVE  Text(m) \notin Range(inbox)
    <3>1. m \in Messages
      BY DEF IInv, TypeOK
    <3>2. m.from \in Brief
      BY <2>2, <3>1, TextIsOf
    <3> SUFFICES ASSUME Text(m) \in Range(inbox) PROVE FALSE
      OBVIOUS
    <3>3. pending[Key(m.from, m.auth)].done /\ now - pending[Key(m.from, m.auth)].started <= TIMEOUT
      BY <2>1, <3>2, StillDone
    <3> QED BY <1>1, <1>5, <3>3 DEF Arrived
  <2>3. Inbox!HandUp
    BY <1>3, <2>1, <2>2 DEF Inbox!HandUp, Inbox!Range, Range, Fleeting
  <2> QED BY <2>3 DEF Inbox!Next
<1> QED BY <1>1, <1>4, <1>5 DEF Arrived

(* Reassembler implements the inbox: whatever is lost, repeated or comes   *)
(* out of order, what is handed up was sent, is whole, and is handed up    *)
(* once if its node stops repeating it within the timeout.                 *)
THEOREM ImplementsInbox == Spec => DeliversOnce
<1>1. Init => Inbox!Init
  BY DEF Init, Inbox!Init
<1>2. IInv /\ [Next]_vars => [Inbox!Next]_(Inbox!ivars)
  <2> SUFFICES ASSUME IInv, [Next]_vars PROVE [Inbox!Next]_(Inbox!ivars)
    OBVIOUS
  <2>1. CASE \E n \in Nodes : Send(n)
    BY <2>1, SendWrites
  <2>2. CASE \E m \in sent : \E index \in Size(m.size), later \in 0..(SeqZeroSpan - 1) :
               Arrives(m, index, later)
    BY <2>2, ArrivalHandsUp
  <2>3. CASE Rotate \/ Tick \/ UNCHANGED vars
    <3>1. sent' = sent /\ inbox' = inbox
      BY <2>3 DEF Rotate, Tick, vars
    <3>2. {Text(e) : e \in sent}' = {Text(e) : e \in sent}
      BY <3>1 DEF Text, Part
    <3> QED BY <3>1, <3>2 DEF Inbox!ivars
  <2> QED BY <2>1, <2>2, <2>3 DEF Next
<1> QED BY <1>1, <1>2, Inductive, PTL DEF Spec, DeliversOnce, Inbox!Spec
=============================================================================
