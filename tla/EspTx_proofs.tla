---------------------------- MODULE EspTx_proofs ----------------------------
(***************************************************************************)
(* Proofs about the transmit pipeline and the backlog drain, for every     *)
(* number of fragments, every queue and batch size, every sequence limit   *)
(* and any number of captures and replies.                                 *)
(*                                                                         *)
(* The operators of EspTx work on one state of a running handler; so do    *)
(* the parts of the invariant below, and each operator has a lemma that    *)
(* says which of them it keeps.                                            *)
(*                                                                         *)
(* The second part is about the other firmware with such a pipeline:       *)
(* HeltecBoard.  Its state comes from HeltecState, its steps from H.       *)
(***************************************************************************)
EXTENDS EspTx, HeltecState, SequenceTheorems, TLAPS

H == INSTANCE HeltecBoard

-----------------------------------------------------------------------------
(* What a running handler works on.                                         *)

Records == [frags : 1 .. MaxFragments, act : {"none", "continue"}, caps : Seq(Nat)]
Writes == [rec : Records, frag : 1 .. MaxFragments]
Pipelines ==
    [total : 0 .. MaxFragments, next : 0 .. MaxFragments, action : {"none", "continue"},
     queue : Seq(Records), sequence : 1 .. SequenceMax + 1, current : Records \cup {NoRecord}]
States ==
    [tx : Pipelines, writes : Seq(Writes), closing : BOOLEAN, inFlight : BOOLEAN,
     drainCount : 0 .. MaxBatch, log : Seq(Nat), drained : SUBSET Nat]

(* The buffers hold what the counters say.                                  *)
Buffered(h) ==
    /\ h \in States
    /\ h.tx.next <= h.tx.total
    /\ h.tx.total = h.tx.current.frags
    /\ Len(h.tx.queue) <= QueueCap
    /\ h.drainCount <= Len(h.log)

(* The write v follows w on the wire.                                       *)
Follows(v, w) == \/ w.frag = w.rec.frags /\ v.frag = 1
                 \/ v.rec = w.rec /\ v.frag = w.frag + 1

Consecutive(h) == \A i \in 1 .. Len(h.writes) - 1 : Follows(h.writes[i + 1], h.writes[i])

(* The last write issued is the last fragment issued of the current record... *)
LastIsCurrent(h) ==
    h.writes # << >> => /\ h.writes[Len(h.writes)].rec = h.tx.current
                        /\ h.writes[Len(h.writes)].frag = h.tx.next

(* ... unless it ended its record and the current one was not begun.         *)
LastEnds(h) ==
    h.writes # << >> =>
      /\ h.tx.next = 0
      /\ h.writes[Len(h.writes)].frag = h.writes[Len(h.writes)].rec.frags

OnTheWire(h) == Consecutive(h) /\ (LastIsCurrent(h) \/ LastEnds(h))

(* A record that goes on with the drain is a batch in flight.               *)
IsBatch(h, r) == h.inFlight /\ r.caps = SubSeq(h.log, 1, h.drainCount)

Queued(h) == {i \in 1 .. Len(h.tx.queue) : h.tx.queue[i].act = "continue"}

(* At most one record goes on with the drain, the batch in flight: the one   *)
(* being sent, or one that waits.                                            *)
OneBatch(h) ==
    /\ h.tx.action = "continue" => Queued(h) = {} /\ IsBatch(h, h.tx.current)
    /\ \A i \in Queued(h) : IsBatch(h, h.tx.queue[i]) /\ Queued(h) = {i}
    /\ ~ h.inFlight => h.drainCount = 0

Sound(h) == Buffered(h) /\ OnTheWire(h) /\ OneBatch(h)

(* On a link that is not being closed the last fragment issued is on the     *)
(* wire, and a completion that is armed has a write to come behind.          *)
Open(h) == ~ h.closing => /\ LastIsCurrent(h)
                          /\ h.tx.action = "continue" => h.writes # << >>

(* Outside the window a record is alone on the wire.                        *)
Alone(h) == h.writes = << >> \/ (Len(h.writes) = 1 /\ LastIsCurrent(h))

(* The batch in flight is followed up.                                      *)
FollowedUp(h) == ~ h.closing /\ h.inFlight => h.tx.action = "continue" \/ Queued(h) # {}

-----------------------------------------------------------------------------
(* The inductive invariant.                                                 *)

TxInv ==
    /\ link \in {"down", "up", "closing"}
    /\ captures \in 0 .. MaxCaptures /\ replies \in 0 .. MaxReplies
    /\ confirmed \subseteq Nat
    /\ overlap \in BOOLEAN
    /\ Buffered(Running)
    /\ link = "down" => tx = TxIdle /\ writes = << >> /\ ~ inFlight
    /\ link # "down" => Sound(Running) /\ Open(Running)
    /\ ~ overlap => /\ DrainedIsConfirmed
                    /\ link # "down" => Alone(Running) /\ FollowedUp(Running)

-----------------------------------------------------------------------------
(* Sending one fragment.                                                    *)

SameDrain(s, h) == /\ s.inFlight = h.inFlight /\ s.drainCount = h.drainCount
                   /\ s.log = h.log /\ s.drained = h.drained

SameRecord(s, h) == /\ s.tx.total = h.tx.total /\ s.tx.action = h.tx.action
                    /\ s.tx.queue = h.tx.queue /\ s.tx.sequence = h.tx.sequence
                    /\ s.tx.current = h.tx.current

LEMMA Closed ==
    ASSUME NEW h \in States, NEW s, s = Terminate(h)
    PROVE  s \in States /\ s.closing /\ s.tx = h.tx /\ s.writes = h.writes /\ SameDrain(s, h)
BY DEF States, Terminate, SameDrain

LEMMA NextFields ==
    ASSUME NEW x \in Pipelines, x.next + 1 \in 1 .. MaxFragments,
           NEW t, t = [x EXCEPT !.next = @ + 1]
    PROVE  /\ t \in Pipelines /\ t.next = x.next + 1
           /\ t.total = x.total /\ t.action = x.action /\ t.queue = x.queue
           /\ t.sequence = x.sequence /\ t.current = x.current
<1>1. x.next + 1 \in 0 .. MaxFragments
  BY TxAssumption
<1> QED BY <1>1 DEF Pipelines

LEMMA FragmentFields ==
    ASSUME NEW h, Buffered(h), h.tx.next < h.tx.total,
           NEW s, s = SendNextFragment(h, TRUE)
    PROVE  /\ s \in States /\ SameDrain(s, h) /\ SameRecord(s, h)
           /\ s.closing = h.closing
           /\ s.tx.next = h.tx.next + 1
           /\ s.writes = Append(h.writes, [rec |-> h.tx.current, frag |-> h.tx.next + 1])
           /\ [rec |-> h.tx.current, frag |-> h.tx.next + 1] \in Writes
<1> DEFINE w == [rec |-> h.tx.current, frag |-> h.tx.next + 1]
           t == [h.tx EXCEPT !.next = @ + 1]
<1>1. h \in States /\ h.tx \in Pipelines /\ h.writes \in Seq(Writes)
  BY DEF Buffered, States
<1>2. h.tx.current \in Records
  <2>1. h.tx.current.frags > 0
    BY <1>1, TxAssumption DEF Buffered, Pipelines
  <2>2. h.tx.current # NoRecord
    BY <2>1 DEF NoRecord, Record
  <2> QED BY <1>1, <2>2 DEF Pipelines
<1>3. h.tx.next + 1 \in 1 .. MaxFragments
  BY <1>1, TxAssumption DEF Buffered, Pipelines
<1>4. w \in Writes
  BY <1>2, <1>3 DEF Writes
<1>5. /\ t \in Pipelines /\ t.next = h.tx.next + 1
      /\ t.total = h.tx.total /\ t.action = h.tx.action /\ t.queue = h.tx.queue
      /\ t.sequence = h.tx.sequence /\ t.current = h.tx.current
  BY <1>1, <1>3, NextFields
<1>7. Append(h.writes, w) \in Seq(Writes)
  BY <1>1, <1>4, AppendProperties
<1>8. s = [h EXCEPT !.tx = t, !.writes = Append(@, w)]
  BY <1>1 DEF SendNextFragment, States, Pipelines
<1>9. s \in States /\ s.tx = t /\ s.writes = Append(h.writes, w) /\ s.closing = h.closing /\ SameDrain(s, h)
  BY <1>1, <1>5, <1>7, <1>8 DEF States, SameDrain
<1>10. SameRecord(s, h) /\ s.tx.next = h.tx.next + 1
  BY <1>5, <1>9 DEF SameRecord
<1> QED BY <1>4, <1>9, <1>10

(* One more fragment leaves the wire in order, from any record that is      *)
(* being sent or about to be, and is the last write if it was accepted.     *)
LEMMA FragmentInOrder ==
    ASSUME NEW h, Buffered(h), OnTheWire(h), NEW accepted \in BOOLEAN,
           NEW s, s = SendNextFragment(h, accepted)
    PROVE  /\ Buffered(s) /\ OnTheWire(s) /\ SameDrain(s, h) /\ SameRecord(s, h)
           /\ h.closing => s.closing
           /\ h.tx.next < h.tx.total /\ ~ s.closing => LastIsCurrent(s) /\ s.writes # << >>
           /\ h.writes = << >> => Alone(s)
<1>1. /\ h \in States /\ h.tx \in Pipelines /\ h.writes \in Seq(Writes) /\ h.tx.next \in Nat
      /\ h.tx.total \in Nat /\ Len(h.writes) \in Nat
  BY LenProperties DEF Buffered, States, Pipelines
<1>2. CASE h.tx.next >= h.tx.total
  <2>1. s = h
    BY <1>2 DEF SendNextFragment
  <2> QED BY <1>1, <1>2, <2>1 DEF SameDrain, SameRecord, Alone
<1>3. CASE h.tx.next < h.tx.total /\ ~ accepted
  <2>1. s = Terminate(h)
    BY <1>1, <1>3 DEF SendNextFragment
  <2>2. s \in States /\ s.closing /\ s.tx = h.tx /\ s.writes = h.writes /\ SameDrain(s, h)
    BY <1>1, <2>1, Closed
  <2> QED BY <2>2 DEF Buffered, OnTheWire, Consecutive, LastIsCurrent, LastEnds, SameDrain,
                      SameRecord, Alone
<1>4. CASE h.tx.next < h.tx.total /\ accepted
  <2> DEFINE w == [rec |-> h.tx.current, frag |-> h.tx.next + 1]
             n == Len(h.writes)
  <2>1. /\ s \in States /\ SameDrain(s, h) /\ SameRecord(s, h) /\ s.closing = h.closing
        /\ s.tx.next = h.tx.next + 1 /\ s.writes = Append(h.writes, w) /\ w \in Writes
    BY <1>4, FragmentFields
  <2>2. /\ Len(s.writes) = n + 1 /\ s.writes[n + 1] = w /\ s.writes # << >>
        /\ \A i \in 1 .. n : s.writes[i] = h.writes[i]
    BY <1>1, <2>1, AppendProperties
  <2>3. w.rec = h.tx.current /\ w.frag = h.tx.next + 1
    OBVIOUS
  <2>4. LastIsCurrent(s)
    BY <2>1, <2>2, <2>3 DEF LastIsCurrent, SameRecord
  <2>5. Consecutive(s)
    <3> SUFFICES ASSUME NEW i \in 1 .. n PROVE Follows(s.writes[i + 1], s.writes[i])
      BY <1>1, <2>2 DEF Consecutive
    <3>1. CASE i < n
      <4>1. i + 1 \in 1 .. n /\ i \in 1 .. n - 1
        BY <1>1, <3>1
      <4> QED BY <2>2, <4>1 DEF OnTheWire, Consecutive
    <3>2. CASE i = n
      <4>1. h.writes # << >> /\ s.writes[i] = h.writes[n] /\ s.writes[i + 1] = w
        BY <1>1, <2>2, <3>2, EmptySeq
      <4>2. CASE LastIsCurrent(h)
        BY <2>3, <4>1, <4>2 DEF LastIsCurrent, Follows
      <4>3. CASE LastEnds(h)
        BY <2>3, <4>1, <4>3 DEF LastEnds, Follows
      <4> QED BY <4>2, <4>3 DEF OnTheWire
    <3> QED BY <1>1, <3>1, <3>2
  <2>6. Buffered(s)
    <3>1. s.tx.next = h.tx.next + 1 /\ s.tx.total = h.tx.total
      BY <2>1 DEF SameRecord
    <3>2. s.tx.next <= s.tx.total
      <4>1. /\ h.tx.next \in Nat /\ h.tx.total \in Nat /\ h.tx.next < h.tx.total
            /\ s.tx.next = h.tx.next + 1 /\ s.tx.total = h.tx.total
        BY <1>1, <1>4, <3>1
      <4> HIDE DEF w, n
      <4> QED BY <4>1
    <3> QED BY <2>1, <3>2 DEF Buffered, SameRecord, SameDrain
  <2>7. h.writes = << >> => Alone(s)
    BY <2>2, <2>4, EmptySeq DEF Alone
  <2> QED BY <2>1, <2>2, <2>4, <2>5, <2>6, <2>7 DEF OnTheWire
<1> QED BY <1>1, <1>2, <1>3, <1>4

-----------------------------------------------------------------------------
(* Starting a record.                                                       *)

LEMMA BegunFields ==
    ASSUME NEW x \in Pipelines, NEW r \in Records, x.sequence < SequenceMax,
           NEW t, t = Begun(x, r)
    PROVE  /\ t \in Pipelines
           /\ t.total = r.frags /\ t.next = 0 /\ t.current = r /\ t.action = r.act
           /\ t.sequence = x.sequence + 1 /\ t.queue = x.queue
<1>1. r.frags \in 0 .. MaxFragments /\ r.act \in {"none", "continue"} /\ 0 \in 0 .. MaxFragments
  BY TxAssumption DEF Records
<1>2. x.sequence + 1 \in 1 .. SequenceMax + 1
  BY TxAssumption DEF Pipelines
<1>3. r \in Records \cup {NoRecord}
  OBVIOUS
<1>4. t \in Pipelines
  BY <1>1, <1>2, <1>3 DEF Pipelines, Begun
<1> QED BY <1>4 DEF Pipelines, Begun

(* A record starts on a wire that is in order when every fragment of the one *)
(* before was issued: then the last write ends its record.                   *)
LEMMA RecordInOrder ==
    ASSUME NEW h, Buffered(h), OnTheWire(h), h.tx.next = h.tx.total, CanStart(h),
           NEW r \in Records, NEW accepted \in BOOLEAN,
           NEW s, s = StartSend(h, r, accepted)
    PROVE  /\ Buffered(s) /\ OnTheWire(s) /\ SameDrain(s, h)
           /\ s.tx.queue = h.tx.queue /\ s.tx.action = r.act /\ s.tx.current = r
           /\ s.tx.sequence = h.tx.sequence + 1
           /\ h.closing => s.closing
           /\ ~ s.closing => LastIsCurrent(s) /\ s.writes # << >>
           /\ h.writes = << >> => Alone(s)
<1> DEFINE t == Begun(h.tx, r)
           m == [h EXCEPT !.tx = t]
<1>1. h \in States /\ h.tx \in Pipelines /\ h.tx.sequence < SequenceMax
  BY DEF Buffered, States, CanStart
<1>2. /\ t \in Pipelines
      /\ t.total = r.frags /\ t.next = 0 /\ t.current = r /\ t.action = r.act
      /\ t.sequence = h.tx.sequence + 1 /\ t.queue = h.tx.queue
  BY <1>1, BegunFields
<1>3. s = SendNextFragment(m, accepted)
  BY DEF StartSend
<1> HIDE DEF t
<1>4. /\ m \in States /\ m.tx = t /\ m.writes = h.writes /\ m.closing = h.closing
      /\ SameDrain(m, h)
  BY <1>1, <1>2 DEF States, SameDrain
<1> HIDE DEF m
<1>5. r.frags \in Nat /\ 0 < r.frags
  BY TxAssumption DEF Records
<1>6. Buffered(m)
  BY <1>2, <1>4, <1>5 DEF Buffered, SameDrain
<1>7. LastEnds(m)
  <2> SUFFICES ASSUME h.writes # << >>
               PROVE  h.writes[Len(h.writes)].frag = h.writes[Len(h.writes)].rec.frags
    BY <1>2, <1>4 DEF LastEnds
  <2>1. CASE LastIsCurrent(h)
    BY <2>1 DEF LastIsCurrent, Buffered
  <2>2. CASE LastEnds(h)
    BY <2>2 DEF LastEnds
  <2> QED BY <2>1, <2>2 DEF OnTheWire
<1>8. OnTheWire(m)
  BY <1>4, <1>7 DEF OnTheWire, Consecutive
<1>9. m.tx.next < m.tx.total
  BY <1>2, <1>4, <1>5
<1>10. /\ Buffered(s) /\ OnTheWire(s) /\ SameDrain(s, m) /\ SameRecord(s, m)
       /\ m.closing => s.closing
       /\ ~ s.closing => LastIsCurrent(s) /\ s.writes # << >>
       /\ m.writes = << >> => Alone(s)
  BY <1>3, <1>6, <1>8, <1>9, FragmentInOrder
<1> QED BY <1>2, <1>4, <1>10 DEF SameDrain, SameRecord

-----------------------------------------------------------------------------
(* Queueing a record, or sending it.                                        *)

(* The record r waits behind the others.                                    *)
Waits(s, h, r) ==
    /\ s.tx.queue = Append(h.tx.queue, r)
    /\ s.tx.total = h.tx.total /\ s.tx.next = h.tx.next /\ s.tx.action = h.tx.action
    /\ s.tx.sequence = h.tx.sequence /\ s.tx.current = h.tx.current
    /\ s.writes = h.writes /\ s.closing = h.closing

(* The record r was started, in the window if a write of the last one was    *)
(* not answered.                                                            *)
Started(s, h, r) ==
    /\ h.tx.next = h.tx.total /\ h.tx.queue = << >> /\ s.tx.queue = << >>
    /\ s.tx.action = r.act /\ s.tx.current = r
    /\ s.tx.sequence = h.tx.sequence + 1
    /\ h.closing => s.closing
    /\ ~ s.closing => LastIsCurrent(s) /\ s.writes # << >>
    /\ h.writes = << >> => Alone(s)

LEMMA QueueFields ==
    ASSUME NEW x \in Pipelines, NEW r \in Records, NEW t, t = [x EXCEPT !.queue = Append(@, r)]
    PROVE  /\ t \in Pipelines /\ t.queue = Append(x.queue, r)
           /\ t.total = x.total /\ t.next = x.next /\ t.action = x.action
           /\ t.sequence = x.sequence /\ t.current = x.current
<1>1. Append(x.queue, r) \in Seq(Records)
  BY AppendProperties DEF Pipelines
<1> QED BY <1>1 DEF Pipelines

LEMMA QueueOrSend ==
    ASSUME NEW h, Buffered(h), OnTheWire(h), NEW dispatching \in BOOLEAN,
           ~ SendFails(h, dispatching), NEW r \in Records, NEW accepted \in BOOLEAN,
           NEW s, s = QueueAndSend(h, r, dispatching, accepted)
    PROVE  /\ Buffered(s) /\ OnTheWire(s) /\ SameDrain(s, h)
           /\ \/ Waits(s, h, r)
              \/ ~ dispatching /\ Started(s, h, r)
<1>1. h \in States /\ h.tx \in Pipelines /\ h.tx.queue \in Seq(Records) /\ h.tx.next \in Nat
      /\ h.tx.total \in Nat /\ h.tx.next <= h.tx.total
  BY DEF Buffered, States, Pipelines
<1>2. CASE MustQueue(h, dispatching)
  <2> DEFINE t == [h.tx EXCEPT !.queue = Append(@, r)]
  <2>1. s = [h EXCEPT !.tx = t]
    BY <1>1, <1>2 DEF QueueAndSend, States
  <2>2. /\ t \in Pipelines /\ t.queue = Append(h.tx.queue, r)
        /\ t.total = h.tx.total /\ t.next = h.tx.next /\ t.action = h.tx.action
        /\ t.sequence = h.tx.sequence /\ t.current = h.tx.current
    BY <1>1, QueueFields
  <2> HIDE DEF t
  <2>3. s \in States /\ s.tx = t /\ s.writes = h.writes /\ s.closing = h.closing /\ SameDrain(s, h)
    BY <1>1, <2>1, <2>2 DEF States, SameDrain
  <2>4. Waits(s, h, r)
    BY <2>2, <2>3 DEF Waits
  <2>5. Len(h.tx.queue) < QueueCap
    BY <1>1, <1>2, TxAssumption, LenProperties DEF SendFails, QueueFull
  <2>6. Len(s.tx.queue) <= QueueCap
    <3>1. Len(Append(h.tx.queue, r)) = Len(h.tx.queue) + 1 /\ Len(h.tx.queue) \in Nat
      BY <1>1, AppendProperties, LenProperties
    <3> QED BY <2>4, <2>5, <3>1, TxAssumption DEF Waits
  <2>7. Buffered(s)
    BY <2>3, <2>4, <2>6 DEF Buffered, Waits, SameDrain
  <2>8. OnTheWire(s)
    BY <2>4 DEF OnTheWire, Consecutive, LastIsCurrent, LastEnds, Waits
  <2> QED BY <2>3, <2>4, <2>7, <2>8
<1>3. CASE ~ MustQueue(h, dispatching)
  <2>1. s = StartSend(h, r, accepted) /\ CanStart(h) /\ ~ dispatching /\ h.tx.queue = << >>
    BY <1>3 DEF QueueAndSend, SendFails, MustQueue
  <2>2. h.tx.next = h.tx.total
    BY <1>1, <1>3 DEF MustQueue
  <2>3. /\ Buffered(s) /\ OnTheWire(s) /\ SameDrain(s, h)
        /\ s.tx.queue = h.tx.queue /\ s.tx.action = r.act /\ s.tx.current = r
        /\ s.tx.sequence = h.tx.sequence + 1
        /\ h.closing => s.closing
        /\ ~ s.closing => LastIsCurrent(s) /\ s.writes # << >>
        /\ h.writes = << >> => Alone(s)
    BY <2>1, <2>2, RecordInOrder
  <2> QED BY <2>1, <2>2, <2>3 DEF Started
<1> QED BY <1>2, <1>3

-----------------------------------------------------------------------------
(* The batch in flight.                                                     *)

NoBatch(h) == h.tx.action # "continue" /\ Queued(h) = {}

(* Behind a record that waits the queue holds its batches and, if the record *)
(* is one, this one more.                                                   *)
LEMMA WaitingBatches ==
    ASSUME NEW h, Buffered(h), NEW r \in Records, NEW s, Waits(s, h, r)
    PROVE  LET k == Len(h.tx.queue) + 1
           IN /\ s.tx.queue[k] = r
              /\ Queued(s) = IF r.act = "continue" THEN Queued(h) \cup {k} ELSE Queued(h)
              /\ \A i \in Queued(h) : s.tx.queue[i] = h.tx.queue[i]
<1> DEFINE q == h.tx.queue
           k == Len(q) + 1
<1>1. q \in Seq(Records) /\ s.tx.queue = Append(q, r)
  BY DEF Buffered, States, Pipelines, Waits
<1>2. /\ Len(s.tx.queue) = k /\ s.tx.queue[k] = r /\ Len(q) \in Nat
      /\ \A i \in 1 .. Len(q) : s.tx.queue[i] = q[i]
  BY <1>1, AppendProperties, LenProperties
<1>3. 1 .. k = (1 .. Len(q)) \cup {k}
  BY <1>2
<1>4. Queued(h) \subseteq 1 .. Len(q)
  BY DEF Queued
<1>5. \A i : i \in Queued(s) <=> (i \in 1 .. Len(q) /\ q[i].act = "continue") \/ (i = k /\ r.act = "continue")
  <2>1. \A i : i \in Queued(s) <=> i \in 1 .. k /\ s.tx.queue[i].act = "continue"
    BY <1>2 DEF Queued
  <2>2. k \notin 1 .. Len(q)
    BY <1>2
  <2> HIDE DEF k, q
  <2>3. ASSUME NEW i, i \in 1 .. Len(q)
        PROVE  i \in Queued(s) <=> q[i].act = "continue"
    BY <1>2, <1>3, <2>1, <2>3
  <2>4. k \in Queued(s) <=> r.act = "continue"
    BY <1>2, <1>3, <2>1
  <2>5. \A i : i \in Queued(s) => i \in 1 .. Len(q) \/ i = k
    BY <1>3, <2>1
  <2> QED BY <2>2, <2>3, <2>4, <2>5
<1>6. \A i : i \in Queued(h) <=> i \in 1 .. Len(q) /\ q[i].act = "continue"
  BY DEF Queued
<1> HIDE DEF k, q
<1>7. Queued(s) = IF r.act = "continue" THEN Queued(h) \cup {k} ELSE Queued(h)
  BY <1>5, <1>6
<1> QED BY <1>2, <1>4, <1>7 DEF k, q

(* A reply is no batch.                                                     *)
LEMMA ReplyIsNoBatch ==
    ASSUME NEW h, Buffered(h), OneBatch(h), NEW r \in Records, r.act # "continue",
           NEW s, SameDrain(s, h), Waits(s, h, r) \/ Started(s, h, r)
    PROVE  OneBatch(s)
<1>1. \A x : IsBatch(s, x) <=> IsBatch(h, x)
  BY DEF IsBatch, SameDrain
<1>2. CASE Waits(s, h, r)
  <2>1. Queued(s) = Queued(h) /\ \A i \in Queued(h) : s.tx.queue[i] = h.tx.queue[i]
    BY <1>2, WaitingBatches
  <2>2. s.tx.action = h.tx.action /\ s.tx.current = h.tx.current
    BY <1>2 DEF Waits
  <2>3. s.tx.action = "continue" => Queued(s) = {} /\ IsBatch(s, s.tx.current)
    BY <1>1, <2>1, <2>2 DEF OneBatch
  <2>4. \A i \in Queued(s) : IsBatch(s, s.tx.queue[i]) /\ Queued(s) = {i}
    BY <1>1, <2>1 DEF OneBatch
  <2>5. ~ s.inFlight => s.drainCount = 0
    BY DEF OneBatch, SameDrain
  <2> QED BY <2>3, <2>4, <2>5 DEF OneBatch
<1>3. CASE Started(s, h, r)
  <2>1. Queued(s) = {}
    BY <1>3, EmptySeq DEF Queued, Started
  <2> QED BY <1>3, <2>1 DEF OneBatch, Started, SameDrain
<1> QED BY <1>2, <1>3

(* A batch that is queued or sent when there is none becomes the one.       *)
LEMMA BatchIsOne ==
    ASSUME NEW h, Buffered(h), NoBatch(h), NEW r \in Records, r.act = "continue",
           NEW s, Waits(s, h, r) \/ Started(s, h, r),
           NEW u, u.tx = s.tx, IsBatch(u, r)
    PROVE  OneBatch(u) /\ (u.tx.action = "continue" \/ Queued(u) # {})
<1>1. u.inFlight
  BY DEF IsBatch
<1>2. CASE Waits(s, h, r)
  <2> DEFINE k == Len(h.tx.queue) + 1
  <2>1. Queued(s) = {k} /\ s.tx.queue[k] = r
    BY <1>2, WaitingBatches DEF NoBatch
  <2>2. Queued(u) = Queued(s)
    BY DEF Queued
  <2> QED BY <1>1, <1>2, <2>1, <2>2 DEF OneBatch, NoBatch, Waits
<1>3. CASE Started(s, h, r)
  <2>1. Queued(u) = {}
    BY <1>3, EmptySeq DEF Queued, Started
  <2> QED BY <1>1, <1>3, <2>1 DEF OneBatch, Started
<1> QED BY <1>2, <1>3

LEMMA MarkedFields ==
    ASSUME NEW h, Buffered(h), NEW m, m = MarkBatch(h)
    PROVE  /\ m \in States /\ m.tx = h.tx /\ m.writes = h.writes /\ m.closing = h.closing
           /\ m.inFlight = h.inFlight /\ m.drainCount = 0
           /\ m.log = SubSeq(h.log, h.drainCount + 1, Len(h.log))
           /\ m.drained = h.drained \cup Range(SubSeq(h.log, 1, h.drainCount))
           /\ Buffered(m)
<1>1. h \in States /\ h.log \in Seq(Nat) /\ h.drainCount \in Nat /\ Len(h.log) \in Nat
      /\ h.drainCount <= Len(h.log)
  BY LenProperties, TxAssumption DEF Buffered, States
<1>2. SubSeq(h.log, h.drainCount + 1, Len(h.log)) \in Seq(Nat)
  BY <1>1, SubSeqProperties, ElementOfSeq
<1>3. Range(SubSeq(h.log, 1, h.drainCount)) \subseteq Nat
  <2>1. SubSeq(h.log, 1, h.drainCount) \in Seq(Nat)
    BY <1>1, SubSeqProperties, ElementOfSeq
  <2> QED BY <2>1, RangeOfSeq
<1>4. 0 \in 0 .. MaxBatch
  BY TxAssumption
<1>5. m = [h EXCEPT !.drained = @ \cup Range(SubSeq(h.log, 1, h.drainCount)),
                    !.log = SubSeq(h.log, h.drainCount + 1, Len(h.log)),
                    !.drainCount = 0]
  BY <1>1 DEF MarkBatch, States
<1>6. /\ m \in States /\ m.tx = h.tx /\ m.writes = h.writes /\ m.closing = h.closing
      /\ m.inFlight = h.inFlight /\ m.drainCount = 0
      /\ m.log = SubSeq(h.log, h.drainCount + 1, Len(h.log))
      /\ m.drained = h.drained \cup Range(SubSeq(h.log, 1, h.drainCount))
  BY <1>1, <1>2, <1>3, <1>4, <1>5 DEF States
<1>7. Len(m.log) \in Nat
  BY <1>2, <1>6, LenProperties
<1>8. Buffered(m)
  <2>1. m.drainCount = 0
    BY <1>6
  <2>2. m.drainCount <= Len(m.log)
    BY <1>7, <2>1
  <2> QED BY <1>6, <2>2 DEF Buffered
<1> QED BY <1>6, <1>8

(* The oldest n captures of a log that has as many.                         *)
LEMMA OldestAreSo ==
    ASSUME NEW q \in Seq(Nat), NEW n \in Nat, n <= Len(q)
    PROVE  Oldest(q, n) = SubSeq(q, 1, n) /\ Oldest(q, n) \in Seq(Nat)
<1>1. Len(q) \in Nat
  BY LenProperties
<1>2. Oldest(q, n) = SubSeq(q, 1, n)
  BY <1>1 DEF Oldest
<1>3. SubSeq(q, 1, n) \in Seq(Nat)
  BY <1>1, SubSeqProperties, ElementOfSeq
<1> QED BY <1>2, <1>3

-----------------------------------------------------------------------------
(* wardriving_send_next_batch.                                              *)

Fits(h, n) == h.log # << >> => n \in BatchSizes(h)

(* What a handler that goes on with the drain leaves behind, when it found   *)
(* no record of a batch: the wire in order and one batch, followed up.      *)
GoneOn(s, h) ==
    /\ Sound(s) /\ FollowedUp(s)
    /\ h.closing => s.closing
    /\ Open(h) => Open(s)
    /\ s.tx.sequence = h.tx.sequence => s.writes = h.writes /\ (Alone(h) => Alone(s))
    /\ s.tx.sequence # h.tx.sequence => h.tx.next = h.tx.total
    /\ h.writes = << >> => Alone(s)

NextBatch(h, dispatching, frags, n, accepted) ==
    [QueueAndSend(h, Record(frags, "continue", Oldest(h.log, n)), dispatching, accepted)
       EXCEPT !.drainCount = n]

LEMMA BatchIsTaken ==
    ASSUME NEW h, Buffered(h), OnTheWire(h), NoBatch(h), h.inFlight, h.drainCount = 0,
           h.log # << >>, NEW n \in BatchSizes(h), NEW frags \in 1 .. MaxFragments,
           NEW dispatching \in BOOLEAN, NEW accepted \in BOOLEAN,
           ~ SendFails(h, dispatching),
           NEW s, s = NextBatch(h, dispatching, frags, n, accepted)
    PROVE  /\ GoneOn(s, h) /\ s.drained = h.drained /\ s.log = h.log
           /\ dispatching => /\ s.writes = h.writes /\ s.closing = h.closing
                             /\ s.tx.next = h.tx.next /\ s.tx.total = h.tx.total
                             /\ s.tx.action = h.tx.action
<1> DEFINE r == Record(frags, "continue", Oldest(h.log, n))
           v == QueueAndSend(h, r, dispatching, accepted)
<1>1. /\ h \in States /\ h.log \in Seq(Nat) /\ Len(h.log) \in Nat
      /\ n \in 0 .. MaxBatch /\ n \in Nat /\ n <= Len(h.log)
  BY LenProperties, TxAssumption, SMTT(20) DEF Buffered, States, BatchSizes
<1>2. Oldest(h.log, n) = SubSeq(h.log, 1, n) /\ Oldest(h.log, n) \in Seq(Nat)
  BY <1>1, OldestAreSo
<1>3. r \in Records /\ r.act = "continue" /\ r.caps = SubSeq(h.log, 1, n)
  BY <1>2 DEF Records, Record
<1>4. /\ Buffered(v) /\ OnTheWire(v) /\ SameDrain(v, h)
      /\ \/ Waits(v, h, r)
         \/ ~ dispatching /\ Started(v, h, r)
  BY <1>3, QueueOrSend
<1>5. s = [v EXCEPT !.drainCount = n]
  BY DEF NextBatch
<1> HIDE DEF r, v
<1>6. /\ s \in States /\ s.tx = v.tx /\ s.writes = v.writes /\ s.closing = v.closing
      /\ s.inFlight = h.inFlight /\ s.drainCount = n /\ s.log = h.log /\ s.drained = h.drained
  BY <1>1, <1>4, <1>5 DEF Buffered, States, SameDrain
<1>7. Buffered(s)
  BY <1>1, <1>4, <1>6 DEF Buffered
<1>8. OnTheWire(s)
  BY <1>4, <1>6 DEF OnTheWire, Consecutive, LastIsCurrent, LastEnds
<1>9. IsBatch(s, r)
  BY <1>3, <1>6 DEF IsBatch
<1>10. OneBatch(s) /\ (s.tx.action = "continue" \/ Queued(s) # {})
  <2>1. Waits(v, h, r) \/ Started(v, h, r)
    BY <1>4
  <2>2. s.tx = v.tx
    BY <1>6
  <2> QED BY <1>3, <1>9, <2>1, <2>2, BatchIsOne
<1>11. Sound(s) /\ FollowedUp(s)
  BY <1>7, <1>8, <1>10 DEF Sound, FollowedUp
<1>12. h.tx.sequence \in Nat
  BY <1>1 DEF States, Pipelines
<1>13. CASE Waits(v, h, r)
  <2>1. /\ s.writes = h.writes /\ s.closing = h.closing /\ s.tx.sequence = h.tx.sequence
        /\ s.tx.next = h.tx.next /\ s.tx.total = h.tx.total /\ s.tx.action = h.tx.action
        /\ s.tx.current = h.tx.current
    BY <1>6, <1>13 DEF Waits
  <2>2. (Open(h) => Open(s)) /\ (Alone(h) => Alone(s))
    BY <2>1 DEF Open, Alone, LastIsCurrent
  <2>3. h.writes = << >> => Alone(s)
    BY <2>1 DEF Alone
  <2> QED BY <1>6, <1>11, <2>1, <2>2, <2>3 DEF GoneOn
<1>14. CASE ~ dispatching /\ Started(v, h, r)
  <2>1. s.tx.sequence # h.tx.sequence
    BY <1>6, <1>12, <1>14 DEF Started
  <2>2. h.tx.next = h.tx.total /\ (h.closing => s.closing)
    BY <1>6, <1>14 DEF Started
  <2>3. Open(s)
    BY <1>6, <1>14 DEF Open, Started, LastIsCurrent
  <2>4. h.writes = << >> => Alone(s)
    BY <1>6, <1>14 DEF Alone, Started, LastIsCurrent
  <2> QED BY <1>6, <1>11, <1>14, <2>1, <2>2, <2>3, <2>4 DEF GoneOn
<1> QED BY <1>4, <1>13, <1>14

LEMMA DrainGoesOn ==
    ASSUME NEW h, Buffered(h), OnTheWire(h), NoBatch(h), h.inFlight,
           NEW frags \in 1 .. MaxFragments, NEW n, Fits(MarkBatch(h), n),
           NEW dispatching \in BOOLEAN, NEW accepted \in BOOLEAN,
           NEW s, s = SendNextBatch(h, dispatching, frags, n, accepted)
    PROVE  /\ GoneOn(s, h)
           /\ s.drained = h.drained \cup Range(SubSeq(h.log, 1, h.drainCount))
           /\ s.log = MarkBatch(h).log
           /\ dispatching => /\ s.writes = h.writes
                             /\ s.tx.next = h.tx.next /\ s.tx.total = h.tx.total
                             /\ s.tx.action = h.tx.action
<1> DEFINE m == MarkBatch(h)
           e == [m EXCEPT !.inFlight = FALSE]
<1>1. /\ m \in States /\ m.tx = h.tx /\ m.writes = h.writes /\ m.closing = h.closing
      /\ m.inFlight = h.inFlight /\ m.drainCount = 0
      /\ m.drained = h.drained \cup Range(SubSeq(h.log, 1, h.drainCount))
      /\ m.log = MarkBatch(h).log
      /\ Buffered(m)
  BY MarkedFields
<1>2. OnTheWire(m)
  BY <1>1 DEF OnTheWire, Consecutive, LastIsCurrent, LastEnds
<1>3. NoBatch(m)
  BY <1>1 DEF NoBatch, Queued
<1>4. /\ Open(h) <=> Open(m)
      /\ Alone(h) <=> Alone(m)
  BY <1>1 DEF Open, Alone, LastIsCurrent
<1>5. s = IF m.log = << >> THEN e
          ELSE IF SendFails(m, dispatching) THEN Terminate(e)
          ELSE NextBatch(m, dispatching, frags, n, accepted)
  BY DEF SendNextBatch, NextBatch
<1>6. m.log # << >> => n \in BatchSizes(m)
  BY DEF Fits
<1> HIDE DEF m
<1>7. /\ e \in States /\ e.tx = h.tx /\ e.writes = h.writes /\ e.closing = h.closing
      /\ e.inFlight = FALSE /\ e.drainCount = 0 /\ e.log = m.log /\ e.drained = m.drained
  BY <1>1 DEF States
<1> HIDE DEF e
<1>8. ASSUME s = e \/ s = Terminate(e)
      PROVE  /\ GoneOn(s, h) /\ s.drained = m.drained /\ s.log = m.log
             /\ s.writes = h.writes /\ s.tx = h.tx
  <2>1. /\ s \in States /\ s.tx = h.tx /\ s.writes = h.writes /\ s.drainCount = 0
        /\ s.inFlight = FALSE /\ s.log = m.log /\ s.drained = m.drained
        /\ s.closing = h.closing \/ s.closing
    BY <1>7, <1>8, Closed DEF SameDrain
  <2>2. Buffered(s)
    BY <1>1, <2>1 DEF Buffered
  <2>3. OnTheWire(s)
    BY <2>1 DEF OnTheWire, Consecutive, LastIsCurrent, LastEnds
  <2>4. OneBatch(s)
    BY <2>1 DEF OneBatch, NoBatch, Queued
  <2>5. FollowedUp(s)
    BY <2>1 DEF FollowedUp
  <2>6. (Open(h) => Open(s)) /\ (Alone(h) => Alone(s)) /\ (h.closing => s.closing)
    BY <2>1 DEF Open, Alone, LastIsCurrent
  <2>7. h.writes = << >> => Alone(s)
    BY <2>1 DEF Alone
  <2> QED BY <2>1, <2>2, <2>3, <2>4, <2>5, <2>6, <2>7 DEF GoneOn, Sound
<1>9. CASE m.log = << >> \/ SendFails(m, dispatching)
  BY <1>1, <1>5, <1>8, <1>9
<1>10. CASE m.log # << >> /\ ~ SendFails(m, dispatching)
  <2>1. s = NextBatch(m, dispatching, frags, n, accepted)
    BY <1>5, <1>10
  <2>3. /\ GoneOn(s, m) /\ s.drained = m.drained /\ s.log = m.log
        /\ dispatching => /\ s.writes = m.writes
                          /\ s.tx.next = m.tx.next /\ s.tx.total = m.tx.total
                          /\ s.tx.action = m.tx.action
    <3>1. Buffered(m) /\ m.inFlight /\ m.drainCount = 0
      BY <1>1
    <3>2. m.log # << >> /\ n \in BatchSizes(m) /\ ~ SendFails(m, dispatching)
      BY <1>6, <1>10
    <3> QED BY <1>2, <1>3, <2>1, <3>1, <3>2, BatchIsTaken
  <2>4. GoneOn(s, h)
    BY <1>1, <1>4, <2>3 DEF GoneOn
  <2> QED BY <1>1, <2>3, <2>4
<1> QED BY <1>9, <1>10

(* wardriving_maybe_kick_send: nothing, or the drain goes on.               *)
LEMMA KickGoesOn ==
    ASSUME NEW h, Sound(h), NEW frags \in 1 .. MaxFragments, NEW n, Fits(h, n),
           NEW dispatching \in BOOLEAN, NEW accepted \in BOOLEAN,
           NEW s, s = MaybeKickSend(h, dispatching, frags, n, accepted)
    PROVE  /\ s = h \/ GoneOn(s, h)
           /\ s.drained = h.drained /\ s.log = h.log
           /\ dispatching => /\ s.writes = h.writes
                             /\ s.tx.next = h.tx.next /\ s.tx.total = h.tx.total
                             /\ s.tx.action = h.tx.action
<1> DEFINE k == [h EXCEPT !.inFlight = TRUE]
<1>1. CASE h.inFlight \/ h.log = << >>
  BY <1>1 DEF MaybeKickSend
<1>2. CASE ~ (h.inFlight \/ h.log = << >>)
  <2>1. s = SendNextBatch(k, dispatching, frags, n, accepted)
    BY <1>2 DEF MaybeKickSend
  <2>2. /\ h \in States /\ h.log \in Seq(Nat) /\ h.drainCount = 0
    BY <1>2 DEF Sound, OneBatch, Buffered, States
  <2>3. NoBatch(h)
    BY <1>2 DEF Sound, OneBatch, IsBatch, NoBatch
  <2>4. /\ k \in States /\ k.tx = h.tx /\ k.writes = h.writes /\ k.closing = h.closing
        /\ k.inFlight /\ k.drainCount = 0 /\ k.log = h.log /\ k.drained = h.drained
    BY <2>2 DEF States
  <2> HIDE DEF k
  <2>5. Buffered(k)
    BY <2>2, <2>4 DEF Buffered, Sound
  <2>6. OnTheWire(k)
    BY <2>4 DEF Sound, OnTheWire, Consecutive, LastIsCurrent, LastEnds
  <2>7. NoBatch(k)
    BY <2>3, <2>4 DEF NoBatch, Queued
  <2>8. MarkBatch(k).log = h.log
    <3>1. MarkBatch(k).log = SubSeq(h.log, 0 + 1, Len(h.log))
      BY <2>4, <2>5, MarkedFields
    <3> QED BY <2>2, <3>1, SubSeqFull
  <2>9. Fits(MarkBatch(k), n)
    BY <2>8 DEF Fits, BatchSizes
  <2>10. /\ GoneOn(s, k)
         /\ s.drained = k.drained \cup Range(SubSeq(k.log, 1, k.drainCount))
         /\ s.log = MarkBatch(k).log
         /\ dispatching => /\ s.writes = k.writes
                           /\ s.tx.next = k.tx.next /\ s.tx.total = k.tx.total
                           /\ s.tx.action = k.tx.action
    BY <2>1, <2>4, <2>5, <2>6, <2>7, <2>9, DrainGoesOn
  <2>11. Range(SubSeq(k.log, 1, k.drainCount)) = {}
    <3>1. SubSeq(k.log, 1, k.drainCount) = << >>
      BY <2>4, SubSeqEmpty
    <3>2. \A i : i \notin 1 .. Len(<< >>)
      BY EmptySeq
    <3>3. Range(<< >>) = {}
      BY <3>2, EmptySeq, RangeEquality
    <3> QED BY <3>1, <3>3
  <2>12. GoneOn(s, h)
    <3>1. /\ Open(h) <=> Open(k)
          /\ Alone(h) <=> Alone(k)
      BY <2>4 DEF Open, Alone, LastIsCurrent
    <3> QED BY <2>4, <2>10, <3>1 DEF GoneOn
  <2> QED BY <2>4, <2>8, <2>10, <2>11, <2>12
<1> QED BY <1>1, <1>2

-----------------------------------------------------------------------------
(* The tail of write_complete.                                              *)

LEMMA TailFields ==
    ASSUME NEW x \in Pipelines, x.queue # << >>, NEW t, t = [x EXCEPT !.queue = Tail(@)]
    PROVE  /\ t \in Pipelines /\ t.queue = Tail(x.queue)
           /\ t.total = x.total /\ t.next = x.next /\ t.action = x.action
           /\ t.sequence = x.sequence /\ t.current = x.current
<1>1. x.queue \in Seq(Records)
  BY DEF Pipelines
<1>2. Tail(x.queue) \in Seq(Records)
  BY <1>1, HeadTailProperties
<1> QED BY <1>2 DEF Pipelines

LEMMA QueueGoesOn ==
    ASSUME NEW h, Sound(h), h.tx.next = h.tx.total, h.tx.action = "none",
           NEW accepted \in BOOLEAN, NEW s, s = StartNextPending(h, accepted)
    PROVE  /\ Sound(s) /\ SameDrain(s, h)
           /\ h.closing => s.closing
           /\ Open(h) => Open(s)
           /\ FollowedUp(h) => FollowedUp(s)
           /\ h.writes = << >> => Alone(s)
<1> DEFINE q == h.tx.queue
           r == Head(q)
           k == StartSend(h, r, accepted)
<1>1. h \in States /\ q \in Seq(Records) /\ Len(q) \in Nat /\ Buffered(h) /\ OnTheWire(h)
  BY LenProperties DEF Sound, Buffered, States, Pipelines
<1>2. CASE q = << >>
  <2>1. s = h
    BY <1>2 DEF StartNextPending
  <2> QED BY <1>1, <2>1 DEF SameDrain, Alone
<1>3. CASE q # << >> /\ ~ CanStart(h)
  <2>1. s = Terminate(h)
    BY <1>3 DEF StartNextPending
  <2>2. s \in States /\ s.closing /\ s.tx = h.tx /\ s.writes = h.writes /\ SameDrain(s, h)
    BY <1>1, <2>1, Closed
  <2>3. Buffered(s)
    BY <2>2 DEF Sound, Buffered, SameDrain
  <2>4. OnTheWire(s)
    BY <2>2 DEF Sound, OnTheWire, Consecutive, LastIsCurrent, LastEnds
  <2>5. OneBatch(s)
    BY <2>2 DEF Sound, OneBatch, IsBatch, Queued, SameDrain
  <2> QED BY <2>2, <2>3, <2>4, <2>5 DEF Sound, Open, FollowedUp, Alone
<1>4. CASE q # << >> /\ CanStart(h)
  <2>1. s = [k EXCEPT !.tx.queue = Tail(@)]
    BY <1>4 DEF StartNextPending
  <2>2. r \in Records /\ r = q[1] /\ 1 \in 1 .. Len(q)
    BY <1>1, <1>4, HeadTailProperties, EmptySeq
  <2>3. /\ Tail(q) \in Seq(Records) /\ Len(Tail(q)) = Len(q) - 1
        /\ \A i \in 1 .. Len(Tail(q)) : Tail(q)[i] = q[i + 1]
    BY <1>1, <1>4, HeadTailProperties
  <2>4. /\ Buffered(k) /\ OnTheWire(k) /\ SameDrain(k, h)
        /\ k.tx.queue = q /\ k.tx.action = r.act /\ k.tx.current = r
        /\ h.closing => k.closing
        /\ ~ k.closing => LastIsCurrent(k) /\ k.writes # << >>
        /\ h.writes = << >> => Alone(k)
    BY <1>1, <1>4, <2>2, RecordInOrder
  <2> HIDE DEF k, r, q
  <2> DEFINE t == [k.tx EXCEPT !.queue = Tail(@)]
  <2>5. k \in States /\ k.tx \in Pipelines /\ k.tx.queue # << >>
    BY <1>4, <2>4 DEF Buffered, States
  <2>6. /\ t \in Pipelines /\ t.queue = Tail(q)
        /\ t.total = k.tx.total /\ t.next = k.tx.next /\ t.action = k.tx.action
        /\ t.sequence = k.tx.sequence /\ t.current = k.tx.current
    BY <2>4, <2>5, TailFields
  <2>7. s = [k EXCEPT !.tx = t]
    BY <2>1, <2>5 DEF States
  <2> HIDE DEF t
  <2>8. /\ s \in States /\ s.tx = t /\ s.writes = k.writes /\ s.closing = k.closing
        /\ SameDrain(s, h)
    BY <2>4, <2>5, <2>6, <2>7 DEF States, SameDrain
  <2>9. Buffered(s)
    <3>1. Len(Tail(q)) <= QueueCap
      <4>1. Len(q) <= QueueCap
        BY <2>4 DEF Buffered
      <4> QED BY <1>1, <2>3, <4>1, TxAssumption
    <3> QED BY <2>4, <2>6, <2>8, <3>1 DEF Buffered, SameDrain
  <2>10. OnTheWire(s)
    BY <2>4, <2>6, <2>8 DEF OnTheWire, Consecutive, LastIsCurrent, LastEnds
  <2>11. \A i : i \in Queued(s) <=> i \in 1 .. Len(q) - 1 /\ q[i + 1].act = "continue"
    BY <2>3, <2>6, <2>8 DEF Queued
  <2>12. \A i : i \in Queued(h) <=> i \in 1 .. Len(q) /\ q[i].act = "continue"
    BY DEF Queued, q
  <2>13. \A i \in Queued(s) : i + 1 \in Queued(h)
    BY <1>1, <2>11, <2>12
  <2>14. /\ s.tx.action = r.act /\ s.tx.current = r
         /\ \A i \in Queued(s) : s.tx.queue[i] = q[i + 1]
    BY <1>1, <2>3, <2>4, <2>6, <2>8, <2>11
  <2>15. \A i \in Queued(h) : IsBatch(h, q[i]) /\ Queued(h) = {i}
    BY DEF Sound, OneBatch, q
  <2>16. \A x : IsBatch(s, x) <=> IsBatch(h, x)
    BY <2>8 DEF IsBatch, SameDrain
  <2>17. OneBatch(s)
    <3>1. s.tx.action = "continue" => Queued(s) = {} /\ IsBatch(s, s.tx.current)
      <4> SUFFICES ASSUME r.act = "continue" PROVE Queued(s) = {} /\ IsBatch(s, r)
        BY <2>14
      <4>1. 1 \in Queued(h)
        BY <2>2, <2>12
      <4>2. Queued(h) = {1} /\ IsBatch(s, r)
        BY <2>2, <2>15, <2>16, <4>1
      <4>3. ASSUME NEW i \in Queued(s) PROVE FALSE
        <5>1. i + 1 = 1 /\ i \in 1 .. Len(q) - 1
          BY <2>11, <2>13, <4>2, <4>3
        <5> QED BY <1>1, <5>1
      <4> QED BY <4>2, <4>3
    <3>2. ASSUME NEW i \in Queued(s) PROVE IsBatch(s, s.tx.queue[i]) /\ Queued(s) = {i}
      <4>1. i + 1 \in Queued(h)
        BY <2>13
      <4>2. IsBatch(s, s.tx.queue[i]) /\ Queued(h) = {i + 1}
        BY <2>14, <2>15, <2>16, <4>1
      <4>3. ASSUME NEW j \in Queued(s) PROVE j = i
        <5>1. j + 1 = i + 1 /\ i \in 1 .. Len(q) - 1 /\ j \in 1 .. Len(q) - 1
          BY <2>11, <2>13, <4>2
        <5> QED BY <1>1, <5>1
      <4> QED BY <4>2, <4>3
    <3>3. ~ s.inFlight => s.drainCount = 0
      BY <2>8 DEF Sound, OneBatch, SameDrain
    <3> QED BY <3>1, <3>2, <3>3 DEF OneBatch
  <2>18. Open(s)
    BY <2>4, <2>6, <2>8 DEF Open, LastIsCurrent
  <2>19. FollowedUp(h) => FollowedUp(s)
    <3> SUFFICES ASSUME FollowedUp(h), ~ s.closing, s.inFlight
                 PROVE  s.tx.action = "continue" \/ Queued(s) # {}
      BY DEF FollowedUp
    <3>1. ~ h.closing /\ h.inFlight
      BY <2>4, <2>8 DEF SameDrain
    <3>2. PICK i \in Queued(h) : TRUE
      BY <3>1 DEF FollowedUp
    <3>3. i \in 1 .. Len(q) /\ q[i].act = "continue"
      BY <2>12
    <3>4. CASE i = 1
      BY <2>2, <2>14, <3>3, <3>4
    <3>5. CASE i # 1
      <4>1. i - 1 \in 1 .. Len(q) - 1 /\ (i - 1) + 1 = i
        BY <1>1, <3>3, <3>5
      <4>2. i - 1 \in Queued(s)
        BY <2>11, <3>3, <4>1
      <4> QED BY <4>2
    <3> QED BY <3>4, <3>5
  <2>20. h.writes = << >> => Alone(s)
    BY <2>4, <2>6, <2>8 DEF Alone, LastIsCurrent
  <2> QED BY <2>4, <2>8, <2>9, <2>10, <2>17, <2>18, <2>19, <2>20 DEF Sound
<1> QED BY <1>2, <1>3, <1>4

-----------------------------------------------------------------------------
(* The actions.                                                             *)

LEMMA ReturnsIs ==
    ASSUME NEW h \in States, link = "closing" => h.closing, Returns(h)
    PROVE  Running' = h
<1>1. (link' = "closing") = h.closing
  <2>1. CASE h.closing
    BY <2>1 DEF Returns, States
  <2>2. CASE ~ h.closing
    BY <2>2 DEF Returns, States
  <2> QED BY <2>1, <2>2
<1>2. h = [tx |-> h.tx, writes |-> h.writes, closing |-> h.closing, inFlight |-> h.inFlight,
           drainCount |-> h.drainCount, log |-> h.log, drained |-> h.drained]
  BY DEF States
<1> QED BY <1>1, <1>2 DEF Running, Returns

LEMMA RunningFields ==
    /\ Running.tx = tx /\ Running.writes = writes /\ Running.inFlight = inFlight
    /\ Running.drainCount = drainCount /\ Running.log = log /\ Running.drained = drained
    /\ Running.closing = (link = "closing")
BY DEF Running

(* What a handler must leave behind on a link that is up or closing.        *)
LEMMA HandlerKeeps ==
    ASSUME TxInv, link # "down", NEW h, Returns(h), Sound(h), Open(h), link = "closing" => h.closing,
           captures' \in 0 .. MaxCaptures, replies' \in 0 .. MaxReplies,
           confirmed' \subseteq Nat, overlap' \in BOOLEAN,
           ~ overlap' => h.drained \subseteq confirmed' /\ Alone(h) /\ FollowedUp(h)
    PROVE  TxInv'
<1>1. h \in States
  BY DEF Sound, Buffered
<1>2. Running' = h
  BY <1>1, ReturnsIs
<1>3. link' \in {"up", "closing"}
  BY DEF TxInv, Returns
<1>4. Sound(Running)' /\ Open(Running)' /\ Buffered(Running)'
  BY <1>2 DEF Sound
<1>5. ~ overlap' => DrainedIsConfirmed' /\ Alone(Running)' /\ FollowedUp(Running)'
  BY <1>2 DEF DrainedIsConfirmed, Returns
<1> QED BY <1>3, <1>4, <1>5 DEF TxInv

(* The state that TxInv speaks of, on a link that is up or closing.         *)
LEMMA RunningIs ==
    ASSUME TxInv
    PROVE  /\ Running \in States /\ Buffered(Running)
           /\ link # "down" => Sound(Running) /\ Open(Running)
           /\ link # "down" /\ ~ overlap => Alone(Running) /\ FollowedUp(Running)
           /\ (link = "closing") = Running.closing
BY DEF TxInv, Running, Buffered

LEMMA InitInv == Init => TxInv
<1> SUFFICES ASSUME Init PROVE TxInv
  OBVIOUS
<1>1. << >> \in Seq(Nat) /\ << >> \in Seq(Records) /\ << >> \in Seq(Writes) /\ Len(<< >>) = 0
  BY EmptySeq
<1>2. TxIdle \in Pipelines
  BY <1>1, TxAssumption DEF TxIdle, Pipelines
<1>3. Running \in States
  <2>1. 0 \in 0 .. MaxBatch
    BY TxAssumption
  <2>2. Running = [tx |-> TxIdle, writes |-> << >>, closing |-> FALSE, inFlight |-> FALSE,
                   drainCount |-> 0, log |-> << >>, drained |-> {}]
    BY DEF Init, Running
  <2> QED BY <1>1, <1>2, <2>1, <2>2 DEF States
<1>4. TxIdle.current.frags = 0 /\ TxIdle.total = 0 /\ TxIdle.next = 0 /\ TxIdle.queue = << >>
  BY DEF TxIdle, NoRecord, Record
<1>5. Buffered(Running)
  BY <1>1, <1>3, <1>4, RunningFields, TxAssumption DEF Init, Buffered
<1>6. 0 \in 0 .. MaxCaptures /\ 0 \in 0 .. MaxReplies
  BY TxAssumption
<1>7. link = "down" /\ tx = TxIdle /\ writes = << >> /\ ~ inFlight
  BY DEF Init
<1> QED BY <1>5, <1>6, <1>7 DEF Init, TxInv, DrainedIsConfirmed

LEMMA DisconnectStep == ASSUME TxInv, Disconnect PROVE TxInv'
<1>1. << >> \in Seq(Records) /\ << >> \in Seq(Writes) /\ Len(<< >>) = 0
  BY EmptySeq
<1>2. TxIdle \in Pipelines
  BY <1>1, TxAssumption DEF TxIdle, Pipelines
<1>3. drainCount \in 0 .. MaxBatch /\ log \in Seq(Nat) /\ drained \in SUBSET Nat /\ drainCount <= Len(log)
  BY RunningIs, RunningFields DEF States, Buffered
<1>4. Running' \in States
  BY <1>1, <1>2, <1>3 DEF Disconnect, Running, States
<1>5. TxIdle.current.frags = 0 /\ TxIdle.total = 0 /\ TxIdle.next = 0 /\ TxIdle.queue = << >>
  BY DEF TxIdle, NoRecord, Record
<1>6. Running'.tx = TxIdle /\ Running'.log = log /\ Running'.drainCount = drainCount
  BY DEF Running, Disconnect
<1>7. Buffered(Running)'
  <2>1. Buffered(Running')
    BY <1>1, <1>3, <1>4, <1>5, <1>6, TxAssumption DEF Buffered
  <2> QED BY <2>1
<1> QED BY <1>7 DEF Disconnect, TxInv, DrainedIsConfirmed

LEMMA SamePrefix ==
    ASSUME NEW x \in Seq(Nat), NEW q \in Seq(Nat), NEW d \in Nat, d <= Len(x), d <= Len(q),
           \A i \in 1 .. d : x[i] = q[i]
    PROVE  SubSeq(x, 1, d) = SubSeq(q, 1, d)
<1>1. \A t \in Seq(Nat) : d <= Len(t) =>
        /\ SubSeq(t, 1, d) \in Seq(Nat)
        /\ Len(SubSeq(t, 1, d)) = d
        /\ \A i \in 1 .. d : SubSeq(t, 1, d)[i] = t[i]
  <2> SUFFICES ASSUME NEW t \in Seq(Nat), d <= Len(t)
               PROVE  /\ SubSeq(t, 1, d) \in Seq(Nat)
                      /\ Len(SubSeq(t, 1, d)) = d
                      /\ \A i \in 1 .. d : SubSeq(t, 1, d)[i] = t[i]
    OBVIOUS
  <2>1. Len(t) \in Nat
    BY LenProperties
  <2>2. ASSUME NEW i \in 1 .. d PROVE t[i] \in Nat
    <3>1. i \in 1 .. Len(t)
      BY <2>1
    <3> QED BY <3>1, ElementOfSeq
  <2>3. /\ SubSeq(t, 1, d) \in Seq(Nat)
        /\ Len(SubSeq(t, 1, d)) = IF 1 <= d THEN d - 1 + 1 ELSE 0
        /\ \A i \in 1 .. d - 1 + 1 : SubSeq(t, 1, d)[i] = t[1 + i - 1]
    BY <2>2, SubSeqProperties
  <2> QED BY <2>3
<1>2. /\ SubSeq(x, 1, d) \in Seq(Nat) /\ SubSeq(q, 1, d) \in Seq(Nat)
      /\ Len(SubSeq(x, 1, d)) = d /\ Len(SubSeq(q, 1, d)) = d
      /\ \A i \in 1 .. d : SubSeq(x, 1, d)[i] = SubSeq(q, 1, d)[i]
  BY <1>1
<1> QED BY <1>2, SeqEqual

(* A capture appended to the log leaves the batch in flight what it is.     *)
LEMMA CaptureFields ==
    ASSUME NEW g, Buffered(g), NEW c \in Nat, NEW h, h = [g EXCEPT !.log = Append(@, c)]
    PROVE  /\ Buffered(h) /\ h.tx = g.tx /\ h.writes = g.writes /\ h.closing = g.closing
           /\ h.drained = g.drained
           /\ Sound(g) => Sound(h)
           /\ Open(g) => Open(h)
           /\ Alone(g) => Alone(h)
           /\ FollowedUp(g) => FollowedUp(h)
<1>1. /\ g \in States /\ g.log \in Seq(Nat) /\ Len(g.log) \in Nat /\ g.drainCount \in Nat
      /\ g.drainCount <= Len(g.log)
  BY LenProperties, TxAssumption DEF Buffered, States
<1>2. /\ Append(g.log, c) \in Seq(Nat) /\ Len(Append(g.log, c)) = Len(g.log) + 1
      /\ \A i \in 1 .. Len(g.log) : Append(g.log, c)[i] = g.log[i]
  BY <1>1, AppendProperties
<1>3. /\ h \in States /\ h.tx = g.tx /\ h.writes = g.writes /\ h.closing = g.closing
      /\ h.inFlight = g.inFlight /\ h.drainCount = g.drainCount
      /\ h.log = Append(g.log, c) /\ h.drained = g.drained
  BY <1>1, <1>2 DEF States
<1>4. g.drainCount <= Len(g.log) + 1
  BY <1>1
<1>5. Buffered(h)
  BY <1>2, <1>3, <1>4 DEF Buffered
<1>6. SubSeq(h.log, 1, h.drainCount) = SubSeq(g.log, 1, g.drainCount)
  <2>1. /\ h.log \in Seq(Nat) /\ g.drainCount <= Len(h.log)
        /\ \A i \in 1 .. g.drainCount : h.log[i] = g.log[i]
    BY <1>1, <1>2, <1>3, <1>4
  <2>2. SubSeq(h.log, 1, g.drainCount) = SubSeq(g.log, 1, g.drainCount)
    BY <1>1, <2>1, SamePrefix
  <2> QED BY <1>3, <2>2
<1>7. OnTheWire(g) => OnTheWire(h)
  BY <1>3 DEF OnTheWire, Consecutive, LastIsCurrent, LastEnds
<1>8. \A x : IsBatch(h, x) <=> IsBatch(g, x)
  BY <1>3, <1>6 DEF IsBatch
<1>9. Queued(h) = Queued(g)
  BY <1>3 DEF Queued
<1>10. OneBatch(g) => OneBatch(h)
  BY <1>3, <1>8, <1>9 DEF OneBatch
<1> QED BY <1>3, <1>5, <1>7, <1>9, <1>10 DEF Sound, Open, Alone, FollowedUp, LastIsCurrent

LEMMA CaptureStep == ASSUME TxInv, Capture PROVE TxInv'
<1> DEFINE h == [Running EXCEPT !.log = Append(@, captures + 1)]
<1>1. PICK frags \in 1 .. MaxFragments, n \in 1 .. MaxBatch, accepted \in BOOLEAN :
        /\ n \in BatchSizes(h)
        /\ HandlerReturns(IF link = "down" THEN h ELSE MaybeKickSend(h, FALSE, frags, n, accepted))
  BY DEF Capture
<1>2. /\ captures' \in 0 .. MaxCaptures /\ replies' \in 0 .. MaxReplies /\ captures + 1 \in Nat
      /\ confirmed' = confirmed /\ confirmed \subseteq Nat /\ overlap \in BOOLEAN
  BY TxAssumption, SMTT(20) DEF Capture, TxInv
<1>3. /\ Buffered(h) /\ h.tx = Running.tx /\ h.writes = Running.writes
      /\ h.closing = Running.closing /\ h.drained = Running.drained
      /\ Sound(Running) => Sound(h)
      /\ Open(Running) => Open(h)
      /\ Alone(Running) => Alone(h)
      /\ FollowedUp(Running) => FollowedUp(h)
  BY <1>2, RunningIs, CaptureFields
<1> HIDE DEF h
<1>4. h.closing = (link = "closing")
  BY <1>3, RunningIs
<1>5. CASE link = "down"
  <2>1. Returns(h) /\ overlap' = (overlap \/ (InWindow /\ h.tx.sequence # tx.sequence))
    BY <1>1, <1>5 DEF HandlerReturns
  <2>2. h.tx = tx
    BY <1>3, RunningFields
  <2>3. overlap' = overlap
    BY <1>2, <2>1, <2>2
  <2>4. Running' = h
    BY <1>3, <1>5, <2>1, ReturnsIs DEF Buffered
  <2>5. Buffered(Running)'
    BY <1>3, <2>4
  <2>6. h.inFlight = inFlight /\ h.writes = writes /\ h.drained = drained
    <3>1. h.inFlight = Running.inFlight
      BY RunningIs DEF h, States
    <3> QED BY <1>3, <3>1, RunningFields
  <2>7. link' = "down" /\ tx' = TxIdle /\ writes' = << >> /\ ~ inFlight'
    BY <1>4, <1>5, <2>1, <2>2, <2>6 DEF Returns, TxInv
  <2>8. DrainedIsConfirmed => DrainedIsConfirmed'
    BY <1>2, <2>1, <2>6 DEF Returns, DrainedIsConfirmed
  <2> QED BY <1>2, <2>3, <2>5, <2>7, <2>8 DEF TxInv
<1>6. CASE link # "down"
  <2> DEFINE s == MaybeKickSend(h, FALSE, frags, n, accepted)
  <2>1. Returns(s) /\ overlap' = (overlap \/ (InWindow /\ s.tx.sequence # tx.sequence))
    BY <1>1, <1>6 DEF HandlerReturns
  <2>2. Sound(h) /\ Open(h) /\ (~ overlap => Alone(h) /\ FollowedUp(h))
    BY <1>3, <1>6, RunningIs
  <2>3. Fits(h, n)
    BY <1>1 DEF Fits
  <2>4. (s = h \/ GoneOn(s, h)) /\ s.drained = h.drained
    <3>1. PICK dispatching \in BOOLEAN : dispatching = FALSE
      OBVIOUS
    <3>2. s = MaybeKickSend(h, dispatching, frags, n, accepted)
      BY <3>1
    <3> HIDE DEF s
    <3> QED BY <2>2, <2>3, <3>2, KickGoesOn
  <2> HIDE DEF s
  <2>5. Sound(s) /\ Open(s) /\ (link = "closing" => s.closing)
    BY <1>4, <2>2, <2>4 DEF GoneOn
  <2>6. ASSUME ~ overlap'
        PROVE  s.drained \subseteq confirmed' /\ Alone(s) /\ FollowedUp(s)
    <3>1. ~ overlap /\ (InWindow => s.tx.sequence = h.tx.sequence)
      BY <1>3, <2>1, <2>6, RunningFields
    <3>2. s.drained \subseteq confirmed'
      BY <1>2, <1>3, <2>4, <3>1, RunningFields DEF TxInv, DrainedIsConfirmed
    <3>3. FollowedUp(s)
      BY <2>2, <2>4, <3>1 DEF GoneOn
    <3>4. h.tx.next = h.tx.total /\ h.writes # << >> => InWindow
      BY <1>3, RunningFields DEF InWindow
    <3>5. Alone(s)
      BY <2>2, <2>4, <3>1, <3>4 DEF GoneOn
    <3> QED BY <3>2, <3>3, <3>5
  <2>7. overlap' \in BOOLEAN
    BY <1>2, <2>1
  <2> QED BY <1>2, <1>6, <2>1, <2>5, <2>6, <2>7, HandlerKeeps
<1> QED BY <1>5, <1>6

(* A reply that is queued or sent, outside a completion.                    *)
LEMMA ReplyGoesOut ==
    ASSUME NEW h, Sound(h), Open(h), NEW dispatching \in BOOLEAN, ~ SendFails(h, dispatching),
           NEW frags \in 1 .. MaxFragments, NEW accepted \in BOOLEAN,
           NEW s, s = QueueAndSend(h, Record(frags, "none", << >>), dispatching, accepted)
    PROVE  /\ Sound(s) /\ Open(s) /\ s.drained = h.drained
           /\ h.closing => s.closing
           /\ Alone(h) /\ FollowedUp(h)
              /\ ~ (h.tx.next = h.tx.total /\ h.writes # << >> /\ s.tx.sequence # h.tx.sequence)
              => Alone(s) /\ FollowedUp(s)
<1> DEFINE r == Record(frags, "none", << >>)
<1>1. r \in Records /\ r.act = "none"
  BY EmptySeq DEF Records, Record
<1>2. Buffered(h) /\ OnTheWire(h) /\ OneBatch(h)
  BY DEF Sound
<1> HIDE DEF r
<1>3. s = QueueAndSend(h, r, dispatching, accepted)
  BY DEF r
<1>4. /\ Buffered(s) /\ OnTheWire(s) /\ SameDrain(s, h)
      /\ Waits(s, h, r) \/ Started(s, h, r)
  BY <1>1, <1>2, <1>3, QueueOrSend
<1>5. OneBatch(s)
  BY <1>1, <1>2, <1>4, ReplyIsNoBatch
<1>6. s.inFlight = h.inFlight /\ s.drained = h.drained
  BY <1>4 DEF SameDrain
<1>7. h.tx.sequence \in Nat /\ h.tx.queue \in Seq(Records)
  BY <1>2 DEF Buffered, States, Pipelines
<1>8. CASE Waits(s, h, r)
  <2>1. /\ s.tx.action = h.tx.action /\ s.writes = h.writes /\ s.closing = h.closing
        /\ s.tx.current = h.tx.current /\ s.tx.next = h.tx.next
    BY <1>8 DEF Waits
  <2>2. Queued(s) = Queued(h)
    BY <1>1, <1>2, <1>8, WaitingBatches
  <2>3. Open(s) /\ (Alone(h) => Alone(s)) /\ (FollowedUp(h) => FollowedUp(s))
    BY <1>6, <2>1, <2>2 DEF Open, Alone, FollowedUp, LastIsCurrent
  <2> QED BY <1>4, <1>5, <1>6, <2>1, <2>3 DEF Sound
<1>9. CASE Started(s, h, r)
  <2>1. /\ h.tx.next = h.tx.total /\ h.tx.queue = << >> /\ s.tx.sequence = h.tx.sequence + 1
        /\ h.closing => s.closing
        /\ h.writes = << >> => Alone(s)
    BY <1>9 DEF Started
  <2>2. Open(s)
    BY <1>1, <1>9 DEF Open, Started, LastIsCurrent
  <2>3. ASSUME FollowedUp(h), h.writes = << >> PROVE FollowedUp(s)
    <3> SUFFICES ASSUME ~ s.closing, s.inFlight PROVE FALSE
      BY DEF FollowedUp
    <3>1. ~ h.closing /\ h.inFlight
      BY <1>6, <2>1
    <3>2. Queued(h) = {}
      BY <2>1, EmptySeq DEF Queued
    <3>3. h.tx.action = "continue"
      BY <2>3, <3>1, <3>2 DEF FollowedUp
    <3> QED BY <2>3, <3>1, <3>3 DEF Open
  <2>4. s.tx.sequence # h.tx.sequence
    BY <1>7, <2>1
  <2> QED BY <1>4, <1>5, <1>6, <2>1, <2>2, <2>3, <2>4 DEF Sound
<1> QED BY <1>4, <1>8, <1>9

(* Closing the connection changes nothing else.                             *)
LEMMA ClosedKeeps ==
    ASSUME NEW h, Sound(h), NEW s, s = Terminate(h)
    PROVE  /\ Sound(s) /\ Open(s) /\ FollowedUp(s) /\ s.closing /\ s.drained = h.drained
           /\ Alone(h) => Alone(s)
<1>1. h \in States
  BY DEF Sound, Buffered
<1>2. s \in States /\ s.closing /\ s.tx = h.tx /\ s.writes = h.writes /\ SameDrain(s, h)
  BY <1>1, Closed
<1>3. Buffered(s)
  BY <1>2 DEF Sound, Buffered, SameDrain
<1>4. OnTheWire(s)
  BY <1>2 DEF Sound, OnTheWire, Consecutive, LastIsCurrent, LastEnds
<1>5. OneBatch(s)
  BY <1>2 DEF Sound, OneBatch, IsBatch, Queued, SameDrain
<1> QED BY <1>2, <1>3, <1>4, <1>5 DEF Sound, Open, FollowedUp, Alone, LastIsCurrent, SameDrain

LEMMA ReplyStep == ASSUME TxInv, Reply PROVE TxInv'
<1> DEFINE h == Running
<1>1. PICK frags \in 1 .. MaxFragments, accepted \in BOOLEAN :
        HandlerReturns(
          IF SendFails(h, FALSE) THEN Terminate(h)
          ELSE QueueAndSend(h, Record(frags, "none", << >>), FALSE, accepted))
  BY DEF Reply
<1>2. /\ captures' \in 0 .. MaxCaptures /\ replies' \in 0 .. MaxReplies /\ link # "down"
      /\ confirmed' = confirmed /\ confirmed \subseteq Nat /\ overlap \in BOOLEAN
  BY TxAssumption DEF Reply, TxInv
<1>3. Sound(h) /\ Open(h) /\ (~ overlap => Alone(h) /\ FollowedUp(h)) /\ h.closing = (link = "closing")
  BY <1>2, RunningIs
<1>4. /\ h.tx.sequence = tx.sequence /\ h.drained = drained
      /\ InWindow <=> h.tx.next = h.tx.total /\ h.writes # << >>
  BY RunningFields DEF InWindow
<1> HIDE DEF h
<1>5. PICK s : /\ HandlerReturns(s)
               /\ \/ SendFails(h, FALSE) /\ s = Terminate(h)
                  \/ ~ SendFails(h, FALSE) /\ s = QueueAndSend(h, Record(frags, "none", << >>), FALSE, accepted)
  BY <1>1
<1>6. /\ Sound(s) /\ Open(s) /\ s.drained = h.drained
      /\ h.closing => s.closing
      /\ Alone(h) /\ FollowedUp(h) /\ ~ (InWindow /\ s.tx.sequence # h.tx.sequence)
         => Alone(s) /\ FollowedUp(s)
  <2>1. CASE SendFails(h, FALSE) /\ s = Terminate(h)
    BY <1>3, <2>1, ClosedKeeps
  <2>2. CASE ~ SendFails(h, FALSE) /\ s = QueueAndSend(h, Record(frags, "none", << >>), FALSE, accepted)
    <3>1. PICK dispatching \in BOOLEAN : dispatching = FALSE
      OBVIOUS
    <3>2. /\ ~ SendFails(h, dispatching)
          /\ s = QueueAndSend(h, Record(frags, "none", << >>), dispatching, accepted)
      BY <2>2, <3>1
    <3>3. /\ Sound(s) /\ Open(s) /\ s.drained = h.drained
          /\ h.closing => s.closing
          /\ Alone(h) /\ FollowedUp(h)
             /\ ~ (h.tx.next = h.tx.total /\ h.writes # << >> /\ s.tx.sequence # h.tx.sequence)
             => Alone(s) /\ FollowedUp(s)
      BY <1>3, <3>2, ReplyGoesOut
    <3> QED BY <1>4, <3>3
  <2> QED BY <1>5, <2>1, <2>2
<1>7. Returns(s) /\ overlap' = (overlap \/ (InWindow /\ s.tx.sequence # tx.sequence))
  BY <1>5 DEF HandlerReturns
<1>8. overlap' \in BOOLEAN
  BY <1>2, <1>7
<1>9. ~ overlap' => s.drained \subseteq confirmed' /\ Alone(s) /\ FollowedUp(s)
  BY <1>2, <1>3, <1>4, <1>6, <1>7 DEF TxInv, DrainedIsConfirmed
<1> QED BY <1>2, <1>3, <1>6, <1>7, <1>8, <1>9, HandlerKeeps

(* The oldest write issued is answered.                                     *)
LEMMA AnsweredFields ==
    ASSUME NEW g, Sound(g), g.writes # << >>, NEW h, h = [g EXCEPT !.writes = Tail(@)]
    PROVE  /\ Sound(h) /\ h.tx = g.tx /\ h.closing = g.closing /\ SameDrain(h, g)
           /\ LastIsCurrent(g) => LastIsCurrent(h)
           /\ Alone(g) => h.writes = << >>
           /\ FollowedUp(g) <=> FollowedUp(h)
<1>1. g \in States /\ g.writes \in Seq(Writes) /\ Len(g.writes) \in Nat /\ Len(g.writes) # 0
  BY LenProperties, EmptySeq DEF Sound, Buffered, States
<1>2. /\ Tail(g.writes) \in Seq(Writes) /\ Len(Tail(g.writes)) = Len(g.writes) - 1
      /\ \A i \in 1 .. Len(g.writes) - 1 : Tail(g.writes)[i] = g.writes[i + 1]
  BY <1>1, HeadTailProperties
<1>3. /\ h \in States /\ h.tx = g.tx /\ h.closing = g.closing /\ SameDrain(h, g)
      /\ h.writes = Tail(g.writes)
  BY <1>1, <1>2 DEF States, SameDrain
<1> DEFINE n == Len(g.writes)
<1>4. Buffered(h)
  BY <1>3 DEF Sound, Buffered, SameDrain
<1>5. Consecutive(h)
  <2> SUFFICES ASSUME NEW i \in 1 .. n - 2 PROVE Follows(h.writes[i + 1], h.writes[i])
    BY <1>1, <1>2, <1>3 DEF Consecutive
  <2>1. i + 1 \in 1 .. n - 1 /\ i \in 1 .. n - 1
    BY <1>1
  <2>2. h.writes[i + 1] = g.writes[(i + 1) + 1] /\ h.writes[i] = g.writes[i + 1]
    BY <1>2, <1>3, <2>1
  <2>3. Follows(g.writes[(i + 1) + 1], g.writes[i + 1])
    BY <2>1 DEF Sound, OnTheWire, Consecutive
  <2> QED BY <2>2, <2>3
<1>6. h.writes # << >> => h.writes[Len(h.writes)] = g.writes[n]
  <2> SUFFICES ASSUME h.writes # << >> PROVE h.writes[n - 1] = g.writes[n]
    BY <1>2, <1>3
  <2>1. n - 1 # 0
    BY <1>2, <1>3, EmptySeq
  <2>2. n - 1 \in 1 .. n - 1 /\ (n - 1) + 1 = n
    BY <1>1, <2>1
  <2> QED BY <1>2, <1>3, <2>2
<1>7. /\ LastIsCurrent(g) => LastIsCurrent(h)
      /\ LastEnds(g) => LastEnds(h)
  BY <1>3, <1>6 DEF LastIsCurrent, LastEnds
<1>8. OnTheWire(h)
  BY <1>5, <1>7 DEF Sound, OnTheWire
<1>9. OneBatch(h)
  BY <1>3 DEF Sound, OneBatch, IsBatch, Queued, SameDrain
<1>10. Alone(g) => h.writes = << >>
  <2> SUFFICES ASSUME n = 1 PROVE Tail(g.writes) = << >>
    BY <1>3 DEF Alone
  <2>1. Tail(g.writes) \in Seq(Writes) /\ Len(Tail(g.writes)) = 0
    BY <1>1, <1>2
  <2> QED BY <2>1, EmptySeq
<1>11. FollowedUp(g) <=> FollowedUp(h)
  BY <1>3 DEF FollowedUp, Queued, SameDrain
<1> QED BY <1>3, <1>4, <1>7, <1>8, <1>9, <1>10, <1>11 DEF Sound

LEMMA WriteErrorStep == ASSUME TxInv, WriteError PROVE TxInv'
<1> DEFINE h == [Running EXCEPT !.writes = Tail(@)]
           s == Terminate(h)
<1>1. /\ captures' \in 0 .. MaxCaptures /\ replies' \in 0 .. MaxReplies /\ link # "down"
      /\ confirmed' = confirmed /\ confirmed \subseteq Nat
      /\ overlap' = overlap /\ overlap \in BOOLEAN /\ Returns(s)
  BY DEF WriteError, TxInv
<1>2. Running.writes # << >>
  BY RunningFields DEF WriteError
<1>3. Sound(Running) /\ Open(Running) /\ (~ overlap => Alone(Running))
  BY <1>1, RunningIs
<1>4. /\ Sound(h) /\ SameDrain(h, Running)
      /\ Alone(Running) => h.writes = << >>
  BY <1>2, <1>3, AnsweredFields
<1> HIDE DEF h
<1>5. /\ Sound(s) /\ Open(s) /\ FollowedUp(s) /\ s.closing /\ s.drained = h.drained
      /\ Alone(h) => Alone(s)
  BY <1>4, ClosedKeeps
<1> HIDE DEF s
<1>6. h.drained = drained
  BY <1>4, RunningFields DEF SameDrain
<1>7. ~ overlap' => s.drained \subseteq confirmed' /\ Alone(s) /\ FollowedUp(s)
  BY <1>1, <1>3, <1>4, <1>5, <1>6 DEF TxInv, DrainedIsConfirmed, Alone
<1> QED BY <1>1, <1>5, <1>7, HandlerKeeps

(* The completion of a record that goes on with the drain is taken.         *)
LEMMA DisarmedFields ==
    ASSUME NEW h, Sound(h), NEW d, d = TakeAction(h)
    PROVE  /\ Buffered(d) /\ OnTheWire(d) /\ SameDrain(d, h)
           /\ d.tx.action = "none" /\ d.tx.next = h.tx.next /\ d.tx.total = h.tx.total
           /\ d.writes = h.writes /\ d.closing = h.closing
           /\ Queued(d) = Queued(h)
           /\ OneBatch(d)
           /\ LastIsCurrent(h) => Open(d)
           /\ h.tx.action = "continue" => NoBatch(d) /\ d.inFlight
           /\ h.tx.action # "continue" /\ FollowedUp(h) => FollowedUp(d)
<1> DEFINE t == [h.tx EXCEPT !.action = "none"]
<1>1. h \in States /\ h.tx \in Pipelines
  BY DEF Sound, Buffered, States
<1>2. d = [h EXCEPT !.tx = t]
  BY <1>1 DEF States, TakeAction
<1>3. /\ t \in Pipelines /\ t.action = "none" /\ t.total = h.tx.total /\ t.next = h.tx.next
      /\ t.queue = h.tx.queue /\ t.sequence = h.tx.sequence /\ t.current = h.tx.current
  <2>1. \A x \in Pipelines : LET u == [x EXCEPT !.action = "none"]
                             IN /\ u \in Pipelines /\ u.action = "none" /\ u.total = x.total
                                /\ u.next = x.next /\ u.queue = x.queue
                                /\ u.sequence = x.sequence /\ u.current = x.current
    BY DEF Pipelines
  <2> QED BY <1>1, <2>1
<1> HIDE DEF t
<1>4. /\ d \in States /\ d.tx = t /\ d.writes = h.writes /\ d.closing = h.closing
      /\ SameDrain(d, h)
  BY <1>1, <1>2, <1>3 DEF States, SameDrain
<1>5. Buffered(d)
  BY <1>3, <1>4 DEF Sound, Buffered, SameDrain
<1>6. OnTheWire(d)
  BY <1>3, <1>4 DEF Sound, OnTheWire, Consecutive, LastIsCurrent, LastEnds
<1>7. Queued(d) = Queued(h)
  BY <1>3, <1>4 DEF Queued
<1>8. \A x : IsBatch(d, x) <=> IsBatch(h, x)
  BY <1>4 DEF IsBatch, SameDrain
<1>9. OneBatch(d)
  <2>1. d.tx.action # "continue"
    BY <1>3, <1>4
  <2>2. \A i \in Queued(d) : IsBatch(d, d.tx.queue[i]) /\ Queued(d) = {i}
    BY <1>3, <1>4, <1>7, <1>8 DEF Sound, OneBatch
  <2>3. ~ d.inFlight => d.drainCount = 0
    BY <1>4 DEF Sound, OneBatch, SameDrain
  <2> QED BY <2>1, <2>2, <2>3 DEF OneBatch
<1>10. LastIsCurrent(h) => Open(d)
  BY <1>3, <1>4 DEF Open, LastIsCurrent
<1>11. h.tx.action = "continue" => NoBatch(d) /\ d.inFlight
  BY <1>3, <1>4, <1>7 DEF Sound, OneBatch, IsBatch, NoBatch, SameDrain
<1>12. h.tx.action # "continue" /\ FollowedUp(h) => FollowedUp(d)
  BY <1>3, <1>4, <1>7 DEF FollowedUp, SameDrain
<1> QED BY <1>3, <1>4, <1>5, <1>6, <1>7, <1>9, <1>10, <1>11, <1>12

(* The write answered outside the window is the last fragment issued; when   *)
(* it is the last of its record, the record is confirmed.                   *)
LEMMA ConfirmsCurrent ==
    ASSUME NEW g, Sound(g), g.writes # << >>
    PROVE  /\ Head(g.writes) \in Writes
           /\ Alone(g) /\ g.tx.next = g.tx.total =>
                /\ Head(g.writes).rec = g.tx.current
                /\ Head(g.writes).frag = Head(g.writes).rec.frags
<1>1. g.writes \in Seq(Writes)
  BY DEF Sound, Buffered, States
<1>2. Head(g.writes) \in Writes /\ Head(g.writes) = g.writes[1]
  BY <1>1, HeadTailProperties
<1> QED BY <1>2 DEF Alone, LastIsCurrent, Sound, Buffered

LEMMA WriteCompleteStep == ASSUME TxInv, WriteComplete PROVE TxInv'
<1> DEFINE g == Running
           h == [Running EXCEPT !.writes = Tail(@)]
           d == TakeAction(h)
           w == Head(writes)
<1>1. PICK frags \in 1 .. MaxFragments, n \in 1 .. MaxBatch, accepted \in BOOLEAN, again \in BOOLEAN :
        LET after == IF tx.action = "continue"
                     THEN SendNextBatch(d, TRUE, frags, n, accepted) ELSE d
        IN /\ MarkBatch(h).log # << >> => n \in BatchSizes(MarkBatch(h))
           /\ Returns(IF tx.next < tx.total THEN SendNextFragment(h, accepted)
                      ELSE StartNextPending(after, again))
           /\ confirmed' = IF w.frag = w.rec.frags THEN confirmed \cup Range(w.rec.caps)
                                                   ELSE confirmed
  BY DEF WriteComplete
<1>2. /\ captures' \in 0 .. MaxCaptures /\ replies' \in 0 .. MaxReplies /\ link # "down"
      /\ confirmed \subseteq Nat /\ overlap' = overlap /\ overlap \in BOOLEAN /\ writes # << >>
  BY DEF WriteComplete, TxInv
<1>3. Sound(g) /\ Open(g) /\ (~ overlap => Alone(g) /\ FollowedUp(g)) /\ g.closing = (link = "closing")
  BY <1>2, RunningIs
<1>4. /\ g.tx = tx /\ g.writes = writes /\ g.drained = drained /\ g.log = log
      /\ g.drainCount = drainCount
  BY RunningFields
<1>5. /\ w \in Writes
      /\ ~ overlap /\ tx.next = tx.total => w.rec = tx.current /\ w.frag = w.rec.frags
  BY <1>2, <1>3, <1>4, ConfirmsCurrent
<1>6. confirmed' \subseteq Nat
  <2>1. Range(w.rec.caps) \subseteq Nat
    BY <1>5, RangeOfSeq DEF Writes, Records
  <2> QED BY <1>1, <1>2, <2>1
<1>7. confirmed \subseteq confirmed'
  BY <1>1
<1>8. /\ Sound(h) /\ h.tx = tx /\ h.closing = g.closing /\ SameDrain(h, g)
      /\ LastIsCurrent(g) => LastIsCurrent(h)
      /\ Alone(g) => h.writes = << >>
      /\ FollowedUp(g) <=> FollowedUp(h)
  BY <1>2, <1>3, <1>4, AnsweredFields
<1> HIDE DEF g, h, w
<1>9. ~ overlap => drained \subseteq confirmed
  BY DEF TxInv, DrainedIsConfirmed
<1>10. ~ g.closing => LastIsCurrent(h)
  BY <1>3, <1>8 DEF Open
<1>11. tx.next \in Nat /\ tx.total \in Nat /\ tx.next <= tx.total
  BY <1>8 DEF Sound, Buffered, States, Pipelines
<1>12. CASE tx.next < tx.total
  <2> DEFINE s == SendNextFragment(h, accepted)
  <2>1. Returns(s)
    BY <1>1, <1>12
  <2>2. /\ Buffered(s) /\ OnTheWire(s) /\ SameDrain(s, h) /\ SameRecord(s, h)
        /\ h.closing => s.closing
        /\ h.tx.next < h.tx.total /\ ~ s.closing => LastIsCurrent(s) /\ s.writes # << >>
        /\ h.writes = << >> => Alone(s)
    BY <1>8, FragmentInOrder DEF Sound
  <2> HIDE DEF s
  <2>3. Queued(s) = Queued(h) /\ \A x : IsBatch(s, x) <=> IsBatch(h, x)
    BY <2>2 DEF Queued, IsBatch, SameDrain, SameRecord
  <2>4. OneBatch(s)
    <3>1. s.tx.action = "continue" => Queued(s) = {} /\ IsBatch(s, s.tx.current)
      BY <1>8, <2>2, <2>3 DEF Sound, OneBatch, SameRecord
    <3>2. \A i \in Queued(s) : IsBatch(s, s.tx.queue[i]) /\ Queued(s) = {i}
      BY <1>8, <2>2, <2>3 DEF Sound, OneBatch, SameRecord
    <3>3. ~ s.inFlight => s.drainCount = 0
      BY <1>8, <2>2 DEF Sound, OneBatch, SameDrain
    <3> QED BY <3>1, <3>2, <3>3 DEF OneBatch
  <2>5. Sound(s)
    BY <2>2, <2>4 DEF Sound
  <2>6. Open(s)
    BY <1>8, <1>12, <2>2 DEF Open
  <2>7. FollowedUp(h) => FollowedUp(s)
    BY <2>2, <2>3 DEF FollowedUp, SameDrain, SameRecord
  <2>8. s.drained = drained
    BY <1>4, <1>8, <2>2 DEF SameDrain
  <2>9. ~ overlap' => s.drained \subseteq confirmed' /\ Alone(s) /\ FollowedUp(s)
    BY <1>2, <1>3, <1>7, <1>8, <1>9, <2>2, <2>7, <2>8
  <2>10. link = "closing" => s.closing
    BY <1>3, <1>8, <2>2
  <2> QED BY <1>2, <1>6, <2>1, <2>5, <2>6, <2>9, <2>10, HandlerKeeps
<1>13. CASE tx.next = tx.total
  <2> DEFINE after == IF tx.action = "continue"
                      THEN SendNextBatch(d, TRUE, frags, n, accepted) ELSE d
             s == StartNextPending(after, again)
  <2>1. Returns(s)
    <3>1. ~ (tx.next < tx.total)
      BY <1>11, <1>13
    <3> QED BY <1>1, <3>1
  <2>2. /\ Buffered(d) /\ OnTheWire(d) /\ SameDrain(d, h)
        /\ d.tx.action = "none" /\ d.tx.next = h.tx.next /\ d.tx.total = h.tx.total
        /\ d.writes = h.writes /\ d.closing = h.closing
        /\ OneBatch(d)
        /\ LastIsCurrent(h) => Open(d)
        /\ h.tx.action = "continue" => NoBatch(d) /\ d.inFlight
        /\ h.tx.action # "continue" /\ FollowedUp(h) => FollowedUp(d)
    BY <1>8, DisarmedFields
  <2>3. Open(d)
    BY <1>8, <1>10, <2>2 DEF Open
  <2>4. Fits(MarkBatch(d), n)
    <3> HIDE DEF d
    <3>1. Buffered(h) /\ d.log = h.log /\ d.drainCount = h.drainCount
      BY <1>8, <2>2 DEF Sound, SameDrain
    <3>2. MarkBatch(d).log = SubSeq(d.log, d.drainCount + 1, Len(d.log))
      BY <2>2, MarkedFields
    <3>3. MarkBatch(h).log = SubSeq(h.log, h.drainCount + 1, Len(h.log))
      BY <3>1, MarkedFields
    <3>4. MarkBatch(d).log = MarkBatch(h).log
      BY <3>1, <3>2, <3>3
    <3> QED BY <1>1, <3>4 DEF Fits, BatchSizes
  <2> HIDE DEF d
  <2>5. /\ Sound(after) /\ Open(after)
        /\ after.tx.next = after.tx.total /\ after.tx.action = "none"
        /\ after.writes = h.writes
        /\ h.closing => after.closing
        /\ FollowedUp(h) => FollowedUp(after)
        /\ after.drained = IF tx.action = "continue"
                           THEN drained \cup Range(SubSeq(log, 1, drainCount)) ELSE drained
    <3>1. d.drained = drained /\ d.log = log /\ d.drainCount = drainCount
      BY <1>4, <1>8, <2>2 DEF SameDrain
    <3>2. CASE tx.action = "continue"
      <4>1. after = SendNextBatch(d, TRUE, frags, n, accepted)
        BY <3>2
      <4>2. PICK dispatching \in BOOLEAN : dispatching = TRUE
        OBVIOUS
      <4>3. after = SendNextBatch(d, dispatching, frags, n, accepted)
        BY <4>1, <4>2
      <4> HIDE DEF after
      <4>4. NoBatch(d) /\ d.inFlight
        BY <1>8, <2>2, <3>2
      <4>5. /\ GoneOn(after, d)
            /\ after.drained = d.drained \cup Range(SubSeq(d.log, 1, d.drainCount))
            /\ dispatching => /\ after.writes = d.writes
                              /\ after.tx.next = d.tx.next /\ after.tx.total = d.tx.total
                              /\ after.tx.action = d.tx.action
        BY <2>2, <2>4, <4>3, <4>4, DrainGoesOn
      <4> QED BY <1>8, <1>13, <2>2, <2>3, <3>1, <3>2, <4>2, <4>5 DEF GoneOn
    <3>3. CASE tx.action # "continue"
      <4>1. after = d
        BY <3>3
      <4> QED BY <1>8, <1>13, <2>2, <2>3, <3>1, <3>3, <4>1 DEF Sound
    <3> QED BY <3>2, <3>3
  <2> HIDE DEF after
  <2>6. /\ Sound(s) /\ SameDrain(s, after)
        /\ after.closing => s.closing
        /\ Open(after) => Open(s)
        /\ FollowedUp(after) => FollowedUp(s)
        /\ after.writes = << >> => Alone(s)
    BY <2>5, QueueGoesOn
  <2> HIDE DEF s
  <2>7. ASSUME ~ overlap'
        PROVE  s.drained \subseteq confirmed' /\ Alone(s) /\ FollowedUp(s)
    <3>1. Alone(s) /\ FollowedUp(s)
      BY <1>2, <1>3, <1>8, <2>5, <2>6, <2>7
    <3>2. s.drained = after.drained /\ drained \subseteq confirmed'
      BY <1>2, <1>7, <1>9, <2>6, <2>7 DEF SameDrain
    <3>3. ASSUME tx.action = "continue"
          PROVE  Range(SubSeq(log, 1, drainCount)) \subseteq confirmed'
      <4>1. tx.current.caps = SubSeq(log, 1, drainCount)
        BY <1>3, <1>4, <3>3 DEF Sound, OneBatch, IsBatch
      <4>2. w.rec = tx.current /\ w.frag = w.rec.frags
        BY <1>2, <1>5, <1>13, <2>7
      <4> QED BY <1>1, <4>1, <4>2
    <3> QED BY <2>5, <3>1, <3>2, <3>3
  <2>8. link = "closing" => s.closing
    BY <1>3, <1>8, <2>5, <2>6
  <2> QED BY <1>2, <1>6, <2>1, <2>5, <2>6, <2>7, <2>8, HandlerKeeps
<1> QED BY <1>11, <1>12, <1>13

(* A connection starts from an empty pipeline, whatever the last one left.  *)
LEMMA ConnectStep == ASSUME TxInv, Connect PROVE TxInv'
<1> DEFINE h == AtConnect(Running)
<1>1. PICK frags \in 1 .. MaxFragments, n \in 1 .. MaxBatch, accepted \in BOOLEAN :
        LET k == StartNextPending(MaybeKickSend(h, TRUE, frags, n, accepted), accepted)
        IN /\ h.log # << >> => n \in BatchSizes(h)
           /\ tx' = k.tx
           /\ writes' = k.writes
           /\ inFlight' = k.inFlight
           /\ drainCount' = k.drainCount
           /\ link' = IF k.closing THEN "closing" ELSE "up"
  BY DEF Connect
<1>2. /\ log' = log /\ drained' = drained /\ captures' = captures /\ replies' = replies
      /\ confirmed' = confirmed /\ overlap' = overlap /\ link = "down"
      /\ captures \in 0 .. MaxCaptures /\ replies \in 0 .. MaxReplies
      /\ confirmed \subseteq Nat /\ overlap \in BOOLEAN /\ writes = << >>
  BY DEF Connect, TxInv
<1>3. Running \in States /\ Buffered(Running)
  BY RunningIs
<1>4. /\ TxIdle.current.frags = 0 /\ TxIdle.total = 0 /\ TxIdle.next = 0 /\ TxIdle.queue = << >>
      /\ TxIdle.action = "none"
  BY DEF TxIdle, NoRecord, Record
<1>5. TxIdle \in Pipelines /\ Len(<< >>) = 0
  BY EmptySeq, TxAssumption DEF TxIdle, Pipelines
<1>6. /\ h \in States /\ h.tx = TxIdle /\ h.writes = << >> /\ h.inFlight = FALSE
      /\ h.drainCount = 0 /\ h.log = log /\ h.drained = drained /\ h.closing = FALSE
  <2>1. 0 \in 0 .. MaxBatch
    BY TxAssumption
  <2>2. h = [Running EXCEPT !.tx = TxIdle, !.inFlight = FALSE, !.drainCount = 0]
    BY DEF AtConnect
  <2>3. Running.closing = FALSE
    BY <1>2, RunningFields
  <2>4. /\ h \in States /\ h.tx = TxIdle /\ h.writes = Running.writes /\ h.inFlight = FALSE
        /\ h.drainCount = 0 /\ h.log = Running.log /\ h.drained = Running.drained
        /\ h.closing = Running.closing
    BY <1>3, <1>5, <2>1, <2>2 DEF States
  <2> QED BY <1>2, <2>3, <2>4, RunningFields
<1> DEFINE s == MaybeKickSend(h, TRUE, frags, n, accepted)
           k == StartNextPending(s, accepted)
<1>7. k = StartNextPending(s, accepted) /\ s = MaybeKickSend(h, TRUE, frags, n, accepted)
  OBVIOUS
<1>8. /\ Fits(h, n)
      /\ tx' = k.tx /\ writes' = k.writes /\ inFlight' = k.inFlight /\ drainCount' = k.drainCount
      /\ link' = IF k.closing THEN "closing" ELSE "up"
  BY <1>1 DEF Fits
<1> HIDE DEF h, s, k
<1>9. Sound(h) /\ Open(h) /\ Alone(h) /\ FollowedUp(h)
  <2>1. Len(h.log) \in Nat
    BY <1>6, LenProperties DEF States
  <2>2. Buffered(h)
    BY <1>4, <1>5, <1>6, <2>1, TxAssumption DEF Buffered
  <2>3. Consecutive(h)
    <3>1. \A i : i \notin 1 .. Len(h.writes) - 1
      BY <1>5, <1>6
    <3> QED BY <3>1 DEF Consecutive
  <2>4. OnTheWire(h)
    BY <1>6, <2>3 DEF OnTheWire, LastIsCurrent
  <2>5. Queued(h) = {}
    BY <1>4, <1>5, <1>6 DEF Queued
  <2>6. OneBatch(h)
    BY <1>4, <1>6, <2>5 DEF OneBatch
  <2> QED BY <1>4, <1>6, <2>2, <2>4, <2>6 DEF Sound, Open, Alone, FollowedUp, LastIsCurrent
<1>10. /\ s = h \/ GoneOn(s, h)
       /\ s.drained = h.drained /\ s.log = h.log
       /\ s.writes = h.writes
       /\ s.tx.next = h.tx.next /\ s.tx.total = h.tx.total
       /\ s.tx.action = h.tx.action
  <2>1. PICK dispatching \in BOOLEAN : dispatching = TRUE
    OBVIOUS
  <2>2. s = MaybeKickSend(h, dispatching, frags, n, accepted)
    BY <1>7, <2>1
  <2>3. /\ s = h \/ GoneOn(s, h)
        /\ s.drained = h.drained /\ s.log = h.log
        /\ dispatching => /\ s.writes = h.writes
                          /\ s.tx.next = h.tx.next /\ s.tx.total = h.tx.total
                          /\ s.tx.action = h.tx.action
    BY <1>8, <1>9, <2>2, KickGoesOn
  <2> QED BY <2>1, <2>3
<1>11. Sound(s) /\ Open(s) /\ FollowedUp(s)
  BY <1>9, <1>10 DEF GoneOn
<1>12. s.tx.next = s.tx.total /\ s.tx.action = "none" /\ s.writes = << >>
  BY <1>4, <1>6, <1>10
<1>13. /\ Sound(k) /\ SameDrain(k, s) /\ Open(k) /\ FollowedUp(k) /\ Alone(k)
  BY <1>7, <1>11, <1>12, QueueGoesOn
<1>14. k \in States /\ k.log = log /\ k.drained = drained
  BY <1>6, <1>10, <1>13 DEF Sound, Buffered, SameDrain
<1>15. Running' = k
  <2>1. (link' = "closing") = k.closing
    BY <1>8, <1>14 DEF States
  <2>2. k = [tx |-> k.tx, writes |-> k.writes, closing |-> k.closing, inFlight |-> k.inFlight,
             drainCount |-> k.drainCount, log |-> k.log, drained |-> k.drained]
    BY <1>14 DEF States
  <2> QED BY <1>2, <1>8, <1>14, <2>1, <2>2 DEF Running
<1>16. link' \in {"up", "closing"}
  BY <1>8
<1>17. Sound(Running)' /\ Open(Running)' /\ Buffered(Running)' /\ Alone(Running)' /\ FollowedUp(Running)'
  BY <1>13, <1>15 DEF Sound
<1>18. DrainedIsConfirmed => DrainedIsConfirmed'
  BY <1>2 DEF DrainedIsConfirmed
<1> QED BY <1>2, <1>16, <1>17, <1>18 DEF TxInv

LEMMA StutterStep == ASSUME TxInv, UNCHANGED vars PROVE TxInv'
<1>1. Running' = Running
  BY DEF vars, Running
<1>2. /\ Buffered(Running)' <=> Buffered(Running)
      /\ Sound(Running)' <=> Sound(Running)
      /\ Open(Running)' <=> Open(Running)
      /\ Alone(Running)' <=> Alone(Running)
      /\ FollowedUp(Running)' <=> FollowedUp(Running)
  BY <1>1
<1> QED BY <1>2 DEF vars, TxInv, DrainedIsConfirmed

LEMMA NextInv == TxInv /\ [Next]_vars => TxInv'
<1> SUFFICES ASSUME TxInv, [Next]_vars PROVE TxInv'
  OBVIOUS
<1>1. CASE Connect
  BY <1>1, ConnectStep
<1>2. CASE Disconnect
  BY <1>2, DisconnectStep
<1>3. CASE Capture
  BY <1>3, CaptureStep
<1>4. CASE Reply
  BY <1>4, ReplyStep
<1>5. CASE WriteComplete
  BY <1>5, WriteCompleteStep
<1>6. CASE WriteError
  BY <1>6, WriteErrorStep
<1>7. CASE UNCHANGED vars
  BY <1>7, StutterStep
<1> QED BY <1>1, <1>2, <1>3, <1>4, <1>5, <1>6, <1>7 DEF Next

(* The invariant holds in every state.                                      *)
THEOREM TxInvariant == Spec => []TxInv
<1> QED BY InitInv, NextInv, PTL DEF Spec

-----------------------------------------------------------------------------
(* What it says.                                                            *)

LEMMA InvInOrder == TxInv => PipelineInOrder
<1> SUFFICES ASSUME TxInv PROVE TypeOK /\ FragmentsInOrder
  BY DEF PipelineInOrder
<1>1. /\ tx \in Pipelines /\ tx.next <= tx.total /\ Len(tx.queue) <= QueueCap
      /\ inFlight \in BOOLEAN /\ drainCount \in 0 .. MaxBatch /\ drainCount <= Len(log)
  BY RunningIs, RunningFields DEF States, Buffered
<1>2. TypeOK
  <2>1. /\ tx.total \in 0 .. MaxFragments /\ tx.action \in {"none", "continue"}
        /\ tx.sequence \in 1 .. SequenceMax + 1 /\ tx.next \in Nat /\ tx.total \in Nat
    BY <1>1, TxAssumption DEF Pipelines
  <2>2. tx.next \in 0 .. tx.total
    BY <1>1, <2>1
  <2> QED BY <1>1, <2>1, <2>2 DEF TxInv, TypeOK
<1>3. CASE link = "down"
  <2>1. writes = << >> /\ \A i : i \notin 1 .. Len(writes) - 1
    BY <1>3, EmptySeq DEF TxInv
  <2> QED BY <1>2, <1>3, <2>1 DEF FragmentsInOrder
<1>4. CASE link # "down"
  <2>1. Sound(Running) /\ Open(Running)
    BY <1>4 DEF TxInv
  <2>2. \A i \in 1 .. Len(writes) - 1 : Follows(writes[i + 1], writes[i])
    BY <2>1, RunningFields DEF Sound, OnTheWire, Consecutive
  <2>3. link = "up" /\ writes # << >> =>
          writes[Len(writes)].rec = tx.current /\ writes[Len(writes)].frag = tx.next
    BY <2>1, RunningFields DEF Open, LastIsCurrent
  <2> QED BY <1>2, <2>2, <2>3 DEF FragmentsInOrder, Follows
<1> QED BY <1>3, <1>4

(* PipelineInOrder: the counters and the queue stay within their buffers,    *)
(* the batch in flight is never more than the log holds, and on the wire     *)
(* every record is whole and in order, with any number of records requested  *)
(* behind any completion, refused write, write error or lost link            *)
(* (queue_and_send_protected, write_complete).                              *)
THEOREM WholeAndInOrder == Spec => []PipelineInOrder
<1> QED BY TxInvariant, InvInOrder, PTL

LEMMA InvInTurn == TxInv => DrainInTurn
<1> SUFFICES ASSUME TxInv PROVE DrainedIsConfirmedInTurn /\ InFlightIsFollowedUp
  BY DEF DrainInTurn
<1>1. DrainedIsConfirmedInTurn
  BY DEF TxInv, DrainedIsConfirmedInTurn
<1>2. InFlightIsFollowedUp
  <2> SUFFICES ASSUME link = "up", inFlight, ~ overlap
               PROVE  tx.action = "continue" \/ \E i \in 1 .. Len(tx.queue) : tx.queue[i].act = "continue"
    BY DEF InFlightIsFollowedUp
  <2>1. FollowedUp(Running)
    BY DEF TxInv
  <2>2. ~ Running.closing /\ Running.inFlight
    BY RunningFields
  <2>3. tx.action = "continue" \/ Queued(Running) # {}
    BY <2>1, <2>2, RunningFields DEF FollowedUp
  <2> QED BY <2>3, RunningFields DEF Queued
<1> QED BY <1>1, <1>2

(* DrainInTurn: outside the window of an unanswered last write no batch is   *)
(* given up before its record is confirmed, and a batch in flight always has *)
(* the completion that goes on with the next                                 *)
(* (wardriving_send_next_batch, BLE_GAP_EVENT_CONNECT).                     *)
THEOREM NoBatchIsSkipped == Spec => []DrainInTurn
<1> QED BY TxInvariant, InvInTurn, PTL
-----------------------------------------------------------------------------
(* The Heltec firmware: every record that its pipeline sends, and what each  *)
(* completion starts.  The invariant is HeltecInv below.  HeardIsTrue is not *)
(* inductive: it needs what is on the wire and in the queue, that the        *)
(* numbers heard, those on the wire and that of the record being cut go on   *)
(* from each other (Turn), and how far a handshake has come (HandInv).       *)
(* NeverStuck needs that exactly one continuation of a scan is under way     *)
(* (Once, ScanInv) and that an idle pipeline keeps nothing (Fed).            *)

(* The parts of the invariant.                                               *)

Actions == {"none", "complete", "disconnect", "authenticated"} \cup H!Kinds
Rec     == [type : H!RecordTypes, seq : 0..MaxSequence, conn : 0..MaxConnections]
Entry   == [rec : Rec, last : BOOLEAN]
Pending == [rec : Rec, action : {"none"} \cup H!Kinds]

Pipes ==
  [rec : Rec, left : 0..MaxPieces, action : Actions, pending : Seq(Pending),
   seq : 0..MaxSequence, wire : Seq(Entry), lost : BOOLEAN, closing : BOOLEAN]

IsPipe(q) == q \in Pipes /\ Len(q.pending) <= QueueDepth

Scan == [busy : BOOLEAN, left : 0..MaxBatches, conn : 0..MaxConnections]

TypeInv ==
  /\ mode \in {"runtime", "open", "closed"} /\ nvs \in H!NoSecret .. MaxConnections
  /\ bleLink \in {"none", "connecting", "up"} /\ conn \in 0..MaxConnections
  /\ setup \in {"none", "ready", "mtu", "service", "characteristics", "descriptors",
                "subscribing"}
  /\ stage \in {"idle", "init_sent", "confirm_sent", "complete_sent", "failed", "hello_sent",
                "authenticated"}
  /\ reason \in {"normal", "auth_failed", "unknown_board"}
  /\ IsPipe(p)
  /\ scan \in [H!Kinds -> Scan]
  /\ wifiRadio \in {"idle", "scanning", "event", "done"}
  /\ window \in BOOLEAN /\ disc \in BOOLEAN /\ reconnect \in BOOLEAN
  /\ commands \in Nat
  /\ heard \in Seq(Rec)

Empty(q) == q.wire = << >> /\ q.left = 0 /\ q.action = "none" /\ q.pending = << >>

\* Where the connection stands, and what its pipeline can carry there.
StageInv ==
  /\ bleLink # "up" => stage = "idle" /\ setup = "none" /\ p = H!PipeIdle /\ heard = << >>
  /\ stage # "idle" => setup = "ready"
  /\ stage \in {"hello_sent", "authenticated"} => mode = "runtime"
  /\ stage \in {"init_sent", "confirm_sent", "complete_sent", "failed"} => mode # "runtime"
  /\ stage # "authenticated" =>
       p.pending = << >> /\ p.action \notin H!Kinds /\ p.rec.seq = 0
  /\ stage = "authenticated" => p.seq # 0
  /\ p.action = "authenticated" => stage = "hello_sent"
  /\ p.action = "complete" => mode # "runtime"
  /\ setup # "ready" => Empty(p) /\ heard = << >>

\* What waits for a completion has a write whose answer brings it.
Fed(q) ==
  q.left > 0 \/ q.pending # << >> \/ q.action # "none" => q.wire # << >> \/ q.closing

\* hello and client_auth, one behind the other.
HandInv ==
  /\ stage = "hello_sent" =>
       /\ \/ p.wire = << >>
          \/ p.wire = << [rec |-> p.rec, last |-> p.left = 0] >>
       /\ \/ /\ p.rec.type = "hello" /\ p.action = "none"
             /\ p.wire # << >> \/ p.left > 0 => ~ H!Has("hello")
          \/ p.rec.type = "client_auth" /\ p.action = "authenticated"
  /\ stage = "authenticated" => H!Has("client_auth")

\* The numbers of s that are not 0 are a .. b-1, in order.
Counts(s, a, b) ==
  /\ a <= b
  /\ \A i \in DOMAIN s : s[i] # 0 => a <= s[i] /\ s[i] < b
  /\ \A i, j \in DOMAIN s : i < j /\ s[i] # 0 /\ s[j] # 0 => s[i] < s[j]
  /\ \A v \in a .. b-1 : \E i \in DOMAIN s : s[i] = v

\* The numbers of the records that the Flipper has, and of those whose last write is issued.
Numbers(h) == [i \in 1..Len(h) |-> h[i].seq]
Flags(wire) == [i \in 1..Len(wire) |-> IF wire[i].last THEN wire[i].rec.seq ELSE 0]

\* What is under way goes on from n, and the next record takes s.
Out(q, n, s) ==
  \E m \in Nat :
    /\ Counts(Flags(q.wire), n, m)
    /\ IF q.left > 0 /\ q.rec.seq # 0 THEN q.rec.seq = m /\ s = m + 1 ELSE s = m

NextNumber == IF stage = "authenticated" THEN p.seq ELSE 1

Turn(q, h, s) == \E n \in Nat \ {0} : Counts(Numbers(h), 1, n) /\ Out(q, n, s)

TurnInv == p.closing \/ Turn(p, heard, NextNumber)

\* The kinds of record, with their connection, that may be under way now.
Fine ==
  {t \in H!RecordTypes \X (0..MaxConnections) :
     /\ t[1] \in {"partial", "complete"} => t[2] = conn \/ "fast_reconnect" \in raced
     /\ t[1] = "pair_complete" => nvs = conn}

Tag(r) == <<r.type, r.conn>>

Only(q, G) ==
  /\ Tag(q.rec) \in G
  /\ \A i \in DOMAIN q.wire : Tag(q.wire[i].rec) \in G
  /\ \A i \in DOMAIN q.pending : Tag(q.pending[i].rec) \in G

TagInv == Only(p, Fine) /\ \A i \in DOMAIN heard : Tag(heard[i]) \in Fine

\* A batch of k behind which another one comes.
Waiting(q, k, i) == q.pending[i].action = k
Going(q, k) == q.action = k \/ \E i \in DOMAIN q.pending : Waiting(q, k, i)

Once(q) ==
  \A k \in H!Kinds :
    /\ q.action = k => \A i \in DOMAIN q.pending : ~ Waiting(q, k, i)
    /\ \A i, j \in DOMAIN q.pending : Waiting(q, k, i) /\ Waiting(q, k, j) => i = j

Raced(t) == t \in raced

ScanInv ==
  /\ wifiRadio # "idle" => scan["wifi"].busy
  /\ window => scan["ble"].busy
  /\ Once(p)
  /\ p.lost => Raced("send_in_window")
  /\ \A k \in H!Kinds :
       /\ Going(p, k) => H!Chained(k) /\ scan[k].left >= 1
       /\ H!Chained(k) => p.closing \/ Going(p, k) \/ Raced("drop_mid_chain")
                                    \/ Raced("send_in_window")
       /\ stage = "authenticated" /\ scan[k].busy =>
            scan[k].conn = conn \/ Raced("fast_reconnect")

LookInv ==
  /\ bleLink = "none" /\ mode # "closed" =>
       disc \/ reconnect \/ Raced("drop_in_window") \/ Raced("disc_error")
  /\ window /\ bleLink # "up" => Raced("drop_in_window")

HeltecInv ==
  TypeInv /\ StageInv /\ Fed(p) /\ HandInv /\ TurnInv /\ TagInv /\ ScanInv /\ LookInv


(* Records, numbers and sequences.                                           *)

LEMMA Bounds ==
  /\ 0 \in 0..MaxPieces /\ 0 \in 0..MaxSequence /\ 1 \in 0..MaxSequence
  /\ 0 \in 0..MaxConnections /\ 0 \in 0..MaxBatches
  /\ \A n \in 1..MaxPieces : n \in 0..MaxPieces
  /\ \A n \in 0..MaxPieces : n > 0 => n - 1 \in 0..MaxPieces
  /\ \A n \in 0..MaxSequence : ~ n >= MaxSequence => n + 1 \in 0..MaxSequence
BY HeltecAssumption, SMT

LEMMA RecFields ==
  /\ \A r \in Rec : r.type \in H!RecordTypes /\ r.seq \in 0..MaxSequence /\ r.seq \in Nat
                   /\ r.conn \in 0..MaxConnections
  /\ \A w \in Entry : w.rec \in Rec /\ w.last \in BOOLEAN /\ w.rec.seq \in Nat
  /\ \A w \in Pending : w.rec \in Rec /\ w.action \in {"none"} \cup H!Kinds /\ w.rec.seq \in Nat
<1>1. \A r \in Rec : r.type \in H!RecordTypes /\ r.seq \in 0..MaxSequence /\ r.seq \in Nat
                   /\ r.conn \in 0..MaxConnections
  BY HeltecAssumption, SMT DEF Rec
<1> QED BY <1>1, SMT DEF Entry, Pending

LEMMA PipeFields ==
  ASSUME NEW q, IsPipe(q)
  PROVE  /\ q.rec \in Rec /\ q.left \in 0..MaxPieces /\ q.left \in Nat /\ q.action \in Actions
         /\ q.pending \in Seq(Pending) /\ q.seq \in 0..MaxSequence /\ q.seq \in Nat
         /\ q.wire \in Seq(Entry) /\ q.lost \in BOOLEAN /\ q.closing \in BOOLEAN
         /\ Len(q.pending) <= QueueDepth
BY SMT DEF IsPipe, Pipes

LEMMA IdleIsPipe == IsPipe(H!PipeIdle)
BY Bounds, HeltecAssumption, SMT DEF IsPipe, Pipes, H!PipeIdle, H!NoRecord, Rec, Actions, H!RecordTypes

(* Counts.                                                                   *)

LEMMA CountsNone == ASSUME NEW s, Len(s) = 0, s \in Seq(Nat), NEW a \in Nat PROVE Counts(s, a, a)
BY SMT DEF Counts

LEMMA CountsZero ==
  ASSUME NEW s \in Seq(Nat), NEW a \in Nat, NEW b \in Nat, Counts(s, a, b)
  PROVE  Counts(Append(s, 0), a, b)
<1> DEFINE t == Append(s, 0)
<1>1. t \in Seq(Nat) /\ Len(t) = Len(s) + 1 /\ t[Len(s) + 1] = 0
      /\ \A i \in 1..Len(s) : t[i] = s[i]
  BY SMT
<1>2. \A i \in DOMAIN t : t[i] # 0 => i \in DOMAIN s /\ t[i] = s[i]
  BY <1>1, SMT
<1>3. \A i \in DOMAIN s : i \in DOMAIN t /\ t[i] = s[i]
  BY <1>1, SMT
<1> HIDE DEF t
<1>4. Counts(t, a, b)
  BY <1>2, <1>3 DEF Counts
<1> QED BY <1>4 DEF t

LEMMA CountsNext ==
  ASSUME NEW s \in Seq(Nat), NEW a \in Nat \ {0}, NEW b \in Nat, Counts(s, a, b)
  PROVE  Counts(Append(s, b), a, b + 1)
<1> DEFINE t == Append(s, b)
<1>1. t \in Seq(Nat) /\ Len(t) = Len(s) + 1 /\ t[Len(s) + 1] = b
      /\ \A i \in 1..Len(s) : t[i] = s[i]
  BY SMT
<1>2. a <= b + 1 /\ \A i \in DOMAIN t : t[i] # 0 => a <= t[i] /\ t[i] < b + 1
  BY <1>1, SMT DEF Counts
<1>5. \A i \in DOMAIN s : i \in DOMAIN t /\ t[i] = s[i] /\ (s[i] # 0 => s[i] < b)
  BY <1>1, SMT DEF Counts
<1>6. \A i \in DOMAIN t : i \in DOMAIN s \/ i = Len(s) + 1
  BY <1>1, SMT
<1>3. \A i, j \in DOMAIN t : i < j /\ t[i] # 0 /\ t[j] # 0 => t[i] < t[j]
  <2> SUFFICES ASSUME NEW i \in DOMAIN t, NEW j \in DOMAIN t, i < j, t[i] # 0, t[j] # 0
               PROVE  t[i] < t[j]
    OBVIOUS
  <2>1. i \in DOMAIN s
    BY <1>1, <1>6, SMT
  <2>2. CASE j \in DOMAIN s
    BY <1>5, <2>1, <2>2 DEF Counts
  <2>3. CASE j = Len(s) + 1
    BY <1>1, <1>5, <2>1, <2>3
  <2> QED BY <1>6, <2>2, <2>3
<1>4. \A v \in a .. b : \E i \in DOMAIN t : t[i] = v
  <2> SUFFICES ASSUME NEW v \in a .. b PROVE \E i \in DOMAIN t : t[i] = v
    OBVIOUS
  <2>1. CASE v = b
    BY <1>1, <2>1, SMT
  <2>2. CASE v # b
    <3>1. v \in a .. b-1
      BY <2>2, SMT
    <3> QED BY <1>5, <3>1 DEF Counts
  <2> QED BY <2>1, <2>2
<1>7. b + 1 - 1 = b
  BY SMT
<1> HIDE DEF t
<1>8. Counts(t, a, b + 1)
  BY <1>2, <1>3, <1>4, <1>7 DEF Counts
<1> QED BY <1>8 DEF t

LEMMA TailOf ==
  ASSUME NEW s \in Seq(Nat), s # << >>
  PROVE  /\ Tail(s) \in Seq(Nat) /\ Len(s) = Len(Tail(s)) + 1 /\ s[1] = Head(s) /\ s[1] \in Nat
         /\ \A i \in 1..Len(Tail(s)) : Tail(s)[i] = s[i + 1]
BY SMT

LEMMA CountsTailZero ==
  ASSUME NEW s \in Seq(Nat), NEW a \in Nat \ {0}, NEW b \in Nat, Counts(s, a, b),
         s # << >>, Head(s) = 0
  PROVE  Counts(Tail(s), a, b)
<1> DEFINE t == Tail(s)
<1>1. t \in Seq(Nat) /\ Len(s) = Len(t) + 1 /\ s[1] = 0 /\ \A i \in 1..Len(t) : t[i] = s[i + 1]
  BY TailOf
<1>2. \A i \in DOMAIN t : t[i] # 0 => a <= t[i] /\ t[i] < b
  BY <1>1, SMT DEF Counts
<1>3. \A i, j \in DOMAIN t : i < j /\ t[i] # 0 /\ t[j] # 0 => t[i] < t[j]
  <2> SUFFICES ASSUME NEW i \in DOMAIN t, NEW j \in DOMAIN t, i < j, t[i] # 0, t[j] # 0
               PROVE  t[i] < t[j]
    OBVIOUS
  <2>1. i + 1 \in DOMAIN s /\ j + 1 \in DOMAIN s /\ i + 1 < j + 1
        /\ s[i + 1] = t[i] /\ s[j + 1] = t[j]
    BY <1>1, SMTT(20)
  <2> HIDE DEF t
  <2> QED BY <2>1 DEF Counts
<1>4. \A v \in a .. b-1 : \E i \in DOMAIN t : t[i] = v
  <2> SUFFICES ASSUME NEW v \in a .. b-1 PROVE \E i \in DOMAIN t : t[i] = v
    OBVIOUS
  <2>1. PICK i \in DOMAIN s : s[i] = v
    BY DEF Counts
  <2>2. i # 1 /\ i - 1 \in 1..Len(t) /\ t[i - 1] = v
    BY <1>1, <2>1, SMT
  <2> QED BY <1>1, <2>2, SMT
<1> QED BY <1>1, <1>2, <1>3, <1>4, SMT DEF Counts

LEMMA CountsTailNext ==
  ASSUME NEW s \in Seq(Nat), NEW a \in Nat \ {0}, NEW b \in Nat, Counts(s, a, b),
         s # << >>, Head(s) # 0
  PROVE  Head(s) = a /\ Counts(Tail(s), a + 1, b)
<1> DEFINE t == Tail(s)
<1>1. t \in Seq(Nat) /\ Len(s) = Len(t) + 1 /\ s[1] = Head(s) /\ s[1] \in Nat
      /\ \A i \in 1..Len(t) : t[i] = s[i + 1]
  BY TailOf
<1>0. DOMAIN t = 1..Len(t) /\ DOMAIN s = 1..Len(s) /\ Len(t) \in Nat /\ Len(s) = Len(t) + 1
      /\ (\A i \in 1..Len(t) : t[i] \in Nat) /\ (\A i \in 1..Len(s) : s[i] \in Nat)
  BY <1>1, SMT
<1>01. \A x \in DOMAIN t : x + 1 \in DOMAIN s /\ s[x + 1] = t[x] /\ x \in Nat /\ t[x] \in Nat
  BY <1>0, <1>1, SMT
<1>02. \A x \in DOMAIN s : x # 1 => x - 1 \in DOMAIN t /\ t[x - 1] = s[x]
  BY <1>0, <1>1, SMT
<1> HIDE DEF t
<1>2. a <= s[1] /\ s[1] < b
  BY <1>1, SMT DEF Counts
<1>3. PICK j \in DOMAIN s : s[j] = a
  BY <1>2, SMT DEF Counts
<1>4. s[1] = a
  <2>1. j = 1 \/ (1 \in DOMAIN s /\ 1 < j)
    BY <1>0, <1>3, SMT
  <2>2. j # 1 => s[1] < s[j]
    BY <1>1, <1>3, <2>1 DEF Counts
  <2> QED BY <1>1, <1>2, <1>3, <2>2, SMT
<1>5. \A i \in DOMAIN t : t[i] # 0 => a + 1 <= t[i] /\ t[i] < b
  <2> SUFFICES ASSUME NEW i \in DOMAIN t, t[i] # 0 PROVE a + 1 <= t[i] /\ t[i] < b
    OBVIOUS
  <2>1. i + 1 \in DOMAIN s /\ 1 \in DOMAIN s /\ 1 < i + 1 /\ s[i + 1] = t[i] /\ t[i] \in Nat
    BY <1>0, <1>1, SMTT(20)
  <2>2. s[1] < s[i + 1] /\ s[i + 1] < b
    BY <1>1, <2>1 DEF Counts
  <2> QED BY <1>4, <2>1, <2>2, SMT
<1>6. \A i, k \in DOMAIN t : i < k /\ t[i] # 0 /\ t[k] # 0 => t[i] < t[k]
  <2> SUFFICES ASSUME NEW i \in DOMAIN t, NEW k \in DOMAIN t, i < k, t[i] # 0, t[k] # 0
               PROVE  t[i] < t[k]
    OBVIOUS
  <2>1. i + 1 \in DOMAIN s /\ k + 1 \in DOMAIN s /\ i + 1 < k + 1
        /\ s[i + 1] = t[i] /\ s[k + 1] = t[k]
    BY <1>01, SMT
  <2> QED BY <2>1 DEF Counts
<1>7. \A v \in a + 1 .. b-1 : \E i \in DOMAIN t : t[i] = v
  <2> SUFFICES ASSUME NEW v \in a + 1 .. b-1 PROVE \E i \in DOMAIN t : t[i] = v
    OBVIOUS
  <2>1. PICK i \in DOMAIN s : s[i] = v
    BY SMT DEF Counts
  <2>2. i # 1
    BY <1>4, <2>1, SMT
  <2> QED BY <1>02, <2>1, <2>2
<1>8. a + 1 <= b
  BY <1>1, <1>2, <1>4, SMT
<1>9. Counts(t, a + 1, b)
  BY <1>5, <1>6, <1>7, <1>8 DEF Counts
<1> QED BY <1>1, <1>4, <1>9 DEF t

LEMMA FlagsIs ==
  ASSUME NEW wire \in Seq(Entry)
  PROVE  /\ Flags(wire) \in Seq(Nat) /\ Len(Flags(wire)) = Len(wire)
         /\ \A i \in 1..Len(wire) :
              Flags(wire)[i] = IF wire[i].last THEN wire[i].rec.seq ELSE 0
<1>1. \A i \in 1..Len(wire) : (IF wire[i].last THEN wire[i].rec.seq ELSE 0) \in Nat
  BY RecFields, SMT
<1> QED BY <1>1, SMT DEF Flags

LEMMA SameSeq ==
  ASSUME NEW s \in Seq(Nat), NEW t \in Seq(Nat), Len(s) = Len(t), \A i \in 1..Len(s) : s[i] = t[i]
  PROVE  s = t
BY SMT

LEMMA FlagsAppend ==
  ASSUME NEW wire \in Seq(Entry), NEW w \in Entry
  PROVE  Flags(Append(wire, w)) = Append(Flags(wire), IF w.last THEN w.rec.seq ELSE 0)
<1> DEFINE v == Append(wire, w)  f == IF w.last THEN w.rec.seq ELSE 0
<1>1. v \in Seq(Entry) /\ Len(v) = Len(wire) + 1 /\ v[Len(wire) + 1] = w
      /\ \A i \in 1..Len(wire) : v[i] = wire[i]
  BY SMT
<1>2. f \in Nat
  BY RecFields, SMT
<1>3. Append(Flags(wire), f) \in Seq(Nat) /\ Len(Append(Flags(wire), f)) = Len(wire) + 1
      /\ Append(Flags(wire), f)[Len(wire) + 1] = f
      /\ \A i \in 1..Len(wire) : Append(Flags(wire), f)[i] = Flags(wire)[i]
  BY <1>2, FlagsIs, SMT
<1>4. Flags(v) \in Seq(Nat) /\ Len(Flags(v)) = Len(wire) + 1
      /\ \A i \in 1..Len(v) : Flags(v)[i] = IF v[i].last THEN v[i].rec.seq ELSE 0
  BY <1>1, FlagsIs
<1>5. \A i \in 1..Len(Flags(v)) : Flags(v)[i] = Append(Flags(wire), f)[i]
  <2> SUFFICES ASSUME NEW i \in 1..Len(Flags(v)) PROVE Flags(v)[i] = Append(Flags(wire), f)[i]
    OBVIOUS
  <2>0. i \in 1..Len(v) /\ Len(wire) \in Nat /\ Len(v) = Len(wire) + 1
    BY <1>1, <1>4
  <2> HIDE DEF v
  <2>1. i \in 1..Len(v) /\ (i \in 1..Len(wire) \/ i = Len(wire) + 1)
    BY ONLY <2>0, SMT
  <2>2. CASE i \in 1..Len(wire)
    <3>1. v[i] = wire[i] /\ Append(Flags(wire), f)[i] = Flags(wire)[i]
      BY <1>1, <1>3, <2>2
    <3>2. Flags(v)[i] = IF v[i].last THEN v[i].rec.seq ELSE 0
      BY <1>4, <2>1
    <3>3. Flags(wire)[i] = IF wire[i].last THEN wire[i].rec.seq ELSE 0
      BY <2>2, FlagsIs
    <3> QED BY ONLY <3>1, <3>2, <3>3
  <2>3. CASE i = Len(wire) + 1
    BY <1>1, <1>3, <1>4, <2>1, <2>3
  <2> QED BY <2>1, <2>2, <2>3
<1> HIDE DEF v, f
<1>6. Flags(v) = Append(Flags(wire), f)
  BY <1>3, <1>4, <1>5, SameSeq
<1> QED BY <1>6 DEF v, f

LEMMA FlagsTail ==
  ASSUME NEW wire \in Seq(Entry), wire # << >>
  PROVE  /\ Flags(Tail(wire)) = Tail(Flags(wire)) /\ Flags(wire) # << >>
         /\ Head(Flags(wire)) = IF Head(wire).last THEN Head(wire).rec.seq ELSE 0
<1> DEFINE v == Tail(wire)
<1>1. v \in Seq(Entry) /\ Len(wire) = Len(v) + 1 /\ \A i \in 1..Len(v) : v[i] = wire[i + 1]
  BY SMT
<1>2. Flags(v) \in Seq(Nat) /\ Len(Flags(v)) = Len(v)
      /\ \A i \in 1..Len(v) : Flags(v)[i] = IF v[i].last THEN v[i].rec.seq ELSE 0
  BY <1>1, FlagsIs
<1>3. Tail(Flags(wire)) \in Seq(Nat) /\ Len(Tail(Flags(wire))) = Len(v) /\ Flags(wire) # << >>
      /\ \A i \in 1..Len(v) : Tail(Flags(wire))[i] = Flags(wire)[i + 1]
  BY <1>1, FlagsIs, SMT
<1>4. \A i \in 1..Len(Flags(v)) : Flags(v)[i] = Tail(Flags(wire))[i]
  <2> SUFFICES ASSUME NEW i \in 1..Len(Flags(v)) PROVE Flags(v)[i] = Tail(Flags(wire))[i]
    OBVIOUS
  <2>1. i \in 1..Len(v) /\ i + 1 \in 1..Len(wire) /\ v[i] = wire[i + 1]
    BY <1>1, <1>2, SMT
  <2>2. Flags(wire)[i + 1] = IF wire[i + 1].last THEN wire[i + 1].rec.seq ELSE 0
    BY <2>1, FlagsIs
  <2> QED BY <1>2, <1>3, <2>1, <2>2
<1>5. Head(Flags(wire)) = Flags(wire)[1] /\ Head(wire) = wire[1] /\ 1 \in 1..Len(wire)
  BY <1>1, <1>3, SMT
<1> HIDE DEF v
<1>6. Flags(v) = Tail(Flags(wire))
  BY <1>2, <1>3, <1>4, SameSeq
<1> QED BY <1>3, <1>5, <1>6, FlagsIs DEF v

LEMMA NumbersIs ==
  ASSUME NEW h \in Seq(Rec)
  PROVE  /\ Numbers(h) \in Seq(Nat) /\ Len(Numbers(h)) = Len(h)
         /\ \A i \in 1..Len(h) : Numbers(h)[i] = h[i].seq
<1>1. \A i \in 1..Len(h) : h[i].seq \in Nat
  BY RecFields, SMT
<1> QED BY <1>1, SMT DEF Numbers

LEMMA NumbersAppend ==
  ASSUME NEW h \in Seq(Rec), NEW r \in Rec
  PROVE  Numbers(Append(h, r)) = Append(Numbers(h), r.seq)
<1> DEFINE v == Append(h, r)  f == r.seq
<1>1. v \in Seq(Rec) /\ Len(v) = Len(h) + 1 /\ v[Len(h) + 1] = r
      /\ \A i \in 1..Len(h) : v[i] = h[i]
  BY SMT
<1>2. f \in Nat
  BY RecFields, SMT
<1>3. Append(Numbers(h), f) \in Seq(Nat) /\ Len(Append(Numbers(h), f)) = Len(h) + 1
      /\ Append(Numbers(h), f)[Len(h) + 1] = f
      /\ \A i \in 1..Len(h) : Append(Numbers(h), f)[i] = Numbers(h)[i]
  BY <1>2, NumbersIs, SMT
<1>4. Numbers(v) \in Seq(Nat) /\ Len(Numbers(v)) = Len(h) + 1
      /\ \A i \in 1..Len(v) : Numbers(v)[i] = v[i].seq
  BY <1>1, NumbersIs
<1>5. \A i \in 1..Len(Numbers(v)) : Numbers(v)[i] = Append(Numbers(h), f)[i]
  BY <1>1, <1>3, <1>4, NumbersIs, SMTT(20)
<1> HIDE DEF v, f
<1>6. Numbers(v) = Append(Numbers(h), f)
  BY <1>3, <1>4, <1>5, SameSeq
<1> QED BY <1>6 DEF v, f


(* The operators of the pipeline.                                            *)

LEMMA SeqAppend ==
  ASSUME NEW S, NEW s \in Seq(S), NEW x \in S
  PROVE  /\ Append(s, x) \in Seq(S) /\ Len(Append(s, x)) = Len(s) + 1 /\ Append(s, x) # << >>
         /\ DOMAIN s = 1..Len(s) /\ DOMAIN Append(s, x) = 1..Len(s) + 1 /\ Len(s) \in Nat
         /\ \A i \in 1..Len(s) : Append(s, x)[i] = s[i]
         /\ Append(s, x)[Len(s) + 1] = x
BY SMTT(20)

LEMMA SeqTail ==
  ASSUME NEW S, NEW s \in Seq(S), s # << >>
  PROVE  /\ Tail(s) \in Seq(S) /\ Len(s) = Len(Tail(s)) + 1 /\ Head(s) \in S /\ Head(s) = s[1]
         /\ Len(Tail(s)) \in Nat /\ 1 \in DOMAIN s
         /\ \A i \in DOMAIN Tail(s) : i + 1 \in DOMAIN s /\ Tail(s)[i] = s[i + 1] /\ i \in Nat
         /\ \A i \in DOMAIN s : i # 1 => i - 1 \in DOMAIN Tail(s) /\ Tail(s)[i - 1] = s[i]
         /\ \A i \in DOMAIN s : i \in Nat
BY SMT

\* What an append adds, and a property of all entries.
LEMMA DomainAppend ==
  ASSUME NEW S, NEW s \in Seq(S), NEW x \in S
  PROVE  /\ \A i \in DOMAIN s : i \in DOMAIN Append(s, x) /\ Append(s, x)[i] = s[i]
         /\ Len(s) + 1 \in DOMAIN Append(s, x) /\ Append(s, x)[Len(s) + 1] = x
         /\ \A i \in DOMAIN Append(s, x) : i \in DOMAIN s \/ (Append(s, x)[i] = x /\ i = Len(s) + 1)
         /\ Len(s) + 1 \notin DOMAIN s
<1> DEFINE t == Append(s, x)
<1>1. /\ t \in Seq(S) /\ Len(t) = Len(s) + 1 /\ DOMAIN s = 1..Len(s) /\ DOMAIN t = 1..Len(s) + 1
      /\ Len(s) \in Nat /\ t[Len(s) + 1] = x /\ \A i \in 1..Len(s) : t[i] = s[i]
  BY SeqAppend
<1> HIDE DEF t
<1>2. /\ \A i \in DOMAIN s : i \in DOMAIN t /\ t[i] = s[i]
      /\ Len(s) + 1 \in DOMAIN t /\ t[Len(s) + 1] = x
      /\ \A i \in DOMAIN t : i \in DOMAIN s \/ (t[i] = x /\ i = Len(s) + 1)
      /\ Len(s) + 1 \notin DOMAIN s
  BY <1>1, SMT
<1> QED BY <1>2 DEF t

LEMMA ClosedIs ==
  ASSUME NEW q, IsPipe(q)
  PROVE  /\ IsPipe(H!Closed(q)) /\ H!Closed(q).closing
         /\ H!Closed(q).rec = q.rec /\ H!Closed(q).left = q.left /\ H!Closed(q).action = q.action
         /\ H!Closed(q).pending = q.pending /\ H!Closed(q).seq = q.seq /\ H!Closed(q).wire = q.wire
         /\ H!Closed(q).lost = q.lost
<1>1. H!Closed(q) \in Pipes
  BY Zenon DEF H!Closed, IsPipe, Pipes
<1>2. /\ H!Closed(q).closing
      /\ H!Closed(q).rec = q.rec /\ H!Closed(q).left = q.left /\ H!Closed(q).action = q.action
      /\ H!Closed(q).pending = q.pending /\ H!Closed(q).seq = q.seq /\ H!Closed(q).wire = q.wire
      /\ H!Closed(q).lost = q.lost
  BY SMT DEF H!Closed, IsPipe, Pipes
<1> QED BY <1>1, <1>2 DEF IsPipe

\* A write is issued, refused, or there is none to issue.
LEMMA WriteCases ==
  ASSUME NEW q, IsPipe(q), NEW ok \in BOOLEAN, NEW w, w = H!Write(q, ok)
  PROVE  /\ IsPipe(w)
         /\ w.rec = q.rec /\ w.action = q.action /\ w.pending = q.pending /\ w.seq = q.seq
         /\ w.lost = q.lost
         /\ \/ q.left = 0 /\ w = q
            \/ /\ q.left # 0 /\ w.left = q.left - 1 /\ w.closing = q.closing
               /\ w.wire = Append(q.wire, [rec |-> q.rec, last |-> q.left = 1])
            \/ q.left # 0 /\ w = H!Closed(q)
<1>1. CASE q.left = 0
  BY <1>1 DEF H!Write
<1>2. CASE q.left # 0 /\ ~ ok
  BY <1>2, ClosedIs DEF H!Write
<1>3. CASE q.left # 0 /\ ok
  <2> DEFINE entry == [rec |-> q.rec, last |-> q.left = 1]
  <2>1. w = [q EXCEPT !.left = @ - 1, !.wire = Append(@, entry)]
    BY <1>3 DEF H!Write
  <2>2. entry \in Entry
    BY PipeFields DEF Entry
  <2>3. Append(q.wire, entry) \in Seq(Entry) /\ q.left - 1 \in 0..MaxPieces
    BY <1>3, <2>2, PipeFields, SeqAppend, Bounds, SMT
  <2> HIDE DEF entry
  <2>5. w \in Pipes
    BY <2>1, <2>3, Zenon DEF IsPipe, Pipes
  <2>4. w.rec = q.rec /\ w.action = q.action /\ w.pending = q.pending
        /\ w.seq = q.seq /\ w.lost = q.lost
        /\ w.left = q.left - 1 /\ w.closing = q.closing /\ w.wire = Append(q.wire, entry)
    BY <2>1, <2>3, SMT DEF IsPipe, Pipes
  <2> QED BY <1>3, <2>4, <2>5 DEF entry, IsPipe
<1> QED BY <1>1, <1>2, <1>3

LEMMA WriteIs ==
  ASSUME NEW q, IsPipe(q), NEW ok \in BOOLEAN, NEW w, w = H!Write(q, ok)
  PROVE  /\ IsPipe(w)
         /\ w.rec = q.rec /\ w.action = q.action /\ w.pending = q.pending /\ w.seq = q.seq
         /\ w.lost = q.lost
         /\ q.closing => w.closing
         /\ q.left > 0 \/ Fed(q) => Fed(w)
         /\ \A G : Only(q, G) => Only(w, G)
<1> DEFINE entry == [rec |-> q.rec, last |-> q.left = 1]
<1>0. entry \in Entry /\ entry.rec = q.rec
  BY PipeFields DEF Entry
<1>1. CASE q.left = 0 /\ w = q
  BY <1>1, PipeFields, SMT
<1>2. CASE q.left # 0 /\ w = H!Closed(q)
  BY <1>2, WriteCases, ClosedIs DEF Fed, Only
<1>3. CASE q.left # 0 /\ w.left = q.left - 1 /\ w.closing = q.closing /\ w.wire = Append(q.wire, entry)
  <2> HIDE DEF entry
  <2>1. w.wire # << >>
    BY <1>0, <1>3, PipeFields, SeqAppend
  <2>2. \A i \in DOMAIN w.wire : (i \in DOMAIN q.wire /\ w.wire[i] = q.wire[i]) \/ w.wire[i] = entry
    BY <1>0, <1>3, PipeFields, DomainAppend
  <2>3. w.rec = q.rec /\ w.pending = q.pending /\ w.action = q.action /\ w.seq = q.seq
        /\ w.lost = q.lost /\ IsPipe(w)
    BY WriteCases
  <2>4. \A G : Only(q, G) => Only(w, G)
    BY <1>0, <2>2, <2>3 DEF Only
  <2> QED BY <1>3, <2>1, <2>3, <2>4 DEF Fed
<1> QED BY <1>1, <1>2, <1>3, WriteCases

LEMMA WriteOut ==
  ASSUME NEW q, IsPipe(q), NEW ok \in BOOLEAN, NEW w, w = H!Write(q, ok),
         NEW n \in Nat \ {0}, NEW s \in Nat, Out(q, n, s)
  PROVE  w.closing \/ Out(w, n, s)
<1> DEFINE entry == [rec |-> q.rec, last |-> q.left = 1]
<1>1. CASE q.left = 0 /\ w = q
  BY <1>1
<1>2. CASE q.left # 0 /\ w = H!Closed(q)
  BY <1>2, ClosedIs
<1>3. CASE q.left # 0 /\ w.left = q.left - 1 /\ w.wire = Append(q.wire, entry)
  <2>0. entry \in Entry /\ entry.rec = q.rec /\ entry.last = (q.left = 1)
    BY PipeFields DEF Entry
  <2> HIDE DEF entry
  <2>1. PICK m \in Nat :
          /\ Counts(Flags(q.wire), n, m)
          /\ IF q.left > 0 /\ q.rec.seq # 0 THEN q.rec.seq = m /\ s = m + 1 ELSE s = m
    BY DEF Out
  <2>2. w.rec = q.rec /\ q.left \in Nat /\ w.left \in Nat /\ q.rec.seq \in Nat /\ q.wire \in Seq(Entry)
    BY WriteCases, PipeFields, RecFields
  <2>3. Flags(w.wire) = Append(Flags(q.wire), IF q.left = 1 THEN q.rec.seq ELSE 0)
    BY <1>3, <2>0, <2>2, FlagsAppend
  <2>4. Flags(q.wire) \in Seq(Nat)
    BY <2>2, FlagsIs
  <2>5. CASE q.left = 1 /\ q.rec.seq # 0
    <3>1. q.rec.seq = m /\ s = m + 1 /\ w.left = 0 /\ m + 1 \in Nat
      BY <1>3, <2>1, <2>5, SMT
    <3>2. Counts(Flags(w.wire), n, m + 1)
      BY <2>1, <2>3, <2>4, <2>5, <3>1, CountsNext
    <3> QED BY <3>1, <3>2 DEF Out
  <2>6. CASE ~ (q.left = 1 /\ q.rec.seq # 0)
    <3>1. Counts(Flags(w.wire), n, m)
      BY <2>1, <2>3, <2>4, <2>6, CountsZero
    <3>2. IF w.left > 0 /\ w.rec.seq # 0 THEN w.rec.seq = m /\ s = m + 1 ELSE s = m
      BY <1>3, <2>1, <2>2, <2>6, SMT
    <3> QED BY <3>1, <3>2 DEF Out
  <2> QED BY <2>5, <2>6
<1> QED BY <1>1, <1>2, <1>3, WriteCases

\* queue_encoded_record_for_tx
LEMMA LoadIs ==
  ASSUME NEW q, IsPipe(q), NEW r \in Rec, NEW a \in Actions, NEW e \in H!Luck,
         NEW l, l = H!Load(q, r, a, e)
  PROVE  /\ IsPipe(l)
         /\ l.rec = r /\ l.action = a /\ l.pending = q.pending /\ l.seq = q.seq /\ l.lost = q.lost
         /\ q.closing => l.closing
         /\ Fed(l)
         /\ \A G : Only(q, G) /\ Tag(r) \in G => Only(l, G)
         /\ \A n \in Nat \ {0}, s \in Nat :
              /\ Out(q, n, s) /\ (q.left = 0 \/ q.rec.seq = 0) /\ r.seq = 0 => l.closing \/ Out(l, n, s)
              /\ Out(q, n, s) /\ q.left = 0 /\ r.seq = s /\ s # 0 => l.closing \/ Out(l, n, s + 1)
<1> DEFINE b == [q EXCEPT !.rec = r, !.left = e.n, !.action = a]
<1>0. e.n \in 0..MaxPieces /\ e.n > 0 /\ e.ok \in BOOLEAN
  BY Bounds, HeltecAssumption, SMT DEF H!Luck
<1>01. b \in Pipes
  BY <1>0, Zenon DEF IsPipe, Pipes
<1>02. b.rec = r /\ b.left = e.n /\ b.action = a /\ b.pending = q.pending
      /\ b.seq = q.seq /\ b.lost = q.lost /\ b.wire = q.wire /\ b.closing = q.closing
  BY SMT DEF IsPipe, Pipes
<1>1. IsPipe(b) /\ b.rec = r /\ b.left = e.n /\ b.action = a /\ b.pending = q.pending
      /\ b.seq = q.seq /\ b.lost = q.lost /\ b.wire = q.wire /\ b.closing = q.closing
  BY <1>01, <1>02 DEF IsPipe
<1>2. l = H!Write(b, e.ok)
  BY DEF H!Load
<1> HIDE DEF b
<1>3. IsPipe(l) /\ l.rec = r /\ l.action = a /\ l.pending = q.pending /\ l.seq = q.seq
      /\ l.lost = q.lost /\ (q.closing => l.closing) /\ Fed(l)
  BY <1>0, <1>1, <1>2, WriteIs
<1>4. \A G : Only(q, G) /\ Tag(r) \in G => Only(l, G)
  <2>1. \A G : Only(q, G) /\ Tag(r) \in G => Only(b, G)
    BY <1>1 DEF Only
  <2>2. \A G : Only(b, G) => Only(l, G)
    BY <1>0, <1>1, <1>2, WriteIs
  <2> QED BY <2>1, <2>2
<1>5. ASSUME NEW n \in Nat \ {0}, NEW s \in Nat, Out(q, n, s)
      PROVE  /\ (q.left = 0 \/ q.rec.seq = 0) /\ r.seq = 0 => l.closing \/ Out(l, n, s)
             /\ q.left = 0 /\ r.seq = s /\ s # 0 => l.closing \/ Out(l, n, s + 1)
  <2>1. PICK m \in Nat :
          /\ Counts(Flags(q.wire), n, m)
          /\ IF q.left > 0 /\ q.rec.seq # 0 THEN q.rec.seq = m /\ s = m + 1 ELSE s = m
    BY <1>5 DEF Out
  <2>2. ASSUME q.left = 0 \/ q.rec.seq = 0, r.seq = 0 PROVE l.closing \/ Out(l, n, s)
    <3>1. s = m
      BY <2>1, <2>2
    <3>2. Out(b, n, s)
      BY <1>1, <2>1, <2>2, <3>1 DEF Out
    <3> QED BY <1>0, <1>1, <1>2, <3>2, WriteOut
  <2>3. ASSUME q.left = 0, r.seq = s, s # 0 PROVE l.closing \/ Out(l, n, s + 1)
    <3>1. s = m /\ s + 1 \in Nat
      BY <2>1, <2>3
    <3>2. Out(b, n, s + 1)
      BY <1>0, <1>1, <2>1, <2>3, <3>1 DEF Out
    <3> QED BY <1>0, <1>1, <1>2, <3>1, <3>2, WriteOut
  <2> QED BY <2>2, <2>3
<1> QED BY <1>3, <1>4, <1>5

\* start_protected_send
LEMMA StartProtectedIs ==
  ASSUME NEW q, IsPipe(q), NEW r \in Rec, NEW a \in Actions, NEW e \in H!Luck, ~ H!AtLimit(q),
         NEW l, l = H!StartProtected(q, r, a, e)
  PROVE  /\ IsPipe(l)
         /\ l.action = a /\ l.pending = q.pending /\ l.seq = q.seq + 1
         /\ l.lost = (q.lost \/ (q.wire # << >> /\ q.action \in H!Kinds))
         /\ q.closing => l.closing
         /\ Fed(l)
         /\ \A G : Only(q, G) /\ Tag(r) \in G => Only(l, G)
         /\ \A n \in Nat \ {0} :
              Out(q, n, q.seq) /\ q.left = 0 /\ q.seq # 0 => l.closing \/ Out(l, n, l.seq)
<1> DEFINE b == [q EXCEPT !.seq = @ + 1, !.lost = @ \/ (q.wire # << >> /\ q.action \in H!Kinds)]
           c == [r EXCEPT !.seq = q.seq]
<1>0. q.seq \in Nat /\ q.seq \in 0..MaxSequence /\ q.seq + 1 \in 0..MaxSequence
  BY PipeFields, Bounds DEF H!AtLimit
<1>01. b \in Pipes
  BY <1>0, Zenon DEF IsPipe, Pipes
<1>02. b.rec = q.rec /\ b.left = q.left /\ b.action = q.action /\ b.pending = q.pending
      /\ b.seq = q.seq + 1 /\ b.lost = (q.lost \/ (q.wire # << >> /\ q.action \in H!Kinds))
      /\ b.wire = q.wire /\ b.closing = q.closing
  BY SMT DEF IsPipe, Pipes
<1>1. IsPipe(b) /\ b.rec = q.rec /\ b.left = q.left /\ b.action = q.action /\ b.pending = q.pending
      /\ b.seq = q.seq + 1 /\ b.lost = (q.lost \/ (q.wire # << >> /\ q.action \in H!Kinds))
      /\ b.wire = q.wire /\ b.closing = q.closing
  BY <1>01, <1>02 DEF IsPipe
<1>2. c \in Rec /\ c.seq = q.seq /\ Tag(c) = Tag(r)
  BY <1>0, SMT DEF Rec, Tag
<1>3. l = H!Load(b, c, a, e)
  BY DEF H!StartProtected
<1> HIDE DEF b, c
<1>4. /\ IsPipe(l) /\ l.action = a /\ l.pending = b.pending /\ l.seq = b.seq /\ l.lost = b.lost
      /\ b.closing => l.closing
      /\ Fed(l)
      /\ \A G : Only(b, G) /\ Tag(c) \in G => Only(l, G)
      /\ \A n \in Nat \ {0}, s \in Nat :
           Out(b, n, s) /\ b.left = 0 /\ c.seq = s /\ s # 0 => l.closing \/ Out(l, n, s + 1)
  BY <1>1, <1>2, <1>3, LoadIs
<1>5. \A G : Only(q, G) => Only(b, G)
  BY <1>1 DEF Only
<1>6. \A n \in Nat \ {0} : Out(q, n, q.seq) => Out(b, n, q.seq)
  BY <1>1 DEF Out
<1>7. \A n \in Nat \ {0} :
        Out(q, n, q.seq) /\ q.left = 0 /\ q.seq # 0 => l.closing \/ Out(l, n, l.seq)
  BY <1>0, <1>1, <1>2, <1>4, <1>6
<1> QED BY <1>1, <1>2, <1>4, <1>5, <1>7


\* start_next_pending_protected_send, where write_complete calls it.
LEMMA StartNextIs ==
  ASSUME NEW q, IsPipe(q), q.left = 0, q.action = "none", q.pending # << >> => q.seq # 0,
         NEW e \in H!Luck, NEW r, r = H!StartNext(q, e)
  PROVE  /\ IsPipe(r) /\ r.lost = q.lost /\ (q.closing => r.closing)
         /\ q.pending = << >> => r = q
         /\ r.action \in {"none"} \cup H!Kinds
         /\ Fed(r)
         /\ q.seq # 0 => r.seq # 0
         /\ \A G : Only(q, G) => Only(r, G)
         /\ Once(q) => Once(r)
         /\ \A k \in H!Kinds : Going(r, k) <=> Going(q, k)
         /\ \A n \in Nat \ {0} : Out(q, n, q.seq) => r.closing \/ Out(r, n, r.seq)
<1>0. "none" \in Actions /\ "none" \notin H!Kinds /\ H!Kinds \subseteq Actions
  BY DEF Actions, H!Kinds
<1>1. CASE q.pending = << >>
  BY <1>1, PipeFields DEF H!StartNext, Fed
<1>2. CASE q.pending # << >> /\ H!AtLimit(q)
  <2>1. r = H!Closed(q)
    BY <1>2 DEF H!StartNext
  <2>2. IsPipe(r) /\ r.closing /\ r.rec = q.rec /\ r.left = q.left /\ r.action = q.action
        /\ r.pending = q.pending /\ r.seq = q.seq /\ r.wire = q.wire /\ r.lost = q.lost
    BY <2>1, ClosedIs
  <2> QED BY <1>2, <2>2 DEF Fed, Only, Once, Going, Waiting
<1>3. CASE q.pending # << >> /\ ~ H!AtLimit(q)
  <2> DEFINE h == Head(q.pending)
             b == [q EXCEPT !.pending = Tail(@)]
  <2>1. r = H!StartProtected(b, h.rec, h.action, e)
    BY <1>3 DEF H!StartNext
  <2>2. /\ h \in Pending /\ h = q.pending[1] /\ 1 \in DOMAIN q.pending
        /\ Tail(q.pending) \in Seq(Pending) /\ Len(q.pending) = Len(Tail(q.pending)) + 1
        /\ Len(Tail(q.pending)) \in Nat
        /\ \A i \in DOMAIN Tail(q.pending) :
             i + 1 \in DOMAIN q.pending /\ Tail(q.pending)[i] = q.pending[i + 1] /\ i \in Nat
        /\ \A i \in DOMAIN q.pending :
             i # 1 => i - 1 \in DOMAIN Tail(q.pending) /\ Tail(q.pending)[i - 1] = q.pending[i]
    BY <1>3, PipeFields, SeqTail
  <2>3. b \in Pipes
    BY <2>2, Zenon DEF IsPipe, Pipes
  <2>4. b.rec = q.rec /\ b.left = 0 /\ b.action = "none" /\ b.pending = Tail(q.pending)
        /\ b.seq = q.seq /\ b.lost = q.lost /\ b.wire = q.wire /\ b.closing = q.closing
    BY SMT DEF IsPipe, Pipes
  <2>5. IsPipe(b)
    BY <2>2, <2>3, <2>4, PipeFields, HeltecAssumption, SMT DEF IsPipe
  <2>6. h.rec \in Rec /\ h.action \in {"none"} \cup H!Kinds /\ h.action \in Actions
    BY <1>0, <2>2, RecFields
  <2>7. ~ H!AtLimit(b)
    BY <1>3, <2>4 DEF H!AtLimit
  <2> HIDE DEF b, h
  <2>8. /\ IsPipe(r) /\ r.action = h.action /\ r.pending = b.pending /\ r.seq = b.seq + 1
        /\ r.lost = (b.lost \/ (b.wire # << >> /\ b.action \in H!Kinds))
        /\ b.closing => r.closing
        /\ Fed(r)
        /\ \A G : Only(b, G) /\ Tag(h.rec) \in G => Only(r, G)
        /\ \A n \in Nat \ {0} :
             Out(b, n, b.seq) /\ b.left = 0 /\ b.seq # 0 => r.closing \/ Out(r, n, r.seq)
    BY <2>1, <2>5, <2>6, <2>7, StartProtectedIs
  <2>9. r.lost = q.lost
    BY <1>0, <2>4, <2>8, PipeFields
  <2>10. \A G : Only(q, G) => Only(r, G)
    <3> SUFFICES ASSUME NEW G, Only(q, G) PROVE Only(r, G)
      OBVIOUS
    <3>1. Tag(h.rec) \in G
      BY <2>2 DEF Only
    <3>2. Only(b, G)
      BY <2>2, <2>4 DEF Only
    <3> QED BY <2>8, <3>1, <3>2
  <2>11. Once(q) => Once(r)
    <3> SUFFICES ASSUME Once(q), NEW k \in H!Kinds
                 PROVE  /\ r.action = k => \A i \in DOMAIN r.pending : ~ Waiting(r, k, i)
                        /\ \A i, j \in DOMAIN r.pending : Waiting(r, k, i) /\ Waiting(r, k, j) => i = j
      BY DEF Once
    <3>1. \A i \in DOMAIN r.pending : Waiting(r, k, i) => i + 1 \in DOMAIN q.pending /\ Waiting(q, k, i + 1) /\ i \in Nat
      BY <2>2, <2>4, <2>8 DEF Waiting
    <3>2. r.action = k => Waiting(q, k, 1)
      BY <2>2, <2>8 DEF Waiting
    <3>3. \A i, j \in DOMAIN q.pending : Waiting(q, k, i) /\ Waiting(q, k, j) => i = j
      BY DEF Once
    <3>4. ASSUME r.action = k, NEW i \in DOMAIN r.pending, Waiting(r, k, i) PROVE FALSE
      <4>1. i + 1 = 1 /\ i \in Nat /\ i # 0
        <5>1. 0 \notin DOMAIN r.pending
          BY <2>8, PipeFields, SMT
        <5> QED BY <2>2, <3>1, <3>2, <3>3, <3>4, <5>1
      <4> QED BY <4>1, SMT
    <3>5. ASSUME NEW i \in DOMAIN r.pending, NEW j \in DOMAIN r.pending, Waiting(r, k, i), Waiting(r, k, j)
          PROVE  i = j
      <4>1. i + 1 = j + 1 /\ i \in Nat /\ j \in Nat
        BY <3>1, <3>3, <3>5
      <4> QED BY <4>1, SMT
    <3> QED BY <3>4, <3>5
  <2>12. \A k \in H!Kinds : Going(r, k) <=> Going(q, k)
    <3> SUFFICES ASSUME NEW k \in H!Kinds PROVE Going(r, k) <=> Going(q, k)
      OBVIOUS
    <3>1. Going(r, k) => Going(q, k)
      BY <2>2, <2>4, <2>8 DEF Going, Waiting
    <3>2. ASSUME Going(q, k) PROVE Going(r, k)
      <4>1. PICK i \in DOMAIN q.pending : Waiting(q, k, i)
        BY <1>0, <3>2 DEF Going
      <4>2. CASE i = 1
        BY <2>2, <2>8, <4>1, <4>2 DEF Going, Waiting
      <4>3. CASE i # 1
        <5>1. i - 1 \in DOMAIN r.pending /\ r.pending[i - 1] = q.pending[i]
          BY <2>2, <2>4, <2>8, <4>1, <4>3
        <5>2. Waiting(r, k, i - 1)
          BY <4>1, <5>1 DEF Waiting
        <5> QED BY <5>1, <5>2 DEF Going
      <4> QED BY <4>2, <4>3
    <3> QED BY <3>1, <3>2
  <2>13. \A n \in Nat \ {0} : Out(q, n, q.seq) => r.closing \/ Out(r, n, r.seq)
    <3>1. \A n \in Nat \ {0} : Out(q, n, q.seq) => Out(b, n, b.seq)
      BY <2>4 DEF Out
    <3> QED BY <1>3, <2>4, <2>8, <3>1
  <2>14. r.seq # 0
    BY <2>4, <2>8, PipeFields, SMT
  <2> QED BY <1>3, <2>4, <2>6, <2>8, <2>9, <2>10, <2>11, <2>12, <2>13, <2>14
<1> QED BY <1>1, <1>2, <1>3

\* queue_and_send_protected, and a refusal.
LEMMA SendCases ==
  ASSUME NEW q, IsPipe(q), NEW r \in Rec, NEW a \in {"none"} \cup H!Kinds, NEW d \in BOOLEAN,
         NEW e \in H!Luck, NEW no \in BOOLEAN, H!Refused(q, d) => no,
         NEW s, s = IF no THEN H!Closed(q) ELSE H!Send(q, r, a, d, e)
  PROVE  \/ no /\ s = H!Closed(q)
         \/ /\ ~ no /\ H!Waits(q, d)
            /\ IsPipe(s) /\ s.pending = Append(q.pending, [rec |-> r, action |-> a])
            /\ [rec |-> r, action |-> a] \in Pending
            /\ s.rec = q.rec /\ s.left = q.left /\ s.action = q.action /\ s.seq = q.seq
            /\ s.wire = q.wire /\ s.lost = q.lost /\ s.closing = q.closing
            /\ \A i \in DOMAIN q.pending : i \in DOMAIN s.pending /\ s.pending[i] = q.pending[i]
         \/ ~ no /\ ~ H!Waits(q, d) /\ ~ H!AtLimit(q) /\ s = H!StartProtected(q, r, a, e)
<1>1. CASE no
  BY <1>1 DEF H!Send
<1>2. CASE ~ no /\ H!Waits(q, d)
  <2> DEFINE x == [rec |-> r, action |-> a]
  <2>1. s = [q EXCEPT !.pending = Append(@, x)]
    BY <1>2 DEF H!Send
  <2>2. x \in Pending
    BY DEF Pending
  <2>3. Append(q.pending, x) \in Seq(Pending) /\ Len(Append(q.pending, x)) = Len(q.pending) + 1
    BY <2>2, PipeFields, SeqAppend
  <2>4. Len(q.pending) + 1 <= QueueDepth
    <3>1. ~ Len(q.pending) >= QueueDepth /\ Len(q.pending) \in Nat
      BY <1>2, PipeFields DEF H!Refused
    <3> QED BY <3>1, HeltecAssumption, SMT
  <2> HIDE DEF x
  <2>7. \A i \in DOMAIN q.pending : i \in DOMAIN Append(q.pending, x) /\ Append(q.pending, x)[i] = q.pending[i]
    BY <2>2, PipeFields, DomainAppend
  <2>5. s \in Pipes
    BY <2>1, <2>3, Zenon DEF IsPipe, Pipes
  <2>6. /\ s.pending = Append(q.pending, x)
        /\ s.rec = q.rec /\ s.left = q.left /\ s.action = q.action /\ s.seq = q.seq
        /\ s.wire = q.wire /\ s.lost = q.lost /\ s.closing = q.closing
    BY <2>1, SMT DEF IsPipe, Pipes
  <2>8. Len(s.pending) <= QueueDepth /\ (\A i \in DOMAIN q.pending : i \in DOMAIN s.pending /\ s.pending[i] = q.pending[i])
    BY <2>3, <2>4, <2>6, <2>7
  <2> QED BY <1>2, <2>2, <2>5, <2>6, <2>8 DEF IsPipe, x
<1>3. CASE ~ no /\ ~ H!Waits(q, d)
  BY <1>3 DEF H!Send, H!Refused
<1> QED BY <1>1, <1>2, <1>3

LEMMA SendIs ==
  ASSUME NEW q, IsPipe(q), q.seq # 0, NEW r \in Rec, NEW a \in {"none"} \cup H!Kinds, NEW d \in BOOLEAN,
         NEW e \in H!Luck, NEW no \in BOOLEAN, H!Refused(q, d) => no,
         NEW s, s = IF no THEN H!Closed(q) ELSE H!Send(q, r, a, d, e)
  PROVE  /\ IsPipe(s) /\ (q.closing => s.closing) /\ s.seq # 0
         /\ no => s.closing
         /\ s.action \in {"none"} \cup H!Kinds \/ s.action = q.action
         /\ \A G : Only(q, G) /\ Tag(r) \in G => Only(s, G)
         /\ \A n \in Nat \ {0} : Out(q, n, q.seq) => s.closing \/ Out(s, n, s.seq)
         /\ Once(q) /\ (a \in H!Kinds => ~ Going(q, a)) => Once(s)
         /\ \A k \in H!Kinds : Going(s, k) => Going(q, k) \/ (a = k /\ ~ no)
         /\ a \in H!Kinds /\ ~ no => Going(s, a)
<1>0. "none" \in Actions /\ "none" \notin H!Kinds /\ H!Kinds \subseteq Actions /\ a \in Actions
  BY DEF Actions, H!Kinds
<1>1. CASE no /\ s = H!Closed(q)
  <2>1. IsPipe(s) /\ s.closing /\ s.rec = q.rec /\ s.left = q.left /\ s.action = q.action
        /\ s.pending = q.pending /\ s.seq = q.seq /\ s.wire = q.wire /\ s.lost = q.lost
    BY <1>1, ClosedIs
  <2> QED BY <1>1, <2>1 DEF Only, Once, Going, Waiting
<1>2. ASSUME ~ no, H!Waits(q, d),
             IsPipe(s), s.pending = Append(q.pending, [rec |-> r, action |-> a]),
             [rec |-> r, action |-> a] \in Pending,
             s.rec = q.rec, s.left = q.left, s.action = q.action, s.seq = q.seq,
             s.wire = q.wire, s.lost = q.lost, s.closing = q.closing
      PROVE  /\ \A G : Only(q, G) /\ Tag(r) \in G => Only(s, G)
             /\ \A n \in Nat \ {0} : Out(q, n, q.seq) => s.closing \/ Out(s, n, s.seq)
             /\ Once(q) /\ (a \in H!Kinds => ~ Going(q, a)) => Once(s)
             /\ \A k \in H!Kinds : Going(s, k) => Going(q, k) \/ a = k
             /\ a \in H!Kinds => Going(s, a)
  <2> DEFINE x == [rec |-> r, action |-> a]
  <2>1. x \in Pending /\ x.rec = r /\ x.action = a /\ s.pending = Append(q.pending, x)
    BY <1>2
  <2> HIDE DEF x
  <2>2. /\ \A i \in DOMAIN q.pending : i \in DOMAIN s.pending /\ s.pending[i] = q.pending[i]
        /\ Len(q.pending) + 1 \in DOMAIN s.pending /\ s.pending[Len(q.pending) + 1] = x
        /\ \A i \in DOMAIN s.pending : i \in DOMAIN q.pending \/ (s.pending[i] = x /\ i = Len(q.pending) + 1)
    BY <2>1, PipeFields, DomainAppend
  <2>3. \A G : Only(q, G) /\ Tag(r) \in G => Only(s, G)
    BY <1>2, <2>1, <2>2 DEF Only
  <2>4. \A n \in Nat \ {0} : Out(q, n, q.seq) => s.closing \/ Out(s, n, s.seq)
    BY <1>2 DEF Out
  <2>5. \A k \in H!Kinds : Going(s, k) => Going(q, k) \/ a = k
    BY <1>2, <2>1, <2>2 DEF Going, Waiting
  <2>6. a \in H!Kinds => Going(s, a)
    BY <2>1, <2>2 DEF Going, Waiting
  <2>7. ASSUME Once(q), a \in H!Kinds => ~ Going(q, a) PROVE Once(s)
    <3> SUFFICES ASSUME NEW k \in H!Kinds
                 PROVE  /\ s.action = k => \A i \in DOMAIN s.pending : ~ Waiting(s, k, i)
                        /\ \A i, j \in DOMAIN s.pending : Waiting(s, k, i) /\ Waiting(s, k, j) => i = j
      BY DEF Once
    <3>1. CASE a = k
      <4>1. q.action # k /\ \A i \in DOMAIN q.pending : ~ Waiting(q, k, i)
        BY <2>7, <3>1 DEF Going
      <4>2. \A i \in DOMAIN s.pending : Waiting(s, k, i) => i = Len(q.pending) + 1
        BY <2>2, <4>1 DEF Waiting
      <4> QED BY <1>2, <4>1, <4>2
    <3>2. CASE a # k
      <4>1. \A i \in DOMAIN s.pending : Waiting(s, k, i) => i \in DOMAIN q.pending /\ Waiting(q, k, i)
        BY <2>1, <2>2, <3>2 DEF Waiting
      <4> QED BY <1>2, <2>7, <4>1 DEF Once
    <3> QED BY <3>1, <3>2
  <2> QED BY <2>3, <2>4, <2>5, <2>6, <2>7
<1>3. CASE ~ no /\ ~ H!Waits(q, d) /\ ~ H!AtLimit(q) /\ s = H!StartProtected(q, r, a, e)
  <2>1. q.left = 0 /\ q.pending = << >>
    BY <1>3, PipeFields, SMT DEF H!Waits
  <2>2. /\ IsPipe(s) /\ s.action = a /\ s.pending = q.pending /\ s.seq = q.seq + 1
        /\ q.closing => s.closing
        /\ \A G : Only(q, G) /\ Tag(r) \in G => Only(s, G)
        /\ \A n \in Nat \ {0} :
             Out(q, n, q.seq) /\ q.left = 0 /\ q.seq # 0 => s.closing \/ Out(s, n, s.seq)
    BY <1>0, <1>3, StartProtectedIs
  <2>3. s.seq # 0
    BY <2>2, PipeFields, SMT
  <2>4. \A i : i \notin DOMAIN s.pending
    BY <2>1, <2>2, SMT
  <2>5. Once(s)
    BY <2>4 DEF Once
  <2>6. \A k \in H!Kinds : Going(s, k) <=> a = k
    BY <2>2, <2>4 DEF Going
  <2> QED BY <1>3, <2>1, <2>2, <2>3, <2>5, <2>6
<1> QED BY <1>1, <1>2, <1>3, SendCases

\* From a handler other than write_complete.
LEMMA SendOutside ==
  ASSUME NEW q, IsPipe(q), Fed(q), NEW r \in Rec, NEW a \in {"none"} \cup H!Kinds,
         NEW d \in BOOLEAN, NEW e \in H!Luck, NEW no \in BOOLEAN, H!Refused(q, d) => no,
         NEW s, s = IF no THEN H!Closed(q) ELSE H!Send(q, r, a, d, e)
  PROVE  /\ ~ d => Fed(s)
         /\ \A k \in H!Kinds : Going(q, k) => Going(s, k) \/ s.closing \/ s.lost
         /\ q.lost => s.lost
<1>0. a \in Actions
  BY DEF Actions
<1>1. CASE no /\ s = H!Closed(q)
  <2>1. IsPipe(s) /\ s.closing /\ s.lost = q.lost
    BY <1>1, ClosedIs
  <2> QED BY <2>1 DEF Fed
<1>2. ASSUME H!Waits(q, d),
             \A i \in DOMAIN q.pending : i \in DOMAIN s.pending /\ s.pending[i] = q.pending[i],
             s.left = q.left, s.action = q.action, s.wire = q.wire, s.lost = q.lost,
             s.closing = q.closing
      PROVE  /\ ~ d => Fed(s)
             /\ s.lost = q.lost
             /\ \A k \in H!Kinds : Going(q, k) => Going(s, k)
  <2>1. ~ d => q.wire # << >> \/ q.closing
    BY <1>2, PipeFields DEF H!Waits, Fed
  <2> QED BY <1>2, <2>1 DEF Fed, Going, Waiting
<1>3. CASE ~ no /\ ~ H!Waits(q, d) /\ ~ H!AtLimit(q) /\ s = H!StartProtected(q, r, a, e)
  <2>1. q.left = 0 /\ q.pending = << >>
    BY <1>3, PipeFields, SMT DEF H!Waits
  <2>2a. s.lost = (q.lost \/ (q.wire # << >> /\ q.action \in H!Kinds))
    BY <1>0, <1>3, StartProtectedIs
  <2>2. (q.closing => s.closing) /\ Fed(s)
    BY <1>0, <1>3, StartProtectedIs
  <2>3. \A i : i \notin DOMAIN q.pending
    BY <2>1, SMT
  <2>4. ASSUME NEW k \in H!Kinds, Going(q, k) PROVE s.closing \/ s.lost
    <3>1. q.action = k /\ k # "none"
      BY <2>3, <2>4 DEF Going, H!Kinds
    <3>2. q.wire # << >> \/ q.closing
      BY <3>1 DEF Fed
    <3> QED BY <2>2, <2>2a, <2>4, <3>1, <3>2
  <2> QED BY <2>2, <2>2a, <2>4
<1>4. \/ no /\ s = H!Closed(q)
      \/ /\ ~ no /\ H!Waits(q, d)
         /\ IsPipe(s) /\ s.pending = Append(q.pending, [rec |-> r, action |-> a])
         /\ [rec |-> r, action |-> a] \in Pending
         /\ s.rec = q.rec /\ s.left = q.left /\ s.action = q.action /\ s.seq = q.seq
         /\ s.wire = q.wire /\ s.lost = q.lost /\ s.closing = q.closing
         /\ \A i \in DOMAIN q.pending : i \in DOMAIN s.pending /\ s.pending[i] = q.pending[i]
      \/ ~ no /\ ~ H!Waits(q, d) /\ ~ H!AtLimit(q) /\ s = H!StartProtected(q, r, a, e)
  BY SendCases
<1> QED BY <1>1, <1>2, <1>3, <1>4

\* From a completion, behind which the next record is started.
LEMMA SendBehind ==
  ASSUME NEW q, IsPipe(q), q.left = 0, q.action = "none", NEW r \in Rec, NEW a \in {"none"} \cup H!Kinds,
         NEW d \in BOOLEAN, NEW e \in H!Luck, NEW no \in BOOLEAN, H!Refused(q, d) => no,
         NEW s, s = IF no THEN H!Closed(q) ELSE H!Send(q, r, a, d, e)
  PROVE  /\ d => s.left = 0 /\ s.action = "none" /\ s.lost = q.lost
         /\ d => \A k \in H!Kinds : Going(q, k) => Going(s, k)
<1>1. CASE no /\ s = H!Closed(q)
  <2>1. s.left = q.left /\ s.action = q.action /\ s.lost = q.lost /\ s.pending = q.pending
    BY <1>1, ClosedIs
  <2> QED BY <2>1 DEF Going, Waiting
<1>2. ASSUME \A i \in DOMAIN q.pending : i \in DOMAIN s.pending /\ s.pending[i] = q.pending[i],
             s.left = q.left, s.action = q.action, s.lost = q.lost
      PROVE  \A k \in H!Kinds : Going(q, k) => Going(s, k)
  BY <1>2 DEF Going, Waiting
<1>3. d => H!Waits(q, d)
  BY DEF H!Waits
<1>4. \/ no /\ s = H!Closed(q)
      \/ /\ ~ no /\ H!Waits(q, d)
         /\ IsPipe(s) /\ s.pending = Append(q.pending, [rec |-> r, action |-> a])
         /\ [rec |-> r, action |-> a] \in Pending
         /\ s.rec = q.rec /\ s.left = q.left /\ s.action = q.action /\ s.seq = q.seq
         /\ s.wire = q.wire /\ s.lost = q.lost /\ s.closing = q.closing
         /\ \A i \in DOMAIN q.pending : i \in DOMAIN s.pending /\ s.pending[i] = q.pending[i]
      \/ ~ no /\ ~ H!Waits(q, d) /\ ~ H!AtLimit(q) /\ s = H!StartProtected(q, r, a, e)
  BY SendCases
<1> QED BY <1>1, <1>2, <1>3, <1>4


\* An answer to a write, and what it takes off the wire.
LEMMA TailIs ==
  ASSUME NEW q, IsPipe(q), q.wire # << >>, NEW t, t = [q EXCEPT !.wire = Tail(@)]
  PROVE  /\ IsPipe(t) /\ t.rec = q.rec /\ t.left = q.left /\ t.action = q.action
         /\ t.pending = q.pending /\ t.seq = q.seq /\ t.lost = q.lost /\ t.closing = q.closing
         /\ t.wire = Tail(q.wire)
         /\ Head(q.wire) \in Entry
         /\ \A G : Only(q, G) => Only(t, G) /\ Tag(Head(q.wire).rec) \in G
<1>1. Tail(q.wire) \in Seq(Entry) /\ Head(q.wire) \in Entry /\ Head(q.wire) = q.wire[1]
      /\ 1 \in DOMAIN q.wire
      /\ \A i \in DOMAIN Tail(q.wire) : i + 1 \in DOMAIN q.wire /\ Tail(q.wire)[i] = q.wire[i + 1]
  BY PipeFields, SeqTail
<1>2. t \in Pipes
  BY <1>1, Zenon DEF IsPipe, Pipes
<1>3. /\ t.rec = q.rec /\ t.left = q.left /\ t.action = q.action
      /\ t.pending = q.pending /\ t.seq = q.seq /\ t.lost = q.lost /\ t.closing = q.closing
      /\ t.wire = Tail(q.wire)
  BY SMT DEF IsPipe, Pipes
<1>4. \A G : Only(q, G) => Only(t, G) /\ Tag(Head(q.wire).rec) \in G
  BY <1>1, <1>3 DEF Only
<1>5. Len(t.pending) <= QueueDepth
  BY <1>3, PipeFields
<1> QED BY <1>1, <1>2, <1>3, <1>4, <1>5 DEF IsPipe

LEMMA TurnTail ==
  ASSUME NEW q, IsPipe(q), q.wire # << >>, NEW t, t.wire = Tail(q.wire), t.left = q.left, t.rec = q.rec,
         NEW h \in Seq(Rec), NEW h2,
         h2 = (IF Head(q.wire).last THEN Append(h, Head(q.wire).rec) ELSE h),
         NEW s \in Nat, Turn(q, h, s)
  PROVE  Turn(t, h2, s)
<1> DEFINE w == Head(q.wire)
           f == IF w.last THEN w.rec.seq ELSE 0
<1>1. PICK n \in Nat \ {0} : Counts(Numbers(h), 1, n) /\ Out(q, n, s)
  BY DEF Turn
<1>2. PICK m \in Nat :
        /\ Counts(Flags(q.wire), n, m)
        /\ IF q.left > 0 /\ q.rec.seq # 0 THEN q.rec.seq = m /\ s = m + 1 ELSE s = m
  BY <1>1 DEF Out
<1>3. q.wire \in Seq(Entry) /\ w \in Entry /\ w.rec \in Rec /\ w.rec.seq \in Nat
  BY PipeFields, RecFields, SeqTail
<1>4. Flags(t.wire) = Tail(Flags(q.wire)) /\ Flags(q.wire) # << >> /\ Head(Flags(q.wire)) = f
      /\ Flags(q.wire) \in Seq(Nat) /\ Numbers(h) \in Seq(Nat)
  BY <1>3, FlagsTail, FlagsIs, NumbersIs
<1>5. Numbers(h2) = Numbers(h) \/ Numbers(h2) = Append(Numbers(h), f)
  BY <1>3, NumbersAppend
<1>6. Numbers(h2) = Numbers(h) => f = 0 \/ w.last
  OBVIOUS
<1>7. w.last => Numbers(h2) = Append(Numbers(h), f)
  BY <1>3, NumbersAppend
<1>8. 1 \in Nat \ {0} /\ n + 1 \in Nat \ {0} /\ f \in Nat
  BY <1>3, SMT
<1>9. CASE f = 0
  <2>1. Counts(Flags(t.wire), n, m)
    BY <1>2, <1>4, <1>9, CountsTailZero
  <2>2. Counts(Append(Numbers(h), 0), 1, n)
    BY <1>1, <1>4, <1>8, CountsZero
  <2>3. Counts(Numbers(h2), 1, n)
    BY <1>1, <1>5, <1>9, <2>2
  <2>4. Out(t, n, s)
    BY <1>2, <2>1 DEF Out
  <2> QED BY <2>3, <2>4 DEF Turn
<1>10. CASE f # 0
  <2>1. w.last
    BY <1>10
  <2>0. Head(Flags(q.wire)) # 0
    BY <1>4, <1>10
  <2>02. Head(Flags(q.wire)) = n /\ Counts(Tail(Flags(q.wire)), n + 1, m)
    BY <1>2, <1>4, <2>0, CountsTailNext
  <2>2. f = n /\ Counts(Flags(t.wire), n + 1, m)
    BY <1>4, <2>02
  <2>3. Counts(Append(Numbers(h), n), 1, n + 1)
    BY <1>1, <1>4, <1>8, CountsNext
  <2>4. Counts(Numbers(h2), 1, n + 1)
    BY <1>7, <2>1, <2>2, <2>3
  <2>5. Out(t, n + 1, s)
    BY <1>2, <2>2 DEF Out
  <2> QED BY <1>8, <2>4, <2>5 DEF Turn
<1> QED BY <1>9, <1>10

\* The pipelines of the lemmas above, for a whole dialogue.
LEMMA TurnLoad ==
  ASSUME NEW q, IsPipe(q), NEW r \in Rec, NEW a \in Actions, NEW e \in H!Luck,
         NEW l, l = H!Load(q, r, a, e), q.left = 0 \/ q.rec.seq = 0, r.seq = 0,
         NEW h, NEW s \in Nat, Turn(q, h, s)
  PROVE  l.closing \/ Turn(l, h, s)
<1>1. PICK n \in Nat \ {0} : Counts(Numbers(h), 1, n) /\ Out(q, n, s)
  BY DEF Turn
<1>2. l.closing \/ Out(l, n, s)
  BY <1>1, LoadIs
<1> QED BY <1>1, <1>2 DEF Turn

LEMMA TurnWrite ==
  ASSUME NEW q, IsPipe(q), NEW ok \in BOOLEAN, NEW w, w = H!Write(q, ok),
         NEW h, NEW s \in Nat, Turn(q, h, s)
  PROVE  w.closing \/ Turn(w, h, s)
<1>1. PICK n \in Nat \ {0} : Counts(Numbers(h), 1, n) /\ Out(q, n, s)
  BY DEF Turn
<1>2. w.closing \/ Out(w, n, s)
  BY <1>1, WriteOut
<1> QED BY <1>1, <1>2 DEF Turn

LEMMA TurnSend ==
  ASSUME NEW q, IsPipe(q), q.seq # 0, NEW r \in Rec, NEW a \in {"none"} \cup H!Kinds, NEW d \in BOOLEAN,
         NEW e \in H!Luck, NEW no \in BOOLEAN, H!Refused(q, d) => no,
         NEW s, s = IF no THEN H!Closed(q) ELSE H!Send(q, r, a, d, e), NEW h, Turn(q, h, q.seq)
  PROVE  s.closing \/ Turn(s, h, s.seq)
<1>1. PICK n \in Nat \ {0} : Counts(Numbers(h), 1, n) /\ Out(q, n, q.seq)
  BY DEF Turn
<1>2. s.closing \/ Out(s, n, s.seq)
  BY <1>1, SendIs
<1> QED BY <1>1, <1>2 DEF Turn

LEMMA TurnNext ==
  ASSUME NEW q, IsPipe(q), q.left = 0, q.action = "none", q.pending # << >> => q.seq # 0,
         NEW e \in H!Luck, NEW r, r = H!StartNext(q, e), NEW h, Turn(q, h, q.seq)
  PROVE  r.closing \/ Turn(r, h, r.seq)
<1>1. PICK n \in Nat \ {0} : Counts(Numbers(h), 1, n) /\ Out(q, n, q.seq)
  BY DEF Turn
<1>2. r.closing \/ Out(r, n, r.seq)
  BY <1>1, StartNextIs
<1> QED BY <1>1, <1>2 DEF Turn

-----------------------------------------------------------------------------
(* A batch.                                                                  *)

LEMMA ScanFields ==
  ASSUME scan \in [H!Kinds -> Scan], NEW k \in H!Kinds
  PROVE  /\ scan[k] \in Scan /\ scan[k].busy \in BOOLEAN /\ scan[k].left \in 0..MaxBatches
         /\ scan[k].left \in Nat /\ scan[k].conn \in 0..MaxConnections
<1>1. scan[k] \in Scan
  OBVIOUS
<1> QED BY <1>1, HeltecAssumption, SMT DEF Scan

LEMMA RecordIs ==
  ASSUME conn \in 0..MaxConnections, NEW type \in H!RecordTypes
  PROVE  /\ H!Record(type) \in Rec /\ H!Record(type).seq = 0 /\ H!Record(type).type = type
         /\ H!Record(type).conn = conn /\ Tag(H!Record(type)) = <<type, conn>>
BY Bounds, SMT DEF H!Record, Rec, Tag

LEMMA BatchIs ==
  ASSUME conn \in 0..MaxConnections, scan \in [H!Kinds -> Scan], NEW k \in H!Kinds,
         NEW n \in 1..MaxBatches, NEW d \in BOOLEAN, NEW q, NEW e \in H!Luck,
         NEW b, b = H!SendBatch(k, n, d, q, e)
  PROVE  \E r \in Rec, a \in {"none"} \cup H!Kinds, no \in BOOLEAN :
           /\ H!Refused(q, d) => no
           /\ r.type \in {"partial", "complete"} /\ r.seq = 0 /\ r.conn = scan[k].conn
           /\ b.pipe = IF no THEN H!Closed(q) ELSE H!Send(q, r, a, d, e)
           /\ IF n = 1 THEN a = "none" ELSE a = k
           /\ b.scan \in [H!Kinds -> Scan]
           /\ \A j \in H!Kinds : j # k => b.scan[j] = scan[j]
           /\ b.scan[k].busy = (n # 1 /\ ~ no)
           /\ b.scan[k].left = n - 1 /\ b.scan[k].conn = scan[k].conn
<1> DEFINE type == IF n = 1 THEN "complete" ELSE "partial"
           r == [H!Record(type) EXCEPT !.conn = scan[k].conn]
           a == IF n = 1 THEN "none" ELSE k
           no == H!Refused(q, d) \/ ~ e.encodes
           v == n # 1 /\ ~ no
           c == [scan EXCEPT ![k].busy = v, ![k].left = n - 1]
<1>1. type \in H!RecordTypes /\ type \in {"partial", "complete"}
  BY DEF H!RecordTypes
<1>2. H!Record(type) \in Rec /\ H!Record(type).seq = 0 /\ H!Record(type).type = type
  BY <1>1, RecordIs
<1>3. scan[k] \in Scan /\ scan[k].conn \in 0..MaxConnections /\ n - 1 \in 0..MaxBatches
  BY ScanFields, HeltecAssumption, SMT
<1>4. r \in Rec /\ r.seq = 0 /\ r.type = type /\ r.conn = scan[k].conn
  <2> HIDE DEF type
  <2> QED BY <1>2, <1>3, SMT DEF Rec
<1>5. a \in {"none"} \cup H!Kinds
  OBVIOUS
<1>6. v \in BOOLEAN
  OBVIOUS
<1>7. c = [scan EXCEPT ![k] = [scan[k] EXCEPT !.busy = v, !.left = n - 1]]
  BY <1>3, Zenon
<1>8. /\ c \in [H!Kinds -> Scan] /\ \A j \in H!Kinds : j # k => c[j] = scan[j]
      /\ c[k].busy = v /\ c[k].left = n - 1 /\ c[k].conn = scan[k].conn
  <2> DEFINE x == [scan[k] EXCEPT !.busy = v, !.left = n - 1]
  <2> HIDE DEF v
  <2>0. x \in Scan
    BY <1>3, <1>6, Zenon DEF Scan
  <2>1. x \in Scan /\ x.busy = v /\ x.left = n - 1 /\ x.conn = scan[k].conn
    BY <1>3, <2>0, SMT DEF Scan
  <2> HIDE DEF x, c
  <2> QED BY <1>7, <2>1 DEF x
<1>9. b.pipe = (IF no THEN H!Closed(q) ELSE H!Send(q, r, a, d, e)) /\ b.scan = c
  BY DEF H!SendBatch, H!Continuation
<1> HIDE DEF type, r, v, c
<1>10. IF n = 1 THEN a = "none" ELSE a = k
  OBVIOUS
<1> HIDE DEF a
<1> QED BY <1>1, <1>4, <1>5, <1>8, <1>9, <1>10 DEF v


LEMMA IdleFacts ==
  /\ IsPipe(H!PipeIdle) /\ Fed(H!PipeIdle) /\ Once(H!PipeIdle) /\ Empty(H!PipeIdle)
  /\ H!PipeIdle.rec = H!NoRecord /\ H!NoRecord.seq = 0 /\ H!PipeIdle.left = 0 /\ H!PipeIdle.action = "none"
  /\ H!PipeIdle.pending = << >> /\ H!PipeIdle.wire = << >> /\ ~ H!PipeIdle.lost /\ ~ H!PipeIdle.closing
  /\ \A k \in H!Kinds : ~ Going(H!PipeIdle, k)
<1>1. /\ H!PipeIdle.rec = H!NoRecord /\ H!NoRecord.seq = 0 /\ H!PipeIdle.left = 0 /\ H!PipeIdle.action = "none"
      /\ H!PipeIdle.pending = << >> /\ H!PipeIdle.wire = << >> /\ ~ H!PipeIdle.lost /\ ~ H!PipeIdle.closing
  BY SMT DEF H!PipeIdle, H!NoRecord
<1>2. \A i : i \notin DOMAIN H!PipeIdle.pending
  BY <1>1, SMT
<1>3. Fed(H!PipeIdle) /\ Once(H!PipeIdle) /\ Empty(H!PipeIdle)
  BY <1>1, <1>2, SMT DEF Fed, Once, Empty
<1>4. \A k \in H!Kinds : ~ Going(H!PipeIdle, k)
  BY <1>1, <1>2 DEF Going, H!Kinds
<1> QED BY <1>1, <1>3, <1>4, IdleIsPipe

LEMMA IdleOnly ==
  ASSUME NEW G, <<"none", 0>> \in G
  PROVE  Only(H!PipeIdle, G)
<1>1. /\ H!PipeIdle.rec = H!NoRecord /\ H!PipeIdle.pending = << >> /\ H!PipeIdle.wire = << >>
  BY IdleFacts
<1>2. \A i : i \notin DOMAIN H!PipeIdle.pending /\ i \notin DOMAIN H!PipeIdle.wire
  BY <1>1, SMT
<1>3. Tag(H!PipeIdle.rec) = <<"none", 0>>
  BY <1>1, SMT DEF Tag, H!NoRecord
<1> QED BY <1>2, <1>3 DEF Only

LEMMA IdleTurn == Turn(H!PipeIdle, << >>, 1)
<1>1. Len(Flags(H!PipeIdle.wire)) = 0 /\ Flags(H!PipeIdle.wire) \in Seq(Nat)
      /\ Len(Numbers(<< >>)) = 0 /\ Numbers(<< >>) \in Seq(Nat)
  BY IdleFacts, SMT DEF Flags, Numbers
<1>2. 1 \in Nat /\ 1 \in Nat \ {0}
  OBVIOUS
<1>3. Counts(Flags(H!PipeIdle.wire), 1, 1) /\ Counts(Numbers(<< >>), 1, 1)
  BY <1>1, <1>2, CountsNone
<1>4. Out(H!PipeIdle, 1, 1)
  BY <1>2, <1>3, IdleFacts, SMT DEF Out
<1> QED BY <1>2, <1>3, <1>4 DEF Turn

LEMMA FineHas ==
  ASSUME TypeInv
  PROVE  /\ \A c \in 0..MaxConnections : <<"none", c>> \in Fine
         /\ \A t \in H!RecordTypes \ {"partial", "complete", "pair_complete"} : <<t, conn>> \in Fine
BY Bounds, SMT DEF TypeInv, Fine, H!RecordTypes

\* No connection, no record.
LEMMA FineIdle ==
  ASSUME conn \in 0..MaxConnections
  PROVE  <<"none", 0>> \in Fine
BY Bounds, SMT DEF Fine, H!RecordTypes

LEMMA HeltecInitially == H!Init => HeltecInv
<1> SUFFICES ASSUME H!Init PROVE HeltecInv
  OBVIOUS
<1>1. TypeInv
  <2>1. scan \in [H!Kinds -> Scan]
    BY Bounds, SMT DEF H!Init, H!ScanIdle, Scan
  <2>2. nvs \in H!NoSecret .. MaxConnections /\ conn \in 0..MaxConnections
    BY HeltecAssumption, SMT DEF H!Init, H!NoSecret
  <2>3. heard \in Seq(Rec)
    BY SMT DEF H!Init
  <2> QED BY <2>1, <2>2, <2>3, IdleFacts DEF H!Init, TypeInv
<1>2. StageInv
  BY IdleFacts DEF H!Init, StageInv, H!Kinds
<1>3. Fed(p)
  BY IdleFacts DEF H!Init
<1>4. HandInv
  BY DEF H!Init, HandInv
<1>5. TurnInv
  BY IdleTurn DEF H!Init, TurnInv, NextNumber
<1>6. TagInv
  <2>1. \A i : i \notin DOMAIN heard
    BY SMT DEF H!Init
  <2>2. <<"none", 0>> \in Fine
    BY <1>1, FineIdle DEF TypeInv
  <2> QED BY <2>1, <2>2, IdleOnly DEF H!Init, TagInv
<1>7. ScanInv
  <2>1. \A k \in H!Kinds : ~ scan[k].busy
    BY SMT DEF H!Init, H!ScanIdle
  <2> QED BY <2>1, IdleFacts DEF H!Init, ScanInv, H!Chained
<1>8. LookInv
  BY DEF H!Init, LookInv, H!NotSearching, Raced
<1> QED BY <1>1, <1>2, <1>3, <1>4, <1>5, <1>6, <1>7, <1>8 DEF HeltecInv

-----------------------------------------------------------------------------
(* The link.                                                                 *)

LEMMA FineGrows ==
  ASSUME conn' = conn, nvs' = nvs, raced \subseteq raced'
  PROVE  Fine \subseteq Fine'
BY DEF Fine

LEMMA ScanKeeps ==
  ASSUME ScanInv, UNCHANGED <<scan, wifiRadio, window, conn>>, raced \subseteq raced',
         stage' = "authenticated" => stage = "authenticated",
         Once(p)', p'.lost => Raced("send_in_window")', p.closing => p'.closing,
         \A k \in H!Kinds : Going(p, k)' => Going(p, k),
         \A k \in H!Kinds : Going(p, k) => Going(p, k)' \/ p'.closing \/ p'.lost
  PROVE  ScanInv'
<1>1. \A k \in H!Kinds : H!Chained(k)' <=> H!Chained(k)
  BY DEF H!Chained
<1>2. \A t : Raced(t) => Raced(t)'
  BY DEF Raced
<1>3. \A k \in H!Kinds : Going(p, k)' => H!Chained(k)' /\ scan'[k].left >= 1
  BY <1>1 DEF ScanInv
<1>4. \A k \in H!Kinds : H!Chained(k)' => p'.closing \/ Going(p, k)' \/ Raced("drop_mid_chain")'
                                          \/ Raced("send_in_window")'
  BY <1>1, <1>2 DEF ScanInv
<1>5. \A k \in H!Kinds : stage' = "authenticated" /\ scan'[k].busy =>
                         scan'[k].conn = conn' \/ Raced("fast_reconnect")'
  BY <1>2 DEF ScanInv
<1>6. (wifiRadio' # "idle" => scan'["wifi"].busy) /\ (window' => scan'["ble"].busy)
  BY DEF ScanInv
<1> QED BY <1>3, <1>4, <1>5, <1>6 DEF ScanInv

\* Only the search goes on.
LEMMA Search ==
  ASSUME HeltecInv, UNCHANGED <<conn, H!UnlessSearch>>, raced \subseteq raced',
         bleLink' = bleLink \/ (bleLink # "up" /\ bleLink' \in {"none", "connecting"}),
         disc' \in BOOLEAN, reconnect' \in BOOLEAN,
         bleLink' = "none" /\ mode # "closed" =>
           disc' \/ reconnect' \/ Raced("drop_in_window")' \/ Raced("disc_error")'
  PROVE  HeltecInv'
<1> USE DEF H!UnlessSearch
<1>1. TypeInv'
  BY DEF HeltecInv, TypeInv
<1>2. StageInv'
  BY DEF HeltecInv, StageInv, Empty
<1>3. Fed(p)'
  BY DEF HeltecInv, Fed
<1>4. HandInv'
  BY DEF HeltecInv, HandInv, H!Has
<1>5. TurnInv'
  BY DEF HeltecInv, TurnInv, Turn, NextNumber, Out
<1>6. TagInv'
  <2>1. Fine \subseteq Fine'
    BY FineGrows
  <2> QED BY <2>1 DEF HeltecInv, TagInv, Only
<1>7. ScanInv'
  <2>1. Once(p)' /\ \A k \in H!Kinds : Going(p, k)' <=> Going(p, k)
    BY DEF HeltecInv, ScanInv, Once, Going, Waiting
  <2>2. p'.lost => Raced("send_in_window")'
    BY DEF HeltecInv, ScanInv, Raced
  <2> QED BY <2>1, <2>2, ScanKeeps DEF HeltecInv
<1>8. LookInv'
  BY DEF HeltecInv, LookInv, Raced
<1> QED BY <1>1, <1>2, <1>3, <1>4, <1>5, <1>6, <1>7, <1>8 DEF HeltecInv

LEMMA SearchSteps ==
  ASSUME HeltecInv, H!FindPeer \/ H!ConnectFails \/ H!ReconnectTimer \/ H!DiscComplete
  PROVE  HeltecInv'
<1>1. CASE H!FindPeer
  <2>1. disc' \in BOOLEAN /\ reconnect' \in BOOLEAN
    BY <1>1 DEF H!FindPeer, HeltecInv, TypeInv
  <2>2. bleLink' = bleLink \/ (bleLink # "up" /\ bleLink' \in {"none", "connecting"})
    BY <1>1 DEF H!FindPeer
  <2>3. bleLink' = "none" /\ mode # "closed" =>
          disc' \/ reconnect' \/ Raced("drop_in_window")' \/ Raced("disc_error")'
    BY <1>1 DEF H!FindPeer, H!Permitted, Raced
  <2>4. UNCHANGED <<conn, H!UnlessSearch>> /\ raced \subseteq raced'
    BY <1>1 DEF H!FindPeer
  <2> QED BY <2>1, <2>2, <2>3, <2>4, Search
<1>2. CASE H!ConnectFails
  <2>1. disc' \in BOOLEAN /\ reconnect' \in BOOLEAN
    BY <1>2 DEF H!ConnectFails, HeltecInv, TypeInv, H!Permitted
  <2>2. bleLink' = bleLink \/ (bleLink # "up" /\ bleLink' \in {"none", "connecting"})
    BY <1>2 DEF H!ConnectFails
  <2>3. bleLink' = "none" /\ mode # "closed" =>
          disc' \/ reconnect' \/ Raced("drop_in_window")' \/ Raced("disc_error")'
    BY <1>2 DEF H!ConnectFails, H!Permitted, Raced
  <2>4. UNCHANGED <<conn, H!UnlessSearch>> /\ raced \subseteq raced'
    BY <1>2 DEF H!ConnectFails
  <2> QED BY <2>1, <2>2, <2>3, <2>4, Search
<1>3. CASE H!ReconnectTimer
  <2>1. disc' \in BOOLEAN /\ reconnect' \in BOOLEAN
    BY <1>3 DEF H!ReconnectTimer, HeltecInv, TypeInv, H!Permitted, H!StartScan
  <2>2. bleLink' = bleLink \/ (bleLink # "up" /\ bleLink' \in {"none", "connecting"})
    BY <1>3 DEF H!ReconnectTimer
  <2>3. bleLink' = "none" /\ mode # "closed" =>
          disc' \/ reconnect' \/ Raced("drop_in_window")' \/ Raced("disc_error")'
    BY <1>3 DEF H!ReconnectTimer, H!Permitted, H!StartScan, H!NotSearching, Raced
  <2>4. UNCHANGED <<conn, H!UnlessSearch>> /\ raced \subseteq raced'
    BY <1>3 DEF H!ReconnectTimer, H!StartScan
  <2> QED BY <2>1, <2>2, <2>3, <2>4, Search
<1>4. CASE H!DiscComplete
  <2>1. disc' \in BOOLEAN /\ reconnect' \in BOOLEAN
    BY <1>4 DEF H!DiscComplete, HeltecInv, TypeInv, H!Permitted, H!StartScan
  <2>2. bleLink' = bleLink \/ (bleLink # "up" /\ bleLink' \in {"none", "connecting"})
    BY <1>4 DEF H!DiscComplete
  <2>3. bleLink' = "none" /\ mode # "closed" =>
          disc' \/ reconnect' \/ Raced("drop_in_window")' \/ Raced("disc_error")'
    BY <1>4 DEF H!DiscComplete, H!Permitted, H!StartScan, H!NotSearching, Raced
  <2>4. UNCHANGED <<conn, H!UnlessSearch>> /\ raced \subseteq raced'
    BY <1>4 DEF H!DiscComplete, H!StartScan
  <2> QED BY <2>1, <2>2, <2>3, <2>4, Search
<1> QED BY <1>1, <1>2, <1>3, <1>4

LEMMA WindowExpiresStep == ASSUME HeltecInv, H!WindowExpires PROVE HeltecInv'
<1> USE DEF H!WindowExpires, H!radioVars
<1>1. TypeInv'
  BY DEF HeltecInv, TypeInv
<1>2. StageInv'
  BY DEF HeltecInv, StageInv, Empty
<1>3. Fed(p)'
  BY DEF HeltecInv, Fed
<1>4. HandInv'
  BY DEF HeltecInv, HandInv, H!Has
<1>5. TurnInv'
  BY DEF HeltecInv, TurnInv, Turn, NextNumber, Out
<1>6. TagInv'
  BY DEF HeltecInv, TagInv, Fine, Only
<1>7. ScanInv'
  BY DEF HeltecInv, ScanInv, H!Chained, Raced, Once, Going, Waiting
<1>8. LookInv'
  BY DEF HeltecInv, LookInv, Raced
<1> QED BY <1>1, <1>2, <1>3, <1>4, <1>5, <1>6, <1>7, <1>8 DEF HeltecInv

LEMMA NoneHeard == ASSUME heard' = << >> PROVE \A i : i \notin DOMAIN heard'
BY SMT

\* A new connection, and the end of one: nothing is under way.
LEMMA NothingUnderWay ==
  ASSUME p' = H!PipeIdle, heard' = << >>, stage' = "idle", conn' \in 0..MaxConnections
  PROVE  /\ IsPipe(p)' /\ heard' \in Seq(Rec)
         /\ Fed(p)' /\ HandInv' /\ TurnInv' /\ TagInv'
<1>1. IsPipe(p)' /\ Fed(p)'
  BY IdleFacts DEF IsPipe, Fed
<1>2. HandInv'
  BY DEF HandInv
<1>3. TurnInv'
  <2>1. Turn(p, heard, 1)'
    BY IdleTurn DEF Turn, Out
  <2> QED BY <2>1 DEF TurnInv, NextNumber, Turn
<1>4. TagInv'
  <2>1. <<"none", 0>> \in Fine'
    BY Bounds, SMT DEF Fine, H!RecordTypes
  <2>2. Only(H!PipeIdle, Fine')
    BY <2>1, IdleOnly
  <2>3. Only(p, Fine)'
    BY <2>2 DEF Only
  <2> QED BY <2>3, NoneHeard DEF TagInv
<1>5. heard' \in Seq(Rec)
  BY SMT
<1> QED BY <1>1, <1>2, <1>3, <1>4, <1>5

LEMMA HeltecConnectStep == ASSUME HeltecInv, H!Connect PROVE HeltecInv'
<1>0. conn' \in 0..MaxConnections
  BY HeltecAssumption, SMT DEF HeltecInv, TypeInv, H!Connect
<1>1. /\ IsPipe(p)' /\ heard' \in Seq(Rec)
      /\ Fed(p)' /\ HandInv' /\ TurnInv' /\ TagInv'
  BY <1>0, NothingUnderWay DEF H!Connect
<1>2. p' = p /\ p = H!PipeIdle
  BY DEF H!Connect, HeltecInv, StageInv
<1>3. TypeInv'
  BY <1>0, <1>1 DEF HeltecInv, TypeInv, H!Connect, H!radioVars
<1>4. StageInv'
  BY IdleFacts DEF HeltecInv, StageInv, Empty, H!Connect, H!Kinds
<1>5. ScanInv'
  BY <1>2 DEF HeltecInv, ScanInv, H!Chained, Raced, Once, Going, Waiting, H!Connect, H!radioVars
<1>6. LookInv'
  BY DEF LookInv, H!Connect
<1> QED BY <1>1, <1>3, <1>4, <1>5, <1>6 DEF HeltecInv

LEMMA HeltecDisconnectStep == ASSUME HeltecInv, H!Disconnect PROVE HeltecInv'
<1>0. conn' \in 0..MaxConnections /\ raced \subseteq raced'
  BY DEF HeltecInv, TypeInv, H!Disconnect, H!StartScan
<1>1. /\ IsPipe(p)' /\ heard' \in Seq(Rec)
      /\ Fed(p)' /\ HandInv' /\ TurnInv' /\ TagInv'
  BY <1>0, NothingUnderWay DEF H!Disconnect
<1>3. TypeInv'
  <2>1. disc' \in BOOLEAN /\ reconnect' \in BOOLEAN
    BY DEF HeltecInv, TypeInv, H!Disconnect, H!StartScan, H!Searches
  <2>2. scan' \in [H!Kinds -> Scan] /\ mode' \in {"runtime", "open", "closed"}
        /\ wifiRadio' \in {"idle", "scanning", "event", "done"}
    BY DEF HeltecInv, TypeInv, H!Disconnect
  <2> QED BY <1>0, <1>1, <2>1, <2>2 DEF HeltecInv, TypeInv, H!Disconnect
<1>4. StageInv'
  BY IdleFacts DEF StageInv, H!Disconnect, Empty, H!Kinds
<1>5. ScanInv'
  <2>1. \A k \in H!Kinds : H!Chained(k)' <=> H!Chained(k)
    BY DEF H!Chained, H!Disconnect
  <2>2. \A k \in H!Kinds : H!Chained(k) => Raced("drop_mid_chain")'
    BY DEF Raced, H!Disconnect, H!StartScan
  <2>3. Once(p)' /\ ~ p'.lost /\ \A k \in H!Kinds : ~ Going(p, k)'
    BY IdleFacts DEF H!Disconnect, Once, Going, Waiting
  <2>4. (wifiRadio' # "idle" => scan'["wifi"].busy) /\ (window' => scan'["ble"].busy)
    BY DEF HeltecInv, ScanInv, H!Disconnect
  <2>5. stage' # "authenticated"
    BY DEF H!Disconnect
  <2> QED BY <2>1, <2>2, <2>3, <2>4, <2>5 DEF ScanInv
<1>6. LookInv'
  BY DEF LookInv, H!Disconnect, H!StartScan, H!NotSearching, H!Searches, Raced
<1> QED BY <1>1, <1>3, <1>4, <1>5, <1>6 DEF HeltecInv

LEMMA RestartStep == ASSUME HeltecInv, H!Restart PROVE HeltecInv'
<1>0. p = H!PipeIdle /\ heard = << >> /\ stage = "idle" /\ setup = "none" /\ bleLink = "none"
      /\ p' = p /\ heard' = heard /\ stage' = stage /\ conn' = conn /\ setup' = setup
  BY DEF HeltecInv, StageInv, H!Restart
<1>1. /\ IsPipe(p)' /\ heard' \in Seq(Rec)
      /\ Fed(p)' /\ HandInv' /\ TurnInv' /\ TagInv'
  BY <1>0, NothingUnderWay DEF HeltecInv, TypeInv
<1>2. scan' \in [H!Kinds -> Scan] /\ \A k \in H!Kinds : ~ scan'[k].busy
  BY Bounds, SMT DEF H!Restart, H!ScanIdle, Scan
<1>3. TypeInv'
  BY <1>1, <1>2 DEF HeltecInv, TypeInv, H!Restart, H!StartScan
<1>4. StageInv'
  BY <1>0, IdleFacts DEF StageInv, H!Restart, Empty, H!Kinds
<1>5. ScanInv'
  <2>1. Once(p)' /\ ~ p'.lost /\ \A k \in H!Kinds : ~ Going(p, k)'
    BY <1>0, IdleFacts DEF Once, Going, Waiting
  <2>2. \A k \in H!Kinds : ~ H!Chained(k)'
    BY <1>2 DEF H!Chained
  <2>3. wifiRadio' = "idle" /\ ~ window' /\ stage' = "idle"
    BY <1>0 DEF H!Restart
  <2> QED BY <2>1, <2>2, <2>3 DEF ScanInv
<1>6. LookInv'
  BY DEF LookInv, H!Restart, H!StartScan, H!NotSearching, Raced
<1> QED BY <1>1, <1>3, <1>4, <1>5, <1>6 DEF HeltecInv


(* What a step of the pipeline keeps.                                        *)

\* The lemmas above are about any pipeline; this one is p, and what it becomes.
LEMMA Stateless ==
  /\ \A q : q = p' => /\ (IsPipe(q) => IsPipe(p)') /\ (Fed(q) => Fed(p)') /\ (Once(q) => Once(p)')
                      /\ \A k : Going(q, k) <=> Going(p, k)'
                      /\ \A G : Only(q, G) => Only(p', G)
  /\ Only(p', Fine') => Only(p, Fine)'
  /\ \A q, h, s : q = p' /\ h = heard' /\ Turn(q, h, s) /\ s = NextNumber' => Turn(p, heard, NextNumber)'
BY DEF IsPipe, Fed, Once, Going, Waiting, Only, Turn, Out

\* ble_gap_terminate is called, and nothing else is sent.
LEMMA Closes ==
  ASSUME HeltecInv, bleLink = "up", p' = H!Closed(p), raced \subseteq raced',
         UNCHANGED <<mode, nvs, bleLink, conn, H!radioVars, heard, setup>>,
         stage' = stage \/ (stage' = "failed" /\ mode # "runtime" /\ setup = "ready"),
         reason' \in {"normal", "auth_failed", "unknown_board"}, commands' \in Nat
  PROVE  HeltecInv'
<1>1. /\ IsPipe(p') /\ p'.closing
      /\ p'.rec = p.rec /\ p'.left = p.left /\ p'.action = p.action
      /\ p'.pending = p.pending /\ p'.seq = p.seq /\ p'.wire = p.wire
      /\ p'.lost = p.lost
  <2>1. IsPipe(p)
    BY DEF HeltecInv, TypeInv
  <2> QED BY <2>1, ClosedIs
<1>2. TypeInv'
  BY <1>1 DEF HeltecInv, TypeInv, IsPipe, H!radioVars
<1>3. StageInv'
  BY <1>1 DEF HeltecInv, StageInv, Empty
<1>4. Fed(p)'
  BY <1>1 DEF Fed
<1>5. HandInv'
  BY <1>1 DEF HeltecInv, HandInv, StageInv, H!Has
<1>6. TurnInv'
  BY <1>1 DEF TurnInv
<1>7. TagInv'
  <2>1. Fine \subseteq Fine'
    BY FineGrows
  <2> QED BY <1>1, <2>1 DEF HeltecInv, TagInv, Only
<1>8. ScanInv'
  <2>1. Once(p)' /\ \A k \in H!Kinds : Going(p, k)' <=> Going(p, k)
    BY <1>1 DEF HeltecInv, ScanInv, Once, Going, Waiting
  <2>2. p'.lost => Raced("send_in_window")'
    BY <1>1 DEF HeltecInv, ScanInv, Raced
  <2>3. stage' = "authenticated" => stage = "authenticated"
    OBVIOUS
  <2>4. UNCHANGED <<scan, wifiRadio, window, conn>>
    BY DEF H!radioVars
  <2> QED BY <1>1, <2>1, <2>2, <2>3, <2>4, ScanKeeps DEF HeltecInv
<1>9. LookInv'
  BY DEF LookInv
<1> QED BY <1>2, <1>3, <1>4, <1>5, <1>6, <1>7, <1>8, <1>9 DEF HeltecInv

LEMMA DiscoverStep == ASSUME HeltecInv, NEW i \in 1..4, H!Discover(i) PROVE HeltecInv'
<1>0. H!Steps[i] \in {"mtu", "service", "characteristics", "descriptors"}
      /\ H!Steps[i + 1] \in {"service", "characteristics", "descriptors", "subscribing"}
  BY SMT DEF H!Steps
<1>1. CASE p' = H!Closed(p) /\ UNCHANGED setup
  BY <1>1, Closes DEF H!Discover, HeltecInv, TypeInv
<1>2. CASE setup' = H!Steps[i + 1] /\ UNCHANGED p
  <2> USE DEF H!Discover, H!radioVars
  <2>1. TypeInv'
    BY <1>0, <1>2 DEF HeltecInv, TypeInv
  <2>2. StageInv'
    BY <1>0, <1>2 DEF HeltecInv, StageInv, Empty
  <2>3. Fed(p)'
    BY <1>2 DEF HeltecInv, Fed
  <2>4. HandInv'
    BY <1>2 DEF HeltecInv, HandInv, H!Has
  <2>5. TurnInv'
    BY <1>2 DEF HeltecInv, TurnInv, Turn, NextNumber, Out
  <2>6. TagInv'
    BY <1>2 DEF HeltecInv, TagInv, Fine, Only
  <2>7. ScanInv'
    BY <1>2 DEF HeltecInv, ScanInv, H!Chained, Raced, Once, Going, Waiting
  <2>8. LookInv'
    BY <1>2 DEF HeltecInv, LookInv, Raced
  <2> QED BY <2>1, <2>2, <2>3, <2>4, <2>5, <2>6, <2>7, <2>8 DEF HeltecInv
<1> QED BY <1>1, <1>2 DEF H!Discover

-----------------------------------------------------------------------------
(* Pairing and authentication.                                               *)

\* The first write of a record on a wire that is free.
LEMMA LoadFirst ==
  ASSUME NEW q, IsPipe(q), q.wire = << >>, NEW r \in Rec, NEW a \in Actions, NEW e \in H!Luck,
         NEW l, l = H!Load(q, r, a, e)
  PROVE  l.wire = << >> \/ l.wire = << [rec |-> l.rec, last |-> l.left = 0] >>
<1> DEFINE b == [q EXCEPT !.rec = r, !.left = e.n, !.action = a]
<1>0. e.n \in 0..MaxPieces /\ e.n \in Nat /\ e.ok \in BOOLEAN
  BY Bounds, HeltecAssumption, SMT DEF H!Luck
<1>1. b \in Pipes
  BY <1>0, Zenon DEF IsPipe, Pipes
<1>2. b.rec = r /\ b.left = e.n /\ b.pending = q.pending /\ b.wire = << >>
  BY SMT DEF IsPipe, Pipes
<1>3. IsPipe(b) /\ l = H!Write(b, e.ok)
  BY <1>1, <1>2, PipeFields DEF IsPipe, H!Load
<1> HIDE DEF b
<1>4. /\ l.rec = b.rec
      /\ \/ b.left = 0 /\ l = b
         \/ /\ b.left # 0 /\ l.left = b.left - 1 /\ l.closing = b.closing
            /\ l.wire = Append(b.wire, [rec |-> b.rec, last |-> b.left = 1])
         \/ b.left # 0 /\ l = H!Closed(b)
  BY <1>0, <1>3, WriteCases
<1>5. CASE l = b \/ l = H!Closed(b)
  BY <1>2, <1>3, <1>5, ClosedIs
<1>6. CASE l.left = b.left - 1 /\ l.wire = Append(b.wire, [rec |-> b.rec, last |-> b.left = 1])
  <2>1. (l.left = 0) = (b.left = 1)
    BY <1>0, <1>2, <1>6, SMT
  <2>2. l.wire = << [rec |-> b.rec, last |-> b.left = 1] >>
    BY <1>2, <1>6, SMT
  <2> QED BY <1>4, <2>1, <2>2
<1> QED BY <1>4, <1>5, <1>6

Handshake == H!RecordTypes \ {"partial", "complete", "pair_complete"}

LEMMA HandLoad ==
  ASSUME HeltecInv, bleLink = "up", stage # "authenticated", stage' # "authenticated",
         NEW type \in Handshake, NEW a \in Actions \ H!Kinds, NEW e \in H!Luck,
         H!Pipe(H!Load(p, H!Record(type), a, e)),
         UNCHANGED <<nvs, bleLink, conn, scan, wifiRadio, window, heard>>
  PROVE  /\ IsPipe(p)' /\ p'.rec.type = type /\ p'.rec.seq = 0 /\ p'.action = a /\ p'.pending = << >>
         /\ Fed(p)' /\ TurnInv' /\ TagInv' /\ ScanInv' /\ LookInv'
         /\ p.wire = << >> => \/ p'.wire = << >>
                              \/ p'.wire = << [rec |-> p'.rec, last |-> p'.left = 0] >>
<1>1. PICK q : q = p
  OBVIOUS
<1>2. PICK r : r = H!Record(type)
  OBVIOUS
<1>3. PICK l : l = H!Load(q, r, a, e)
  OBVIOUS
<1>4. p' = l /\ raced' = raced \cup H!Races(l)
  BY <1>1, <1>2, <1>3 DEF H!Pipe
<1>5. r \in Rec /\ r.seq = 0 /\ r.type = type /\ Tag(r) = <<type, conn>> /\ Tag(r) \in Fine
  <2>1. type \in H!RecordTypes /\ conn \in 0..MaxConnections
    BY DEF Handshake, HeltecInv, TypeInv
  <2>2. <<type, conn>> \in Fine
    BY FineHas DEF Handshake, HeltecInv
  <2> QED BY <1>2, <2>1, <2>2, RecordIs
<1>6. IsPipe(q) /\ q.rec.seq = 0 /\ q.pending = << >> /\ q.action \notin H!Kinds
  BY <1>1 DEF HeltecInv, TypeInv, StageInv
<1>7. /\ IsPipe(l) /\ l.rec = r /\ l.action = a /\ l.pending = q.pending /\ l.seq = q.seq
      /\ l.lost = q.lost /\ (q.closing => l.closing) /\ Fed(l)
      /\ \A G : Only(q, G) /\ Tag(r) \in G => Only(l, G)
  BY <1>3, <1>5, <1>6, LoadIs
<1>8. TurnInv'
  <2>1. CASE q.closing
    BY <1>4, <1>7, <2>1 DEF TurnInv
  <2>2. CASE ~ q.closing
    <3>1. Turn(q, heard, 1)
      BY <1>1, <2>2 DEF HeltecInv, TurnInv, NextNumber
    <3>2. PICK h : h = heard
      OBVIOUS
    <3>3. l.closing \/ Turn(l, h, 1)
      BY <1>3, <1>5, <1>6, <3>1, <3>2, TurnLoad
    <3>4. 1 = NextNumber'
      BY DEF NextNumber
    <3>5. p'.closing \/ Turn(p, heard, NextNumber)'
      BY <1>4, <3>2, <3>3, <3>4, Stateless
    <3> QED BY <3>5 DEF TurnInv
  <2> QED BY <2>1, <2>2
<1>9. TagInv'
  <2>1. Fine \subseteq Fine'
    BY <1>4, FineGrows
  <2>2. Only(q, Fine)
    BY <1>1 DEF HeltecInv, TagInv
  <2>3. Only(l, Fine)
    BY <1>5, <1>7, <2>2
  <2>4. Only(p', Fine')
    BY <1>4, <2>1, <2>3 DEF Only
  <2> QED BY <2>1, <2>4, Stateless DEF HeltecInv, TagInv
<1>10. ScanInv'
  <2>1. \A i : i \notin DOMAIN p'.pending /\ i \notin DOMAIN p.pending
    BY <1>1, <1>4, <1>6, <1>7, SMT
  <2>2. Once(p)' /\ \A k \in H!Kinds : ~ Going(p, k)' /\ ~ Going(p, k)
    BY <1>1, <1>4, <1>6, <1>7, <2>1 DEF Once, Going
  <2>3. p'.lost => Raced("send_in_window")'
    BY <1>4, <1>7 DEF H!Races, Raced
  <2>4. p.closing => p'.closing
    BY <1>1, <1>4, <1>7
  <2>5. raced \subseteq raced'
    BY <1>4
  <2> QED BY <2>2, <2>3, <2>4, <2>5, ScanKeeps DEF HeltecInv
<1>11. LookInv'
  BY DEF LookInv
<1>12. p.wire = << >> => \/ p'.wire = << >>
                         \/ p'.wire = << [rec |-> p'.rec, last |-> p'.left = 0] >>
  BY <1>1, <1>3, <1>4, <1>5, <1>6, LoadFirst
<1> QED BY <1>4, <1>5, <1>6, <1>7, <1>8, <1>9, <1>10, <1>11, <1>12, Stateless

LEMMA SubscribedStep == ASSUME HeltecInv, H!Subscribed PROVE HeltecInv'
<1>0. /\ bleLink = "up" /\ stage = "idle" /\ p.wire = << >> /\ p.left = 0 /\ heard = << >>
      /\ UNCHANGED <<mode, nvs, bleLink, conn, reason, commands, heard, H!radioVars>> /\ setup' = "ready"
  BY DEF HeltecInv, StageInv, Empty, H!Subscribed
<1>1. PICK e \in H!Luck :
        \/ mode = "runtime" /\ stage' = "hello_sent" /\ H!Pipe(H!Load(p, H!Record("hello"), "none", e))
        \/ mode = "closed" /\ stage' = stage /\ H!Pipe(H!Load(p, H!Record("pair_error"), "disconnect", e))
        \/ mode \notin {"runtime", "closed"} /\ stage' = "init_sent"
           /\ H!Pipe(H!Load(p, H!Record("pair_init"), "none", e))
  BY DEF H!Subscribed, H!FailPairing
<1>2. UNCHANGED <<nvs, bleLink, conn, scan, wifiRadio, window, heard>> /\ stage' # "authenticated"
  BY <1>0, <1>1 DEF H!radioVars
<1>3. PICK type \in Handshake, a \in Actions \ H!Kinds :
        /\ H!Pipe(H!Load(p, H!Record(type), a, e))
        /\ mode = "runtime" => type = "hello" /\ a = "none" /\ stage' = "hello_sent"
        /\ mode # "runtime" => stage' \in {"idle", "init_sent"}
        /\ a # "authenticated" /\ a # "complete"
  BY <1>0, <1>1 DEF Handshake, H!RecordTypes, Actions, H!Kinds
<1>4. /\ IsPipe(p)' /\ p'.rec.type = type /\ p'.rec.seq = 0 /\ p'.action = a /\ p'.pending = << >>
      /\ Fed(p)' /\ TurnInv' /\ TagInv' /\ ScanInv' /\ LookInv'
      /\ p.wire = << >> => \/ p'.wire = << >>
                           \/ p'.wire = << [rec |-> p'.rec, last |-> p'.left = 0] >>
  BY <1>0, <1>2, <1>3, HandLoad
<1>5. TypeInv'
  BY <1>0, <1>1, <1>4 DEF HeltecInv, TypeInv, H!radioVars
<1>6. StageInv'
  BY <1>0, <1>1, <1>3, <1>4 DEF StageInv
<1>7. HandInv'
  <2>1. \A i : i \notin DOMAIN heard'
    BY <1>0, SMT
  <2>2. ~ H!Has("hello")'
    BY <2>1 DEF H!Has
  <2>3. stage' = "hello_sent" => type = "hello" /\ a = "none"
    BY <1>3
  <2> QED BY <1>0, <1>2, <1>4, <2>2, <2>3 DEF HandInv
<1> QED BY <1>4, <1>5, <1>6, <1>7 DEF HeltecInv

LEMMA PairReplyStep == ASSUME HeltecInv, H!PairReply PROVE HeltecInv'
<1>0. /\ bleLink = "up" /\ stage = "init_sent" /\ mode # "runtime" /\ setup = "ready"
      /\ UNCHANGED <<mode, nvs, bleLink, conn, reason, commands, heard, setup, H!radioVars>>
      /\ stage' = "confirm_sent"
  BY DEF HeltecInv, StageInv, H!PairReply, H!UnlessHandshake
<1>1. PICK e \in H!Luck : H!Pipe(H!Load(p, H!Record("pair_confirm"), "complete", e))
  BY DEF H!PairReply
<1>2. PICK type \in Handshake, a \in Actions \ H!Kinds :
        H!Pipe(H!Load(p, H!Record(type), a, e)) /\ a = "complete"
  BY <1>1 DEF Handshake, H!RecordTypes, Actions, H!Kinds
<1>3. UNCHANGED <<nvs, bleLink, conn, scan, wifiRadio, window, heard>> /\ stage' # "authenticated"
  BY <1>0 DEF H!radioVars
<1>4. /\ IsPipe(p)' /\ p'.rec.type = type /\ p'.rec.seq = 0 /\ p'.action = a /\ p'.pending = << >>
      /\ Fed(p)' /\ TurnInv' /\ TagInv' /\ ScanInv' /\ LookInv'
  BY <1>0, <1>2, <1>3, HandLoad
<1>5. TypeInv'
  BY <1>0, <1>4 DEF HeltecInv, TypeInv, H!radioVars
<1>6. StageInv'
  BY <1>0, <1>2, <1>4 DEF StageInv
<1>7. HandInv'
  BY <1>0 DEF HandInv
<1> QED BY <1>4, <1>5, <1>6, <1>7 DEF HeltecInv

LEMMA PairingFailsStep == ASSUME HeltecInv, H!PairingFails PROVE HeltecInv'
<1>0. /\ bleLink = "up" /\ mode # "runtime" /\ setup = "ready"
      /\ UNCHANGED <<mode, nvs, bleLink, conn, reason, commands, heard, setup, H!radioVars>>
      /\ stage' = "failed" /\ stage # "authenticated"
  BY DEF HeltecInv, StageInv, H!PairingFails, H!UnlessHandshake
<1>1. CASE H!Pipe(H!Closed(p))
  <2>1. p' = H!Closed(p) /\ raced \subseteq raced'
    BY <1>1 DEF H!Pipe
  <2>2. reason' \in {"normal", "auth_failed", "unknown_board"} /\ commands' \in Nat
    BY <1>0 DEF HeltecInv, TypeInv
  <2> QED BY <1>0, <2>1, <2>2, Closes
<1>2. CASE \E e \in H!Luck : H!FailPairing(e)
  <2>1. PICK e \in H!Luck : H!Pipe(H!Load(p, H!Record("pair_error"), "disconnect", e))
    BY <1>2 DEF H!FailPairing
  <2>2. PICK type \in Handshake, a \in Actions \ H!Kinds :
          H!Pipe(H!Load(p, H!Record(type), a, e)) /\ a = "disconnect"
    BY <2>1 DEF Handshake, H!RecordTypes, Actions, H!Kinds
  <2>3. UNCHANGED <<nvs, bleLink, conn, scan, wifiRadio, window, heard>> /\ stage' # "authenticated"
    BY <1>0 DEF H!radioVars
  <2>4. /\ IsPipe(p)' /\ p'.rec.type = type /\ p'.rec.seq = 0 /\ p'.action = a /\ p'.pending = << >>
        /\ Fed(p)' /\ TurnInv' /\ TagInv' /\ ScanInv' /\ LookInv'
    BY <1>0, <2>2, <2>3, HandLoad
  <2>5. TypeInv'
    BY <1>0, <2>4 DEF HeltecInv, TypeInv, H!radioVars
  <2>6. StageInv'
    BY <1>0, <2>2, <2>4 DEF StageInv
  <2>7. HandInv'
    BY <1>0 DEF HandInv
  <2> QED BY <2>4, <2>5, <2>6, <2>7 DEF HeltecInv
<1> QED BY <1>1, <1>2 DEF H!PairingFails

LEMMA AuthFailsStep == ASSUME HeltecInv, H!AuthFails PROVE HeltecInv'
<1>1. /\ bleLink = "up" /\ p' = H!Closed(p) /\ raced \subseteq raced' /\ stage' = stage
      /\ UNCHANGED <<mode, nvs, bleLink, conn, H!radioVars, heard, setup>>
      /\ reason' \in {"normal", "auth_failed", "unknown_board"}
  BY DEF H!AuthFails, H!UnlessHandshake
<1>2. commands' \in Nat
  BY DEF H!AuthFails, H!UnlessHandshake, HeltecInv, TypeInv
<1> QED BY <1>1, <1>2, Closes

LEMMA HelloAckStep == ASSUME HeltecInv, H!HelloAck PROVE HeltecInv'
<1>0. /\ bleLink = "up" /\ stage = "hello_sent" /\ mode = "runtime" /\ setup = "ready"
      /\ UNCHANGED <<mode, nvs, bleLink, conn, reason, commands, heard, setup, H!radioVars>>
      /\ stage' = "hello_sent" /\ H!Has("hello") /\ p.rec.type = "hello"
  BY DEF HeltecInv, StageInv, H!HelloAck, H!UnlessHandshake, H!StageAfterAck
<1>1. PICK e \in H!Luck : H!Pipe(H!Load(p, H!Record("client_auth"), "authenticated", e))
  BY DEF H!HelloAck
<1>2. PICK type \in Handshake, a \in Actions \ H!Kinds :
        H!Pipe(H!Load(p, H!Record(type), a, e)) /\ type = "client_auth" /\ a = "authenticated"
  BY <1>1 DEF Handshake, H!RecordTypes, Actions, H!Kinds
<1>3. UNCHANGED <<nvs, bleLink, conn, scan, wifiRadio, window, heard>> /\ stage' # "authenticated"
  BY <1>0 DEF H!radioVars
<1>4. p.wire = << >>
  BY <1>0 DEF HeltecInv, HandInv
<1>5. /\ IsPipe(p)' /\ p'.rec.type = type /\ p'.rec.seq = 0 /\ p'.action = a /\ p'.pending = << >>
      /\ Fed(p)' /\ TurnInv' /\ TagInv' /\ ScanInv' /\ LookInv'
      /\ p.wire = << >> => \/ p'.wire = << >>
                           \/ p'.wire = << [rec |-> p'.rec, last |-> p'.left = 0] >>
  BY <1>0, <1>2, <1>3, HandLoad
<1>6. TypeInv'
  BY <1>0, <1>5 DEF HeltecInv, TypeInv, H!radioVars
<1>7. StageInv'
  BY <1>0, <1>2, <1>5 DEF StageInv
<1>8. HandInv'
  BY <1>0, <1>2, <1>4, <1>5 DEF HandInv
<1> QED BY <1>5, <1>6, <1>7, <1>8 DEF HeltecInv


(* The session and the scans.                                                *)

LEMMA SessionSend ==
  ASSUME HeltecInv, bleLink = "up", stage = "authenticated",
         NEW r \in Rec, NEW a \in {"none"} \cup H!Kinds, NEW d \in BOOLEAN, ~ d, NEW e \in H!Luck,
         NEW no \in BOOLEAN, H!Refused(p, d) => no,
         p' = (IF no THEN H!Closed(p) ELSE H!Send(p, r, a, d, e)), raced' = raced \cup H!Races(p'), Tag(r) \in Fine,
         a \in H!Kinds => ~ Going(p, a),
         UNCHANGED <<mode, nvs, bleLink, conn, setup, stage, heard>>
  PROVE  /\ IsPipe(p)' /\ StageInv' /\ Fed(p)' /\ HandInv' /\ TurnInv' /\ TagInv'
         /\ Once(p)' /\ (p'.lost => Raced("send_in_window")') /\ (p.closing => p'.closing)
         /\ no => p'.closing
         /\ \A k \in H!Kinds : Going(p, k)' => Going(p, k) \/ (a = k /\ ~ no)
         /\ a \in H!Kinds /\ ~ no => Going(p, a)'
         /\ \A k \in H!Kinds : Going(p, k) => Going(p, k)' \/ p'.closing \/ p'.lost
<1>1. PICK q : q = p
  OBVIOUS
<1>2. PICK s : s = IF no THEN H!Closed(q) ELSE H!Send(q, r, a, d, e)
  OBVIOUS
<1>3. p' = s /\ raced \subseteq raced'
  BY <1>1, <1>2
<1>4. (H!Refused(q, d) => no) /\ IsPipe(q) /\ q.seq # 0 /\ Fed(q) /\ Once(q) /\ (a \in H!Kinds => ~ Going(q, a))
  BY <1>1 DEF HeltecInv, TypeInv, StageInv, ScanInv
<1>5. /\ IsPipe(s) /\ (q.closing => s.closing) /\ s.seq # 0
      /\ no => s.closing
      /\ s.action \in {"none"} \cup H!Kinds \/ s.action = q.action
      /\ \A G : Only(q, G) /\ Tag(r) \in G => Only(s, G)
      /\ Once(s)
      /\ \A k \in H!Kinds : Going(s, k) => Going(q, k) \/ (a = k /\ ~ no)
      /\ a \in H!Kinds /\ ~ no => Going(s, a)
  BY <1>2, <1>4, SendIs
<1>6. /\ ~ d => Fed(s)
      /\ \A k \in H!Kinds : Going(q, k) => Going(s, k) \/ s.closing \/ s.lost
      /\ q.lost => s.lost
  BY <1>2, <1>4, SendOutside
<1>7. StageInv'
  <2>1. setup = "ready" /\ mode = "runtime"
    BY DEF HeltecInv, StageInv
  <2>2. q.action # "authenticated" /\ q.action # "complete"
    BY <1>1, <2>1 DEF HeltecInv, StageInv
  <2>3. s.action # "authenticated" /\ s.action # "complete"
    BY <1>5, <2>2 DEF H!Kinds
  <2> QED BY <1>3, <1>5, <2>1, <2>3 DEF StageInv
<1>8. HandInv'
  BY DEF HeltecInv, HandInv, H!Has
<1>9. TurnInv'
  <2>1. CASE q.closing
    BY <1>3, <1>5, <2>1 DEF TurnInv
  <2>2. CASE ~ q.closing
    <3>1. Turn(q, heard, q.seq)
      BY <1>1, <2>2 DEF HeltecInv, TurnInv, NextNumber
    <3>2. PICK h : h = heard
      OBVIOUS
    <3>3. s.closing \/ Turn(s, h, s.seq)
      BY <1>2, <1>4, <3>1, <3>2, TurnSend
    <3>4. s.seq = NextNumber'
      BY <1>3 DEF NextNumber
    <3>5. p'.closing \/ Turn(p, heard, NextNumber)'
      BY <1>3, <3>2, <3>3, <3>4, Stateless
    <3> QED BY <3>5 DEF TurnInv
  <2> QED BY <2>1, <2>2
<1>10. TagInv'
  <2>1. Fine \subseteq Fine'
    BY <1>3, FineGrows
  <2>2. Only(q, Fine)
    BY <1>1 DEF HeltecInv, TagInv
  <2>3. Only(s, Fine)
    BY <1>5, <2>2
  <2>4. Only(p', Fine')
    BY <1>3, <2>1, <2>3 DEF Only
  <2> QED BY <2>1, <2>4, Stateless DEF HeltecInv, TagInv
<1>11. p'.lost => Raced("send_in_window")'
  BY DEF H!Races, Raced
<1>12. \A k \in H!Kinds : Going(s, k) <=> Going(p, k)'
  BY <1>3, Stateless
<1> QED BY <1>1, <1>3, <1>5, <1>6, <1>7, <1>8, <1>9, <1>10, <1>11, <1>12, Stateless

\* A record that goes to the client without a batch behind it.
LEMMA Replies ==
  ASSUME HeltecInv, H!Received, NEW type \in {"capability_response", "error"}, NEW e \in H!Luck,
         H!Pipe(H!Send(p, H!Record(type), "none", FALSE, e)), UNCHANGED <<H!radioVars, H!UnlessCommand>>
  PROVE  HeltecInv'
<1> USE DEF H!radioVars, H!UnlessCommand, H!linkVars
<1>1. PICK r : r = H!Record(type)
  OBVIOUS
<1>2. PICK a : a = "none"
  OBVIOUS
<1>3. PICK d \in BOOLEAN : d = FALSE
  OBVIOUS
<1>11. PICK no \in BOOLEAN : no <=> H!Refused(p, d)
  OBVIOUS
<1>4. /\ p' = (IF no THEN H!Closed(p) ELSE H!Send(p, r, a, d, e))
      /\ raced' = raced \cup H!Races(p')
  BY <1>1, <1>2, <1>3, <1>11 DEF H!Pipe, H!Send
<1>5. r \in Rec /\ Tag(r) \in Fine /\ a \in {"none"} \cup H!Kinds /\ a \notin H!Kinds /\ ~ d
  <2>1. type \in H!RecordTypes /\ type \notin {"partial", "complete", "pair_complete"}
    BY DEF H!RecordTypes
  <2>2. conn \in 0..MaxConnections /\ <<type, conn>> \in Fine
    BY <2>1, FineHas DEF HeltecInv, TypeInv
  <2>3. r \in Rec /\ Tag(r) = <<type, conn>>
    BY <1>1, <2>1, <2>2, RecordIs
  <2> QED BY <1>2, <1>3, <2>2, <2>3 DEF H!Kinds
<1>6. bleLink = "up" /\ stage = "authenticated" /\ commands' \in Nat
  BY DEF H!Received, H!InSession, HeltecInv, TypeInv
<1>7. /\ IsPipe(p)' /\ StageInv' /\ Fed(p)' /\ HandInv' /\ TurnInv' /\ TagInv'
      /\ Once(p)' /\ (p'.lost => Raced("send_in_window")') /\ (p.closing => p'.closing)
      /\ \A k \in H!Kinds : Going(p, k)' => Going(p, k) \/ (a = k /\ ~ no)
      /\ \A k \in H!Kinds : Going(p, k) => Going(p, k)' \/ p'.closing \/ p'.lost
  BY <1>4, <1>5, <1>6, <1>11, SessionSend
<1>8. TypeInv'
  BY <1>6, <1>7 DEF HeltecInv, TypeInv
<1>9. ScanInv'
  <2>1. \A k \in H!Kinds : Going(p, k)' => Going(p, k)
    BY <1>5, <1>7
  <2>2. raced \subseteq raced'
    BY <1>4
  <2>3. UNCHANGED <<scan, wifiRadio, window, conn>>
    OBVIOUS
  <2> QED BY <1>6, <1>7, <2>1, <2>2, <2>3, ScanKeeps DEF HeltecInv
<1>10. LookInv'
  BY <1>6 DEF LookInv
<1> QED BY <1>7, <1>8, <1>9, <1>10 DEF HeltecInv

LEMMA CommandSteps ==
  ASSUME HeltecInv, NEW k \in H!Kinds, H!Answered \/ H!SessionEnds \/ H!ScanRefused(k)
  PROVE  HeltecInv'
<1>1. CASE H!Answered
  BY <1>1, Replies DEF H!Answered
<1>2. CASE H!ScanRefused(k)
  BY <1>2, Replies DEF H!ScanRefused
<1>3. CASE H!SessionEnds
  <2>1. bleLink = "up" /\ p' = H!Closed(p) /\ raced \subseteq raced' /\ stage' = stage
        /\ UNCHANGED <<mode, nvs, bleLink, conn, H!radioVars, heard, setup>>
    BY <1>3 DEF H!SessionEnds, H!InSession, H!UnlessCommand, H!linkVars
  <2>2. reason' \in {"normal", "auth_failed", "unknown_board"} /\ commands' \in Nat
    BY <1>3 DEF H!SessionEnds, H!UnlessCommand, H!linkVars, HeltecInv, TypeInv
  <2> QED BY <2>1, <2>2, Closes
<1> QED BY <1>1, <1>2, <1>3

\* The pipeline is left alone.
LEMMA PipeAlone ==
  ASSUME HeltecInv, UNCHANGED <<p, raced, H!linkVars, stage, heard>>
  PROVE  StageInv' /\ Fed(p)' /\ HandInv' /\ TurnInv' /\ TagInv' /\ IsPipe(p)' /\ Once(p)'
         /\ (p'.lost => Raced("send_in_window")') /\ \A k \in H!Kinds : Going(p, k)' <=> Going(p, k)
<1> USE DEF H!linkVars
<1>1. StageInv' /\ Fed(p)' /\ HandInv'
  BY DEF HeltecInv, StageInv, Empty, Fed, HandInv, H!Has
<1>2. TurnInv'
  BY DEF HeltecInv, TurnInv, Turn, NextNumber, Out
<1>3. TagInv'
  BY DEF HeltecInv, TagInv, Fine, Only
<1>4. IsPipe(p)' /\ Once(p)' /\ \A k \in H!Kinds : Going(p, k)' <=> Going(p, k)
  BY DEF HeltecInv, TypeInv, ScanInv, IsPipe, Once, Going, Waiting
<1>5. p'.lost => Raced("send_in_window")'
  BY DEF HeltecInv, ScanInv, Raced
<1> QED BY <1>1, <1>2, <1>3, <1>4, <1>5

LEMMA ScanCommandStep == ASSUME HeltecInv, NEW k \in H!Kinds, H!ScanCommand(k) PROVE HeltecInv'
<1> USE DEF H!UnlessCommand
<1>1. StageInv' /\ Fed(p)' /\ HandInv' /\ TurnInv' /\ TagInv' /\ IsPipe(p)' /\ Once(p)'
      /\ (p'.lost => Raced("send_in_window")') /\ \A j \in H!Kinds : Going(p, j)' <=> Going(p, j)
  BY PipeAlone DEF H!ScanCommand
<1>2. conn \in 0..MaxConnections /\ scan \in [H!Kinds -> Scan]
  BY DEF HeltecInv, TypeInv
<1>3. /\ scan' \in [H!Kinds -> Scan] /\ \A j \in H!Kinds : j # k => scan'[j] = scan[j]
      /\ scan'[k].busy /\ scan'[k].conn = conn
  <2> DEFINE x == [busy |-> TRUE, left |-> 0, conn |-> conn]
  <2>1. x \in Scan /\ x.busy /\ x.conn = conn
    BY <1>2, Bounds, SMT DEF Scan
  <2>2. scan' = [scan EXCEPT ![k] = x]
    BY DEF H!ScanCommand, H!Fresh
  <2> HIDE DEF x
  <2> QED BY <1>2, <2>1, <2>2
<1>4. UNCHANGED <<conn, mode, bleLink, stage, raced>> /\ bleLink = "up" /\ ~ scan[k].busy
      /\ commands' \in Nat /\ reconnect' = reconnect
  BY DEF H!ScanCommand, H!Received, H!InSession, H!linkVars, HeltecInv, TypeInv
<1>5. TypeInv'
  <2>1. wifiRadio' \in {"idle", "scanning", "event", "done"}
        /\ window' \in BOOLEAN /\ disc' \in BOOLEAN
    BY DEF H!ScanCommand, HeltecInv, TypeInv
  <2>2. UNCHANGED <<nvs, setup, reason, heard>>
    BY DEF H!ScanCommand, H!linkVars
  <2>3. TypeInv
    BY DEF HeltecInv
  <2> QED BY <1>1, <1>3, <1>4, <2>1, <2>2, <2>3 DEF TypeInv
<1>6. \A j \in H!Kinds : ~ scan[j].busy => ~ Going(p, j)
  BY DEF HeltecInv, ScanInv, H!Chained
<1>7. ~ H!Chained(k)' /\ \A j \in H!Kinds : j # k => (H!Chained(j)' <=> H!Chained(j))
  BY <1>3 DEF H!ScanCommand, H!Chained, H!Kinds
<1>8. ScanInv'
  <2>1. (wifiRadio' # "idle" => scan'["wifi"].busy) /\ (window' => scan'["ble"].busy)
    BY <1>3 DEF H!ScanCommand, HeltecInv, ScanInv, H!Kinds
  <2>2. ASSUME NEW j \in H!Kinds
        PROVE  /\ Going(p, j)' => H!Chained(j)' /\ scan'[j].left >= 1
               /\ H!Chained(j)' => p'.closing \/ Going(p, j)' \/ Raced("drop_mid_chain")'
                                              \/ Raced("send_in_window")'
               /\ stage' = "authenticated" /\ scan'[j].busy =>
                    scan'[j].conn = conn' \/ Raced("fast_reconnect")'
    <3>1. CASE j = k
      BY <1>1, <1>3, <1>4, <1>6, <1>7, <3>1
    <3>2. CASE j # k
      <4>1. p' = p
        BY DEF H!ScanCommand
      <4> QED BY <1>1, <1>3, <1>4, <1>7, <3>2, <4>1 DEF HeltecInv, ScanInv, Raced
    <3> QED BY <3>1, <3>2
  <2> QED BY <1>1, <2>1, <2>2 DEF ScanInv
<1>9. LookInv'
  BY <1>4 DEF LookInv
<1> QED BY <1>1, <1>5, <1>8, <1>9 DEF HeltecInv

LEMMA WifiScanStep == ASSUME HeltecInv, H!WifiScanEnds \/ H!WifiScanDone PROVE HeltecInv'
<1> USE DEF H!UnlessScan
<1>0. /\ UNCHANGED <<p, scan, window, disc, raced, H!UnlessScan>>
      /\ wifiRadio # "idle" /\ wifiRadio' \in {"event", "done"}
  BY DEF H!WifiScanEnds, H!WifiScanDone
<1>1. StageInv' /\ Fed(p)' /\ HandInv' /\ TurnInv' /\ TagInv' /\ IsPipe(p)' /\ Once(p)'
      /\ (p'.lost => Raced("send_in_window")') /\ \A j \in H!Kinds : Going(p, j)' <=> Going(p, j)
  BY <1>0, PipeAlone
<1>2. TypeInv'
  BY <1>0, <1>1 DEF H!linkVars, HeltecInv, TypeInv
<1>3. ScanInv'
  <2>1. \A j \in H!Kinds : H!Chained(j)' <=> H!Chained(j)
    BY <1>0 DEF H!Chained
  <2>2. UNCHANGED <<scan, window, p, raced, stage, conn>>
    BY <1>0 DEF H!linkVars
  <2> QED BY <1>0, <1>1, <2>1, <2>2 DEF HeltecInv, ScanInv, Raced
<1>4. LookInv'
  BY <1>0 DEF H!linkVars, HeltecInv, LookInv, Raced
<1> QED BY <1>1, <1>2, <1>3, <1>4 DEF HeltecInv

\* The results of a scan of kind k, whose driver or callout is done with it.
LEMMA ResultsIs ==
  ASSUME HeltecInv, NEW k \in H!Kinds, H!Results(k), ~ H!Chained(k), scan[k].busy,
         UNCHANGED <<H!linkVars, stage, reconnect, commands, heard>>,
         IF k = "wifi" THEN wifiRadio' = "idle" /\ UNCHANGED window
                       ELSE window' = FALSE /\ UNCHANGED wifiRadio
  PROVE  /\ IsPipe(p)' /\ scan' \in [H!Kinds -> Scan] /\ raced \subseteq raced'
         /\ StageInv' /\ Fed(p)' /\ HandInv' /\ TurnInv' /\ TagInv' /\ ScanInv'
<1>1. ~ Going(p, k) /\ scan \in [H!Kinds -> Scan] /\ conn \in 0..MaxConnections
  BY DEF HeltecInv, TypeInv, ScanInv
<1>2. \A j \in H!Kinds : j # k /\ scan'[j] = scan[j] => (H!Chained(j)' <=> H!Chained(j))
  BY DEF H!Chained, H!Kinds
<1>3. H!Chained(k)' <=> scan'[k].busy
  BY DEF H!Chained, H!Kinds
<1>4. \A t : raced \subseteq raced' => (Raced(t) => Raced(t)')
  BY DEF Raced
<1>5. CASE H!Discards
  <2>0. scan' = H!Discarded(k) /\ UNCHANGED <<p, raced>>
    BY <1>5 DEF H!Results
  <2>1. StageInv' /\ Fed(p)' /\ HandInv' /\ TurnInv' /\ TagInv' /\ IsPipe(p)' /\ Once(p)'
        /\ (p'.lost => Raced("send_in_window")') /\ \A j \in H!Kinds : Going(p, j)' <=> Going(p, j)
    BY <2>0, PipeAlone
  <2>2. /\ scan' \in [H!Kinds -> Scan] /\ \A j \in H!Kinds : j # k => scan'[j] = scan[j]
        /\ ~ scan'[k].busy
    <3> DEFINE x == [scan[k] EXCEPT !.busy = FALSE]
    <3>1. x \in Scan
      BY <1>1, Zenon DEF Scan
    <3>2. ~ x.busy
      BY <1>1, <3>1, SMT DEF Scan
    <3>3. scan' = [scan EXCEPT ![k] = x]
      BY <2>0 DEF H!Discarded
    <3> HIDE DEF x
    <3> QED BY <1>1, <3>1, <3>2, <3>3
  <2>3. ScanInv'
    <3>1. (wifiRadio' # "idle" => scan'["wifi"].busy) /\ (window' => scan'["ble"].busy)
      BY <2>2 DEF HeltecInv, ScanInv, H!Kinds
    <3>2. ASSUME NEW j \in H!Kinds
          PROVE  /\ Going(p, j)' => H!Chained(j)' /\ scan'[j].left >= 1
                 /\ H!Chained(j)' => p'.closing \/ Going(p, j)' \/ Raced("drop_mid_chain")'
                                                \/ Raced("send_in_window")'
                 /\ stage' = "authenticated" /\ scan'[j].busy =>
                      scan'[j].conn = conn' \/ Raced("fast_reconnect")'
      <4>1. CASE j = k
        BY <1>1, <1>3, <2>1, <2>2, <4>1
      <4>2. CASE j # k
        BY <1>2, <2>0, <2>1, <2>2, <4>2 DEF HeltecInv, ScanInv, Raced, H!linkVars
      <4> QED BY <4>1, <4>2
    <3> QED BY <2>1, <3>1, <3>2 DEF ScanInv
  <2> QED BY <2>0, <2>1, <2>2, <2>3
<1>6. CASE ~ H!Discards
  <2>0. bleLink = "up" /\ stage = "authenticated"
    BY <1>6 DEF H!Discards, H!InSession
  <2>1. PICK n \in 1..MaxBatches, e \in H!Luck :
          H!Pipe(H!SendBatch(k, n, FALSE, p, e).pipe) /\ scan' = H!SendBatch(k, n, FALSE, p, e).scan
    BY <1>6 DEF H!Results
  <2>2. PICK d \in BOOLEAN : d = FALSE
    OBVIOUS
  <2>3. PICK b : b = H!SendBatch(k, n, d, p, e)
    OBVIOUS
  <2>4. p' = b.pipe /\ scan' = b.scan /\ raced' = raced \cup H!Races(p')
    BY <2>1, <2>2, <2>3 DEF H!Pipe
  <2>5. PICK q : q = p
    OBVIOUS
  <2>6. PICK r \in Rec, a \in {"none"} \cup H!Kinds, no \in BOOLEAN :
          /\ H!Refused(q, d) => no
          /\ r.type \in {"partial", "complete"} /\ r.seq = 0 /\ r.conn = scan[k].conn
          /\ b.pipe = IF no THEN H!Closed(q) ELSE H!Send(q, r, a, d, e)
          /\ IF n = 1 THEN a = "none" ELSE a = k
          /\ b.scan \in [H!Kinds -> Scan]
          /\ \A j \in H!Kinds : j # k => b.scan[j] = scan[j]
          /\ b.scan[k].busy = (n # 1 /\ ~ no)
          /\ b.scan[k].left = n - 1 /\ b.scan[k].conn = scan[k].conn
    BY <1>1, <2>3, <2>5, BatchIs
  <2>7. Tag(r) \in Fine
    <3>1. scan[k].conn = conn \/ Raced("fast_reconnect")
      BY <2>0 DEF HeltecInv, ScanInv
    <3>2. Tag(r) \in H!RecordTypes \X (0..MaxConnections) /\ Tag(r)[1] = r.type /\ Tag(r)[2] = r.conn
      BY <2>6, RecFields DEF Tag
    <3> QED BY <2>6, <3>1, <3>2 DEF Fine, Raced
  <2>8. a \in H!Kinds => a = k /\ n # 1 /\ ~ Going(p, a)
    BY <1>1, <2>6 DEF H!Kinds
  <2>9. UNCHANGED <<mode, nvs, bleLink, conn, setup, stage, heard>> /\ ~ d
    BY <2>2 DEF H!linkVars
  <2>10. /\ p' = (IF no THEN H!Closed(p) ELSE H!Send(p, r, a, d, e))
         /\ H!Refused(p, d) => no
    BY <2>4, <2>5, <2>6
  <2>11. /\ IsPipe(p)' /\ StageInv' /\ Fed(p)' /\ HandInv' /\ TurnInv' /\ TagInv'
         /\ Once(p)' /\ (p'.lost => Raced("send_in_window")') /\ (p.closing => p'.closing)
         /\ no => p'.closing
         /\ \A j \in H!Kinds : Going(p, j)' => Going(p, j) \/ (a = j /\ ~ no)
         /\ a \in H!Kinds /\ ~ no => Going(p, a)'
         /\ \A j \in H!Kinds : Going(p, j) => Going(p, j)' \/ p'.closing \/ p'.lost
    BY <2>0, <2>4, <2>7, <2>8, <2>9, <2>10, SessionSend
  <2>12. /\ scan' \in [H!Kinds -> Scan] /\ \A j \in H!Kinds : j # k => scan'[j] = scan[j]
         /\ scan'[k].busy = (n # 1 /\ ~ no)
         /\ scan'[k].left = n - 1 /\ scan'[k].conn = scan[k].conn
    BY <2>4, <2>5, <2>6
  <2>13. raced \subseteq raced'
    BY <2>4
  <2>14. n # 1 => n - 1 >= 1 /\ a = k
    BY <2>6, SMT
  <2>15. ScanInv'
    <3>1. (wifiRadio' # "idle" => scan'["wifi"].busy) /\ (window' => scan'["ble"].busy)
      BY <2>12 DEF HeltecInv, ScanInv, H!Kinds
    <3>2. ASSUME NEW j \in H!Kinds
          PROVE  /\ Going(p, j)' => H!Chained(j)' /\ scan'[j].left >= 1
                 /\ H!Chained(j)' => p'.closing \/ Going(p, j)' \/ Raced("drop_mid_chain")'
                                                \/ Raced("send_in_window")'
                 /\ stage' = "authenticated" /\ scan'[j].busy =>
                      scan'[j].conn = conn' \/ Raced("fast_reconnect")'
      <4>1. CASE j = k
        <5>1. Going(p, j)' => n # 1 /\ ~ no
          BY <1>1, <2>8, <2>11, <4>1
        <5>2. H!Chained(j)' => Going(p, j)'
          BY <1>3, <2>11, <2>12, <2>14, <4>1
        <5>3. Going(p, j)' => H!Chained(j)' /\ scan'[j].left >= 1
          BY <1>3, <2>12, <2>14, <4>1, <5>1
        <5>4. scan'[j].conn = conn' \/ Raced("fast_reconnect")'
          BY <1>4, <2>0, <2>9, <2>12, <2>13, <4>1 DEF HeltecInv, ScanInv
        <5> QED BY <5>2, <5>3, <5>4
      <4>2. CASE j # k
        <5>1. Going(p, j)' => Going(p, j)
          BY <2>8, <2>11, <4>2
        <5>2. scan'[j] = scan[j] /\ (H!Chained(j)' <=> H!Chained(j))
          BY <1>2, <2>12, <4>2
        <5>3. Going(p, j)' => H!Chained(j)' /\ scan'[j].left >= 1
          BY <5>1, <5>2 DEF HeltecInv, ScanInv
        <5>4. H!Chained(j) => p'.closing \/ Going(p, j)' \/ Raced("drop_mid_chain")'
                              \/ Raced("send_in_window")'
          BY <1>4, <2>11, <2>13 DEF HeltecInv, ScanInv
        <5>5. scan[j].busy => scan[j].conn = conn \/ Raced("fast_reconnect")'
          BY <1>4, <2>0, <2>13 DEF HeltecInv, ScanInv
        <5> QED BY <2>9, <5>2, <5>3, <5>4, <5>5
      <4> QED BY <4>1, <4>2
    <3> QED BY <2>11, <3>1, <3>2 DEF ScanInv
  <2> QED BY <2>11, <2>12, <2>13, <2>15
<1> QED BY <1>5, <1>6

LEMMA ResultsStep == ASSUME HeltecInv, H!WifiScanDoneCb \/ H!BleWindowCloses PROVE HeltecInv'
<1> USE DEF H!UnlessScan
<1>1. CASE H!WifiScanDoneCb
  <2>1. scan["wifi"].busy /\ ~ H!Chained("wifi")
    BY <1>1 DEF H!WifiScanDoneCb, HeltecInv, ScanInv, H!Chained
  <2>2. PICK k \in H!Kinds : k = "wifi"
    BY DEF H!Kinds
  <2>3. H!Results(k) /\ ~ H!Chained(k) /\ scan[k].busy
        /\ UNCHANGED <<H!linkVars, stage, reconnect, commands, heard>>
        /\ IF k = "wifi" THEN wifiRadio' = "idle" /\ UNCHANGED window
                         ELSE window' = FALSE /\ UNCHANGED wifiRadio
    BY <1>1, <2>1, <2>2 DEF H!WifiScanDoneCb
  <2>4. /\ IsPipe(p)' /\ scan' \in [H!Kinds -> Scan] /\ raced \subseteq raced'
        /\ StageInv' /\ Fed(p)' /\ HandInv' /\ TurnInv' /\ TagInv' /\ ScanInv'
    BY <2>3, ResultsIs
  <2>5. TypeInv'
    BY <1>1, <2>4 DEF H!WifiScanDoneCb, H!linkVars, HeltecInv, TypeInv
  <2>6. LookInv'
    BY <1>1, <2>4 DEF H!WifiScanDoneCb, H!linkVars, HeltecInv, LookInv, Raced
  <2> QED BY <2>4, <2>5, <2>6 DEF HeltecInv
<1>2. CASE H!BleWindowCloses
  <2>1. scan["ble"].busy /\ ~ H!Chained("ble")
    BY <1>2 DEF H!BleWindowCloses, HeltecInv, ScanInv, H!Chained
  <2>2. PICK k \in H!Kinds : k = "ble"
    BY DEF H!Kinds
  <2>3. H!Results(k) /\ ~ H!Chained(k) /\ scan[k].busy
        /\ UNCHANGED <<H!linkVars, stage, reconnect, commands, heard>>
        /\ IF k = "wifi" THEN wifiRadio' = "idle" /\ UNCHANGED window
                         ELSE window' = FALSE /\ UNCHANGED wifiRadio
    BY <1>2, <2>1, <2>2 DEF H!BleWindowCloses
  <2>4. /\ IsPipe(p)' /\ scan' \in [H!Kinds -> Scan] /\ raced \subseteq raced'
        /\ StageInv' /\ Fed(p)' /\ HandInv' /\ TurnInv' /\ TagInv' /\ ScanInv'
    BY <2>3, ResultsIs
  <2>0. UNCHANGED <<H!linkVars, stage, reconnect, commands, heard, wifiRadio>> /\ window' \in BOOLEAN
        /\ disc' \in BOOLEAN
    BY <1>2 DEF H!BleWindowCloses
  <2>5. TypeInv'
    BY <2>0, <2>4 DEF H!linkVars, HeltecInv, TypeInv
  <2>6. LookInv'
    BY <1>2, <2>4 DEF H!BleWindowCloses, H!linkVars, HeltecInv, LookInv, Raced
  <2> QED BY <2>4, <2>5, <2>6 DEF HeltecInv
<1> QED BY <1>1, <1>2


(* write_complete.                                                           *)

\* What holds whatever the completion does.
LEMMA AnswerIs ==
  ASSUME HeltecInv, bleLink = "up", p.wire # << >>, NEW t, t = [p EXCEPT !.wire = Tail(@)],
         heard' = (IF Head(p.wire).last THEN Append(heard, Head(p.wire).rec) ELSE heard)
  PROVE  /\ IsPipe(t) /\ t.rec = p.rec /\ t.left = p.left /\ t.action = p.action
         /\ t.pending = p.pending /\ t.seq = p.seq /\ t.lost = p.lost /\ t.closing = p.closing
         /\ t.wire = Tail(p.wire) /\ setup = "ready"
         /\ heard' \in Seq(Rec) /\ \A type : H!Has(type) => H!Has(type)'
         /\ Only(t, Fine) /\ \A i \in DOMAIN heard' : Tag(heard'[i]) \in Fine
         /\ p.closing \/ Turn(t, heard', NextNumber)
<1>1. PICK q : q = p
  OBVIOUS
<1>2. IsPipe(q) /\ q.wire # << >> /\ t = [q EXCEPT !.wire = Tail(@)] /\ Only(q, Fine)
  BY <1>1 DEF HeltecInv, TypeInv, TagInv
<1>3. /\ IsPipe(t) /\ t.rec = q.rec /\ t.left = q.left /\ t.action = q.action
      /\ t.pending = q.pending /\ t.seq = q.seq /\ t.lost = q.lost /\ t.closing = q.closing
      /\ t.wire = Tail(q.wire)
      /\ Head(q.wire) \in Entry
      /\ \A G : Only(q, G) => Only(t, G) /\ Tag(Head(q.wire).rec) \in G
  BY <1>2, TailIs
<1>4. setup = "ready"
  BY DEF HeltecInv, StageInv, Empty
<1>5. PICK w : w = Head(q.wire)
  OBVIOUS
<1>6. w.rec \in Rec /\ heard \in Seq(Rec) /\ Tag(w.rec) \in Fine /\ Only(t, Fine)
  BY <1>2, <1>3, <1>5, RecFields DEF HeltecInv, TypeInv
<1>7. heard' = heard \/ heard' = Append(heard, w.rec)
  BY <1>1, <1>5
<1>8. /\ \A i \in DOMAIN heard : i \in DOMAIN heard' /\ heard'[i] = heard[i]
      /\ \A i \in DOMAIN heard' : (i \in DOMAIN heard /\ heard'[i] = heard[i]) \/ heard'[i] = w.rec
  BY <1>6, <1>7, DomainAppend
<1>9. heard' \in Seq(Rec)
  BY <1>6, <1>7, SeqAppend
<1>10. \A type : H!Has(type) => H!Has(type)'
  BY <1>8 DEF H!Has
<1>11. \A i \in DOMAIN heard' : Tag(heard'[i]) \in Fine
  BY <1>6, <1>8 DEF HeltecInv, TagInv
<1>12. ASSUME ~ p.closing PROVE Turn(t, heard', NextNumber)
  <2>1. PICK h : h = heard
    OBVIOUS
  <2>2. PICK h2 : h2 = heard'
    OBVIOUS
  <2>3. PICK s : s = NextNumber
    OBVIOUS
  <2>4. s \in Nat
    BY <2>3, PipeFields DEF NextNumber, HeltecInv, TypeInv
  <2>5. Turn(q, h, s)
    BY <1>1, <1>12, <2>1, <2>3 DEF HeltecInv, TurnInv
  <2>6. h \in Seq(Rec) /\ h2 = (IF Head(q.wire).last THEN Append(h, Head(q.wire).rec) ELSE h)
    BY <1>1, <1>6, <2>1, <2>2
  <2>7. Turn(t, h2, s)
    <3>1. IsPipe(q) /\ q.wire # << >> /\ t.wire = Tail(q.wire) /\ t.left = q.left /\ t.rec = q.rec
      BY <1>2, <1>3
    <3> QED BY ONLY <2>4, <2>5, <2>6, <3>1, TurnTail
  <2> QED BY <2>2, <2>3, <2>7
<1> QED BY <1>1, <1>3, <1>4, <1>6, <1>9, <1>10, <1>11, <1>12

\* The variables that a completion leaves alone.
LEMMA AnswerType ==
  ASSUME HeltecInv, UNCHANGED H!UnlessWrite, IsPipe(p)', heard' \in Seq(Rec), scan' \in [H!Kinds -> Scan],
         nvs' \in {nvs, conn}, stage' \in {stage, "complete_sent", "authenticated"}, bleLink = "up"
  PROVE  TypeInv' /\ LookInv'
<1>0. conn \in H!NoSecret .. MaxConnections
  BY HeltecAssumption, SMT DEF HeltecInv, TypeInv, H!NoSecret
<1>1. TypeInv'
  BY <1>0 DEF HeltecInv, TypeInv, H!UnlessWrite
<1>2. LookInv'
  BY DEF LookInv, H!UnlessWrite
<1> QED BY <1>1, <1>2

LEMMA TagNext ==
  ASSUME NEW q, q = p', Only(q, Fine'), \A i \in DOMAIN heard' : Tag(heard'[i]) \in Fine,
         Fine \subseteq Fine'
  PROVE  TagInv'
BY Stateless DEF TagInv

LEMMA FineNext ==
  ASSUME conn' = conn, nvs' \in {nvs, conn}, raced \subseteq raced'
  PROVE  Fine \subseteq Fine'
BY DEF Fine

LEMMA OnlyMore ==
  ASSUME NEW q, NEW G, NEW L, Only(q, G), G \subseteq L
  PROVE  Only(q, L)
BY DEF Only

LEMMA WriteFailsStep == ASSUME HeltecInv, H!WriteFails PROVE HeltecInv'
<1>0. bleLink = "up" /\ p.wire # << >> /\ UNCHANGED <<nvs, stage, scan, heard, raced, H!UnlessWrite>>
  BY DEF H!WriteFails
<1>1. PICK q : q = p
  OBVIOUS
<1>2. PICK t : t = [p EXCEPT !.wire = Tail(@)]
  OBVIOUS
<1>3. PICK l : l = H!Closed(t)
  OBVIOUS
<1>4. /\ IsPipe(t) /\ t.rec = q.rec /\ t.left = q.left /\ t.action = q.action
      /\ t.pending = q.pending /\ t.seq = q.seq /\ t.lost = q.lost /\ t.closing = q.closing
      /\ t.wire = Tail(q.wire)
      /\ \A G : Only(q, G) => Only(t, G)
  <2>1. IsPipe(q) /\ q.wire # << >> /\ t = [q EXCEPT !.wire = Tail(@)]
    BY <1>0, <1>1, <1>2 DEF HeltecInv, TypeInv
  <2> QED BY <2>1, TailIs
<1>5. /\ IsPipe(l) /\ l.closing
      /\ l.rec = t.rec /\ l.left = t.left /\ l.action = t.action
      /\ l.pending = t.pending /\ l.seq = t.seq /\ l.wire = t.wire
      /\ l.lost = t.lost
  BY <1>3, <1>4, ClosedIs
<1>6. p' = l
  BY <1>2, <1>3 DEF H!WriteFails
<1>7. TypeInv' /\ LookInv'
  BY <1>0, <1>5, <1>6, AnswerType, Stateless DEF HeltecInv, TypeInv
<1>8. setup = "ready" /\ UNCHANGED <<mode, bleLink, conn, setup, wifiRadio, window>>
  BY <1>0 DEF HeltecInv, StageInv, Empty, H!UnlessWrite
<1>9. StageInv'
  BY <1>0, <1>1, <1>4, <1>5, <1>6, <1>8 DEF HeltecInv, StageInv
<1>10. Fed(p)' /\ TurnInv'
  BY <1>5, <1>6 DEF Fed, TurnInv
<1>11. HandInv'
  <2>1. stage = "hello_sent" => Tail(p.wire) = << >>
    <3>1. stage = "hello_sent" => p.wire = << [rec |-> p.rec, last |-> p.left = 0] >>
      BY <1>0 DEF HeltecInv, HandInv
    <3>2. \A x : Tail(<< x >>) = << >>
      BY SMT
    <3> QED BY <3>1, <3>2
  <2> QED BY <1>0, <1>1, <1>4, <1>5, <1>6, <2>1 DEF HeltecInv, HandInv, H!Has
<1>12. TagInv'
  <2>1. Fine \subseteq Fine'
    BY <1>0, <1>8, FineGrows
  <2>2. Only(l, Fine)
    BY <1>1, <1>4, <1>5 DEF HeltecInv, TagInv, Only
  <2>3. Only(l, Fine')
    BY <2>1, <2>2, OnlyMore
  <2>4. \A i \in DOMAIN heard' : Tag(heard'[i]) \in Fine
    BY <1>0 DEF HeltecInv, TagInv
  <2> QED BY <1>6, <2>1, <2>3, <2>4, TagNext
<1>13. ScanInv'
  <2>1. Once(p)' /\ \A k \in H!Kinds : Going(p, k)' <=> Going(p, k)
    BY <1>1, <1>4, <1>5, <1>6 DEF HeltecInv, ScanInv, Once, Going, Waiting
  <2>2. p'.lost => Raced("send_in_window")'
    BY <1>0, <1>1, <1>4, <1>5, <1>6 DEF HeltecInv, ScanInv, Raced
  <2>3. p'.closing
    BY <1>5, <1>6
  <2> QED BY <1>0, <1>8, <2>1, <2>2, <2>3, ScanKeeps DEF HeltecInv
<1> QED BY <1>7, <1>9, <1>10, <1>11, <1>12, <1>13 DEF HeltecInv

-----------------------------------------------------------------------------
(* An answered write, one lemma per branch.  t is the pipeline without the   *)
(* write, f the same with its action taken.                                  *)

Answer(t) ==
  /\ t = [p EXCEPT !.wire = Tail(@)] /\ bleLink = "up" /\ p.wire # << >>
  /\ heard' = (IF Head(p.wire).last THEN Append(heard, Head(p.wire).rec) ELSE heard)
  /\ UNCHANGED H!UnlessWrite

LEMMA NextFragment ==
  ASSUME HeltecInv, NEW t, Answer(t), t.left > 0, NEW e \in H!Luck,
         H!Pipe(H!Write(t, e.ok)), UNCHANGED <<nvs, stage, scan>>
  PROVE  HeltecInv'
<1>0. /\ t = [p EXCEPT !.wire = Tail(@)] /\ bleLink = "up" /\ p.wire # << >>
      /\ heard' = (IF Head(p.wire).last THEN Append(heard, Head(p.wire).rec) ELSE heard)
      /\ UNCHANGED H!UnlessWrite /\ UNCHANGED <<mode, bleLink, conn, setup, wifiRadio, window>>
  BY DEF Answer, H!UnlessWrite
<1>1. /\ IsPipe(t) /\ t.rec = p.rec /\ t.left = p.left /\ t.action = p.action
      /\ t.pending = p.pending /\ t.seq = p.seq /\ t.lost = p.lost /\ t.closing = p.closing
      /\ t.wire = Tail(p.wire) /\ setup = "ready"
      /\ heard' \in Seq(Rec) /\ \A type : H!Has(type) => H!Has(type)'
      /\ Only(t, Fine) /\ \A i \in DOMAIN heard' : Tag(heard'[i]) \in Fine
      /\ p.closing \/ Turn(t, heard', NextNumber)
  BY <1>0, AnswerIs
<1>2. PICK ok \in BOOLEAN : ok = e.ok
  BY DEF H!Luck
<1>3. PICK w : w = H!Write(t, ok)
  OBVIOUS
<1>4. p' = w /\ raced' = raced \cup H!Races(p') /\ raced \subseteq raced'
  BY <1>2, <1>3 DEF H!Pipe
<1>5. /\ IsPipe(w)
      /\ w.rec = t.rec /\ w.action = t.action /\ w.pending = t.pending /\ w.seq = t.seq
      /\ w.lost = t.lost
      /\ t.closing => w.closing
      /\ t.left > 0 \/ Fed(t) => Fed(w)
      /\ \A G : Only(t, G) => Only(w, G)
  BY <1>1, <1>3, WriteIs
<1>6. \/ t.left # 0 /\ w.left = t.left - 1
         /\ w.wire = Append(t.wire, [rec |-> t.rec, last |-> t.left = 1])
      \/ w = H!Closed(t)
  <2>1. t.left # 0
    BY <1>1, PipeFields, SMT
  <2>2. \/ t.left = 0 /\ w = t
        \/ /\ t.left # 0 /\ w.left = t.left - 1 /\ w.closing = t.closing
           /\ w.wire = Append(t.wire, [rec |-> t.rec, last |-> t.left = 1])
        \/ t.left # 0 /\ w = H!Closed(t)
    <3>1. IsPipe(t)
      BY <1>1
    <3> QED BY ONLY <1>2, <1>3, <3>1, WriteCases
  <2> QED BY <2>1, <2>2
<1>7. TypeInv' /\ LookInv'
  BY <1>0, <1>1, <1>4, <1>5, AnswerType, Stateless DEF HeltecInv, TypeInv
<1>8. StageInv'
  BY <1>0, <1>1, <1>4, <1>5 DEF HeltecInv, StageInv
<1>9. Fed(p)'
  BY <1>4, <1>5, Stateless
<1>10. HandInv'
  <2>1. ASSUME stage = "hello_sent"
        PROVE  /\ Head(p.wire) = [rec |-> p.rec, last |-> p.left = 0] /\ t.wire = << >>
               /\ heard' = heard
    <3>1. p.wire = << [rec |-> p.rec, last |-> p.left = 0] >>
      BY <1>0, <2>1 DEF HeltecInv, HandInv
    <3>2. Head(p.wire) = [rec |-> p.rec, last |-> p.left = 0] /\ t.wire = << >>
      <4>1. \A x : Head(<< x >>) = x /\ Tail(<< x >>) = << >>
        BY SMT
      <4> QED BY <1>1, <3>1, <4>1
    <3>3. p.left # 0
      <4>1. \A n \in Nat : n > 0 => n # 0
        BY SMT
      <4>2. t.left \in Nat
        BY <1>1, PipeFields
      <4> QED BY <1>1, <4>1, <4>2
    <3>4. ~ Head(p.wire).last
      <4>1. PICK b \in BOOLEAN : b = (p.left = 0)
        OBVIOUS
      <4>2. \A r : [rec |-> r, last |-> b].last = b
        OBVIOUS
      <4> QED BY <3>2, <3>3, <4>1, <4>2
    <3> QED BY <1>0, <3>2, <3>4
  <2>2. ASSUME stage = "hello_sent"
        PROVE  w.wire = << >> \/ w.wire = << [rec |-> w.rec, last |-> w.left = 0] >>
    <3>1. CASE w = H!Closed(t)
      BY <1>1, <2>1, <2>2, <3>1, ClosedIs
    <3>2. CASE w.left = t.left - 1 /\ w.wire = Append(t.wire, [rec |-> t.rec, last |-> t.left = 1])
      <4>0. t.left \in Nat
        BY <1>1, PipeFields
      <4>1. (w.left = 0) = (t.left = 1)
        <5>1. \A m, n \in Nat : m = n - 1 => (m = 0 <=> n = 1)
          BY SMT
        <5>2. w.left \in Nat /\ w.left = t.left - 1
          BY <1>5, <3>2, PipeFields
        <5>3. w.left = 0 <=> t.left = 1
          BY <4>0, <5>1, <5>2
        <5>4. PICK b \in BOOLEAN : b = (w.left = 0)
          OBVIOUS
        <5>5. PICK c \in BOOLEAN : c = (t.left = 1)
          OBVIOUS
        <5>6. b = c
          BY <5>3, <5>4, <5>5
        <5> QED BY <5>4, <5>5, <5>6
      <4>2. w.wire = << [rec |-> t.rec, last |-> t.left = 1] >>
        <5>1. \A x : Append(<< >>, x) = << x >>
          BY SMT
        <5> QED BY <2>1, <2>2, <3>2, <5>1
      <4> QED BY <1>5, <4>1, <4>2
    <3> QED BY <1>6, <3>1, <3>2
  <2>3. ASSUME stage = "hello_sent"
        PROVE  \/ w.rec.type = "hello" /\ w.action = "none" /\ ~ H!Has("hello")'
               \/ w.rec.type = "client_auth" /\ w.action = "authenticated"
    <3>1. H!Has("hello")' <=> H!Has("hello")
      BY <2>1, <2>3 DEF H!Has
    <3> QED BY <1>0, <1>1, <1>5, <2>3, <3>1 DEF HeltecInv, HandInv
  <2>4. stage = "authenticated" => H!Has("client_auth")'
    BY <1>1 DEF HeltecInv, HandInv
  <2> QED BY <1>4, <2>2, <2>3, <2>4 DEF HandInv
<1>11. TurnInv'
  <2>1. CASE p.closing
    BY <1>1, <1>4, <1>5, <2>1 DEF TurnInv
  <2>2. CASE ~ p.closing
    <3>2. PICK h : h = heard'
      OBVIOUS
    <3>3. PICK s : s = NextNumber
      OBVIOUS
    <3>4. s \in Nat
      BY <3>3, PipeFields DEF NextNumber, HeltecInv, TypeInv
    <3>5. w.closing \/ Turn(w, h, s)
      BY <1>1, <1>3, <2>2, <3>2, <3>3, <3>4, TurnWrite
    <3>6. s = NextNumber'
      BY <1>1, <1>4, <1>5, <3>3 DEF NextNumber
    <3>7. p'.closing \/ Turn(p, heard, NextNumber)'
      BY <1>4, <3>2, <3>5, <3>6, Stateless
    <3> QED BY <3>7 DEF TurnInv
  <2> QED BY <2>1, <2>2
<1>12. TagInv'
  <2>1. Fine \subseteq Fine'
    BY <1>0, <1>4, FineGrows
  <2>2. Only(w, Fine')
    BY <1>1, <1>5, <2>1, OnlyMore
  <2> QED BY <1>1, <1>4, <2>1, <2>2, TagNext
<1>13. ScanInv'
  <2>1. Once(p)' /\ \A k \in H!Kinds : Going(p, k)' <=> Going(p, k)
    BY <1>1, <1>4, <1>5 DEF HeltecInv, ScanInv, Once, Going, Waiting
  <2>2. p'.lost => Raced("send_in_window")'
    BY <1>4 DEF H!Races, Raced
  <2>3. p.closing => p'.closing
    BY <1>1, <1>4, <1>5
  <2> QED BY <1>0, <1>4, <2>1, <2>2, <2>3, ScanKeeps DEF HeltecInv
<1> QED BY <1>7, <1>8, <1>9, <1>10, <1>11, <1>12, <1>13 DEF HeltecInv

\* The last write of a record is answered, and its action is taken: f is what remains.
Taken(f) ==
  /\ IsPipe(f) /\ f.rec = p.rec /\ f.left = 0 /\ p.left = 0 /\ f.action = "none"
  /\ f.pending = p.pending /\ f.seq = p.seq /\ f.lost = p.lost /\ f.closing = p.closing
  /\ f.wire = Tail(p.wire) /\ setup = "ready" /\ bleLink = "up" /\ p.wire # << >>
  /\ heard' = (IF Head(p.wire).last THEN Append(heard, Head(p.wire).rec) ELSE heard)
  /\ heard' \in Seq(Rec) /\ \A type : H!Has(type) => H!Has(type)'
  /\ Only(f, Fine) /\ \A i \in DOMAIN heard' : Tag(heard'[i]) \in Fine
  /\ p.closing \/ Turn(f, heard', NextNumber)
  /\ Once(f) /\ (f.pending # << >> => f.seq # 0)
  /\ \A k \in H!Kinds : Going(f, k) => Going(p, k)
  /\ \A k \in H!Kinds : Going(p, k) => p.action = k \/ Going(f, k)
  /\ \A k \in H!Kinds : p.action = k => ~ Going(f, k)
  /\ UNCHANGED <<mode, bleLink, conn, setup, wifiRadio, window>> /\ UNCHANGED H!UnlessWrite

LEMMA TakenIs ==
  ASSUME HeltecInv, NEW t, Answer(t), ~ (t.left > 0), NEW f, f = [t EXCEPT !.action = "none"]
  PROVE  Taken(f)
<1>0. /\ t = [p EXCEPT !.wire = Tail(@)] /\ bleLink = "up" /\ p.wire # << >>
      /\ heard' = (IF Head(p.wire).last THEN Append(heard, Head(p.wire).rec) ELSE heard)
      /\ UNCHANGED H!UnlessWrite /\ UNCHANGED <<mode, bleLink, conn, setup, wifiRadio, window>>
  BY DEF Answer, H!UnlessWrite
<1>1. /\ IsPipe(t) /\ t.rec = p.rec /\ t.left = p.left /\ t.action = p.action
      /\ t.pending = p.pending /\ t.seq = p.seq /\ t.lost = p.lost /\ t.closing = p.closing
      /\ t.wire = Tail(p.wire) /\ setup = "ready"
      /\ heard' \in Seq(Rec) /\ \A type : H!Has(type) => H!Has(type)'
      /\ Only(t, Fine) /\ \A i \in DOMAIN heard' : Tag(heard'[i]) \in Fine
      /\ p.closing \/ Turn(t, heard', NextNumber)
  BY <1>0, AnswerIs
<1>2. t.left = 0
  BY <1>1, PipeFields, SMT
<1>3. f \in Pipes
  BY <1>1, Zenon DEF IsPipe, Pipes, Actions
<1>4. f.rec = t.rec /\ f.left = t.left /\ f.action = "none" /\ f.pending = t.pending /\ f.seq = t.seq
      /\ f.lost = t.lost /\ f.closing = t.closing /\ f.wire = t.wire
  BY <1>1, SMT DEF IsPipe, Pipes
<1>5. IsPipe(f)
  BY <1>1, <1>3, <1>4 DEF IsPipe
<1>6. p.closing \/ Turn(f, heard', NextNumber)
  <2>1. \A h, s : Turn(t, h, s) => Turn(f, h, s)
    BY <1>4 DEF Turn, Out
  <2> QED BY <1>1, <2>1
<1>7. Only(f, Fine)
  BY <1>1, <1>4 DEF Only
<1>8. Once(f)
  BY <1>1, <1>4 DEF HeltecInv, ScanInv, Once, Waiting, H!Kinds
<1>9. /\ \A k \in H!Kinds : Going(f, k) => Going(p, k)
      /\ \A k \in H!Kinds : Going(p, k) => p.action = k \/ Going(f, k)
      /\ \A k \in H!Kinds : p.action = k => ~ Going(f, k)
  BY <1>1, <1>4 DEF HeltecInv, ScanInv, Once, Going, Waiting, H!Kinds
<1>10. f.pending # << >> => f.seq # 0
  BY <1>1, <1>4 DEF HeltecInv, StageInv
<1> QED BY <1>0, <1>1, <1>2, <1>4, <1>5, <1>6, <1>7, <1>8, <1>9, <1>10 DEF Taken


\* What every completion comes to, with g the pipeline it leaves.
LEMMA Ends ==
  ASSUME HeltecInv, NEW f, Taken(f), NEW g, g = p', IsPipe(g), Fed(g), Once(g), Only(g, Fine'),
         g.closing \/ Turn(g, heard', NextNumber'),
         scan' \in [H!Kinds -> Scan], nvs' \in {nvs, conn},
         stage' \in {stage, "complete_sent", "authenticated"}, raced \subseteq raced'
  PROVE  /\ TypeInv' /\ LookInv' /\ Fed(p)' /\ Once(p)' /\ TurnInv' /\ TagInv'
         /\ \A k \in H!Kinds : Going(g, k) <=> Going(p, k)'
<1>0. /\ UNCHANGED H!UnlessWrite /\ UNCHANGED <<mode, bleLink, conn, setup, wifiRadio, window>>
      /\ bleLink = "up" /\ heard' \in Seq(Rec) /\ \A i \in DOMAIN heard' : Tag(heard'[i]) \in Fine
  BY DEF Taken
<1>1. IsPipe(p)' /\ Fed(p)' /\ Once(p)' /\ \A k \in H!Kinds : Going(g, k) <=> Going(p, k)'
  BY Stateless
<1>2. TypeInv' /\ LookInv'
  BY <1>0, <1>1, AnswerType
<1>3. TagInv'
  <2>1. Fine \subseteq Fine'
    BY <1>0, FineNext
  <2> QED BY <1>0, <2>1, TagNext
<1>4. TurnInv'
  <2>1. PICK h : h = heard'
    OBVIOUS
  <2>2. PICK s : s = NextNumber'
    OBVIOUS
  <2>3. g.closing \/ Turn(g, h, s)
    BY <2>1, <2>2
  <2>4. p'.closing \/ Turn(p, heard, NextNumber)'
    BY <2>1, <2>2, <2>3, Stateless
  <2> QED BY <2>4 DEF TurnInv
<1> QED BY <1>1, <1>2, <1>3, <1>4

\* Nothing follows but the next pending record, with or without the end of the connection.
LEMMA TakenQuiet ==
  ASSUME HeltecInv, NEW f, Taken(f), NEW e \in H!Luck, p.action \in {"none", "disconnect"},
         NEW g, \/ p.action = "none" /\ g = H!StartNext(f, e)
                \/ p.action = "disconnect" /\ g = H!Closed(H!StartNext(f, e)),
         H!Pipe(g), UNCHANGED <<nvs, stage, scan>>
  PROVE  HeltecInv'
<1>0. /\ IsPipe(f) /\ f.rec = p.rec /\ f.left = 0 /\ f.action = "none"
      /\ f.pending = p.pending /\ f.seq = p.seq /\ f.lost = p.lost /\ f.closing = p.closing
      /\ f.wire = Tail(p.wire) /\ setup = "ready" /\ bleLink = "up" /\ p.wire # << >>
      /\ \A type : H!Has(type) => H!Has(type)'
      /\ Only(f, Fine)
      /\ p.closing \/ Turn(f, heard', NextNumber)
      /\ Once(f) /\ (f.pending # << >> => f.seq # 0)
      /\ UNCHANGED <<mode, bleLink, conn, setup, wifiRadio, window>>
  BY DEF Taken
<1>1. \A k \in H!Kinds : Going(f, k) <=> Going(p, k)
  BY DEF Taken, H!Kinds
<1>2. PICK c : c = H!StartNext(f, e)
  OBVIOUS
<1>3. /\ IsPipe(c) /\ c.lost = f.lost /\ (f.closing => c.closing)
      /\ f.pending = << >> => c = f
      /\ c.action \in {"none"} \cup H!Kinds
      /\ Fed(c)
      /\ f.seq # 0 => c.seq # 0
      /\ \A G : Only(f, G) => Only(c, G)
      /\ Once(f) => Once(c)
      /\ \A k \in H!Kinds : Going(c, k) <=> Going(f, k)
      /\ \A n \in Nat \ {0} : Out(f, n, f.seq) => c.closing \/ Out(c, n, c.seq)
  BY <1>0, <1>2, StartNextIs
<1>4. /\ IsPipe(g) /\ (c.closing => g.closing)
      /\ g.rec = c.rec /\ g.left = c.left /\ g.action = c.action
      /\ g.pending = c.pending /\ g.seq = c.seq /\ g.wire = c.wire /\ g.lost = c.lost
      /\ g = c \/ g.closing
  BY <1>2, <1>3, ClosedIs
<1>5. /\ Fed(g) /\ Once(g) /\ \A G : Only(c, G) => Only(g, G)
      /\ \A k \in H!Kinds : Going(g, k) <=> Going(f, k)
  BY <1>0, <1>3, <1>4 DEF Fed, Once, Going, Waiting, Only
<1>6. p' = g /\ raced' = raced \cup H!Races(p') /\ raced \subseteq raced' /\ conn' = conn
  BY <1>0 DEF H!Pipe
<1>7. Only(g, Fine')
  <2>1. Fine \subseteq Fine'
    BY <1>6, FineGrows
  <2>2. Only(g, Fine)
    BY <1>0, <1>3, <1>5
  <2> QED BY <2>1, <2>2, OnlyMore
<1>8. g.closing \/ Turn(g, heard', NextNumber')
  <2>0. ASSUME g = c, ~ p.closing PROVE g.closing \/ Turn(g, heard', NextNumber')
    <3>1. CASE stage = "authenticated"
      <4>1. PICK h : h = heard'
        OBVIOUS
      <4>2. Turn(f, h, f.seq)
        BY <1>0, <2>0, <3>1, <4>1 DEF NextNumber
      <4>3. c.closing \/ Turn(c, h, c.seq)
        BY <1>0, <1>2, <4>2, TurnNext
      <4>4. NextNumber' = c.seq
        BY <1>6, <2>0, <3>1 DEF NextNumber
      <4> QED BY <2>0, <4>1, <4>3, <4>4
    <3>2. CASE stage # "authenticated"
      <4>1. c = f
        BY <1>0, <1>3, <3>2 DEF HeltecInv, StageInv
      <4>2. NextNumber' = NextNumber
        BY <3>2 DEF NextNumber
      <4> QED BY <1>0, <2>0, <4>1, <4>2
    <3> QED BY <3>1, <3>2
  <2> QED BY <1>0, <1>3, <1>4, <2>0
<1>9. /\ TypeInv' /\ LookInv' /\ Fed(p)' /\ Once(p)' /\ TurnInv' /\ TagInv'
      /\ \A k \in H!Kinds : Going(g, k) <=> Going(p, k)'
  <2>1. scan' \in [H!Kinds -> Scan] /\ nvs' \in {nvs, conn}
        /\ stage' \in {stage, "complete_sent", "authenticated"}
    BY DEF HeltecInv, TypeInv
  <2> QED BY <1>4, <1>5, <1>6, <1>7, <1>8, <2>1, Ends
<1>10. stage # "authenticated" =>
         g.pending = << >> /\ g.action = "none" /\ g.rec = p.rec /\ g.wire = Tail(p.wire) /\ g.left = 0
  BY <1>0, <1>3, <1>4 DEF HeltecInv, StageInv
<1>11. StageInv'
  BY <1>0, <1>3, <1>4, <1>6, <1>10 DEF HeltecInv, StageInv, H!Kinds
<1>12. HandInv'
  <2>1. ASSUME stage = "hello_sent"
        PROVE  g.wire = << >> /\ g.rec.type = "hello" /\ g.action = "none" /\ g.left = 0
    <3>1. p.wire = << [rec |-> p.rec, last |-> p.left = 0] >> /\ p.rec.type = "hello"
      BY <1>0, <2>1 DEF HeltecInv, HandInv
    <3>2. Tail(p.wire) = << >>
      <4>1. \A x : Tail(<< x >>) = << >>
        BY SMT
      <4> QED BY <3>1, <4>1
    <3> QED BY <1>10, <2>1, <3>1, <3>2
  <2>2. stage = "authenticated" => H!Has("client_auth")'
    BY <1>0 DEF HeltecInv, HandInv
  <2>3. ~ 0 > 0
    BY SMT
  <2> QED BY <1>6, <2>1, <2>2, <2>3 DEF HandInv
<1>13. ScanInv'
  <2>1. p'.lost => Raced("send_in_window")'
    BY <1>6 DEF H!Races, Raced
  <2>2. p.closing => p'.closing
    BY <1>0, <1>3, <1>4, <1>6
  <2>3. \A k \in H!Kinds : Going(p, k)' <=> Going(p, k)
    BY <1>1, <1>5, <1>9
  <2> QED BY <1>0, <1>6, <1>9, <2>1, <2>2, <2>3, ScanKeeps DEF HeltecInv
<1> QED BY <1>9, <1>11, <1>12, <1>13 DEF HeltecInv

\* finish_pairing_after_confirm: pairing mode, where nothing is ever pending.
LEMMA TakenComplete ==
  ASSUME HeltecInv, NEW f, Taken(f), NEW e \in H!Luck, p.action = "complete", NEW stored \in BOOLEAN,
         H!Pipe(H!StartNext(H!Completes(f, stored, e), e)),
         nvs' = (IF stored THEN conn ELSE nvs),
         stage' = (IF stored THEN "complete_sent" ELSE stage), UNCHANGED scan
  PROVE  HeltecInv'
<1>0. /\ IsPipe(f) /\ f.rec = p.rec /\ f.left = 0 /\ f.action = "none"
      /\ f.pending = p.pending /\ f.seq = p.seq /\ f.lost = p.lost /\ f.closing = p.closing
      /\ setup = "ready" /\ bleLink = "up"
      /\ Only(f, Fine)
      /\ p.closing \/ Turn(f, heard', NextNumber)
      /\ UNCHANGED <<mode, bleLink, conn, setup, wifiRadio, window>>
  BY DEF Taken
<1>1. mode # "runtime" /\ stage \notin {"hello_sent", "authenticated"} /\ f.pending = << >>
      /\ stage' \notin {"hello_sent", "authenticated"}
  BY <1>0 DEF HeltecInv, StageInv
<1>2. PICK type \in H!RecordTypes :
        type = (IF stored THEN "pair_complete" ELSE "pair_error")
  BY DEF H!RecordTypes
<1>3. PICK r : r = H!Record(type)
  OBVIOUS
<1>4. conn \in 0..MaxConnections /\ r \in Rec /\ r.seq = 0 /\ Tag(r) = <<type, conn>>
  <2>1. conn \in 0..MaxConnections
    BY DEF HeltecInv, TypeInv
  <2> QED BY <1>3, <2>1, RecordIs
<1>5. PICK a \in Actions : a = "disconnect"
  BY DEF Actions
<1>6. PICK l : l = H!Load(f, r, a, e)
  OBVIOUS
<1>7. /\ IsPipe(l)
      /\ l.rec = r /\ l.action = a /\ l.pending = f.pending /\ l.seq = f.seq /\ l.lost = f.lost
      /\ f.closing => l.closing
      /\ Fed(l)
      /\ \A G : Only(f, G) /\ Tag(r) \in G => Only(l, G)
  BY <1>0, <1>4, <1>6, LoadIs
<1>8. l = H!StartNext(H!Completes(f, stored, e), e)
  <2>1. H!Completes(f, stored, e) = l
    BY <1>2, <1>3, <1>5, <1>6 DEF H!Completes
  <2>2. l = H!StartNext(l, e)
    BY <1>1, <1>7 DEF H!StartNext
  <2> QED BY <2>1, <2>2
<1>9. p' = l /\ raced' = raced \cup H!Races(p') /\ raced \subseteq raced' /\ conn' = conn
      /\ nvs' \in {nvs, conn}
  BY <1>0, <1>8 DEF H!Pipe
<1>10. Only(l, Fine')
  <2>1. Fine \subseteq Fine'
    BY <1>9, FineNext
  <2>2. Only(f, Fine')
    BY <1>0, <2>1, OnlyMore
  <2>3. Tag(r) \in Fine'
    <3>1. type = "pair_complete" => nvs' = conn
      BY <1>2
    <3>2. type \notin {"partial", "complete"}
      BY <1>2
    <3>3. <<type, conn>>[1] = type /\ <<type, conn>> \in H!RecordTypes \X (0..MaxConnections)
      BY <1>4
    <3> QED BY <1>4, <1>9, <3>1, <3>2, <3>3 DEF Fine
  <2> QED BY <1>7, <2>2, <2>3
<1>11. l.closing \/ Turn(l, heard', NextNumber')
  <2>1. PICK h : h = heard'
    OBVIOUS
  <2>2. PICK s \in Nat : s = 1
    OBVIOUS
  <2>3. NextNumber' = s /\ NextNumber = s
    BY <1>1, <2>2 DEF NextNumber
  <2>4. p.closing \/ Turn(f, h, s)
    BY <1>0, <2>1, <2>3
  <2>5. Turn(f, h, s) => l.closing \/ Turn(l, h, s)
    BY <1>0, <1>4, <1>6, TurnLoad
  <2> QED BY <1>0, <1>7, <2>1, <2>3, <2>4, <2>5
<1>12. Once(l) /\ \A k \in H!Kinds : Going(l, k) <=> Going(f, k)
  <2>1. "disconnect" \notin H!Kinds /\ "none" \notin H!Kinds /\ \A i : i \notin DOMAIN f.pending
    BY <1>1, SMT DEF H!Kinds
  <2> QED BY <1>0, <1>5, <1>7, <2>1 DEF Once, Going, Waiting
<1>13. /\ TypeInv' /\ LookInv' /\ Fed(p)' /\ Once(p)' /\ TurnInv' /\ TagInv'
       /\ \A k \in H!Kinds : Going(l, k) <=> Going(p, k)'
  <2>1. scan' \in [H!Kinds -> Scan] /\ stage' \in {stage, "complete_sent", "authenticated"}
    BY DEF HeltecInv, TypeInv
  <2> QED BY <1>7, <1>9, <1>10, <1>11, <1>12, <2>1, Ends
<1>14. StageInv'
  <2>1. p'.pending = << >> /\ p'.action = "disconnect" /\ p'.rec.seq = 0
    BY <1>1, <1>4, <1>5, <1>7, <1>9
  <2>2. stage' # "idle" => setup' = "ready"
    BY <1>0
  <2>3. stage' # "complete_sent" => stage' = stage
    OBVIOUS
  <2> QED BY <1>0, <1>1, <2>1, <2>2, <2>3 DEF StageInv, H!Kinds
<1>15. HandInv'
  BY <1>1 DEF HandInv
<1>16. ScanInv'
  <2>1. p'.lost => Raced("send_in_window")'
    BY <1>9 DEF H!Races, Raced
  <2>2. p.closing => p'.closing
    BY <1>0, <1>7, <1>9
  <2>3. \A k \in H!Kinds : Going(p, k)' <=> Going(p, k)
    <3>1. \A k \in H!Kinds : Going(f, k) <=> Going(p, k)
      BY DEF Taken, H!Kinds
    <3> QED BY <1>12, <1>13, <3>1
  <2> QED BY <1>0, <1>1, <1>9, <1>13, <2>1, <2>2, <2>3, ScanKeeps DEF HeltecInv
<1> QED BY <1>13, <1>14, <1>15, <1>16 DEF HeltecInv

\* client_auth is out: the session is up, and its numbers start.
LEMMA TakenAuthenticated ==
  ASSUME HeltecInv, NEW f, Taken(f), NEW e \in H!Luck, p.action = "authenticated",
         p' = H!StartNext([f EXCEPT !.seq = 1], e),
         raced' = raced \cup (IF \E k \in H!Kinds : scan[k].busy THEN {"fast_reconnect"} ELSE {}),
         stage' = "authenticated", UNCHANGED <<nvs, scan>>
  PROVE  HeltecInv'
<1>0. /\ IsPipe(f) /\ f.rec = p.rec /\ f.left = 0 /\ p.left = 0 /\ f.action = "none"
      /\ f.pending = p.pending /\ f.seq = p.seq /\ f.lost = p.lost /\ f.closing = p.closing
      /\ f.wire = Tail(p.wire) /\ setup = "ready" /\ bleLink = "up" /\ p.wire # << >>
      /\ heard' = (IF Head(p.wire).last THEN Append(heard, Head(p.wire).rec) ELSE heard)
      /\ Only(f, Fine) /\ Once(f)
      /\ p.closing \/ Turn(f, heard', NextNumber)
      /\ UNCHANGED <<mode, bleLink, conn, setup, wifiRadio, window>>
  BY DEF Taken
<1>1. stage = "hello_sent" /\ f.pending = << >> /\ mode = "runtime"
      /\ p.rec.type = "client_auth" /\ p.wire = << [rec |-> p.rec, last |-> p.left = 0] >>
  BY <1>0 DEF HeltecInv, StageInv, HandInv
<1>2. PICK c : c = [f EXCEPT !.seq = 1]
  OBVIOUS
<1>3. c \in Pipes
  BY <1>0, <1>2, Bounds, Zenon DEF IsPipe, Pipes
<1>4. c.rec = f.rec /\ c.left = f.left /\ c.action = f.action /\ c.pending = f.pending /\ c.seq = 1
      /\ c.lost = f.lost /\ c.closing = f.closing /\ c.wire = f.wire
  BY <1>0, <1>2, SMT DEF IsPipe, Pipes
<1>5. IsPipe(c)
  BY <1>0, <1>3, <1>4 DEF IsPipe
<1>6. p' = c /\ raced \subseteq raced' /\ conn' = conn
  BY <1>0, <1>1, <1>2, <1>4 DEF H!StartNext
<1>7. Fed(c) /\ Once(c) /\ \A k \in H!Kinds : Going(c, k) <=> Going(f, k)
  <2>1. ~ 0 > 0
    BY SMT
  <2> QED BY <1>0, <1>1, <1>4, <2>1 DEF Fed, Once, Going, Waiting
<1>8. Only(c, Fine')
  <2>1. Fine \subseteq Fine'
    BY <1>6, FineGrows
  <2>2. Only(c, Fine)
    BY <1>0, <1>4 DEF Only
  <2> QED BY <2>1, <2>2, OnlyMore
<1>9. c.closing \/ Turn(c, heard', NextNumber')
  <2>1. NextNumber' = NextNumber
    BY <1>1, <1>4, <1>6 DEF NextNumber
  <2>2. \A h, s : Turn(f, h, s) => Turn(c, h, s)
    BY <1>4 DEF Turn, Out
  <2> QED BY <1>0, <1>4, <2>1, <2>2
<1>10. /\ TypeInv' /\ LookInv' /\ Fed(p)' /\ Once(p)' /\ TurnInv' /\ TagInv'
       /\ \A k \in H!Kinds : Going(c, k) <=> Going(p, k)'
  <2>1. scan' \in [H!Kinds -> Scan] /\ nvs' \in {nvs, conn}
        /\ stage' \in {stage, "complete_sent", "authenticated"}
    BY DEF HeltecInv, TypeInv
  <2> QED BY <1>5, <1>6, <1>7, <1>8, <1>9, <2>1, Ends
<1>11. StageInv'
  <2>1. p'.action = "none" /\ p'.seq # 0
    BY <1>0, <1>4, <1>6
  <2> QED BY <1>0, <1>1, <2>1 DEF StageInv
<1>12. HandInv'
  <2>1. Head(p.wire).last /\ Head(p.wire).rec = p.rec
    <3>1. PICK b \in BOOLEAN : b = (p.left = 0)
      OBVIOUS
    <3>2. \A r : Head(<< [rec |-> r, last |-> b] >>).last = b
                /\ Head(<< [rec |-> r, last |-> b] >>).rec = r
      BY SMT
    <3>3. p.wire = << [rec |-> p.rec, last |-> b] >> /\ b = TRUE
      BY <1>0, <1>1, <3>1
    <3> QED BY ONLY <3>2, <3>3
  <2>2. heard' = Append(heard, p.rec)
    BY <1>0, <2>1
  <2>3. heard \in Seq(Rec) /\ p.rec \in Rec
    BY PipeFields DEF HeltecInv, TypeInv
  <2>4. Len(heard) + 1 \in DOMAIN heard' /\ heard'[Len(heard) + 1] = p.rec
    BY <2>2, <2>3, DomainAppend
  <2>5. H!Has("client_auth")'
    BY <1>1, <2>4 DEF H!Has
  <2> QED BY <2>5 DEF HandInv
<1>13. ScanInv'
  <2>1. \A k \in H!Kinds : Going(p, k)' <=> Going(p, k)
    <3>1. \A k \in H!Kinds : Going(f, k) <=> Going(p, k)
      BY DEF Taken, H!Kinds
    <3> QED BY <1>7, <1>10, <3>1
  <2>2. p'.lost = p.lost /\ p'.closing = p.closing
    BY <1>0, <1>4, <1>6
  <2>3. \A k \in H!Kinds : H!Chained(k)' <=> H!Chained(k)
    BY <1>0 DEF H!Chained
  <2>4. \A k \in H!Kinds : scan'[k].busy => Raced("fast_reconnect")'
    BY DEF Raced
  <2>5. \A t : Raced(t) => Raced(t)'
    BY <1>6 DEF Raced
  <2>6. /\ wifiRadio # "idle" => scan["wifi"].busy
        /\ window => scan["ble"].busy
        /\ p.lost => Raced("send_in_window")
        /\ \A k \in H!Kinds :
             /\ Going(p, k) => H!Chained(k) /\ scan[k].left >= 1
             /\ H!Chained(k) => p.closing \/ Going(p, k) \/ Raced("drop_mid_chain")
                                          \/ Raced("send_in_window")
    BY DEF HeltecInv, ScanInv
  <2> QED BY <1>0, <1>10, <2>1, <2>2, <2>3, <2>4, <2>5, <2>6 DEF ScanInv
<1> QED BY <1>10, <1>11, <1>12, <1>13 DEF HeltecInv


\* A batch is out whole, and the next one goes behind what is pending.
LEMMA TakenBatch ==
  ASSUME HeltecInv, NEW f, Taken(f), NEW e \in H!Luck, NEW k \in H!Kinds, p.action = k,
         NEW b, b = H!SendBatch(k, scan[k].left, TRUE, f, e),
         H!Pipe(H!StartNext(b.pipe, e)), scan' = b.scan, UNCHANGED <<nvs, stage>>
  PROVE  HeltecInv'
<1>0. /\ IsPipe(f) /\ f.left = 0 /\ f.action = "none"
      /\ f.pending = p.pending /\ f.seq = p.seq /\ f.lost = p.lost /\ f.closing = p.closing
      /\ setup = "ready" /\ bleLink = "up"
      /\ \A type : H!Has(type) => H!Has(type)'
      /\ Only(f, Fine) /\ Once(f)
      /\ p.closing \/ Turn(f, heard', NextNumber)
      /\ \A j \in H!Kinds : Going(f, j) => Going(p, j)
      /\ \A j \in H!Kinds : Going(p, j) => p.action = j \/ Going(f, j)
      /\ \A j \in H!Kinds : p.action = j => ~ Going(f, j)
      /\ UNCHANGED <<mode, bleLink, conn, setup, wifiRadio, window>>
  BY DEF Taken
<1>1. stage = "authenticated" /\ p.seq # 0 /\ mode = "runtime"
  BY DEF HeltecInv, StageInv
<1>2. scan \in [H!Kinds -> Scan] /\ conn \in 0..MaxConnections
  BY DEF HeltecInv, TypeInv
<1>3. H!Chained(k) /\ scan[k].left \in 1..MaxBatches
  <2>1. Going(p, k)
    BY DEF Going
  <2>2. H!Chained(k) /\ scan[k].left >= 1
    BY <2>1 DEF HeltecInv, ScanInv
  <2>3. scan[k].left \in 0..MaxBatches
    BY <1>2, ScanFields
  <2> QED BY <2>2, <2>3, HeltecAssumption, SMT
<1>4. PICK n \in 1..MaxBatches : n = scan[k].left
  BY <1>3
<1>20. PICK d \in BOOLEAN : d = TRUE
  OBVIOUS
<1>5. /\ b = H!SendBatch(k, n, d, f, e)
      /\ k \in H!Kinds /\ n \in 1..MaxBatches /\ d \in BOOLEAN /\ e \in H!Luck
  BY <1>4, <1>20
<1>6. PICK r \in Rec, a \in {"none"} \cup H!Kinds, no \in BOOLEAN :
        /\ H!Refused(f, d) => no
        /\ r.type \in {"partial", "complete"} /\ r.seq = 0 /\ r.conn = scan[k].conn
        /\ b.pipe = IF no THEN H!Closed(f) ELSE H!Send(f, r, a, d, e)
        /\ IF n = 1 THEN a = "none" ELSE a = k
        /\ b.scan \in [H!Kinds -> Scan]
        /\ \A j \in H!Kinds : j # k => b.scan[j] = scan[j]
        /\ b.scan[k].busy = (n # 1 /\ ~ no)
        /\ b.scan[k].left = n - 1 /\ b.scan[k].conn = scan[k].conn
  BY ONLY <1>2, <1>5, BatchIs
<1>7. PICK s : s = IF no THEN H!Closed(f) ELSE H!Send(f, r, a, d, e)
  OBVIOUS
<1>8. a \in H!Kinds => a = k /\ n # 1 /\ ~ Going(f, a)
  BY <1>0, <1>6 DEF H!Kinds
<1>9. /\ IsPipe(s) /\ (f.closing => s.closing) /\ s.seq # 0
      /\ no => s.closing
      /\ s.action \in {"none"} \cup H!Kinds \/ s.action = f.action
      /\ \A G : Only(f, G) /\ Tag(r) \in G => Only(s, G)
      /\ \A m \in Nat \ {0} : Out(f, m, f.seq) => s.closing \/ Out(s, m, s.seq)
      /\ Once(f) /\ (a \in H!Kinds => ~ Going(f, a)) => Once(s)
      /\ \A j \in H!Kinds : Going(s, j) => Going(f, j) \/ (a = j /\ ~ no)
      /\ a \in H!Kinds /\ ~ no => Going(s, a)
  <2>1. /\ f.seq # 0 /\ IsPipe(f) /\ r \in Rec /\ a \in {"none"} \cup H!Kinds /\ d \in BOOLEAN
        /\ e \in H!Luck /\ no \in BOOLEAN /\ (H!Refused(f, d) => no)
    BY <1>0, <1>1, <1>6
  <2> QED BY ONLY <1>7, <2>1, SendIs
<1>10. /\ d => s.left = 0 /\ s.action = "none" /\ s.lost = f.lost
       /\ d => \A j \in H!Kinds : Going(f, j) => Going(s, j)
  BY <1>0, <1>6, <1>7, SendBehind
<1>11. PICK g : g = H!StartNext(s, e)
  OBVIOUS
<1>12. /\ IsPipe(g) /\ g.lost = s.lost /\ (s.closing => g.closing)
       /\ s.pending = << >> => g = s
       /\ g.action \in {"none"} \cup H!Kinds
       /\ Fed(g)
       /\ s.seq # 0 => g.seq # 0
       /\ \A G : Only(s, G) => Only(g, G)
       /\ Once(s) => Once(g)
       /\ \A j \in H!Kinds : Going(g, j) <=> Going(s, j)
       /\ \A m \in Nat \ {0} : Out(s, m, s.seq) => g.closing \/ Out(g, m, g.seq)
  <2>1. s.left = 0 /\ s.action = "none"
    BY <1>10, <1>20
  <2> QED BY <1>9, <1>11, <2>1, StartNextIs
<1>13. p' = g /\ raced' = raced \cup H!Races(p') /\ raced \subseteq raced' /\ conn' = conn
  BY <1>0, <1>6, <1>7, <1>11 DEF H!Pipe
<1>14. Only(g, Fine')
  <2>1. Fine \subseteq Fine'
    BY <1>13, FineGrows
  <2>2. Tag(r) \in Fine
    <3>1. scan[k].conn = conn \/ Raced("fast_reconnect")
      BY <1>1, <1>3 DEF HeltecInv, ScanInv, H!Chained
    <3>2. Tag(r) \in H!RecordTypes \X (0..MaxConnections) /\ Tag(r)[1] = r.type /\ Tag(r)[2] = r.conn
      BY <1>6, RecFields DEF Tag
    <3> QED BY <1>6, <3>1, <3>2 DEF Fine, Raced
  <2>3. Only(g, Fine)
    BY <1>0, <1>9, <1>12, <2>2
  <2> QED BY <2>1, <2>3, OnlyMore
<1>15. g.closing \/ Turn(g, heard', NextNumber')
  <2>1. PICK h : h = heard'
    OBVIOUS
  <2>2. p.closing \/ Turn(f, h, f.seq)
    BY <1>0, <1>1, <2>1 DEF NextNumber
  <2>3. Turn(f, h, f.seq) => s.closing \/ Turn(s, h, s.seq)
    <3>1. /\ f.seq # 0 /\ IsPipe(f) /\ r \in Rec /\ a \in {"none"} \cup H!Kinds /\ d \in BOOLEAN
          /\ e \in H!Luck /\ no \in BOOLEAN /\ (H!Refused(f, d) => no)
      BY <1>0, <1>1, <1>6
    <3> QED BY ONLY <1>7, <3>1, TurnSend
  <2>4. Turn(s, h, s.seq) => g.closing \/ Turn(g, h, g.seq)
    <3>1. s.left = 0 /\ s.action = "none"
      BY <1>10, <1>20
    <3> QED BY <1>9, <1>11, <3>1, TurnNext
  <2>5. NextNumber' = g.seq
    BY <1>1, <1>13 DEF NextNumber
  <2> QED BY <1>0, <1>9, <1>12, <2>1, <2>2, <2>3, <2>4, <2>5
<1>16. /\ TypeInv' /\ LookInv' /\ Fed(p)' /\ Once(p)' /\ TurnInv' /\ TagInv'
       /\ \A j \in H!Kinds : Going(g, j) <=> Going(p, j)'
  <2>1. scan' \in [H!Kinds -> Scan] /\ nvs' \in {nvs, conn}
        /\ stage' \in {stage, "complete_sent", "authenticated"}
    BY <1>6
  <2>2. Once(g)
    BY <1>0, <1>8, <1>9, <1>12
  <2> QED BY <1>12, <1>13, <1>14, <1>15, <2>1, <2>2, Ends
<1>17. StageInv'
  <2>1. p'.seq # 0 /\ p'.action \in {"none"} \cup H!Kinds
    BY <1>9, <1>12, <1>13
  <2> QED BY <1>0, <1>1, <2>1 DEF StageInv, H!Kinds
<1>18. HandInv'
  BY <1>0, <1>1 DEF HeltecInv, HandInv
<1>19. ScanInv'
  <2>1. (wifiRadio' # "idle" => scan'["wifi"].busy) /\ (window' => scan'["ble"].busy)
    <3>1. \A j \in H!Kinds : ~ (j = k) => scan'[j] = scan[j]
      BY <1>6
    <3>2. (k = "wifi" => wifiRadio = "idle") /\ (k = "ble" => ~ window)
      BY <1>3 DEF H!Chained
    <3> QED BY <1>0, <3>1, <3>2 DEF HeltecInv, ScanInv, H!Kinds
  <2>2. p'.lost => Raced("send_in_window")'
    BY <1>13 DEF H!Races, Raced
  <2>3. \A t : Raced(t) => Raced(t)'
    BY <1>13 DEF Raced
  <2>4. \A j \in H!Kinds : scan'[j] = scan[j] => (H!Chained(j)' <=> H!Chained(j))
    BY <1>0 DEF H!Chained
  <2>5. H!Chained(k)' <=> scan'[k].busy
    BY <1>0, <1>3 DEF H!Chained
  <2>6. n # 1 => n - 1 >= 1 /\ a = k
    BY <1>6, SMT
  <2>7. /\ scan'[k].busy = (n # 1 /\ ~ no)
        /\ scan'[k].left = n - 1 /\ scan'[k].conn = scan[k].conn
        /\ \A j \in H!Kinds : j # k => scan'[j] = scan[j]
    BY <1>6
  <2>8. \A j \in H!Kinds : Going(p, j)' <=> Going(s, j)
    BY <1>12, <1>16
  <2>9. ASSUME NEW j \in H!Kinds
        PROVE  /\ Going(p, j)' => H!Chained(j)' /\ scan'[j].left >= 1
               /\ H!Chained(j)' => p'.closing \/ Going(p, j)' \/ Raced("drop_mid_chain")'
                                              \/ Raced("send_in_window")'
               /\ stage' = "authenticated" /\ scan'[j].busy =>
                    scan'[j].conn = conn' \/ Raced("fast_reconnect")'
    <3>1. CASE j = k
      <4>1. Going(p, j)' => n # 1 /\ ~ no
        BY <1>0, <1>8, <1>9, <2>8, <3>1
      <4>2. H!Chained(j)' => Going(p, j)'
        BY <1>9, <2>5, <2>6, <2>7, <2>8, <3>1
      <4>3. Going(p, j)' => H!Chained(j)' /\ scan'[j].left >= 1
        BY <2>5, <2>6, <2>7, <3>1, <4>1
      <4>4. scan'[j].conn = conn' \/ Raced("fast_reconnect")'
        BY <1>1, <1>3, <1>13, <2>3, <2>7, <3>1 DEF HeltecInv, ScanInv, H!Chained
      <4> QED BY <4>2, <4>3, <4>4
    <3>2. CASE j # k
      <4>1. Going(p, j)' => Going(p, j)
        BY <1>0, <1>8, <1>9, <2>8, <3>2
      <4>2. Going(p, j) => Going(p, j)'
        BY <1>0, <1>10, <1>20, <2>8, <3>2
      <4>3. scan'[j] = scan[j] /\ (H!Chained(j)' <=> H!Chained(j))
        BY <2>4, <2>7, <3>2
      <4>4. Going(p, j)' => H!Chained(j)' /\ scan'[j].left >= 1
        BY <4>1, <4>3 DEF HeltecInv, ScanInv
      <4>5. p.closing => p'.closing
        BY <1>0, <1>9, <1>12, <1>13
      <4>6. H!Chained(j) => p'.closing \/ Going(p, j)' \/ Raced("drop_mid_chain")'
                            \/ Raced("send_in_window")'
        BY <2>3, <4>2, <4>5 DEF HeltecInv, ScanInv
      <4>7. scan[j].busy => scan[j].conn = conn \/ Raced("fast_reconnect")'
        BY <1>1, <2>3 DEF HeltecInv, ScanInv
      <4> QED BY <1>13, <4>3, <4>4, <4>6, <4>7
    <3> QED BY <3>1, <3>2
  <2> QED BY <1>16, <2>1, <2>2, <2>9 DEF ScanInv
<1> QED BY <1>16, <1>17, <1>18, <1>19 DEF HeltecInv

LEMMA FinishStep ==
  ASSUME HeltecInv, NEW f, Taken(f), NEW e \in H!Luck, H!Finish(f, e)
  PROVE  HeltecInv'
<1>0. p.action \in Actions
  BY PipeFields DEF HeltecInv, TypeInv
<1>1. CASE p.action = "complete"
  <2>1. PICK stored \in BOOLEAN :
          /\ H!Pipe(H!StartNext(H!Completes(f, stored, e), e))
          /\ nvs' = (IF stored THEN conn ELSE nvs)
          /\ stage' = (IF stored THEN "complete_sent" ELSE stage)
          /\ UNCHANGED scan
    BY <1>1 DEF H!Finish, H!Kinds
  <2> QED BY <1>1, <2>1, TakenComplete
<1>2. CASE p.action = "disconnect"
  <2>1. PICK g : g = H!Closed(H!StartNext(f, e))
    OBVIOUS
  <2>2. H!Pipe(g) /\ UNCHANGED <<nvs, stage, scan>>
    BY <1>2, <2>1 DEF H!Finish, H!Kinds
  <2> QED BY <1>2, <2>1, <2>2, TakenQuiet
<1>3. CASE p.action = "authenticated"
  <2>1. /\ p' = H!StartNext([f EXCEPT !.seq = 1], e)
        /\ raced' = raced \cup (IF \E k \in H!Kinds : scan[k].busy THEN {"fast_reconnect"} ELSE {})
        /\ stage' = "authenticated" /\ UNCHANGED <<nvs, scan>>
    BY <1>3 DEF H!Finish, H!Kinds
  <2> QED BY <1>3, <2>1, TakenAuthenticated
<1>4. CASE p.action \in H!Kinds
  <2>1. PICK k \in H!Kinds : k = p.action
    BY <1>4
  <2>3. PICK b : b = H!SendBatch(k, scan[k].left, TRUE, f, e)
    OBVIOUS
  <2>4. p.action \notin {"complete", "disconnect", "authenticated"}
    BY <1>4 DEF H!Kinds
  <2>5. H!Pipe(H!StartNext(b.pipe, e)) /\ scan' = b.scan /\ UNCHANGED <<nvs, stage>>
    BY <1>4, <2>1, <2>3, <2>4 DEF H!Finish
  <2> QED BY <2>1, <2>3, <2>5, TakenBatch
<1>5. CASE p.action = "none"
  <2>1. PICK g : g = H!StartNext(f, e)
    OBVIOUS
  <2>2. p.action \notin H!Kinds
    BY <1>5 DEF H!Kinds
  <2>3. H!Pipe(g) /\ UNCHANGED <<nvs, stage, scan>>
    BY <1>5, <2>1, <2>2 DEF H!Finish
  <2> QED BY <1>5, <2>1, <2>3, TakenQuiet
<1> QED BY <1>0, <1>1, <1>2, <1>3, <1>4, <1>5 DEF Actions

LEMMA HeltecWriteCompleteStep == ASSUME HeltecInv, H!WriteComplete PROVE HeltecInv'
<1>1. PICK t : t = [p EXCEPT !.wire = Tail(@)]
  OBVIOUS
<1>2. PICK e \in H!Luck :
        IF t.left > 0 THEN H!Pipe(H!Write(t, e.ok)) /\ UNCHANGED <<nvs, stage, scan>>
        ELSE H!Finish([t EXCEPT !.action = "none"], e)
  BY <1>1 DEF H!WriteComplete
<1>3. Answer(t)
  BY <1>1 DEF H!WriteComplete, Answer
<1>4. CASE t.left > 0
  BY <1>2, <1>3, <1>4, NextFragment
<1>5. CASE ~ (t.left > 0)
  <2>1. PICK f : f = [t EXCEPT !.action = "none"]
    OBVIOUS
  <2>2. Taken(f)
    BY <1>3, <1>5, <2>1, TakenIs
  <2>3. H!Finish(f, e)
    BY <1>2, <1>5, <2>1
  <2> QED BY <2>2, <2>3, FinishStep
<1> QED BY <1>4, <1>5

LEMMA HeltecUnchanged == ASSUME HeltecInv, UNCHANGED H!vars PROVE HeltecInv'
<1> USE DEF H!vars
<1>1. TypeInv' /\ StageInv' /\ Fed(p)' /\ HandInv'
  BY DEF HeltecInv, TypeInv, IsPipe, StageInv, Empty, Fed, HandInv, H!Has
<1>2. TurnInv'
  BY DEF HeltecInv, TurnInv, Turn, NextNumber, Out
<1>3. TagInv'
  BY DEF HeltecInv, TagInv, Fine, Only
<1>4. ScanInv' /\ LookInv'
  BY DEF HeltecInv, ScanInv, H!Chained, Raced, Once, Going, Waiting, LookInv
<1> QED BY <1>1, <1>2, <1>3, <1>4 DEF HeltecInv

LEMMA HeltecNextStep == HeltecInv /\ [H!Next]_H!vars => HeltecInv'
<1> SUFFICES ASSUME HeltecInv, [H!Next]_H!vars PROVE HeltecInv'
  OBVIOUS
<1>1. CASE UNCHANGED H!vars
  BY <1>1, HeltecUnchanged
<1>2. CASE H!Step
  <2>1. CASE H!FindPeer \/ H!ConnectFails \/ H!ReconnectTimer \/ H!DiscComplete
    BY <2>1, SearchSteps
  <2>2. CASE H!WindowExpires \/ H!Connect \/ H!Disconnect \/ H!Restart
    BY <2>2, WindowExpiresStep, HeltecConnectStep, HeltecDisconnectStep, RestartStep
  <2>3. CASE \E i \in 1..4 : H!Discover(i)
    BY <2>3, DiscoverStep
  <2>4. CASE H!Subscribed \/ H!PairReply \/ H!PairingFails \/ H!AuthFails \/ H!HelloAck
    BY <2>4, SubscribedStep, PairReplyStep, PairingFailsStep, AuthFailsStep, HelloAckStep
  <2>5. CASE H!Answered \/ H!SessionEnds
    <3>1. PICK k \in H!Kinds : TRUE
      BY DEF H!Kinds
    <3> QED BY <2>5, <3>1, CommandSteps
  <2>6. CASE \E k \in H!Kinds : H!ScanCommand(k) \/ H!ScanRefused(k)
    BY <2>6, ScanCommandStep, CommandSteps
  <2>7. CASE H!Lands
    BY <2>7, WifiScanStep, ResultsStep DEF H!Lands
  <2>8. CASE H!WriteComplete \/ H!WriteFails
    BY <2>8, HeltecWriteCompleteStep, WriteFailsStep
  <2> QED BY <1>2, <2>1, <2>2, <2>3, <2>4, <2>5, <2>6, <2>7, <2>8 DEF H!Step
<1> QED BY <1>1, <1>2 DEF H!Next


(* The state as HeltecBoard sees it is the state here.                       *)
LEMMA SameState ==
  /\ H!Kinds = Kinds /\ H!RecordTypes = RecordTypes /\ H!NoSecret = NoSecret
  /\ \A k : H!Chained(k) <=> Chained(k)
  /\ \A type : H!Has(type) <=> Has(type)
BY DEF H!Kinds, Kinds, H!RecordTypes, RecordTypes, H!NoSecret, NoSecret, H!Chained, Chained,
       H!Has, Has

LEMMA InTurn == ASSUME HeltecInv PROVE SessionInTurn
<1> SUFFICES ASSUME ~ p.closing PROVE SessionInTurn
  BY DEF SessionInTurn
<1> DEFINE sent == {i \in DOMAIN heard : heard[i].seq # 0}
           s == Numbers(heard)
<1>1. heard \in Seq(Rec)
  BY DEF HeltecInv, TypeInv
<1>2. PICK n \in Nat \ {0} : Counts(s, 1, n)
  BY DEF HeltecInv, TurnInv, Turn
<1>3. /\ DOMAIN s = DOMAIN heard
      /\ \A i \in DOMAIN heard : i \in Nat /\ s[i] = heard[i].seq /\ s[i] \in Nat
  <2>1. /\ s \in Seq(Nat) /\ Len(s) = Len(heard)
        /\ \A i \in 1..Len(heard) : s[i] = heard[i].seq
    BY <1>1, NumbersIs
  <2> HIDE DEF s
  <2> QED BY <1>1, <2>1, SMT
<1> HIDE DEF s
<1>4. ASSUME NEW i \in sent, NEW j \in sent, j < i PROVE heard[j].seq < heard[i].seq
  <2>1. i \in DOMAIN s /\ j \in DOMAIN s /\ s[i] # 0 /\ s[j] # 0 /\ s[i] = heard[i].seq
        /\ s[j] = heard[j].seq
    BY <1>3
  <2> QED BY <1>2, <1>4, <2>1 DEF Counts
<1>5. ASSUME NEW i \in sent, NEW v \in 1 .. heard[i].seq - 1
      PROVE  \E j \in sent : j < i /\ heard[j].seq = v
  <2>1. i \in DOMAIN s /\ s[i] # 0 /\ s[i] \in Nat /\ s[i] = heard[i].seq /\ i \in Nat
    BY <1>3
  <2>2. s[i] < n
    BY <1>2, <2>1 DEF Counts
  <2>3. v \in 1 .. n - 1 /\ v < s[i] /\ v # 0 /\ v \in Nat
    BY <1>2, <2>1, <2>2, SMT
  <2>4. PICK j \in DOMAIN s : s[j] = v
    BY <1>2, <2>3 DEF Counts
  <2>5. j \in sent /\ heard[j].seq = v /\ j \in Nat
    BY <1>3, <2>3, <2>4
  <2>6. ~ (i < j) /\ i # j
    <3>1. i < j => s[i] < s[j]
      BY <1>2, <2>1, <2>3, <2>4 DEF Counts
    <3>2. ~ (s[i] < s[j]) /\ s[i] # s[j]
      BY <2>1, <2>3, <2>4, SMT
    <3> QED BY <3>1, <3>2
  <2>7. j < i
    BY <2>1, <2>5, <2>6, SMT
  <2> QED BY <2>5, <2>7
<1> QED BY <1>4, <1>5 DEF SessionInTurn

LEMMA HeltecTypes == ASSUME HeltecInv PROVE BoardTypeOK
<1>1. TypeInv
  BY DEF HeltecInv
<1>2. p.rec.type \in RecordTypes /\ p.seq \in 0..MaxSequence /\ p.left \in 0..MaxPieces
      /\ Len(p.pending) <= QueueDepth
  BY <1>1, PipeFields, RecFields, SameState DEF TypeInv
<1>3. \A k \in Kinds : scan[k].busy \in BOOLEAN /\ scan[k].left \in 0..MaxBatches
  BY <1>1, ScanFields, SameState DEF TypeInv
<1>4. \A i \in DOMAIN heard : heard[i].type \in RecordTypes
  <2>1. \A i \in DOMAIN heard : heard[i] \in Rec
    BY <1>1, SMT DEF TypeInv
  <2> QED BY <2>1, RecFields, SameState
<1>5. setup \in {"none", "ready"} \cup {Steps[i] : i \in 1..5}
  <2>1. /\ Steps[1] = "mtu" /\ Steps[2] = "service" /\ Steps[3] = "characteristics"
        /\ Steps[4] = "descriptors" /\ Steps[5] = "subscribing"
    BY SMT DEF Steps
  <2>2. 1 \in 1..5 /\ 2 \in 1..5 /\ 3 \in 1..5 /\ 4 \in 1..5 /\ 5 \in 1..5
    BY SMT
  <2> QED BY <1>1, <2>1, <2>2 DEF TypeInv
<1> QED BY <1>1, <1>2, <1>3, <1>4, <1>5, SameState DEF TypeInv, BoardTypeOK

LEMMA HeardIs == HeltecInv => HeardIsTrue
<1> SUFFICES ASSUME HeltecInv PROVE HeardIsTrue
  OBVIOUS
<1>1. BoardTypeOK /\ SessionInTurn
  BY HeltecTypes, InTurn
<1>2. AuthenticatedIsTold
  BY SameState DEF HeltecInv, HandInv, AuthenticatedIsTold
<1>3. \A i \in DOMAIN heard : \E t \in Fine : t[1] = heard[i].type /\ t[2] = heard[i].conn
  <2>1. \A i \in DOMAIN heard : Tag(heard[i]) \in Fine
    BY DEF HeltecInv, TagInv
  <2>2. \A r : Tag(r)[1] = r.type /\ Tag(r)[2] = r.conn
    BY DEF Tag
  <2> QED BY <2>1, <2>2
<1>4. CompleteMeansStored
  BY <1>3 DEF CompleteMeansStored, Has, Fine
<1>5. ResultsReachTheirClient
  BY <1>3 DEF ResultsReachTheirClient, Without, Fine
<1> QED BY <1>1, <1>2, <1>4, <1>5 DEF HeardIsTrue

LEMMA StuckIs == HeltecInv => NeverStuck
<1> SUFFICES ASSUME HeltecInv PROVE NeverStuck
  OBVIOUS
<1>1. PendingIsFollowedUp
  BY DEF HeltecInv, Fed, PendingIsFollowedUp
<1>2. BusyIsReleased
  BY SameState DEF HeltecInv, ScanInv, Going, Waiting, Raced, Without, BusyIsReleased
<1>3. KeepsLooking
  BY DEF HeltecInv, LookInv, Raced, Without, KeepsLooking
<1> QED BY <1>1, <1>2, <1>3 DEF NeverStuck

LEMMA HeltecInvariant == H!Spec => []HeltecInv
BY HeltecInitially, HeltecNextStep, PTL DEF H!Spec

(* HeardIsTrue: what the Flipper has of a connection is in turn, pair_complete *)
(* follows the store, a session is up only behind client_auth, and results   *)
(* are those of its own scan: for every number of connections, commands,     *)
(* fragments and batches and whatever happens when.                          *)
THEOREM HeltecHeardIsTrue == H!Spec => []HeardIsTrue
BY HeltecInvariant, HeardIs, PTL

(* NeverStuck: a queued record has a write before it whose answer starts it, *)
(* a claimed scan has something that ends it, and a board that may connect   *)
(* looks for the Flipper, but for the timings that raced names.              *)
THEOREM HeltecNeverStuck == H!Spec => []NeverStuck
BY HeltecInvariant, StuckIs, PTL
=============================================================================
