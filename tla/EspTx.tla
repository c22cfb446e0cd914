-------------------------------- MODULE EspTx --------------------------------
(***************************************************************************)
(* The protected-record transmit pipeline of esp32/main/main.c and the     *)
(* wardriving backlog drain that runs on top of it.  One record at a time  *)
(* is fragmented into tx_fragment_*; each fragment is a GATT write, and    *)
(* write_complete sends the next one or, behind the last, runs the         *)
(* record's tx_done_action.  Records requested meanwhile wait in           *)
(* pending_protected_tx.                                                   *)
(*                                                                         *)
(* The flash log under the drain is the first-in first-out store of        *)
(* StoreAndForward, without evictions: log holds its captures, oldest      *)
(* first.  Captures are numbered from 1.                                   *)
(***************************************************************************)
EXTENDS Integers, Sequences, Functions

CONSTANTS
  MaxFragments,   \* fragments a record takes, at most
  QueueCap,       \* FEB_TX_PENDING_PROTECTED_COUNT
  MaxBatch,       \* captures in one wardriving status record
  SequenceMax,    \* FEB_SESSION_SEQUENCE_MAX
  MaxCaptures,    \* bound: captures taken
  MaxReplies      \* bound: other records sent

ASSUME TxAssumption ==
  /\ MaxFragments \in Nat \ {0}
  /\ QueueCap \in Nat \ {0}
  /\ MaxBatch \in Nat \ {0}
  /\ SequenceMax \in Nat
  /\ MaxCaptures \in Nat /\ MaxReplies \in Nat

VARIABLES
  link,        \* "down", "up", or "closing" once ble_gap_terminate was called
  tx,          \* the transmit pipeline, see TxIdle
  writes,      \* GATT writes issued and not yet completed, in order
  inFlight,    \* wardriving_tx_in_flight
  drainCount,  \* wardriving_pending_drain_count
  log,         \* the captures in the flash log
  captures,    \* captures taken so far
  replies,     \* other records requested so far
  drained,     \* captures marked drained
  confirmed,   \* captures of records whose every write completed
  overlap      \* history: a record was started while the last write of another was unanswered

vars == <<link, tx, writes, inFlight, drainCount, log, captures, replies, drained, confirmed,
          overlap>>

\* A record: its number of fragments, what to do behind it, and the captures it carries.
Record(frags, act, caps) == [frags |-> frags, act |-> act, caps |-> caps]
NoRecord == Record(0, "none", << >>)

\* The tx_* variables at connection: nothing fragmented, nothing queued.
TxIdle ==
  [total |-> 0,          \* tx_fragment_total
   next |-> 0,           \* tx_fragment_next: fragments whose write was issued
   action |-> "none",    \* tx_done_action
   queue |-> << >>,      \* pending_protected_tx
   sequence |-> 1,       \* rt_tx_sequence
   current |-> NoRecord] \* the record in tx_fragment_buf

Init ==
  /\ link = "down"
  /\ tx = TxIdle
  /\ writes = << >>
  /\ inFlight = FALSE
  /\ drainCount = 0
  /\ log = << >>
  /\ captures = 0
  /\ replies = 0
  /\ drained = {}
  /\ confirmed = {}
  /\ overlap = FALSE

-----------------------------------------------------------------------------
(* One state of a handler that is running: the pipeline, the writes, whether *)
(* it asked for the connection to be closed, and the drain.                  *)

Running == [tx |-> tx, writes |-> writes, closing |-> link = "closing",
            inFlight |-> inFlight, drainCount |-> drainCount, log |-> log,
            drained |-> drained]

Returns(h) ==
  /\ tx' = h.tx
  /\ writes' = h.writes
  /\ link' = IF h.closing THEN "closing" ELSE link
  /\ inFlight' = h.inFlight
  /\ drainCount' = h.drainCount
  /\ log' = h.log
  /\ drained' = h.drained

Terminate(h) == [h EXCEPT !.closing = TRUE]

\* send_next_tx_fragment; NimBLE refuses the write when it is out of buffers.
SendNextFragment(h, accepted) ==
  IF h.tx.next >= h.tx.total THEN h
  ELSE IF ~ accepted THEN Terminate(h)
  ELSE [h EXCEPT !.tx.next = @ + 1,
                 !.writes = Append(@, [rec |-> h.tx.current, frag |-> h.tx.next + 1])]

\* start_protected_send; it fails only at the sequence cap.
CanStart(h) == h.tx.sequence < SequenceMax

Begun(p, r) ==
  [p EXCEPT !.total = r.frags, !.next = 0, !.current = r, !.sequence = @ + 1, !.action = r.act]

StartSend(h, r, accepted) == SendNextFragment([h EXCEPT !.tx = Begun(@, r)], accepted)

\* Mutant: a record being sent is not waited for.
MustQueueLate(h, dispatching) == dispatching \/ h.tx.queue # << >>

\* queue_and_send_protected waits behind a record being sent, a completion being
\* dispatched, or a queue.
MustQueue(h, dispatching) ==
  h.tx.next < h.tx.total \/ dispatching \/ h.tx.queue # << >>

QueueFull(h) == Len(h.tx.queue) >= QueueCap

SendFails(h, dispatching) ==
  IF MustQueue(h, dispatching) THEN QueueFull(h) ELSE ~ CanStart(h)

QueueAndSend(h, r, dispatching, accepted) ==
  IF MustQueue(h, dispatching) THEN [h EXCEPT !.tx.queue = Append(@, r)]
                               ELSE StartSend(h, r, accepted)

\* The tail of write_complete: a record waiting in the queue is started.
StartNextPending(h, accepted) ==
  IF h.tx.queue = << >> THEN h
  ELSE IF ~ CanStart(h) THEN Terminate(h)
  ELSE LET s == StartSend(h, Head(h.tx.queue), accepted)
       IN [s EXCEPT !.tx.queue = Tail(@)]

-----------------------------------------------------------------------------
(* The drain.                                                               *)

\* The oldest n captures, or all there are.
Oldest(q, n) == SubSeq(q, 1, IF n < Len(q) THEN n ELSE Len(q))

\* The batch in flight is marked drained: the log loses its oldest captures.
MarkBatch(h) ==
  [h EXCEPT !.drained = @ \cup Range(SubSeq(h.log, 1, h.drainCount)),
            !.log = SubSeq(@, h.drainCount + 1, Len(@)),
            !.drainCount = 0]

\* wardriving_send_next_batch: the batch in flight is delivered; take the next one.
SendNextBatch(h0, dispatching, frags, n, accepted) ==
  LET h == MarkBatch(h0)
      r == Record(frags, "continue", Oldest(h.log, n))
  IN IF h.log = << >> THEN [h EXCEPT !.inFlight = FALSE]
     ELSE IF SendFails(h, dispatching) THEN Terminate([h EXCEPT !.inFlight = FALSE])
     ELSE [QueueAndSend(h, r, dispatching, accepted) EXCEPT !.drainCount = n]

\* Mutant: less than a full batch is not worth a record.
KickFullBatch(h, dispatching, frags, n, accepted) ==
  IF h.inFlight \/ Len(h.log) < MaxBatch THEN h
  ELSE SendNextBatch([h EXCEPT !.inFlight = TRUE], dispatching, frags, n, accepted)

\* wardriving_maybe_kick_send.
MaybeKickSend(h, dispatching, frags, n, accepted) ==
  IF h.inFlight \/ h.log = << >> THEN h
  ELSE SendNextBatch([h EXCEPT !.inFlight = TRUE], dispatching, frags, n, accepted)

\* How many captures fit in the next record is up to their encoding.
BatchSizes(h) == 1 .. (IF Len(h.log) < MaxBatch THEN Len(h.log) ELSE MaxBatch)

-----------------------------------------------------------------------------
(* Handlers.                                                                *)

\* The window the idle test of queue_and_send_protected does not see: every fragment of a
\* record was issued, and not every write is answered.
InWindow == tx.next = tx.total /\ writes # << >>

\* A handler outside write_complete returns; did it start a record in the window?
HandlerReturns(h) ==
  /\ Returns(h)
  /\ overlap' = (overlap \/ (InWindow /\ h.tx.sequence # tx.sequence))

\* Mutant: the drain count of the lost connection stays behind.
AtConnectStaleDrain(h) == [h EXCEPT !.tx = TxIdle, !.inFlight = FALSE]

\* What a new connection starts from.
AtConnect(h) == [h EXCEPT !.tx = TxIdle, !.inFlight = FALSE, !.drainCount = 0]

\* Connected, and the last record of the authentication delivered: its completion starts to
\* drain the backlog.
Connect ==
  /\ link = "down"
  /\ \E frags \in 1 .. MaxFragments, n \in 1 .. MaxBatch, accepted \in BOOLEAN :
       LET h == AtConnect(Running)
           k == StartNextPending(MaybeKickSend(h, TRUE, frags, n, accepted), accepted)
       IN /\ h.log # << >> => n \in BatchSizes(h)
          /\ tx' = k.tx
          /\ writes' = k.writes
          /\ inFlight' = k.inFlight
          /\ drainCount' = k.drainCount
          /\ link' = IF k.closing THEN "closing" ELSE "up"
  /\ UNCHANGED <<log, drained, captures, replies, confirmed, overlap>>

\* The link is lost or closed: writes in the air are lost, the drain count stays behind.
Disconnect ==
  /\ link # "down"
  /\ link' = "down"
  /\ tx' = TxIdle
  /\ writes' = << >>
  /\ inFlight' = FALSE
  /\ UNCHANGED <<drainCount, log, captures, replies, drained, confirmed, overlap>>

\* A scan result was appended to the log.
Capture ==
  /\ captures < MaxCaptures
  /\ \E frags \in 1 .. MaxFragments, n \in 1 .. MaxBatch, accepted \in BOOLEAN :
       LET h == [Running EXCEPT !.log = Append(@, captures + 1)]
       IN /\ n \in BatchSizes(h)
          /\ HandlerReturns(IF link = "down" THEN h ELSE MaybeKickSend(h, FALSE, frags, n, accepted))
  /\ captures' = captures + 1
  /\ UNCHANGED <<replies, confirmed>>

\* A command, a capability query or a scan result is answered by one record.
Reply ==
  /\ link # "down"
  /\ replies < MaxReplies
  /\ \E frags \in 1 .. MaxFragments, accepted \in BOOLEAN :
       HandlerReturns(
         IF SendFails(Running, FALSE) THEN Terminate(Running)
         ELSE QueueAndSend(Running, Record(frags, "none", << >>), FALSE, accepted))
  /\ replies' = replies + 1
  /\ UNCHANGED <<captures, confirmed>>

\* The record's tx_done_action is taken, to be run.
TakeAction(h) == [h EXCEPT !.tx.action = "none"]

\* The completion of the oldest write issued.
WriteComplete ==
  /\ link # "down"
  /\ writes # << >>
  /\ \E frags \in 1 .. MaxFragments, n \in 1 .. MaxBatch, accepted, again \in BOOLEAN :
       LET w == Head(writes)
           h == [Running EXCEPT !.writes = Tail(@)]
           d == TakeAction(h)
           after == IF tx.action = "continue"
                    THEN SendNextBatch(d, TRUE, frags, n, accepted) ELSE d
       IN /\ MarkBatch(h).log # << >> => n \in BatchSizes(MarkBatch(h))
          /\ Returns(IF tx.next < tx.total THEN SendNextFragment(h, accepted)
                     ELSE StartNextPending(after, again))
          /\ confirmed' = IF w.frag = w.rec.frags THEN confirmed \cup Range(w.rec.caps)
                                                  ELSE confirmed
  /\ UNCHANGED <<captures, replies, overlap>>

\* A write is answered with an error: the connection is closed.
WriteError ==
  /\ link # "down"
  /\ writes # << >>
  /\ Returns(Terminate([Running EXCEPT !.writes = Tail(@)]))
  /\ UNCHANGED <<captures, replies, confirmed, overlap>>

Next ==
  \/ Connect \/ Disconnect \/ Capture \/ Reply \/ WriteComplete \/ WriteError

Spec == Init /\ [][Next]_vars

\* Writes are answered: the ATT server responds to a write request, or the link goes down.
FairSpec == Spec /\ WF_vars(WriteComplete)

-----------------------------------------------------------------------------
(* Properties.                                                              *)

\* The pipeline stays within its buffers, and the batch in flight is never more than the
\* log holds.
TypeOK ==
  /\ link \in {"down", "up", "closing"}
  /\ tx.total \in 0 .. MaxFragments /\ tx.next \in 0 .. tx.total
  /\ tx.action \in {"none", "continue"}
  /\ Len(tx.queue) <= QueueCap
  /\ tx.sequence \in 1 .. SequenceMax + 1
  /\ inFlight \in BOOLEAN
  /\ drainCount \in 0 .. MaxBatch
  /\ drainCount <= Len(log)
  /\ captures \in 0 .. MaxCaptures /\ replies \in 0 .. MaxReplies

\* On the wire the fragments of a record are consecutive and in order, and the next record
\* starts behind the last fragment of the one before: the receiver, which reassembles one
\* record at a time, is never given two at once.
FragmentsInOrder ==
  /\ \A i \in 1 .. Len(writes) - 1 :
       LET w == writes[i]
           v == writes[i + 1]
       IN \/ w.frag = w.rec.frags /\ v.frag = 1
          \/ v.rec = w.rec /\ v.frag = w.frag + 1
  /\ link = "up" /\ writes # << >> =>
       LET w == writes[Len(writes)] IN w.rec = tx.current /\ w.frag = tx.next

\* A capture is marked drained, and so given up by the flash log, only when every fragment
\* of the record that carried it was confirmed.
DrainedIsConfirmed == drained \subseteq confirmed

\* The same as long as no record was started in the window of an unanswered last write: no
\* disconnect, write error, full queue or sequence limit gives up an unconfirmed capture.
DrainedIsConfirmedInTurn == ~ overlap => DrainedIsConfirmed

\* While the link is up a batch in flight is always followed up, as long as no record was
\* started in that window: its completion is armed, or its record is waiting in the queue.
InFlightIsFollowedUp ==
  link = "up" /\ inFlight /\ ~ overlap =>
    \/ tx.action = "continue"
    \/ \E i \in 1 .. Len(tx.queue) : tx.queue[i].act = "continue"

\* On a link that stays up every capture in the log is eventually delivered and drained,
\* as long as no record was started in that window.
StableLinkDrains ==
  <>[](link = "up" /\ ~ overlap) =>
    \A c \in 1 .. MaxCaptures : captures >= c ~> c \in drained

\* The queue holds what it is given and the wire gets it whole and in order
\* (queue_and_send_protected, write_complete).
PipelineInOrder == TypeOK /\ FragmentsInOrder

\* Outside that window a batch is neither given up before it is confirmed nor left without
\* the completion that goes on with the next (wardriving_send_next_batch, BLE_GAP_EVENT_CONNECT).
DrainInTurn == DrainedIsConfirmedInTurn /\ InFlightIsFollowedUp
=============================================================================
