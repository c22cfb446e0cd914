-------------------------- MODULE StoreAndForward --------------------------
(***************************************************************************)
(* What esp32/main/wardriving_log.h promises its callers: a first-in       *)
(* first-out store of captures that survives power losses.  peek hands out *)
(* the oldest captures, mark_drained removes those that were delivered,    *)
(* and a full store makes room by giving up its oldest captures.           *)
(***************************************************************************)
EXTENDS Integers, Sequences

CONSTANTS Capture, MaxBatch

VARIABLES queue, batch, drained, evicted

vars == <<queue, batch, drained, evicted>>

ElementsOf(q) == {q[i] : i \in 1 .. Len(q)}
First(q, n) == SubSeq(q, 1, n)
Without(q, n) == SubSeq(q, n + 1, Len(q))

Init ==
  /\ queue = << >>
  /\ batch = << >>
  /\ drained = {}
  /\ evicted = {}

\* What storing a new capture leaves of the queue when its first n captures had to go.
Stored(n, c) == Append(Without(queue, n), c)

\* A capture is stored behind all others; the n oldest may be given up for it, unless a
\* batch was handed out.
Store ==
  \E n \in 0 .. Len(queue), c \in Capture :
    /\ n > 0 => batch = << >>
    /\ \A i \in 1 .. Len(queue) : queue[i] < c
    /\ queue' = Stored(n, c)
    /\ evicted' = evicted \cup ElementsOf(First(queue, n))
    /\ UNCHANGED <<batch, drained>>

\* The oldest captures, as many as a batch holds.
Peek ==
  /\ batch' = First(queue, IF Len(queue) < MaxBatch THEN Len(queue) ELSE MaxBatch)
  /\ UNCHANGED <<queue, drained, evicted>>

\* The first n captures handed out are removed.
Drain ==
  \E n \in 1 .. Len(batch) :
    /\ First(queue, n) = First(batch, n)
    /\ queue' = Without(queue, n)
    /\ drained' = drained \cup ElementsOf(First(batch, n))
    /\ batch' = << >>
    /\ UNCHANGED evicted

\* Power is lost: the batch is forgotten, and the operation under way took effect in part.
\* Of the n captures being given up some may survive, but only captures given up are lost.
PowerLoss ==
  /\ batch' = << >>
  /\ \/ UNCHANGED <<queue, drained, evicted>>
     \/ \E n \in 0 .. Len(queue), c \in Capture :
          /\ n > 0 => batch = << >>
          /\ \A i \in 1 .. Len(queue) : queue[i] < c
          /\ evicted' = evicted \cup ElementsOf(First(queue, n))
          /\ \/ queue' \in {Without(queue, n), Stored(n, c)}
             \/ \E k \in 0 .. n : queue' = First(queue, k) \o Without(queue, n)
          /\ UNCHANGED drained
     \/ \E n \in 1 .. Len(batch) :
          /\ First(queue, n) = First(batch, n)
          /\ queue' = Without(queue, n)
          /\ drained' = drained \cup ElementsOf(First(batch, n))
          /\ UNCHANGED evicted

Next == Store \/ Peek \/ Drain \/ PowerLoss

Spec == Init /\ [][Next]_vars

=============================================================================
