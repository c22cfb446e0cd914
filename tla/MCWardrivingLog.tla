-------------------------- MODULE MCWardrivingLog --------------------------
(***************************************************************************)
(* WardrivingLog and its walks for TLC: the refinement of StoreAndForward, *)
(* the fairness under which the backlog drains, and the liveness it gives. *)
(***************************************************************************)
EXTENDS WardrivingScan

\* The stored captures in the order they were taken: the i-th is the one that i captures, itself
\* among them, are not younger than.
StoredInOrder ==
  [i \in 1 .. Cardinality(Stored) |->
     CHOOSE k \in Stored : Cardinality({m \in Stored : m <= k}) = i]

Promise == INSTANCE StoreAndForward WITH
  Capture <- 1 .. MaxAppends, queue <- StoredInOrder

\* The flash log is a first-in first-out store: batches are the oldest captures in order,
\* draining removes exactly what was handed out, evictions take the oldest, and a power loss
\* inside any flash operation takes effect in part but in no other way.
IsStoreAndForward == Promise!Spec

\* The board comes back after a power loss, and is up and connected often enough for a batch
\* to be taken and, delivered, to be marked drained.
FairSpec ==
  /\ Spec
  /\ WF_vars(BootFresh \/ BootResume)
  /\ SF_vars(peeked = << >> /\ PeekPending)
  /\ SF_vars(MarkDrained)

\* Every stored capture is eventually delivered and marked drained, or evicted: the position
\* the log reads from never gets stuck or jumps over a capture for good.
EveryCaptureLeaves ==
  \A c \in 1 .. MaxAppends : c \in acked ~> c \in drained \cup evicted

=============================================================================
