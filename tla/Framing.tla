------------------------------ MODULE Framing ------------------------------
(***************************************************************************)
(* One direction of the fragmentation layer, components/feb_protocol/      *)
(* framing.c: a sender cuts records into fragments, a receiver reassembles *)
(* one record at a time and drops it on any rejection, and a periodic      *)
(* check drops a record that takes too long.  Between the two lies a link  *)
(* that keeps order but may break, with the rest of a record unsent, or    *)
(* (Lossy: the notifications of the Flipper, whose failures nobody checks) *)
(* lose single fragments.                                                  *)
(*                                                                         *)
(* The bytes of a record are abstracted to their number; a fragment says   *)
(* which record it was cut from, which the receiver cannot see.            *)
(***************************************************************************)
EXTENDS Integers, Sequences

CONSTANTS
  MaxRecord,      \* FEB_MAX_RECORD_SIZE
  MaxFragments,   \* FEB_MAX_FRAGMENTS
  IdMod,          \* 256: message_id is a uint8_t
  Timeout,        \* FEB_REASSEMBLY_TIMEOUT_MS
  TimeMod,        \* 2^32: the clock is a uint32_t
  Capacities,     \* fragment capacities of the MTUs that get negotiated
  WireCap,        \* bound: fragments on the link when a record is sent
  MaxRecords,     \* bound: records sent
  Lossy,          \* single fragments may be lost
  ReceiverResets  \* the receiver resets when the link breaks: the ESP32 does, the Flipper not

ASSUME FramingAssumption ==
  /\ MaxRecord \in Nat \ {0}
  /\ MaxFragments \in Nat \ {0}
  /\ IdMod \in Nat \ {0, 1}
  /\ Timeout \in Nat /\ TimeMod \in Nat /\ Timeout + 1 < TimeMod
  /\ Capacities \subseteq Nat \ {0}
  /\ WireCap \in Nat /\ MaxRecords \in Nat
  /\ Lossy \in BOOLEAN /\ ReceiverResets \in BOOLEAN

VARIABLES
  messageId,  \* tx_message_id, outgoing_message_id
  wire,       \* fragments sent and not yet received
  r,          \* feb_reassembly_t, with the pieces in its buffer
  now,        \* the clock of the receiver
  nextRec,    \* history: number of the next record
  delivered,  \* history: the pieces of each completed record
  spoiled,    \* history: records the link or the timeout spoiled
  age         \* history: ticks since the record in progress was started

vars == <<messageId, wire, r, now, nextRec, delivered, spoiled, age>>

Piece == [rec : 1 .. MaxRecords, len : Nat]
Fragment == [id : 0 .. IdMod - 1, index : Nat, count : Nat, piece : Piece]

\* feb_reassembly_reset.
Idle == [inProgress |-> FALSE, id |-> 0, count |-> 0, next |-> 0, capacity |-> 0,
         len |-> 0, startedAt |-> 0, pieces |-> << >>]

Init ==
  /\ messageId = 0
  /\ wire = << >>
  /\ r = Idle
  /\ now = 0
  /\ nextRec = 1
  /\ delivered = << >>
  /\ spoiled = {}
  /\ age = 0

-----------------------------------------------------------------------------
(* feb_fragment_record.                                                     *)

FragmentCount(len, cap) == (len + cap - 1) \div cap

FragmentsOf(rec, len, cap) ==
  LET count == FragmentCount(len, cap)
      chunk(i) == IF len - (i - 1) * cap > cap THEN cap ELSE len - (i - 1) * cap
  IN [i \in 1 .. count |->
        [id |-> messageId, index |-> i - 1, count |-> count,
         piece |-> [rec |-> rec, len |-> chunk(i)]]]

\* A record that needs too many fragments is not sent.
SendRecord ==
  /\ nextRec <= MaxRecords
  /\ Len(wire) <= WireCap
  /\ \E len \in 1 .. MaxRecord, cap \in Capacities :
       /\ FragmentCount(len, cap) <= MaxFragments
       /\ wire' = wire \o FragmentsOf(nextRec, len, cap)
  /\ messageId' = (messageId + 1) % IdMod
  /\ nextRec' = nextRec + 1
  /\ UNCHANGED <<r, now, delivered, spoiled, age>>

-----------------------------------------------------------------------------
(* feb_reassembly_feed.                                                     *)

\* Mutant: the message id of the fragment is not looked at.
StartsNewWhenIdle(s, f) == ~ s.inProgress

StartsNew(s, f) == ~ s.inProgress \/ f.id # s.id

\* Mutant: the largest total is bounded instead of the smallest.
MightNotFit(f) == f.count * f.piece.len > MaxRecord

\* The first fragment of a record that cannot fit, however short its last fragment is.
NeverFits(f) == f.piece.len > MaxRecord \/ (f.count - 1) * f.piece.len >= MaxRecord

Started(f) ==
  [inProgress |-> TRUE, id |-> f.id, count |-> f.count, next |-> 0,
   capacity |-> f.piece.len, len |-> 0, startedAt |-> now, pieces |-> << >>]

\* The reassembly the fragment belongs to.
Joined(s, f) == IF StartsNew(s, f) THEN Started(f) ELSE s

\* Mutant: a fragment that repeats an earlier index is taken.
AcceptsRepeats(s, f) ==
  /\ StartsNew(s, f) => f.index = 0 /\ ~ NeverFits(f)
  /\ LET j == Joined(s, f)
     IN /\ f.count = j.count
        /\ f.index <= j.next
        /\ f.piece.len <= j.capacity
        /\ j.len + f.piece.len <= MaxRecord

Accepts(s, f) ==
  /\ f.index < f.count
  /\ StartsNew(s, f) => f.index = 0 /\ ~ NeverFits(f)
  /\ LET j == Joined(s, f)
     IN /\ f.count = j.count
        /\ f.index = j.next
        /\ f.piece.len <= j.capacity
        /\ j.len + f.piece.len <= MaxRecord

\* The piece is copied behind the others.
Added(s, f) ==
  LET j == Joined(s, f)
  IN [inProgress |-> TRUE, id |-> j.id, count |-> j.count, next |-> j.next + 1,
      capacity |-> j.capacity, len |-> j.len + f.piece.len, startedAt |-> j.startedAt,
      pieces |-> Append(j.pieces, f.piece)]

\* A rejection drops the record in progress, a completed record is handed over.
Fed(s, f) ==
  IF ~ Accepts(s, f) \/ Added(s, f).next = Added(s, f).count THEN Idle ELSE Added(s, f)

Receive ==
  /\ wire # << >>
  /\ LET f == Head(wire)
     IN /\ r' = Fed(r, f)
        /\ delivered' = IF Accepts(r, f) /\ Added(r, f).next = f.count
                        THEN Append(delivered, Added(r, f).pieces)
                        ELSE delivered
        /\ age' = IF StartsNew(r, f) THEN 0 ELSE age
  /\ wire' = Tail(wire)
  /\ UNCHANGED <<messageId, now, nextRec, spoiled>>

-----------------------------------------------------------------------------
(* feb_reassembly_check_timeout.                                            *)

\* Mutant: the clock is compared without regard to its wrap.
ExpiredUnwrapped == r.inProgress /\ now > r.startedAt + Timeout

Expired == r.inProgress /\ (now - r.startedAt) % TimeMod > Timeout

CheckTimeout ==
  /\ Expired
  /\ r' = Idle
  /\ spoiled' = spoiled \cup {r.pieces[1].rec}
  /\ UNCHANGED <<messageId, wire, now, nextRec, delivered, age>>

\* The check runs more often than the clock wraps.
Tick ==
  /\ r.inProgress /\ age < TimeMod - 1
  /\ now' = (now + 1) % TimeMod
  /\ age' = age + 1
  /\ UNCHANGED <<messageId, wire, r, nextRec, delivered, spoiled>>

-----------------------------------------------------------------------------
(* The link.                                                                *)

InProgressRecs == {r.pieces[i].rec : i \in DOMAIN r.pieces}
WireRecs == {wire[i].piece.rec : i \in DOMAIN wire}

Lose ==
  /\ Lossy
  /\ wire # << >>
  /\ spoiled' = spoiled \cup {Head(wire).piece.rec}
  /\ wire' = Tail(wire)
  /\ UNCHANGED <<messageId, r, now, nextRec, delivered, age>>

\* The link breaks and is set up again.  A receiver that does not reset may take the first
\* new record for a part of the one it has in progress, when its id is the same.
LinkBreaks ==
  /\ wire' = << >>
  /\ r' = IF ReceiverResets THEN Idle ELSE r
  /\ spoiled' = spoiled \cup WireRecs \cup InProgressRecs
                  \cup (IF r'.inProgress /\ r'.id = messageId' THEN {nextRec} ELSE {})
  /\ UNCHANGED <<now, nextRec, delivered, age>>

\* The message ids go on over a reconnection.
Reconnect ==
  /\ wire # << >> \/ r.inProgress
  /\ messageId' = messageId
  /\ LinkBreaks

\* The sender restarts: its message ids start again.
Restart ==
  /\ ~ Lossy
  /\ messageId # 0
  /\ messageId' = 0
  /\ LinkBreaks

Next ==
  \/ SendRecord \/ Receive \/ CheckTimeout \/ Tick \/ Lose \/ Reconnect \/ Restart

Spec == Init /\ [][Next]_vars

-----------------------------------------------------------------------------
(* Properties.                                                              *)

Reassembly ==
  [inProgress : BOOLEAN, id : 0 .. IdMod - 1, count : Nat, next : Nat, capacity : Nat,
   len : 0 .. MaxRecord, startedAt : 0 .. TimeMod - 1, pieces : Seq(Piece)]

\* The reassembly never outgrows its buffer, and holds as many pieces as it counted, fewer
\* than the record has.
ReassemblyOK(s) ==
  /\ s \in Reassembly
  /\ Len(s.pieces) = s.next
  /\ s.inProgress <=> s.next > 0
  /\ s.inProgress => s.next < s.count

\* Every field keeps its range; the buffer of the reassembly is never overrun.
TypeOK ==
  /\ messageId \in 0 .. IdMod - 1
  /\ wire \in Seq(Fragment)
  /\ ReassemblyOK(r)
  /\ now \in 0 .. TimeMod - 1
  /\ nextRec \in 1 .. MaxRecords + 1
  /\ delivered \in Seq(Seq(Piece))
  /\ spoiled \subseteq 1 .. MaxRecords + 1
  /\ age \in 0 .. TimeMod - 1

\* A completed record is one record of the sender: pieces of two records never end up in
\* one, whatever was lost, dropped or restarted in between and although ids repeat.
NeverMixed ==
  \A d \in DOMAIN delivered : \A i \in DOMAIN delivered[d] :
    delivered[d][i].rec = delivered[d][1].rec

\* A rejection never costs more than the record at hand: a record nothing happened to is
\* handed over, whatever happened to the ones before it.
IntactDelivered ==
  wire = << >> =>
    \A n \in 1 .. nextRec - 1 :
      n \in spoiled \/ \E d \in DOMAIN delivered : delivered[d][1].rec = n

\* The timeout measures the true age of the record in progress, also across the wrap of the
\* clock.
TimeoutIsTrue == r.inProgress => (Expired <=> age > Timeout)

\* The reassembly holds no more than its buffer has room for, and gives a record up at the
\* age the timeout says (feb_reassembly_feed, feb_reassembly_check_timeout).
ReassemblyHolds == TypeOK /\ TimeoutIsTrue
=============================================================================
